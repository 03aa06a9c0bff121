----------------------------- MODULE MCAreaEvents -----------------------------
EXTENDS AreaEvents, SequencesExt

CONSTANTS t1, t2, hall, store, nowhere, inStore, inBoth, c1, c2

MCTag == {t1, t2}
MCArea == {hall, store}
MCThread == {c1, c2}
MCPlace == {nowhere, inStore, inBoth}

MCDistance ==
    [p \in MCPlace |->
        [a \in MCArea |-> IF p = inBoth \/ (p = inStore /\ a = store)
                          THEN 0 ELSE 2]]

Both(t) == <<[mode |-> "ON_ENTER", offset |-> 1, tags |-> t],
             [mode |-> "ON_LEAVE", offset |-> 1, tags |-> t]>>

(* The hall tells t1 coming and going and may be edited, so does the store,  *)
(* which tells t2 only coming.                                               *)
EnterFirstConfigurations ==
    (hall :> Both({t1})) @@
    (store :> (Both({t1}) \o
               <<[mode |-> "ON_ENTER", offset |-> 1, tags |-> {t2}]>>))

HallEdited == (hall :> 1) @@ (store :> 0)
NoneEdited == [a \in MCArea |-> 0]

(* The same configurations of two areas, listed the other way round. *)
LeaveFirstConfigurations == [a \in MCArea |-> Reverse(Both(MCTag))]

==============================================================================
