----------------------------- MODULE AreaPresence -----------------------------
(***************************************************************************)
(* What the area events promise to the frontends. A tag enters a region    *)
(* before it leaves it and does not enter one it is in; every entering and *)
(* every leaving is told by one event of that mode. There are two          *)
(* exceptions: a presence may be forgotten without an event, and as long   *)
(* as checks of one tag overlap nothing is promised of that tag.           *)
(***************************************************************************)
CONSTANTS Tag, Region

VARIABLES
    present,        \* pairs of a tag and a region it has been told to be in
    event,          \* what the last step told, <<mode, tag, region>>
    overlapped      \* the tags of which checks overlap

vars == <<present, event, overlapped>>

Init == present = {} /\ event = <<>> /\ overlapped = {}

Enter(t, a) ==
    /\ <<t, a>> \notin present
    /\ present' = present \cup {<<t, a>>}
    /\ event' = <<"ON_ENTER", t, a>>
    /\ UNCHANGED overlapped

Leave(t, a) ==
    /\ <<t, a>> \in present
    /\ present' = present \ {<<t, a>>}
    /\ event' = <<"ON_LEAVE", t, a>>
    /\ UNCHANGED overlapped

Forget == present' \in SUBSET present /\ event' = <<>> /\ UNCHANGED overlapped

Overlap == overlapped' \in SUBSET Tag /\ event' = <<>> /\ UNCHANGED present

Confuse(t) ==
    /\ t \in overlapped
    /\ \A x \in (present \cup present') \ (present \cap present') : x[1] = t
    /\ event' # <<>> => event'[2] = t
    /\ UNCHANGED overlapped

Next ==
    \/ Forget
    \/ Overlap
    \/ \E t \in Tag : Confuse(t) \/ \E a \in Region : Enter(t, a) \/ Leave(t, a)

Spec == Init /\ [][Next]_vars
==============================================================================
