--------------------------- MODULE DeviceMembership ---------------------------
(***************************************************************************)
(* What the registry of networks promises. A device belongs to one network *)
(* at most, that of a live session, and to none in which the session's     *)
(* sink is not. It joins a network from outside of all. It is dropped only *)
(* when it is offline or when the session of its network ends.             *)
(***************************************************************************)
CONSTANTS
    Device,
    SinkOf,         \* SinkOf[x]: the sink that speaks over session x
    Nowhere

VARIABLES
    where,          \* the session in whose network each device is, or Nowhere
    live,           \* the sessions that are open
    offline         \* the devices in a network that are taken to be offline

vars == <<where, live, offline>>

Members(x) == {d \in Device : where[d] = x}

Drop(S) == [d \in Device |-> IF d \in S THEN Nowhere ELSE where[d]]

Init ==
    /\ where = [d \in Device |-> Nowhere]
    /\ live = {}
    /\ offline = {}

Connect(x) ==
    /\ x \notin live
    /\ live' = live \cup {x}
    /\ UNCHANGED <<where, offline>>

Disconnect(x) ==
    /\ x \in live
    /\ live' = live \ {x}
    /\ where' = Drop(Members(x))
    /\ offline' = offline \ Members(x)

Join(d, x) ==
    /\ x \in live
    /\ where[d] = Nowhere
    /\ d = SinkOf[x] \/ where[SinkOf[x]] = x
    /\ \E gone \in SUBSET ((Members(x) \cap offline) \ {SinkOf[x]}) :
         /\ where' = [Drop(gone) EXCEPT ![d] = x]
         /\ offline' = offline \ gone
    /\ UNCHANGED live

Notice ==
    /\ offline' \subseteq {d \in Device : where[d] # Nowhere}
    /\ UNCHANGED <<where, live>>

Next ==
    \/ Notice
    \/ \E x \in DOMAIN SinkOf : Connect(x) \/ Disconnect(x) \/ \E d \in Device : Join(d, x)

Spec == Init /\ [][Next]_vars
==============================================================================
