---------------------------- MODULE UpgradeOrders ----------------------------
(***************************************************************************)
(* What the firmware update of a network promises about the devices it was *)
(* asked to upgrade, without saying how files travel or devices restart.   *)
(* An order is one device named by one update request.  It waits, and then *)
(* either its Start command is sent, once, or it is dropped.               *)
(***************************************************************************)
CONSTANT Order      \* every order a request can place

VARIABLES
    placed,         \* the orders placed so far
    waiting,        \* the orders whose Start command may still be sent
    started         \* the orders whose Start command has been sent

vars == <<placed, waiting, started>>

Init ==
    /\ placed = {}
    /\ waiting = {}
    /\ started = {}

(* A request names devices it has not named before: its orders are new. *)
Place ==
    \E new \in SUBSET (Order \ placed) :
        /\ placed' = placed \cup new
        /\ waiting' = waiting \cup new
        /\ UNCHANGED started

Start ==
    \E o \in waiting :
        /\ waiting' = waiting \ {o}
        /\ started' = started \cup {o}
        /\ UNCHANGED placed

(* The network forgets every order it has not started. *)
Drop ==
    /\ waiting' = {}
    /\ UNCHANGED <<placed, started>>

Next == Place \/ Start \/ Drop

Spec == Init /\ [][Next]_vars
==============================================================================
