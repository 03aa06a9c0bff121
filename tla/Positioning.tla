----------------------------- MODULE Positioning -----------------------------
(***************************************************************************)
(* The web application and the calculator around one database: floors are  *)
(* published, anchors edited and floors deleted while the calculator turns *)
(* measures into coordinates, saves and sends them.                        *)
(*                                                                         *)
(* budget bounds how often each request still comes. Budgets holds several *)
(* initial values, so that one run checks several small instances.         *)
(***************************************************************************)
EXTENDS Frontends

CONSTANTS
    InDatabase,     \* the tags the database knows
    Budgets         \* bound: how often each request comes

Request == {"saveDraft", "publish", "undo", "edit", "delete", "measure", "failure",
            "connect", "command"}

ASSUME PositioningAssumption ==
    /\ InDatabase \subseteq Tag
    /\ Budgets \subseteq [Request -> Nat]

VARIABLE budget

vars == <<confVars, cacheVars, batchVars, frontVars, budget>>

TypeOK ==
    /\ ConfTypeOK
    /\ CacheTypeOK
    /\ BatchTypeOK(Coordinate)
    /\ FrontTypeOK
    /\ budget \in [Request -> Nat]

Init == ConfInit /\ CacheInit /\ BatchInit /\ FrontInit /\ budget \in Budgets

Spend(r) == budget[r] > 0 /\ budget' = [budget EXCEPT ![r] = @ - 1]
------------------------------------------------------------------------------
BeginCall(k) ==
    /\ \E op \in Operation, f \in Floor, N \in SUBSET Anchor :
         /\ op # "saveDraft" => N = {}
         /\ Spend(op) /\ Begin(k, op, f, N)
    /\ UNCHANGED <<cacheVars, batchVars, frontVars>>

CommitCall(k) ==
    /\ CommitSaveDraft(k) \/ CommitPublish(k) \/ CommitUndo(k) \/ Rollback(k)
    /\ UNCHANGED <<cacheVars, batchVars, frontVars, budget>>

EvictCalculator(k) ==
    /\ \/ Evict(k) /\ UNCHANGED budget
       \/ EvictRefused(k) /\ Spend("failure")
    /\ UNCHANGED <<batchVars, frontVars>>

EditAnchor ==
    /\ \E a \in Anchor, p \in Place : UpdateAnchorUnseen(a, p)
    /\ Spend("edit")
    /\ UNCHANGED <<batchVars, frontVars>>

(* The foreign key of saved coordinates forbids it.                          *)
RemoveFloor ==
    /\ \E f \in Floor : DeleteFloorUnseen(f) /\ \A c \in saved : c.floor # f
    /\ Spend("delete")
    /\ UNCHANGED <<batchVars, frontVars>>

ReceiveMeasure(t) ==
    /\ \E g \in Tag, S \in Connected : \E a \in S : HandleMeasure(t, g, S, a)
    /\ Spend("measure")
    /\ UNCHANGED <<confVars, batchVars, frontVars>>

FindPosition(t) ==
    /\ LookUp(t) \/ PutInCache(t)
    /\ UNCHANGED <<confVars, batchVars, frontVars, budget>>

(* add: only coordinates of a tag in the database are saved.                 *)
AddCoordinate(t) ==
    /\ t \in AtWork
    /\ LET h == handling[t]
       IN  \/ /\ h.step = "save"
              /\ handling' = [handling EXCEPT ![t].step = "send"]
              /\ IF h.coordinate.tag \in InDatabase THEN AddToSave(h.coordinate)
                 ELSE UNCHANGED batchVars
           \/ /\ h.step = "send"
              /\ handling' = [handling EXCEPT ![t] = Free]
              /\ PutToSend(h.coordinate)
    /\ UNCHANGED <<confVars, cache, suspect, calculated, frontVars, budget>>

(* The task collects, and the database answers; a batch it cannot accept     *)
(* fails whatever the budget is.                                             *)
SaveCoordinates ==
    /\ \/ (Collect \/ Insert(floors) \/ ClearToSave) /\ UNCHANGED budget
       \/ ~Accepted(floors) /\ InsertFails(floors) /\ UNCHANGED budget
       \/ Accepted(floors) /\ InsertFails(floors) /\ Spend("failure")
       \/ InsertUnanswered(floors) /\ Spend("failure")
    /\ UNCHANGED <<confVars, cacheVars, frontVars>>

SendCoordinates ==
    /\ \/ round = NoRound /\ Copy /\ UNCHANGED frontVars
       \/ ClearToSend /\ BeginRound(sending.batch)
       \/ /\ \E x \in Frontend : Reach(x) \/ Deliver(x) \/ NotSent(x) \/ CutShort(x)
          /\ UNCHANGED batchVars
    /\ UNCHANGED <<confVars, cacheVars, budget>>

(* A lost connection and its end need no request.                            *)
Talk(x) ==
    /\ \/ Connect(x) /\ Spend("connect")
       \/ (Lose(x) \/ Disconnect(x)) /\ UNCHANGED budget
       \/ \E f \in Floor : SetFloor(x, f) /\ Spend("command")
       \/ \E g \in Tag : ToggleTag(x, g) /\ Spend("command")
       \/ \E T \in (SUBSET Tag) \ {{}} : SetTags(x, T) /\ Spend("command")
    /\ UNCHANGED <<confVars, cacheVars, batchVars>>

Next ==
    \/ \E k \in Call : BeginCall(k) \/ CommitCall(k) \/ EvictCalculator(k)
    \/ EditAnchor
    \/ RemoveFloor
    \/ \E t \in Thread : ReceiveMeasure(t) \/ FindPosition(t) \/ AddCoordinate(t)
    \/ SaveCoordinates
    \/ SendCoordinates
    \/ \E x \in Frontend : Talk(x)

Spec == Init /\ [][Next]_vars

(* The scheduled save task is run again and again.                           *)
FairSpec == Spec /\ WF_vars(SaveCoordinates)
------------------------------------------------------------------------------
(* A queued coordinate of a floor that was deleted: the foreign key refuses  *)
(* every batch with it.                                                      *)
Poisoned == \E c \in coordinatesToSave : c.floor \notin floors

(* The queue is emptied again and again, whatever inserts fail in between,   *)
(* unless a coordinate of a deleted floor is in it.                          *)
Drained == []<>(coordinatesToSave = {} \/ Poisoned)
==============================================================================
