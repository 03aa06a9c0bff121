------------------------- MODULE FloorConfigurations -------------------------
(***************************************************************************)
(* ConfigurationBean: the versions of the configuration of each floor, and *)
(* the floor publishing gives to the devices a configuration names.        *)
(*                                                                         *)
(* A call is a transaction under REPEATABLE READ. It sees the database as  *)
(* it was when it began, and what it writes takes effect when it commits;  *)
(* rows are written whole, there is no version column, and a row that is   *)
(* gone by then, or a floor that is, rolls the call back.                  *)
(*                                                                         *)
(* Sinks are anchors here. row stands for the floor of an anchor and its   *)
(* position on it; scale, areas and publications are left out.             *)
(***************************************************************************)
EXTENDS Naturals, FiniteSets

CONSTANTS
    Floor, Anchor,
    Call,           \* bound: the calls in progress at a time
    NoFloor,
    First           \* First[f]: the anchors published on f at the start

ASSUME ConfigurationsAssumption ==
    /\ IsFiniteSet(Floor)
    /\ First \in [Floor -> SUBSET Anchor]
    /\ \A f, g \in Floor : f # g => First[f] \cap First[g] = {}
    /\ NoFloor \notin Floor

VARIABLES
    floors,         \* the floors there are
    configurations, \* the rows of Configuration
    inserted,       \* inserted[f]: rows inserted for f so far, removed ones too
    row,            \* row[a]: the floor of anchor a
    call,           \* call[k]: what call k is doing
    overlapped,     \* history: floors with two calls at a time
    mingled,        \* history: floors published while anchors were moved
    undone,         \* history: floors that had a published version undone
    touched         \* touched[f]: history, anchors moved since f was published
                    \* by other means

confVars == <<floors, configurations, inserted, row, call,
              overlapped, mingled, undone, touched>>

Place == Floor \cup {NoFloor}
Configuration == [id : Nat, floor : Floor, version : Nat,
                  names : SUBSET Anchor, published : BOOLEAN]
Idle == [op |-> "none"]
Operation == {"saveDraft", "publish", "undo"}
Transaction == [op : Operation, floor : Floor, names : SUBSET Anchor,
                seen : SUBSET Configuration, row : [Anchor -> Place], evicted : BOOLEAN]

ConfTypeOK ==
    /\ floors \subseteq Floor
    /\ configurations \subseteq Configuration
    /\ \A c \in configurations : c.floor \in floors
    /\ inserted \in [Floor -> Nat]
    /\ row \in [Anchor -> floors \cup {NoFloor}]
    /\ call \in [Call -> {Idle} \cup Transaction]
    /\ overlapped \cup mingled \cup undone \subseteq Floor
    /\ touched \in [Floor -> SUBSET Anchor]

ConfInit ==
    /\ floors = Floor
    /\ configurations =
         {[id |-> 1, floor |-> f, version |-> 0, names |-> First[f], published |-> TRUE] :
            f \in {g \in Floor : First[g] # {}}}
    /\ inserted = [f \in Floor |-> IF First[f] = {} THEN 0 ELSE 1]
    /\ row \in [Anchor -> Place]
    /\ \A a \in Anchor, f \in Floor : row[a] = f <=> a \in First[f]
    /\ call = [k \in Call |-> Idle]
    /\ overlapped = {} /\ mingled = {} /\ undone = {}
    /\ touched = [f \in Floor |-> {}]
------------------------------------------------------------------------------
Of(f) == {c \in configurations : c.floor = f}

(* findTop1ByFloorOrderByVersionDesc, among the configurations C.            *)
Latest(C) == CHOOSE c \in C : \A d \in C : d.version <= c.version

Busy == {k \in Call : call[k] # Idle}
Publishing == {k \in Busy : call[k].op = "publish"}
FloorsOf(K) == {call[k].floor : k \in K}

Begin(k, op, f, N) ==
    /\ call[k] = Idle /\ f \in floors
    /\ op = "saveDraft" \/ Of(f) # {}
    /\ call' = [call EXCEPT ![k] = [op |-> op, floor |-> f, names |-> N,
                  seen |-> Of(f), row |-> row, evicted |-> FALSE]]
    /\ overlapped' = IF f \in FloorsOf(Busy) THEN overlapped \cup {f} ELSE overlapped
    /\ mingled' = IF op = "publish" /\ Publishing # {}
                  THEN mingled \cup FloorsOf(Publishing) \cup {f} ELSE mingled
    /\ UNCHANGED <<floors, configurations, inserted, row, undone, touched>>

(* Numbering every saved draft, published or not.                            *)
AppendsAlways(C) == TRUE
Appends(C) == C = {} \/ Latest(C).published

NextVersion(C) == IF C = {} THEN 0 ELSE Latest(C).version + 1

(* Whether the row a call writes is still there.                             *)
Written(k) == Latest(call[k].seen)
Present(k) == \E c \in Of(call[k].floor) : c.id = Written(k).id
Others(k) == {c \in configurations : c.floor # call[k].floor \/ c.id # Written(k).id}

CommitSaveDraft(k) ==
    /\ call[k] # Idle /\ call[k].op = "saveDraft"
    /\ LET f == call[k].floor
           C == call[k].seen
       IN  IF Appends(C)
           THEN /\ f \in floors
                /\ configurations' = configurations \cup
                     {[id |-> inserted[f] + 1, floor |-> f, version |-> NextVersion(C),
                       names |-> call[k].names, published |-> FALSE]}
                /\ inserted' = [inserted EXCEPT ![f] = @ + 1]
           ELSE /\ Present(k)
                /\ configurations' = Others(k) \cup
                     {[Written(k) EXCEPT !.names = call[k].names]}
                /\ UNCHANGED inserted
    /\ call' = [call EXCEPT ![k] = Idle]
    /\ UNCHANGED <<floors, row, overlapped, mingled, undone, touched>>

(* Placing what a configuration names and resetting nothing.                 *)
PlacedOnly(f, seen, N) == [a \in Anchor |-> IF a \in N THEN f ELSE row[a]]

(* resetAnchors and extractSinks.                                            *)
Placed(f, seen, N) ==
    [a \in Anchor |-> IF a \in N THEN f
                      ELSE IF seen[a] = f THEN NoFloor ELSE row[a]]

CommitPublish(k) ==
    /\ call[k] # Idle /\ call[k].op = "publish" /\ call[k].evicted
    /\ Present(k)
    /\ LET f == call[k].floor
           N == Written(k).names
       IN  /\ row' = Placed(f, call[k].row, N)
           /\ touched' = [g \in Floor |-> IF g = f THEN {} ELSE touched[g] \cup N]
           /\ undone' = undone \ {f}
    /\ configurations' = Others(k) \cup {[Written(k) EXCEPT !.published = TRUE]}
    /\ call' = [call EXCEPT ![k] = Idle]
    /\ UNCHANGED <<floors, inserted, overlapped, mingled>>

(* undo empties the only version and removes the latest of several; the      *)
(* devices stay where they are.                                              *)
CommitUndo(k) ==
    /\ call[k] # Idle /\ call[k].op = "undo"
    /\ Present(k)
    /\ configurations' = IF Cardinality(call[k].seen) > 1 THEN Others(k)
         ELSE Others(k) \cup {[Written(k) EXCEPT !.names = {}, !.published = FALSE]}
    /\ undone' = IF Written(k).published THEN undone \cup {call[k].floor} ELSE undone
    /\ call' = [call EXCEPT ![k] = Idle]
    /\ UNCHANGED <<floors, inserted, row, overlapped, mingled, touched>>

(* The calculator cannot be reached, or a configuration names a device that  *)
(* is not in the database; or what the call writes is gone.                  *)
Rollback(k) ==
    /\ call[k] # Idle
    /\ \/ call[k].op = "publish"
       \/ call[k].floor \notin floors
       \/ ~(call[k].op = "saveDraft" /\ Appends(call[k].seen)) /\ ~Present(k)
    /\ call' = [call EXCEPT ![k] = Idle]
    /\ UNCHANGED <<floors, configurations, inserted, row,
                   overlapped, mingled, undone, touched>>
------------------------------------------------------------------------------
(* AnchorBean.update gives an anchor a floor, or none; SinkBean.update too.  *)
UpdateAnchor(a, p) ==
    /\ p \in floors \cup {NoFloor} /\ p # row[a]
    /\ row' = [row EXCEPT ![a] = p]
    /\ touched' = [f \in Floor |-> touched[f] \cup {a}]
    /\ mingled' = IF Publishing = {} THEN mingled
                  ELSE mingled \cup FloorsOf(Publishing) \cup ({p} \cap Floor)
    /\ UNCHANGED <<floors, configurations, inserted, call, overlapped, undone>>

(* Anchors that keep pointing to their floor.                                *)
NotReleased(f) == row

(* The foreign key of Anchor sets the floor to null.                         *)
Released(f) == [a \in Anchor |-> IF row[a] = f THEN NoFloor ELSE row[a]]

(* FloorBean.delete; saved coordinates of the floor would forbid it.         *)
DeleteFloor(f) ==
    /\ f \in floors
    /\ floors' = floors \ {f}
    /\ configurations' = {c \in configurations : c.floor # f}
    /\ row' = Released(f)
    /\ UNCHANGED <<inserted, call, overlapped, mingled, undone, touched>>
------------------------------------------------------------------------------
(* Drafts are kept in one row until they are published: the versions of a    *)
(* floor differ and all but the latest are published, however saves,         *)
(* publications and undos follow each other, when none overlap.              *)
OneDraft ==
    \A f \in Floor \ overlapped : \A c, d \in Of(f) :
        c # d => c.version # d.version /\ (c.version < d.version => c.published)

LivePublished(f) ==
    LET P == {c \in Of(f) : c.published} IN IF P = {} THEN {} ELSE Latest(P).names

(* A floor carries exactly the anchors its latest published version names,   *)
(* but for those other floors or edits have moved since; unless two          *)
(* publications overlapped, or a published version was undone, for undo      *)
(* leaves the devices where they are.                                        *)
PlacedAsPublished ==
    \A f \in floors \ (overlapped \cup mingled \cup undone) :
        \A a \in Anchor \ touched[f] : row[a] = f <=> a \in LivePublished(f)
==============================================================================
