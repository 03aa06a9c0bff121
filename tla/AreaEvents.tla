------------------------------ MODULE AreaEvents ------------------------------
(***************************************************************************)
(* AreaEventController: the coordinates of tags, checked against the areas *)
(* of the floor on executor threads (DatabaseExecutor.afterCalculationDone *)
(* is @Asynchronous, the controller has no lock), and the timer that       *)
(* removes the history of tags no longer seen.                             *)
(*                                                                         *)
(* One step of a check handles one AreaConfiguration: checks of the same   *)
(* or of other tags, the timer and edits of areas run in between. Area has *)
(* a generated equals over all its fields, so a cell of the history        *)
(* belongs to the area as it was when loaded: Version counts its edits.    *)
(* Time is what the minute of updateData tells apart: a cell is outdated   *)
(* or not. The polygon, the offset and the height range come down to a     *)
(* distance; a tag out of the height range is farther than every offset.   *)
(***************************************************************************)
EXTENDS Naturals, Sequences

CONSTANTS
    Tag,
    NoTag,
    Area,
    Place,              \* where a tag can be
    Distance,           \* Distance[p][a]: of the place p from the area a
    Configurations,     \* Configurations[a]: the AreaConfigurations of the area
    Thread,             \* the threads of the executor
    MaxEdits            \* bound: how often each area is edited

Mode == {"ON_ENTER", "ON_LEAVE"}
AreaConfiguration == [mode : Mode, offset : Nat, tags : SUBSET Tag]

ASSUME AreaAssumption ==
    /\ NoTag \notin Tag
    /\ Place # {}
    /\ Distance \in [Place -> [Area -> Nat]]
    /\ Configurations \in [Area -> Seq(AreaConfiguration)]
    /\ MaxEdits \in [Area -> Nat]

VARIABLES
    history,        \* tagCoordinatesHistory: pairs of a tag and a version of an area
    outdated,       \* the cells of it that are older than a minute
    edits,          \* how often each area has been edited
    checks,         \* what each thread checks
    sweep,          \* where the timer task updateData is
    event           \* the AreaEvent the last step created, if it did

vars == <<history, outdated, edits, checks, sweep, event>>

(* Which configurations of an area a coordinate of a tag is checked against, *)
(* by their positions in the list, and the areas that have any.              *)
FilteredConfigurations(t, a) ==
    {i \in DOMAIN Configurations[a] : t \in Configurations[a][i].tags}

FilteredAreas(t) == {a \in Area : FilteredConfigurations(t, a) # {}}

Version == UNION {{a} \X (0..MaxEdits[a]) : a \in Area}
Cell == Tag \X Version

NoCheck == [tag |-> NoTag, place |-> CHOOSE p \in Place : TRUE,
            loaded |-> [a \in Area |-> 0], left |-> [a \in Area |-> {}],
            alone |-> FALSE]

TypeOK ==
    /\ history \in SUBSET Cell
    /\ outdated \in SUBSET history
    /\ edits \in [Area -> Nat] /\ \A a \in Area : edits[a] <= MaxEdits[a]
    /\ checks \in [Thread -> [tag : Tag \cup {NoTag}, place : Place,
                              loaded : [Area -> Nat], left : [Area -> SUBSET Nat],
                              alone : BOOLEAN]]
    /\ \A c \in Thread, a \in Area :
         /\ checks[c].loaded[a] <= edits[a]
         /\ checks[c].left[a] \subseteq FilteredConfigurations(checks[c].tag, a)
    /\ sweep \in {"idle", "running", "dead"}
    /\ event = <<>> \/ event \in Mode \X Tag \X Version

Init ==
    /\ history = {}
    /\ outdated = {}
    /\ edits = [a \in Area |-> 0]
    /\ checks = [c \in Thread |-> NoCheck]
    /\ sweep = "idle"
    /\ event = <<>>
------------------------------------------------------------------------------
IsWithin(p, a, offset) == Distance[p][a] <= offset

(* afterCalculationDone: a coordinate goes to a thread, in no set order, and *)
(* getFilteredAreas loads the areas with what concerns the tag.              *)
AfterCalculationDone(c, t, p) ==
    /\ checks[c] = NoCheck
    /\ FilteredAreas(t) # {}
    /\ LET others == {d \in Thread : checks[d].tag = t}
       IN  checks' = [d \in Thread |->
                        IF d = c
                        THEN [tag |-> t, place |-> p, loaded |-> edits,
                              left |-> [a \in Area |-> FilteredConfigurations(t, a)],
                              alone |-> others = {}]
                        ELSE IF d \in others
                        THEN [checks[d] EXCEPT !.alone = FALSE] ELSE checks[d]]
    /\ event' = <<>>
    /\ UNCHANGED <<history, outdated, edits, sweep>>
------------------------------------------------------------------------------
(* One configuration of a check.                                             *)

HasCell(t, a) == <<t, a>> \in history
HasRow(t) == \E cell \in history : cell[1] = t

(* The iterator of updateData is fail-fast: a check that adds or removes a   *)
(* cell may make it throw, and scheduleAtFixedRate then drops the task.      *)
Disturb == sweep' \in (IF sweep = "running" THEN {"running", "dead"} ELSE {sweep})

Nothing == event' = <<>> /\ UNCHANGED <<history, outdated, sweep>>

AddNew(t, v, mode) ==
    /\ history' = history \cup {<<t, v>>}
    /\ event' = <<mode, t, v>>
    /\ Disturb
    /\ UNCHANGED outdated

ShouldSendOnEnter(t, mode) == ~HasRow(t) /\ mode = "ON_ENTER"

ShouldSendOnLeave(t, v, mode) == HasCell(t, v) /\ mode = "ON_LEAVE"

EnterFirst(t, v, mode) == ShouldSendOnEnter(t, mode) /\ AddNew(t, v, mode)

UpdateTime(t, v, mode) ==
    /\ ~ShouldSendOnEnter(t, mode)
    /\ HasCell(t, v)
    /\ outdated' = outdated \ {<<t, v>>}
    /\ event' = <<>>
    /\ UNCHANGED <<history, sweep>>

(* Without the third branch a tag in one area is never told of another. *)
EnterOnlyFirst(t, v, mode) == ~HasCell(t, v) /\ HasRow(t) /\ Nothing

EnterAnother(t, v, mode) ==
    /\ ~HasCell(t, v)
    /\ HasRow(t)
    /\ AddNew(t, v, mode)

(* The event is created and the cell stays. *)
LeaveWithoutRemoving(t, v, mode) ==
    /\ ShouldSendOnLeave(t, v, mode)
    /\ event' = <<mode, t, v>>
    /\ UNCHANGED <<history, outdated, sweep>>

(* The whole row of the tag goes instead of one cell. *)
LeaveRow(t, v, mode) ==
    /\ ShouldSendOnLeave(t, v, mode)
    /\ event' = <<mode, t, v>>
    /\ history' = {cell \in history : cell[1] # t}
    /\ outdated' = outdated \ {<<t, v>>}
    /\ Disturb

LeaveArea(t, v, mode) ==
    /\ ShouldSendOnLeave(t, v, mode)
    /\ event' = <<mode, t, v>>
    /\ history' = history \ {<<t, v>>}
    /\ outdated' = outdated \ {<<t, v>>}
    /\ Disturb

Inside(t, v, mode) ==
    \/ EnterFirst(t, v, mode)
    \/ UpdateTime(t, v, mode)
    \/ EnterAnother(t, v, mode)
    \/ ~HasRow(t) /\ mode # "ON_ENTER" /\ Nothing

Outside(t, v, mode) ==
    \/ LeaveArea(t, v, mode)
    \/ ~ShouldSendOnLeave(t, v, mode) /\ Nothing

(* The two loops of checkCoordinates: the areas in the order of a HashMap,   *)
(* the configurations of each in that of the list.                           *)
InTurn(check, a, i) ==
    /\ i \in check.left[a]
    /\ \A j \in check.left[a] : i <= j
    /\ \A b \in Area \ {a} : check.left[b] \in {{}, FilteredConfigurations(check.tag, b)}

CheckConfiguration(c, a, i) ==
    LET check == checks[c]
        v == <<a, check.loaded[a]>>
        cf == Configurations[a][i]
    IN  /\ InTurn(check, a, i)
        /\ checks' = [checks EXCEPT ![c].left[a] = @ \ {i}]
        /\ IF IsWithin(check.place, a, cf.offset)
           THEN Inside(check.tag, v, cf.mode) ELSE Outside(check.tag, v, cf.mode)
        /\ UNCHANGED edits

Checked(c) == checks[c] # NoCheck /\ \A a \in Area : checks[c].left[a] = {}

(* The events go to the observers and the thread is free. *)
SendAreaEvents(c) ==
    /\ Checked(c)
    /\ checks' = [checks EXCEPT ![c] = NoCheck]
    /\ event' = <<>>
    /\ UNCHANGED <<history, outdated, edits, sweep>>
------------------------------------------------------------------------------
(* A minute passes in which the tag is not seen in the area. A check is      *)
(* shorter than that.                                                        *)
FallOutdated(cell) ==
    /\ cell \in history \ outdated
    /\ \A c \in Thread : checks[c].tag # cell[1]
    /\ outdated' = outdated \cup {cell}
    /\ event' = <<>>
    /\ UNCHANGED <<history, edits, checks, sweep>>

(* updateData, every thirty seconds: the iterator is created ... *)
StartUpdateData ==
    /\ sweep = "idle"
    /\ sweep' = "running"
    /\ event' = <<>>
    /\ UNCHANGED <<history, outdated, edits, checks>>

(* The comparison with now turned round. *)
UpdateDataReversed ==
    /\ sweep = "running"
    /\ sweep' = "idle"
    /\ history' = outdated
    /\ event' = <<>>
    /\ UNCHANGED <<outdated, edits, checks>>

(* ... and has removed the cells it found outdated. *)
UpdateData ==
    /\ sweep = "running"
    /\ sweep' = "idle"
    /\ history' = history \ outdated
    /\ outdated' = {}
    /\ event' = <<>>
    /\ UNCHANGED <<edits, checks>>

(* An area is saved with another name; its configurations stay. *)
EditArea(a) ==
    /\ edits[a] < MaxEdits[a]
    /\ edits' = [edits EXCEPT ![a] = @ + 1]
    /\ event' = <<>>
    /\ UNCHANGED <<history, outdated, checks, sweep>>

RunCheck(c) ==
    \/ \E a \in Area : \E i \in checks[c].left[a] : CheckConfiguration(c, a, i)
    \/ SendAreaEvents(c)

Next ==
    \/ \E c \in Thread : RunCheck(c)
    \/ \E c \in Thread, t \in Tag, p \in Place : AfterCalculationDone(c, t, p)
    \/ \E cell \in Cell : FallOutdated(cell)
    \/ StartUpdateData
    \/ UpdateData
    \/ \E a \in Area : EditArea(a)

Spec == Init /\ [][Next]_vars

(* The timer fires and its task ends; nothing is assumed of the executor. *)
Fairness == WF_vars(StartUpdateData \/ UpdateData)

FairSpec == Spec /\ Fairness
------------------------------------------------------------------------------
(* Both modes with one offset, ON_ENTER first: the lists the unit test of    *)
(* the controller uses.                                                      *)
Paired(t, a) ==
    \E i, j \in FilteredConfigurations(t, a) :
        LET enter == Configurations[a][i]
            leave == Configurations[a][j]
        IN  /\ i < j /\ FilteredConfigurations(t, a) = {i, j}
            /\ enter.mode = "ON_ENTER" /\ leave.mode = "ON_LEAVE"
            /\ enter.offset = leave.offset

(* The i-th configuration lets the tag into an area before the j-th asks     *)
(* whether it has left: as near or nearer, and no ON_LEAVE between the two   *)
(* lets it go earlier.                                                       *)
Guards(t, a, i, j) ==
    LET cf(k) == Configurations[a][k]
    IN  /\ i < j /\ cf(i).mode = "ON_ENTER" /\ cf(j).offset <= cf(i).offset
        /\ \A k \in FilteredConfigurations(t, a) :
             i < k /\ k < j /\ cf(k).mode = "ON_LEAVE" => cf(j).offset <= cf(k).offset

(* What a floor plan must observe for the promise below: no ON_LEAVE without *)
(* an ON_ENTER before it. Nothing in the code makes it.                      *)
EnterListedFirst ==
    \A t \in Tag, a \in Area : \A j \in FilteredConfigurations(t, a) :
        Configurations[a][j].mode = "ON_LEAVE"
            => \E i \in FilteredConfigurations(t, a) : Guards(t, a, i, j)

(* The controller keeps the promise of AreaPresence for every version of an  *)
(* area: whatever the timer, edits and checks of other tags do in between,   *)
(* ON_ENTER is told of a tag not recorded in the area and ON_LEAVE of one    *)
(* that is; but two checks of one tag that overlap may tell anything of it   *)
(* (checkCoordinates reads and writes the history without a lock).           *)
Presence == INSTANCE AreaPresence WITH
    Region <- Version,
    present <- history,
    overlapped <- {t \in Tag : \E c \in Thread : checks[c].tag = t /\ ~checks[c].alone}
KeepsPresence == Presence!Spec

(* After a check no other check of the tag overlapped, the tag is recorded   *)
(* in an area exactly when it is within it: what earlier checks left         *)
(* behind, in whatever order the areas came, has been corrected.             *)
RecordedWhereSeen ==
    \A c \in Thread, a \in Area :
        LET check == checks[c]
        IN  Checked(c) /\ check.alone /\ Paired(check.tag, a) =>
                \A i \in FilteredConfigurations(check.tag, a) :
                    HasCell(check.tag, <<a, check.loaded[a]>>)
                        <=> IsWithin(check.place, a, Configurations[a][i].offset)

(* No cell stays outdated: it is refreshed or removed again and again, cells *)
(* of an area edited since included, which no check will ever find again;    *)
(* unless the timer task is gone (updateData).                               *)
OutdatedForgotten ==
    \A t \in Tag, a \in Version :
        []<>(<<t, a>> \notin outdated \/ sweep = "dead")

(* A tag that comes into another area is told to enter it, as the unit test  *)
(* asserts: ON_LEAVE is never told of an area the tag was not in.            *)
LeaveOnlyFromInside ==
    [][event' # <<>> /\ event'[1] = "ON_LEAVE"
         => <<event'[2], event'[3]>> \in history]_vars
==============================================================================
