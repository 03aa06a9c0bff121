--------------------------- MODULE AreaEventsProofs ---------------------------
(***************************************************************************)
(* What AreaEvents keeps for any tags, areas, places, configurations and   *)
(* threads: types, that a check nobody overlapped leaves a tag recorded    *)
(* where it was seen, and that the events told are those AreaPresence      *)
(* promises when every ON_LEAVE is listed behind an ON_ENTER.              *)
(***************************************************************************)
EXTENDS AreaEvents, TLAPS

Check == [tag : Tag \cup {NoTag}, place : Place, loaded : [Area -> Nat],
          left : [Area -> SUBSET Nat], alone : BOOLEAN]

(* What a check alone with its tag can rely on.                              *)

(* A thread without a tag is free, and a check that is alone has its tag to  *)
(* itself.                                                                   *)
OwnTag ==
    \A c \in Thread :
        /\ checks[c].tag = NoTag => checks[c] = NoCheck
        /\ checks[c].alone => \A d \in Thread \ {c} : checks[d].tag # checks[c].tag

(* Configurations are handled in the order of the list. *)
InOrder ==
    \A c \in Thread, a \in Area :
        \A i \in FilteredConfigurations(checks[c].tag, a) \ checks[c].left[a] :
            \A j \in checks[c].left[a] : i < j

Seen(check, a, i) == IsWithin(check.place, a, Configurations[a][i].offset)
CellOf(check, a) == <<check.tag, <<a, check.loaded[a]>>>>
Recorded(check, a) == CellOf(check, a) \in history \ outdated

(* Once an ON_ENTER has let the tag in, it stays recorded until the ON_LEAVE *)
(* it guards, and its cell is too fresh for the timer.                       *)
Entered ==
    \A c \in Thread, a \in Area : checks[c].alone =>
        \A i \in FilteredConfigurations(checks[c].tag, a) \ checks[c].left[a],
           j \in checks[c].left[a] :
            Guards(checks[c].tag, a, i, j) /\ Seen(checks[c], a, j)
                => Recorded(checks[c], a)

(* An area that is done has it right, and keeps it. *)
Settled ==
    \A c \in Thread, a \in Area :
        checks[c].alone /\ checks[c].left[a] = {} /\ Paired(checks[c].tag, a) =>
            \A i \in FilteredConfigurations(checks[c].tag, a) :
                IF Seen(checks[c], a, i) THEN Recorded(checks[c], a)
                ELSE CellOf(checks[c], a) \notin history

IInv == TypeOK /\ OwnTag /\ InOrder /\ Entered /\ Settled
------------------------------------------------------------------------------
(* Types.                                                                    *)

(* The configurations of an area: positions with a mode and an offset. *)
LEMMA Configuration ==
    ASSUME NEW t, NEW a \in Area, NEW i \in FilteredConfigurations(t, a)
    PROVE  /\ i \in Nat
           /\ Configurations[a][i].mode \in Mode
           /\ Configurations[a][i].offset \in Nat
<1>1. /\ Configurations[a] \in Seq(AreaConfiguration)
      /\ i \in DOMAIN Configurations[a]
  BY AreaAssumption DEF FilteredConfigurations
<1>2. Configurations[a][i] \in AreaConfiguration /\ i \in Nat
  BY <1>1
<1>3. QED
  BY <1>2 DEF AreaConfiguration

(* A cell of an area as a check has loaded it, and its tag. *)
LEMMA CellType ==
    ASSUME TypeOK, NEW c \in Thread, NEW a \in Area
    PROVE  /\ <<a, checks[c].loaded[a]>> \in Version
           /\ checks[c].tag \in Tag => CellOf(checks[c], a) \in Cell
<1>1. checks[c].loaded[a] \in 0..MaxEdits[a]
  BY AreaAssumption DEF TypeOK
<1>2. <<a, checks[c].loaded[a]>> \in Version
  BY <1>1 DEF Version
<1>3. QED
  BY <1>2 DEF CellOf, Cell

(* A step of a check is one of a tag. *)
LEMMA CheckHasTag ==
    ASSUME TypeOK, OwnTag, NEW c \in Thread, NEW a \in Area, checks[c].left[a] # {}
    PROVE  checks[c].tag \in Tag
<1>1. checks[c] # NoCheck
  BY DEF NoCheck
<1>2. QED
  BY <1>1 DEF TypeOK, OwnTag

------------------------------------------------------------------------------
(* What one configuration of a check does to the history.                    *)

(* Only the cell of the tag in the area at hand is touched. Inside, a cell   *)
(* there was stays and is fresh, and after an ON_ENTER there is one; outside *)
(* an ON_LEAVE leaves none, and an ON_ENTER changes nothing.                 *)
LEMMA Effect ==
    ASSUME TypeOK, NEW c \in Thread, NEW a \in Area, NEW i \in checks[c].left[a],
           CheckConfiguration(c, a, i)
    PROVE  LET check == checks[c]
               cell == CellOf(check, a)
               mode == Configurations[a][i].mode
           IN  /\ history' \subseteq history \cup {cell}
               /\ history \ {cell} \subseteq history'
               /\ outdated \ {cell} \subseteq outdated'
               /\ outdated' \subseteq outdated /\ outdated' \subseteq history'
               /\ Seen(check, a, i) /\ (cell \in history \/ mode = "ON_ENTER")
                    => cell \in history' \ outdated'
               /\ ~Seen(check, a, i) /\ mode = "ON_LEAVE" => cell \notin history'
               /\ ~Seen(check, a, i) /\ mode = "ON_ENTER"
                    => history' = history /\ outdated' = outdated
<1> DEFINE check == checks[c]
           v == <<a, check.loaded[a]>>
           t == check.tag
           mode == Configurations[a][i].mode
<1>0. outdated \subseteq history /\ CellOf(check, a) = <<t, v>>
  BY DEF TypeOK, CellOf
<1>1. CASE Seen(check, a, i)
  <2>1. Inside(t, v, mode)
    BY <1>1 DEF CheckConfiguration, Seen
  <2>2. HasCell(t, v) => HasRow(t)
    BY DEF HasCell, HasRow
  <2>3. CASE EnterFirst(t, v, mode)
    BY <1>0, <1>1, <2>2, <2>3 DEF EnterFirst, ShouldSendOnEnter, AddNew, HasCell
  <2>4. CASE UpdateTime(t, v, mode)
    BY <1>0, <1>1, <2>4 DEF UpdateTime, HasCell
  <2>5. CASE EnterAnother(t, v, mode)
    BY <1>0, <1>1, <2>5 DEF EnterAnother, AddNew, HasCell
  <2>6. CASE ~HasRow(t) /\ mode # "ON_ENTER" /\ Nothing
    BY <1>0, <1>1, <2>2, <2>6 DEF Nothing, HasCell
  <2>7. QED
    BY <2>1, <2>3, <2>4, <2>5, <2>6 DEF Inside
<1>2. CASE ~Seen(check, a, i)
  <2>1. Outside(t, v, mode)
    BY <1>2 DEF CheckConfiguration, Seen
  <2>2. CASE LeaveArea(t, v, mode)
    BY <1>0, <1>2, <2>2 DEF LeaveArea, ShouldSendOnLeave
  <2>3. CASE ~ShouldSendOnLeave(t, v, mode) /\ Nothing
    BY <1>0, <1>2, <2>3 DEF ShouldSendOnLeave, Nothing, HasCell
  <2>4. QED
    BY <2>1, <2>2, <2>3 DEF Outside
<1>3. QED
  BY <1>1, <1>2

(* And only the check itself goes on. *)
LEMMA Progress ==
    ASSUME TypeOK, NEW c \in Thread, NEW a \in Area, NEW i \in checks[c].left[a],
           CheckConfiguration(c, a, i)
    PROVE  /\ checks' \in [Thread -> Check]
           /\ \A d \in Thread \ {c} : checks'[d] = checks[d]
           /\ checks'[c].tag = checks[c].tag /\ checks'[c].place = checks[c].place
           /\ checks'[c].loaded = checks[c].loaded
           /\ checks'[c].alone = checks[c].alone
           /\ checks'[c].left[a] = checks[c].left[a] \ {i}
           /\ \A b \in Area \ {a} : checks'[c].left[b] = checks[c].left[b]
           /\ \A j \in checks[c].left[a] : i <= j
           /\ edits' = edits
<1>1. /\ checks \in [Thread -> Check]
      /\ checks' = [checks EXCEPT ![c].left[a] = @ \ {i}]
  BY DEF CheckConfiguration, TypeOK, Check
<1>2. \A j \in checks[c].left[a] : i <= j
  BY DEF CheckConfiguration, InTurn
<1> DEFINE L == [checks[c].left EXCEPT ![a] = @ \ {i}]
<1>3. checks[c].left \in [Area -> SUBSET Nat] /\ L \in [Area -> SUBSET Nat]
  BY <1>1 DEF Check
<1>4. checks' = [checks EXCEPT ![c] = [checks[c] EXCEPT !.left = L]]
  BY <1>1
<1>5. [checks[c] EXCEPT !.left = L] \in Check
  BY <1>1, <1>3 DEF Check
<1>6. /\ checks' \in [Thread -> Check]
      /\ checks'[c] = [checks[c] EXCEPT !.left = L]
      /\ \A d \in Thread \ {c} : checks'[d] = checks[d]
  BY <1>1, <1>4, <1>5
<1>7. /\ checks'[c].tag = checks[c].tag /\ checks'[c].place = checks[c].place
      /\ checks'[c].loaded = checks[c].loaded
      /\ checks'[c].alone = checks[c].alone /\ checks'[c].left = L
  BY <1>1, <1>6 DEF Check
<1>8. QED
  BY <1>2, <1>3, <1>6, <1>7 DEF CheckConfiguration

(* What a step tells fits the configuration at hand. *)
LEMMA Telling ==
    ASSUME TypeOK, OwnTag, NEW c \in Thread, NEW a \in Area, NEW i \in checks[c].left[a],
           CheckConfiguration(c, a, i)
    PROVE  /\ sweep' \in {"idle", "running", "dead"}
           /\ \/ event' = <<>> /\ history' = history
              \/ event' = <<Configurations[a][i].mode, checks[c].tag,
                            <<a, checks[c].loaded[a]>>>>
<1> DEFINE check == checks[c]
           v == <<a, check.loaded[a]>>
           t == check.tag
           mode == Configurations[a][i].mode
<1>1. Inside(t, v, mode) \/ Outside(t, v, mode)
  BY DEF CheckConfiguration
<1>2. QED
  BY <1>1 DEF Inside, Outside, EnterFirst, UpdateTime, EnterAnother, LeaveArea, AddNew,
              Nothing, Disturb, TypeOK

LEMMA ConfigurationTypes ==
    ASSUME TypeOK, OwnTag, NEW c \in Thread, NEW a \in Area, NEW i \in checks[c].left[a],
           CheckConfiguration(c, a, i)
    PROVE  TypeOK'
<1>1. checks[c].tag \in Tag
  BY CheckHasTag
<1>2. i \in FilteredConfigurations(checks[c].tag, a)
  BY DEF TypeOK
<1>3. /\ <<a, checks[c].loaded[a]>> \in Version
      /\ CellOf(checks[c], a) \in Cell
  BY <1>1, CellType
<1>4. history' \in SUBSET Cell /\ outdated' \in SUBSET history'
  BY <1>3, Effect DEF TypeOK
<1>5. event' = <<>> \/ event' \in Mode \X Tag \X Version
  BY <1>1, <1>2, <1>3, Configuration, Telling
<1>6. \A d \in Thread, b \in Area :
        /\ checks'[d].loaded[b] <= edits'[b]
        /\ checks'[d].left[b] \subseteq FilteredConfigurations(checks'[d].tag, b)
  <2> SUFFICES ASSUME NEW d \in Thread, NEW b \in Area
               PROVE  /\ checks'[d].loaded[b] <= edits'[b]
                      /\ checks'[d].left[b] \subseteq FilteredConfigurations(checks'[d].tag, b)
    OBVIOUS
  <2>1. CASE d # c
    BY <2>1, Progress DEF TypeOK
  <2>2. CASE d = c /\ b = a
    BY <2>2, Progress DEF TypeOK
  <2>3. CASE d = c /\ b # a
    BY <2>3, Progress DEF TypeOK
  <2>4. QED
    BY <2>1, <2>2, <2>3
<1>7. checks' \in [Thread -> Check] /\ edits' = edits
  BY Progress
<1>8. QED
  BY <1>4, <1>5, <1>6, <1>7, Telling DEF TypeOK, Check

(* The steps that are no part of a check. *)
LEMMA BeginTypes ==
    ASSUME TypeOK, NEW c \in Thread, NEW t \in Tag, NEW p \in Place,
           AfterCalculationDone(c, t, p)
    PROVE  /\ TypeOK'
           /\ \A a \in Area : /\ checks'[c].left[a] = FilteredConfigurations(t, a)
                              /\ checks'[c].loaded[a] = edits[a]
           /\ checks'[c].tag = t /\ checks'[c].place = p
           /\ checks[c] = NoCheck
           /\ checks'[c].alone => \A d \in Thread : checks[d].tag # t
           /\ \A d \in Thread \ {c} :
                /\ checks'[d].tag = checks[d].tag /\ checks'[d].place = checks[d].place
                /\ checks'[d].loaded = checks[d].loaded
                /\ checks'[d].left = checks[d].left
                /\ checks'[d].alone => checks[d].alone /\ checks[d].tag # t
                /\ checks[d].tag # t => checks'[d] = checks[d]
<1> DEFINE others == {d \in Thread : checks[d].tag = t}
           new == [tag |-> t, place |-> p, loaded |-> edits,
                   left |-> [a \in Area |-> FilteredConfigurations(t, a)],
                   alone |-> others = {}]
<1>1. checks \in [Thread -> Check] /\ edits \in [Area -> Nat]
  BY DEF TypeOK, Check
<1>2. checks' = [d \in Thread |-> IF d = c THEN new
                                  ELSE IF d \in others
                                  THEN [checks[d] EXCEPT !.alone = FALSE] ELSE checks[d]]
  BY DEF AfterCalculationDone
<1>3. \A a \in Area : FilteredConfigurations(t, a) \in SUBSET Nat
  BY Configuration
<1>4. new \in Check
  BY <1>1, <1>3 DEF Check
<1>5. \A d \in Thread : [checks[d] EXCEPT !.alone = FALSE] \in Check
  BY <1>1 DEF Check
<1>6. checks' \in [Thread -> Check]
  BY <1>1, <1>2, <1>4, <1>5
<1>7. /\ checks'[c].tag = t /\ checks'[c].place = p /\ checks'[c].loaded = edits
      /\ checks'[c].left = [a \in Area |-> FilteredConfigurations(t, a)]
      /\ checks'[c].alone = (others = {})
  BY <1>2
<1>8. \A d \in Thread \ {c} :
        /\ checks'[d].tag = checks[d].tag /\ checks'[d].place = checks[d].place
        /\ checks'[d].loaded = checks[d].loaded
        /\ checks'[d].left = checks[d].left
        /\ checks'[d].alone => checks[d].alone /\ checks[d].tag # t
        /\ checks[d].tag # t => checks'[d] = checks[d]
  BY <1>1, <1>2 DEF Check
<1>9. /\ history' = history /\ outdated' = outdated /\ edits' = edits
      /\ sweep' = sweep /\ event' = <<>> /\ checks[c] = NoCheck
  BY DEF AfterCalculationDone
<1>10. \A d \in Thread, a \in Area :
         /\ checks'[d].loaded[a] <= edits'[a]
         /\ checks'[d].left[a] \subseteq FilteredConfigurations(checks'[d].tag, a)
  <2> SUFFICES ASSUME NEW d \in Thread, NEW a \in Area
               PROVE  /\ checks'[d].loaded[a] <= edits'[a]
                      /\ checks'[d].left[a] \subseteq FilteredConfigurations(checks'[d].tag, a)
    OBVIOUS
  <2>1. CASE d = c
    BY <1>1, <1>7, <1>9, <2>1
  <2>2. CASE d # c
    BY <1>8, <1>9, <2>2 DEF TypeOK
  <2>3. QED
    BY <2>1, <2>2
<1>11. TypeOK'
  BY <1>6, <1>9, <1>10 DEF TypeOK, Check
<1>12. checks'[c].alone => \A d \in Thread : checks[d].tag # t
  BY <1>7
<1>13. \A a \in Area : /\ checks'[c].left[a] = FilteredConfigurations(t, a)
                       /\ checks'[c].loaded[a] = edits[a]
  BY <1>7
<1>14. QED
  BY <1>7, <1>8, <1>9, <1>11, <1>12, <1>13

LEMMA NoCheckType == NoCheck \in Check
<1>1. (CHOOSE p \in Place : TRUE) \in Place
  BY AreaAssumption
<1>2. QED
  BY <1>1 DEF NoCheck, Check

LEMMA SendTypes ==
    ASSUME TypeOK, NEW c \in Thread, SendAreaEvents(c)
    PROVE  TypeOK' /\ checks' \in [Thread -> Check] /\ checks'[c] = NoCheck
           /\ \A d \in Thread \ {c} : checks'[d] = checks[d]
<1>1. checks \in [Thread -> Check] /\ checks' = [checks EXCEPT ![c] = NoCheck]
  BY DEF TypeOK, Check, SendAreaEvents
<1>2. /\ checks' \in [Thread -> Check] /\ checks'[c] = NoCheck
      /\ \A d \in Thread \ {c} : checks'[d] = checks[d]
  BY <1>1, NoCheckType
<1>3. \A d \in Thread, a \in Area :
        /\ checks'[d].loaded[a] <= edits[a]
        /\ checks'[d].left[a] \subseteq FilteredConfigurations(checks'[d].tag, a)
  <2>1. \A a \in Area : NoCheck.loaded[a] <= edits[a] /\ NoCheck.left[a] = {}
    BY DEF NoCheck, TypeOK
  <2>2. QED
    BY <1>2, <2>1 DEF TypeOK
<1>4. QED
  BY <1>2, <1>3 DEF TypeOK, SendAreaEvents, Check

LEMMA OtherTypes ==
    ASSUME TypeOK,
           \/ \E cell \in Cell : FallOutdated(cell)
           \/ StartUpdateData \/ UpdateData
           \/ \E a \in Area : EditArea(a)
           \/ UNCHANGED vars
    PROVE  TypeOK' /\ checks' = checks
<1>1. CASE \E cell \in Cell : FallOutdated(cell)
  BY <1>1 DEF TypeOK, FallOutdated
<1>2. CASE StartUpdateData
  BY <1>2 DEF TypeOK, StartUpdateData
<1>3. CASE UpdateData
  BY <1>3 DEF TypeOK, UpdateData
<1>4. CASE \E a \in Area : EditArea(a)
  <2>1. PICK a \in Area : EditArea(a)
    BY <1>4
  <2>2. /\ edits' \in [Area -> Nat] /\ \A b \in Area : edits'[b] <= MaxEdits[b]
        /\ \A b \in Area : edits[b] <= edits'[b]
    <3>1. /\ edits \in [Area -> Nat] /\ MaxEdits \in [Area -> Nat]
          /\ edits' = [edits EXCEPT ![a] = edits[a] + 1] /\ edits[a] < MaxEdits[a]
          /\ \A b \in Area : edits[b] <= MaxEdits[b]
      BY <2>1, AreaAssumption DEF TypeOK, EditArea
    <3>2. \A b \in Area : edits'[b] = IF b = a THEN edits[b] + 1 ELSE edits[b]
      BY <3>1
    <3>3. QED
      BY <3>1, <3>2
  <2>3. \A d \in Thread, b \in Area : checks[d].loaded[b] \in Nat
    BY DEF TypeOK
  <2>4. \A d \in Thread, b \in Area : checks[d].loaded[b] <= edits'[b]
    BY <2>2, <2>3 DEF TypeOK
  <2>5. QED
    BY <2>1, <2>2, <2>4 DEF TypeOK, EditArea
<1>5. CASE UNCHANGED vars
  BY <1>5 DEF TypeOK, vars
<1>6. QED
  BY <1>1, <1>2, <1>3, <1>4, <1>5

------------------------------------------------------------------------------
(* The order of a list and the tag a check has to itself.                    *)

LEMMA OwnTagNext ==
    ASSUME TypeOK, OwnTag, [Next]_vars
    PROVE  OwnTag'
<1>1. ASSUME NEW c \in Thread, NEW a \in Area, NEW i \in checks[c].left[a],
             CheckConfiguration(c, a, i)
      PROVE  OwnTag'
  <2>1. \A d \in Thread : checks'[d].tag = checks[d].tag /\ checks'[d].alone = checks[d].alone
    BY <1>1, Progress
  <2>2. checks[c].tag # NoTag
    BY <1>1, CheckHasTag, AreaAssumption
  <2>3. \A d \in Thread \ {c} : checks'[d] = checks[d]
    BY <1>1, Progress
  <2>4. QED
    BY <2>1, <2>2, <2>3 DEF OwnTag
<1>2. ASSUME NEW c \in Thread, SendAreaEvents(c) PROVE OwnTag'
  <2>1. checks'[c] = NoCheck /\ \A d \in Thread \ {c} : checks'[d] = checks[d]
    BY <1>2, SendTypes
  <2>2. NoCheck.tag = NoTag /\ ~NoCheck.alone
    BY DEF NoCheck
  <2>3. \A d \in Thread : checks[d].alone => checks[d].tag # NoTag
    BY <2>2 DEF OwnTag
  <2>4. QED
    BY <2>1, <2>2, <2>3 DEF OwnTag
<1>3. ASSUME NEW c \in Thread, NEW t \in Tag, NEW p \in Place,
             AfterCalculationDone(c, t, p)
      PROVE  OwnTag'
  <2>1. t # NoTag
    BY AreaAssumption
  <2>2. ASSUME NEW d \in Thread, checks'[d].tag = NoTag PROVE checks'[d] = NoCheck
    BY <1>3, <2>1, <2>2, BeginTypes DEF OwnTag
  <2>3. ASSUME NEW d \in Thread, checks'[d].alone, NEW e \in Thread \ {d}
        PROVE  checks'[e].tag # checks'[d].tag
    <3>1. CASE d = c
      BY <1>3, <2>3, <3>1, BeginTypes
    <3>2. CASE d # c /\ e = c
      BY <1>3, <2>3, <3>2, BeginTypes
    <3>3. CASE d # c /\ e # c
      BY <1>3, <2>3, <3>3, BeginTypes DEF OwnTag
    <3>4. QED
      BY <3>1, <3>2, <3>3
  <2>4. QED
    BY <2>2, <2>3 DEF OwnTag
<1>4. CASE checks' = checks
  BY <1>4 DEF OwnTag
<1>5. QED
  BY <1>1, <1>2, <1>3, <1>4, OtherTypes DEF Next, RunCheck

LEMMA InOrderNext ==
    ASSUME TypeOK, OwnTag, InOrder, [Next]_vars
    PROVE  InOrder'
<1>1. ASSUME NEW c \in Thread, NEW a \in Area, NEW i \in checks[c].left[a],
             CheckConfiguration(c, a, i)
      PROVE  InOrder'
  <2> SUFFICES ASSUME NEW d \in Thread, NEW b \in Area,
                      NEW k \in FilteredConfigurations(checks'[d].tag, b) \ checks'[d].left[b],
                      NEW j \in checks'[d].left[b]
               PROVE  k < j
    BY DEF InOrder
  <2>1. CASE d # c \/ b # a
    BY <1>1, <2>1, Progress DEF InOrder
  <2>2. CASE d = c /\ b = a /\ k # i
    BY <1>1, <2>2, Progress DEF InOrder
  <2>3. CASE d = c /\ b = a /\ k = i
    <3>1. i <= j /\ i # j /\ checks[c].left[a] \subseteq Nat
      BY <1>1, <2>3, Progress DEF TypeOK
    <3>2. j \in Nat /\ i \in Nat
      BY <1>1, <2>3, <3>1, Progress
    <3>3. QED
      BY <2>3, <3>1, <3>2
  <2>4. QED
    BY <2>1, <2>2, <2>3
<1>2. ASSUME NEW c \in Thread, SendAreaEvents(c) PROVE InOrder'
  <2>1. \A a \in Area : NoCheck.left[a] = {}
    BY DEF NoCheck
  <2>2. QED
    BY <1>2, <2>1, SendTypes DEF InOrder
<1>3. ASSUME NEW c \in Thread, NEW t \in Tag, NEW p \in Place,
             AfterCalculationDone(c, t, p)
      PROVE  InOrder'
  <2> SUFFICES ASSUME NEW d \in Thread, NEW b \in Area,
                      NEW k \in FilteredConfigurations(checks'[d].tag, b) \ checks'[d].left[b],
                      NEW j \in checks'[d].left[b]
               PROVE  k < j
    BY DEF InOrder
  <2>1. d # c
    BY <1>3, BeginTypes
  <2>2. QED
    BY <1>3, <2>1, BeginTypes DEF InOrder
<1>4. CASE checks' = checks
  BY <1>4 DEF InOrder
<1>5. QED
  BY <1>1, <1>2, <1>3, <1>4, OtherTypes DEF Next, RunCheck

------------------------------------------------------------------------------
(* A check that is alone.                                                    *)

(* What other steps do to the cells of a check that is alone: outdated ones  *)
(* go, and none of them becomes outdated.                                    *)
Untouched(d) ==
    \A a \in Area :
        LET cell == CellOf(checks[d], a)
        IN  /\ cell \in history \ outdated => cell \in history' \ outdated'
            /\ cell \notin history => cell \notin history'

(* The same check with its cells left alone keeps what it relied on. *)
LEMMA KeptByOthers ==
    ASSUME TypeOK, Entered, Settled, NEW d \in Thread, checks[d].alone,
           Untouched(d), checks'[d] = checks[d]
    PROVE  \A a \in Area :
             /\ \A i \in FilteredConfigurations(checks'[d].tag, a) \ checks'[d].left[a],
                   j \in checks'[d].left[a] :
                  Guards(checks'[d].tag, a, i, j) /\ Seen(checks'[d], a, j)
                      => CellOf(checks'[d], a) \in history' \ outdated'
             /\ checks'[d].left[a] = {} /\ Paired(checks'[d].tag, a) =>
                  \A i \in FilteredConfigurations(checks'[d].tag, a) :
                    IF Seen(checks'[d], a, i)
                    THEN CellOf(checks'[d], a) \in history' \ outdated'
                    ELSE CellOf(checks'[d], a) \notin history'
BY DEF Entered, Settled, Untouched, Recorded

(* One configuration of another tag's check touches none of its cells. *)
LEMMA UntouchedByConfiguration ==
    ASSUME TypeOK, OwnTag, NEW c \in Thread, NEW a \in Area, NEW i \in checks[c].left[a],
           CheckConfiguration(c, a, i), NEW d \in Thread \ {c}, checks[d].alone
    PROVE  Untouched(d)
<1>1. checks[c].tag # checks[d].tag
  BY DEF OwnTag
<1>2. \A b \in Area : CellOf(checks[d], b) # CellOf(checks[c], a)
  BY <1>1 DEF CellOf
<1>3. QED
  BY <1>2, Effect DEF Untouched

LEMMA UntouchedByOthers ==
    ASSUME TypeOK, OwnTag, NEW d \in Thread, checks[d].alone,
           \/ \E cell \in Cell : FallOutdated(cell)
           \/ StartUpdateData \/ UpdateData
           \/ \E a \in Area : EditArea(a)
           \/ UNCHANGED vars
           \/ \E c \in Thread : SendAreaEvents(c)
           \/ \E c \in Thread, t \in Tag, p \in Place : AfterCalculationDone(c, t, p)
    PROVE  Untouched(d)
<1>1. ASSUME NEW cell \in Cell, FallOutdated(cell) PROVE Untouched(d)
  <2>1. checks[d].tag # cell[1] /\ history' = history /\ outdated' = outdated \cup {cell}
    BY <1>1 DEF FallOutdated
  <2>2. \A a \in Area : CellOf(checks[d], a) # cell
    BY <2>1 DEF CellOf
  <2>3. QED
    BY <2>1, <2>2 DEF Untouched
<1>2. CASE UpdateData
  BY <1>2 DEF UpdateData, Untouched
<1>3. CASE history' = history /\ outdated' = outdated
  BY <1>3 DEF Untouched
<1>4. QED
  BY <1>1, <1>2, <1>3 DEF StartUpdateData, EditArea, vars, SendAreaEvents,
                          AfterCalculationDone

(* The configuration at hand: whatever an ON_ENTER before it or it itself    *)
(* guards is recorded behind it.                                             *)
LEMMA EnteredByConfiguration ==
    ASSUME TypeOK, OwnTag, InOrder, Entered, NEW c \in Thread, NEW a \in Area,
           NEW i \in checks[c].left[a], CheckConfiguration(c, a, i), checks[c].alone,
           NEW k \in FilteredConfigurations(checks[c].tag, a) \ checks'[c].left[a],
           NEW j \in checks'[c].left[a],
           Guards(checks[c].tag, a, k, j), Seen(checks[c], a, j)
    PROVE  CellOf(checks[c], a) \in history' \ outdated'
<1> DEFINE check == checks[c]
           cf(n) == Configurations[a][n]
<1>1. /\ checks'[c].left[a] = check.left[a] \ {i}
      /\ check.left[a] \subseteq FilteredConfigurations(check.tag, a)
  BY Progress DEF TypeOK
<1>2. j \in check.left[a] /\ i # j /\ i <= j
  BY <1>1, Progress
<1>3. /\ i \in FilteredConfigurations(check.tag, a)
      /\ j \in FilteredConfigurations(check.tag, a)
  BY <1>1, <1>2
<1>4. /\ i \in Nat /\ j \in Nat /\ k \in Nat /\ cf(i).mode \in Mode
      /\ cf(i).offset \in Nat /\ cf(j).offset \in Nat /\ cf(k).offset \in Nat
  BY <1>3, Configuration
<1>5. Distance[check.place][a] \in Nat /\ Distance[check.place][a] <= cf(j).offset
  BY AreaAssumption DEF TypeOK, Seen, IsWithin
<1>6. CASE k = i
  <2>1. cf(i).mode = "ON_ENTER" /\ cf(j).offset <= cf(i).offset
    BY <1>6 DEF Guards
  <2>2. Seen(check, a, i)
    BY <1>4, <1>5, <2>1 DEF Seen, IsWithin
  <2>3. QED
    BY <2>1, <2>2, Effect
<1>7. CASE k # i
  <2>1. k \notin check.left[a] /\ k < i
    BY <1>1, <1>7 DEF InOrder
  <2>2. CellOf(check, a) \in history \ outdated
    BY <1>2, <2>1 DEF Entered, Recorded
  <2>3. CASE Seen(check, a, i)
    BY <2>2, <2>3, Effect
  <2>4. CASE ~Seen(check, a, i)
    <3>1. ~(cf(j).offset <= cf(i).offset)
      BY <1>4, <1>5, <2>4 DEF Seen, IsWithin
    <3>2. cf(i).mode = "ON_ENTER"
      BY <1>2, <1>3, <1>4, <2>1, <3>1 DEF Guards, Mode
    <3>3. QED
      BY <2>2, <2>4, <3>2, Effect
  <2>5. QED
    BY <2>3, <2>4
<1>8. QED
  BY <1>6, <1>7

(* The last configuration of a pair puts the cell right. *)
LEMMA SettledByConfiguration ==
    ASSUME TypeOK, OwnTag, InOrder, Entered, NEW c \in Thread, NEW a \in Area,
           NEW i \in checks[c].left[a], CheckConfiguration(c, a, i), checks[c].alone,
           checks'[c].left[a] = {}, Paired(checks[c].tag, a),
           NEW k \in FilteredConfigurations(checks[c].tag, a)
    PROVE  IF Seen(checks[c], a, k) THEN CellOf(checks[c], a) \in history' \ outdated'
           ELSE CellOf(checks[c], a) \notin history'
<1> DEFINE check == checks[c]
           cf(n) == Configurations[a][n]
           F == FilteredConfigurations(check.tag, a)
<1>1. PICK m \in F, n \in F :
        /\ m < n /\ F = {m, n} /\ cf(m).mode = "ON_ENTER" /\ cf(n).mode = "ON_LEAVE"
        /\ cf(m).offset = cf(n).offset
  BY DEF Paired
<1>2. /\ check.left[a] = {i} /\ i \in F
  <2>1. checks'[c].left[a] = check.left[a] \ {i}
    BY Progress
  <2>2. check.left[a] \subseteq F
    BY DEF TypeOK
  <2>3. QED
    BY <2>1, <2>2
<1>3. m \in Nat /\ n \in Nat /\ cf(n).offset \in Nat
  BY <1>1, Configuration
<1>4. i = n
  <2>1. ASSUME i = m PROVE FALSE
    <3>1. n \notin check.left[a]
      BY <1>1, <1>2, <1>3, <2>1
    <3>2. n < i
      BY <1>2, <3>1 DEF InOrder
    <3>3. QED
      BY <1>1, <1>3, <2>1, <3>2
  <2>2. QED
    BY <1>1, <1>2, <2>1
<1>5. Guards(check.tag, a, m, n)
  BY <1>1, <1>3 DEF Guards
<1>6. Seen(check, a, k) <=> Seen(check, a, n)
  BY <1>1 DEF Seen
<1>7. CASE Seen(check, a, n)
  <2>1. m \notin check.left[a]
    BY <1>1, <1>2, <1>3, <1>4
  <2>2. CellOf(check, a) \in history \ outdated
    BY <1>1, <1>2, <1>4, <1>5, <1>7, <2>1 DEF Entered, Recorded
  <2>3. QED
    BY <1>4, <1>6, <1>7, <2>2, Effect
<1>8. CASE ~Seen(check, a, n)
  BY <1>1, <1>4, <1>6, <1>8, Effect
<1>9. QED
  BY <1>7, <1>8

------------------------------------------------------------------------------
(* A check that is alone after a step was so before it or has just begun. *)
LEMMA EnteredNext ==
    ASSUME IInv, [Next]_vars
    PROVE  Entered'
<1> USE DEF IInv
<1> SUFFICES ASSUME NEW d \in Thread, NEW b \in Area, checks'[d].alone,
                    NEW k \in FilteredConfigurations(checks'[d].tag, b) \ checks'[d].left[b],
                    NEW j \in checks'[d].left[b],
                    Guards(checks'[d].tag, b, k, j), Seen(checks'[d], b, j)
             PROVE  CellOf(checks'[d], b) \in history' \ outdated'
  BY DEF Entered, Recorded
<1>1. CASE checks'[d] = checks[d] /\ Untouched(d)
  BY <1>1, KeptByOthers
<1>2. ASSUME NEW c \in Thread, NEW a \in Area, NEW i \in checks[c].left[a],
             CheckConfiguration(c, a, i)
      PROVE  CellOf(checks'[d], b) \in history' \ outdated'
  <2>1. CASE d # c
    BY <1>1, <1>2, <2>1, Progress, UntouchedByConfiguration
  <2>2. CASE d = c
    <3>1. /\ checks'[d].tag = checks[c].tag /\ checks'[d].place = checks[c].place
          /\ checks'[d].loaded = checks[c].loaded /\ checks[c].alone
      BY <1>2, <2>2, Progress
    <3>2. CellOf(checks'[d], b) = CellOf(checks[c], b) /\ Seen(checks[c], b, j)
      BY <3>1 DEF CellOf, Seen
    <3>3. CASE b = a
      BY <1>2, <2>2, <3>1, <3>2, <3>3, EnteredByConfiguration
    <3>4. CASE b # a
      <4>1. checks'[c].left[b] = checks[c].left[b]
        BY <1>2, <3>4, Progress
      <4>2. CellOf(checks[c], b) \in history \ outdated
        BY <2>2, <3>1, <3>2, <4>1 DEF Entered, Recorded
      <4>3. CellOf(checks[c], b) # CellOf(checks[c], a)
        BY <3>4 DEF CellOf
      <4>4. QED
        BY <1>2, <3>2, <4>2, <4>3, Effect
    <3>5. QED
      BY <3>3, <3>4
  <2>3. QED
    BY <2>1, <2>2
<1>3. ASSUME NEW c \in Thread, SendAreaEvents(c)
      PROVE  CellOf(checks'[d], b) \in history' \ outdated'
  <2>1. d # c
    <3>1. checks'[c] = NoCheck
      BY <1>3, SendTypes
    <3>2. ~NoCheck.alone
      BY DEF NoCheck
    <3>3. QED
      BY <3>1, <3>2
  <2>2. QED
    BY <1>1, <1>3, <2>1, SendTypes, UntouchedByOthers
<1>4. ASSUME NEW c \in Thread, NEW t \in Tag, NEW p \in Place,
             AfterCalculationDone(c, t, p)
      PROVE  CellOf(checks'[d], b) \in history' \ outdated'
  <2>1. d # c
    BY <1>4, BeginTypes
  <2>2. checks'[d] = checks[d] /\ checks[d].alone
    BY <1>4, <2>1, BeginTypes
  <2>3. QED
    BY <1>1, <1>4, <2>2, UntouchedByOthers
<1>5. CASE \/ \E cell \in Cell : FallOutdated(cell)
           \/ StartUpdateData \/ UpdateData
           \/ \E a \in Area : EditArea(a)
           \/ UNCHANGED vars
  BY <1>1, <1>5, OtherTypes, UntouchedByOthers
<1>6. QED
  BY <1>2, <1>3, <1>4, <1>5 DEF Next, RunCheck

LEMMA SettledNext ==
    ASSUME IInv, [Next]_vars
    PROVE  Settled'
<1> USE DEF IInv
<1> SUFFICES ASSUME NEW d \in Thread, NEW b \in Area, checks'[d].alone,
                    checks'[d].left[b] = {}, Paired(checks'[d].tag, b),
                    NEW k \in FilteredConfigurations(checks'[d].tag, b)
             PROVE  IF Seen(checks'[d], b, k)
                    THEN CellOf(checks'[d], b) \in history' \ outdated'
                    ELSE CellOf(checks'[d], b) \notin history'
  BY DEF Settled, Recorded
<1> DEFINE Right == IF Seen(checks'[d], b, k)
                    THEN CellOf(checks'[d], b) \in history' \ outdated'
                    ELSE CellOf(checks'[d], b) \notin history'
<1>1. CASE checks'[d] = checks[d] /\ Untouched(d)
  BY <1>1, KeptByOthers
<1>2. ASSUME NEW c \in Thread, NEW a \in Area, NEW i \in checks[c].left[a],
             CheckConfiguration(c, a, i)
      PROVE  Right
  <2>1. CASE d # c
    BY <1>1, <1>2, <2>1, Progress, UntouchedByConfiguration
  <2>2. CASE d = c
    <3>1. /\ checks'[d].tag = checks[c].tag /\ checks'[d].place = checks[c].place
          /\ checks'[d].loaded = checks[c].loaded /\ checks[c].alone
      BY <1>2, <2>2, Progress
    <3>2. /\ CellOf(checks'[d], b) = CellOf(checks[c], b)
          /\ Seen(checks'[d], b, k) <=> Seen(checks[c], b, k)
      BY <3>1 DEF CellOf, Seen
    <3>3. CASE b = a
      BY <1>2, <2>2, <3>1, <3>2, <3>3, SettledByConfiguration
    <3>4. CASE b # a
      <4>1. checks'[c].left[b] = checks[c].left[b]
        BY <1>2, <3>4, Progress
      <4>2. IF Seen(checks[c], b, k) THEN CellOf(checks[c], b) \in history \ outdated
            ELSE CellOf(checks[c], b) \notin history
        BY <2>2, <3>1, <4>1 DEF Settled, Recorded
      <4>3. CellOf(checks[c], b) # CellOf(checks[c], a)
        BY <3>4 DEF CellOf
      <4>4. QED
        BY <1>2, <3>2, <4>2, <4>3, Effect
    <3>5. QED
      BY <3>3, <3>4
  <2>3. QED
    BY <2>1, <2>2
<1>3. ASSUME NEW c \in Thread, SendAreaEvents(c) PROVE Right
  <2>1. d # c
    <3>1. checks'[c] = NoCheck
      BY <1>3, SendTypes
    <3>2. ~NoCheck.alone
      BY DEF NoCheck
    <3>3. QED
      BY <3>1, <3>2
  <2>2. QED
    BY <1>1, <1>3, <2>1, SendTypes, UntouchedByOthers
<1>4. ASSUME NEW c \in Thread, NEW t \in Tag, NEW p \in Place,
             AfterCalculationDone(c, t, p)
      PROVE  Right
  <2>1. CASE d = c
    <3>1. FilteredConfigurations(checks'[d].tag, b) = {}
      BY <1>4, <2>1, BeginTypes
    <3>2. QED
      BY <3>1
  <2>2. CASE d # c
    <3>1. checks'[d] = checks[d] /\ checks[d].alone
      BY <1>4, <2>2, BeginTypes
    <3>2. QED
      BY <1>1, <1>4, <3>1, UntouchedByOthers
  <2>3. QED
    BY <2>1, <2>2
<1>5. CASE \/ \E cell \in Cell : FallOutdated(cell)
           \/ StartUpdateData \/ UpdateData
           \/ \E a \in Area : EditArea(a)
           \/ UNCHANGED vars
  BY <1>1, <1>5, OtherTypes, UntouchedByOthers
<1>6. QED
  BY <1>2, <1>3, <1>4, <1>5 DEF Next, RunCheck

------------------------------------------------------------------------------
LEMMA IInvInit ==
    ASSUME Init
    PROVE  IInv
<1>1. NoCheck \in Check /\ NoCheck.tag = NoTag /\ ~NoCheck.alone
  BY NoCheckType DEF NoCheck
<1>2. \A a \in Area : NoCheck.left[a] = {} /\ NoCheck.loaded[a] = 0
  BY DEF NoCheck
<1>3. checks = [c \in Thread |-> NoCheck] /\ edits = [a \in Area |-> 0]
  BY DEF Init
<1>4. \A a \in Area : 0 <= MaxEdits[a]
  BY AreaAssumption
<1>5. TypeOK
  BY <1>1, <1>2, <1>3, <1>4 DEF Init, TypeOK, Check
<1>6. QED
  BY <1>1, <1>2, <1>3, <1>5 DEF IInv, OwnTag, InOrder, Entered, Settled

LEMMA IInvNext ==
    ASSUME IInv, [Next]_vars
    PROVE  IInv'
<1>1. TypeOK'
  BY ConfigurationTypes, BeginTypes, SendTypes, OtherTypes DEF IInv, Next, RunCheck
<1>2. QED
  BY <1>1, OwnTagNext, InOrderNext, EnteredNext, SettledNext DEF IInv

(* Types, for any sizes: cells are of tags and versions there are, an event  *)
(* is of one, a check holds positions of its tag's configurations only and   *)
(* versions no later than the areas now have.                                *)
THEOREM TypeInvariant == Spec => []TypeOK
<1>1. Init => IInv
  BY IInvInit
<1>2. IInv /\ [Next]_vars => IInv'
  BY IInvNext
<1>3. IInv => TypeOK
  BY DEF IInv
<1>4. QED
  BY <1>1, <1>2, <1>3, PTL DEF Spec

(* A check no other check of its tag overlapped leaves the tag recorded in   *)
(* an area exactly when it is within it, however many threads, tags and      *)
(* areas there are and whatever the timer and edits of areas do meanwhile    *)
(* (checkCoordinates, updateData).                                           *)
THEOREM RecordedInvariant == Spec => []RecordedWhereSeen
<1>1. Init => IInv
  BY IInvInit
<1>2. IInv /\ [Next]_vars => IInv'
  BY IInvNext
<1>3. IInv => RecordedWhereSeen
  BY DEF IInv, RecordedWhereSeen, Settled, Recorded, CellOf, Seen, HasCell, Checked
<1>4. QED
  BY <1>1, <1>2, <1>3, PTL DEF Spec

------------------------------------------------------------------------------
(* The refinement.                                                           *)

Overlapped == {t \in Tag : \E c \in Thread : checks[c].tag = t /\ ~checks[c].alone}

(* One configuration of a check that is alone: an entry told is one of a tag *)
(* that was not recorded, since an ON_LEAVE finds the tag recorded.          *)
LEMMA AloneTells ==
    ASSUME IInv, EnterListedFirst, NEW c \in Thread, NEW a \in Area,
           NEW i \in checks[c].left[a], CheckConfiguration(c, a, i), checks[c].alone
    PROVE  LET cell == CellOf(checks[c], a)
           IN  \/ history' = history /\ event' = <<>>
               \/ /\ cell \notin history /\ history' = history \cup {cell}
                  /\ event' = <<"ON_ENTER", cell[1], cell[2]>>
               \/ /\ cell \in history /\ history' = history \ {cell}
                  /\ event' = <<"ON_LEAVE", cell[1], cell[2]>>
<1> DEFINE check == checks[c]
           v == <<a, check.loaded[a]>>
           t == check.tag
           mode == Configurations[a][i].mode
           F == FilteredConfigurations(t, a)
<1>1. CellOf(check, a) = <<t, v>>
  BY DEF CellOf
<1>2. i \in F /\ t \in Tag /\ mode \in Mode
  <2>1. i \in F
    BY DEF IInv, TypeOK
  <2>2. QED
    BY <2>1, Configuration, CheckHasTag DEF IInv
<1>3. CASE Seen(check, a, i)
  <2>1. Inside(t, v, mode)
    BY <1>3 DEF CheckConfiguration, Seen
  <2>2. ASSUME mode = "ON_LEAVE" PROVE HasCell(t, v)
    <3>1. PICK k \in F : Guards(t, a, k, i)
      BY <1>2, <2>2 DEF EnterListedFirst
    <3>2. k \notin check.left[a]
      <4>1. k < i /\ k \in Nat /\ i \in Nat
        BY <1>2, <3>1, Configuration DEF Guards
      <4>2. QED
        BY <4>1, Progress DEF IInv
    <3>3. QED
      BY <1>1, <1>3, <3>1, <3>2 DEF IInv, Entered, Recorded, HasCell
  <2>3. HasCell(t, v) => HasRow(t)
    BY DEF HasCell, HasRow
  <2>4. QED
    BY <1>1, <1>2, <2>1, <2>2, <2>3
       DEF Inside, EnterFirst, EnterAnother, UpdateTime, AddNew, ShouldSendOnEnter,
           Nothing, HasCell, Mode
<1>4. CASE ~Seen(check, a, i)
  <2>1. Outside(t, v, mode)
    BY <1>4 DEF CheckConfiguration, Seen
  <2>2. QED
    BY <1>1, <2>1 DEF Outside, LeaveArea, ShouldSendOnLeave, Nothing, HasCell
<1>5. QED
  BY <1>3, <1>4

LEMMA PresenceStep ==
    ASSUME IInv, EnterListedFirst, [Next]_vars
    PROVE  [Presence!Next]_(Presence!vars)
<1>1. ASSUME NEW c \in Thread, NEW a \in Area, NEW i \in checks[c].left[a],
             CheckConfiguration(c, a, i)
      PROVE  Presence!Next
  <2>1. \A d \in Thread : checks'[d].tag = checks[d].tag /\ checks'[d].alone = checks[d].alone
    BY <1>1, Progress DEF IInv
  <2>2. Overlapped' = Overlapped
    BY <2>1 DEF Overlapped
  <2>3. checks[c].tag \in Tag /\ <<a, checks[c].loaded[a]>> \in Version
    BY <1>1, CheckHasTag, CellType DEF IInv
  <2>4. CASE checks[c].alone
    <3>1. CellOf(checks[c], a) = <<checks[c].tag, <<a, checks[c].loaded[a]>>>>
      BY DEF CellOf
    <3>2. \/ history' = history /\ event' = <<>>
          \/ Presence!Enter(checks[c].tag, <<a, checks[c].loaded[a]>>)
          \/ Presence!Leave(checks[c].tag, <<a, checks[c].loaded[a]>>)
      BY <1>1, <2>2, <2>4, <3>1, AloneTells DEF Presence!Enter, Presence!Leave, Overlapped
    <3>3. history' = history /\ event' = <<>> => Presence!Forget
      BY <2>2 DEF Presence!Forget, Overlapped
    <3>4. QED
      BY <2>3, <3>2, <3>3 DEF Presence!Next
  <2>5. CASE ~checks[c].alone
    <3>1. checks[c].tag \in Overlapped
      BY <2>3, <2>5 DEF Overlapped
    <3>2. \A x \in (history \cup history') \ (history \cap history') : x = CellOf(checks[c], a)
      BY <1>1, Effect DEF IInv
    <3>3. \A x \in (history \cup history') \ (history \cap history') : x[1] = checks[c].tag
      BY <3>2 DEF CellOf
    <3>4. event' # <<>> => event'[2] = checks[c].tag
      BY <1>1, Telling DEF IInv
    <3>5. Presence!Confuse(checks[c].tag)
      BY <2>2, <3>1, <3>3, <3>4 DEF Presence!Confuse, Overlapped
    <3>6. QED
      BY <2>3, <3>5 DEF Presence!Next
  <2>6. QED
    BY <2>4, <2>5
<1>2. CASE \/ \E c \in Thread : SendAreaEvents(c)
           \/ \E c \in Thread, t \in Tag, p \in Place : AfterCalculationDone(c, t, p)
  <2>1. history' = history /\ event' = <<>> /\ Overlapped' \in SUBSET Tag
    BY <1>2 DEF SendAreaEvents, AfterCalculationDone, Overlapped
  <2>2. QED
    BY <2>1 DEF Presence!Next, Presence!Overlap, Overlapped
<1>3. CASE \/ \E cell \in Cell : FallOutdated(cell)
           \/ StartUpdateData \/ UpdateData
           \/ \E a \in Area : EditArea(a)
  <2>1. history' \in SUBSET history /\ event' = <<>> /\ checks' = checks
    BY <1>3 DEF FallOutdated, StartUpdateData, UpdateData, EditArea
  <2>2. Overlapped' = Overlapped
    BY <2>1 DEF Overlapped
  <2>3. QED
    BY <2>1, <2>2 DEF Presence!Next, Presence!Forget, Overlapped
<1>4. CASE UNCHANGED vars
  BY <1>4 DEF vars, Presence!vars
<1>5. QED
  BY <1>1, <1>2, <1>3, <1>4 DEF Next, RunCheck

(* The events of any number of checks, areas and tags keep what AreaPresence *)
(* promises, provided every ON_LEAVE is listed behind an ON_ENTER: without   *)
(* that ON_LEAVE may be told of an area a tag comes into (checkCoordinates). *)
THEOREM PresenceRefinement ==
    ASSUME EnterListedFirst
    PROVE  Spec => KeepsPresence
<1>1. Init => Presence!Init
  <2>1. NoCheck.tag = NoTag
    BY DEF NoCheck
  <2>2. Init => \A c \in Thread : checks[c].tag \notin Tag
    BY <2>1, AreaAssumption DEF Init
  <2>3. QED
    BY <2>2 DEF Init, Presence!Init
<1>2. Init => IInv
  BY IInvInit
<1>3. IInv /\ [Next]_vars => IInv' /\ [Presence!Next]_(Presence!vars)
  BY IInvNext, PresenceStep
<1>4. QED
  BY <1>1, <1>2, <1>3, PTL DEF Spec, KeepsPresence, Presence!Spec
==============================================================================
