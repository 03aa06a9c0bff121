------------------------------ MODULE Frontends ------------------------------
(***************************************************************************)
(* The sessions of frontends with the calculator, and the loop of          *)
(* sendCoordinates over them: each frontend is sent, of the coordinates    *)
(* taken out of the map, those of its floor and its tags.                  *)
(*                                                                         *)
(* frontendSessions is a HashMap used without a lock. The loop runs on a   *)
(* thread of the scheduler; sessions come, go and change their filters on  *)
(* threads of the server meanwhile. Whatever is thrown out of the loop     *)
(* ends it, for the frontends it has not reached as well, and the map of   *)
(* coordinates has been cleared by then.                                   *)
(***************************************************************************)
EXTENDS PositionCache, CoordinateBatch

CONSTANTS
    Frontend,       \* the sessions frontends open, each one once
    Nobody

ASSUME FrontendsAssumption == Nobody \notin Frontend

VARIABLES
    link,           \* link[x]: whether x is connected, as it knows itself
    filter,         \* frontendSessions: filter[x], or NoFilter
    round,          \* the loop: its coordinates, whom it has left, whom it is
                    \* at; history: whether no frontend came, went or lacked a
                    \* floor while it ran
    asked,          \* history: asked[x]: the tags x wants, by its commands
    doubled,        \* history: frontends that set a tag they had set before
    owed            \* history: who is still to be sent what, in this loop

frontVars == <<link, filter, round, asked, doubled, owed>>

NoFilter == [floor |-> NoFloor, tags |-> [g \in Tag |-> 0]]
Filter == [floor : Place, tags : [Tag -> Nat]]
NoRound == [batch |-> {}, left |-> {}, at |-> Nobody, quiet |-> TRUE]

Known == {x \in Frontend : link[x] \in {"up", "lost"}}

FrontTypeOK ==
    /\ link \in [Frontend -> {"new", "up", "lost", "closed"}]
    /\ filter \in [Frontend -> Filter]
    /\ \A x \in Frontend \ Known : filter[x] = NoFilter
    /\ round \in [batch : SUBSET sent, left : SUBSET Known,
                  at : Frontend \cup {Nobody}, quiet : BOOLEAN]
    /\ asked \in [Frontend -> SUBSET Tag]
    /\ doubled \subseteq Frontend
    /\ owed \subseteq Known \X sent

FrontInit ==
    /\ link = [x \in Frontend |-> "new"]
    /\ filter = [x \in Frontend |-> NoFilter]
    /\ round = NoRound
    /\ asked = [x \in Frontend |-> {}] /\ doubled = {}
    /\ owed = {}
------------------------------------------------------------------------------
(* Sessions.                                                                 *)

Disturbed == IF round = NoRound THEN NoRound ELSE [round EXCEPT !.quiet = FALSE]
Withdraw(x) == owed' = {p \in owed : p[1] # x}

(* afterConnectionEstablished. The loop meets the new entry or not; a put    *)
(* that makes the table grow hides the rest of it from the loop.             *)
Connect(x) ==
    /\ link[x] = "new"
    /\ link' = [link EXCEPT ![x] = "up"]
    /\ \/ round' = Disturbed /\ UNCHANGED owed
       \/ /\ round # NoRound
          /\ round' = [Disturbed EXCEPT !.left = @ \cup {x}]
          /\ UNCHANGED owed
       \/ /\ round # NoRound
          /\ round' = [Disturbed EXCEPT !.left = {}]
          /\ owed' = {p \in owed : p[1] = round.at}
    /\ UNCHANGED <<filter, asked, doubled>>

Lose(x) ==
    /\ link[x] = "up"
    /\ link' = [link EXCEPT ![x] = "lost"]
    /\ round' = Disturbed
    /\ Withdraw(x)
    /\ UNCHANGED <<filter, asked, doubled>>

(* afterConnectionClosed.                                                    *)
Disconnect(x) ==
    /\ link[x] = "lost"
    /\ link' = [link EXCEPT ![x] = "closed"]
    /\ filter' = [filter EXCEPT ![x] = NoFilter]
    /\ asked' = [asked EXCEPT ![x] = {}]
    /\ round' = [Disturbed EXCEPT !.left = @ \ {x}]
    /\ UNCHANGED <<doubled, owed>>
------------------------------------------------------------------------------
(* handleFrontendMessage.                                                    *)
Times(x, g) == filter[x].tags[g]

SetFloor(x, f) ==
    /\ link[x] = "up"
    /\ filter' = [filter EXCEPT ![x].floor = f]
    /\ Withdraw(x)
    /\ UNCHANGED <<link, round, asked, doubled>>

(* Adding to the list what is in it.                                         *)
AddsOnly(x, g) == Times(x, g) + 1

(* remove takes one of the list.                                             *)
Toggled(x, g) == IF Times(x, g) > 0 THEN Times(x, g) - 1 ELSE 1

ToggleTag(x, g) ==
    /\ link[x] = "up"
    /\ filter' = [filter EXCEPT ![x].tags[g] = Toggled(x, g)]
    /\ asked' = [asked EXCEPT ![x] = IF g \in @ THEN @ \ {g} ELSE @ \cup {g}]
    /\ Withdraw(x)
    /\ UNCHANGED <<link, round, doubled>>

(* addAll.                                                                   *)
Appended(x, T) == [g \in Tag |-> IF g \in T THEN Times(x, g) + 1 ELSE Times(x, g)]

SetTags(x, T) ==
    /\ link[x] = "up"
    /\ filter' = [filter EXCEPT ![x].tags = Appended(x, T)]
    /\ asked' = [asked EXCEPT ![x] = @ \cup T]
    /\ doubled' = IF T \cap asked[x] = {} THEN doubled ELSE doubled \cup {x}
    /\ Withdraw(x)
    /\ UNCHANGED <<link, round>>
------------------------------------------------------------------------------
(* sendCoordinates, after getCoordinatesToSend has copied and cleared.       *)
Unready == {x \in Known : link[x] = "lost" \/ filter[x].floor = NoFloor}
Wants(x, c) ==
    /\ link[x] = "up" /\ x \notin doubled
    /\ filter[x].floor = c.floor /\ c.tag \in asked[x]

BeginRound(batch) ==
    /\ round' = IF Known = {} THEN NoRound
                ELSE [batch |-> batch, left |-> Known, at |-> Nobody,
                      quiet |-> Unready = {}]
    /\ owed' = {p \in Known \X batch : Wants(p[1], p[2])}
    /\ UNCHANGED <<link, filter, asked, doubled>>

Reach(x) ==
    /\ round.at = Nobody /\ x \in round.left
    /\ round' = [round EXCEPT !.left = @ \ {x}, !.at = x]
    /\ UNCHANGED <<link, filter, asked, doubled, owed>>

Past == IF round.left = {} THEN NoRound ELSE [round EXCEPT !.at = Nobody]

(* isSessionAllowedToReceiveCoordinates.                                     *)
Allowed(x, c) == filter[x].floor = c.floor /\ Times(x, c.tag) > 0

Deliver(x) ==
    /\ round.at = x /\ link[x] = "up" /\ filter[x].floor # NoFloor
    /\ owed' = owed \ ({x} \X {c \in round.batch : Allowed(x, c)})
    /\ round' = Past
    /\ UNCHANGED <<link, filter, asked, doubled>>

(* Letting it out of the loop.                                               *)
NotCaught == NoRound

(* The IOException is caught for each frontend.                              *)
AfterIOException == Past

NotSent(x) ==
    /\ round.at = x /\ link[x] # "up"
    /\ link[x] = "lost" => filter[x].floor # NoFloor
    /\ round' = AfterIOException
    /\ UNCHANGED <<link, filter, asked, doubled, owed>>

(* A null floor, a filter removed meanwhile, a session closed meanwhile:     *)
(* what is thrown then is not caught.                                        *)
CutShort(x) ==
    /\ round.at = x
    /\ link[x] # "up" \/ filter[x].floor = NoFloor
    /\ round' = NoRound
    /\ owed' = IF round.quiet THEN owed ELSE {}
    /\ UNCHANGED <<link, filter, asked, doubled>>
------------------------------------------------------------------------------
(* What is taken out of the map reaches every frontend that wanted it by     *)
(* then and did not change its mind, whatever connections are lost; a loop   *)
(* is cut short only when a frontend came, went or had no floor. One that    *)
(* set a tag twice may have toggled it on and have it off.                   *)
EachDelivered ==
    \A p \in owed : p[2] \in round.batch /\ p[1] \in round.left \cup {round.at}

(* No loop finds that a frontend is to be sent a tag it does not want,       *)
(* whichever way it was set and toggled, unless the frontend set a tag       *)
(* twice: the list then holds it twice.                                      *)
OnlyAsked ==
    \A x \in Known \ doubled, c \in round.batch : Allowed(x, c) => c.tag \in asked[x]
==============================================================================
