--------------------------- MODULE CoordinateBatch ---------------------------
(***************************************************************************)
(* CoordinatesService of the calculator: the queue of coordinates to save  *)
(* and the map of coordinates to send. Threads that handle measures fill   *)
(* both while two scheduled tasks, on a pool of two threads, empty them: a *)
(* task never overlaps itself, and one that throws is run again later.     *)
(***************************************************************************)
VARIABLES
    coordinatesToSave,  \* the queue
    saving,             \* the save task: its step and the batch it inserts
    saved,              \* the numbers of the coordinates in the database
    coordinatesToSend,  \* the map by tag, as the set of its values
    sending,            \* the send task: its step and what it copied
    sent,               \* the coordinates given to the frontends
    queued,             \* history: every coordinate ever queued to save
    behind,             \* history: queued behind a batch that was collected
    repeated,           \* history: inserted again
    unanswered,         \* history: inserted by a statement that seemed to fail
    put,                \* history: every coordinate ever put to send
    superseded,         \* history: replaced in the map before they were sent
    overlooked          \* history: put into the map behind a copy

saveVars == <<coordinatesToSave, saving, saved, queued, behind, repeated, unanswered>>
sendVars == <<coordinatesToSend, sending, sent, put, superseded, overlooked>>
batchVars == <<saveVars, sendVars>>

Resting == [step |-> "idle", batch |-> {}]

BatchTypeOK(Coordinate) ==
    /\ coordinatesToSave \subseteq Coordinate
    /\ saving \in [step : {"idle", "execute", "clear"}, batch : SUBSET queued]
    /\ saved \cup behind \subseteq queued /\ queued \subseteq Coordinate
    /\ repeated \cup unanswered \subseteq saved
    /\ coordinatesToSend \subseteq put
    /\ \A c, d \in coordinatesToSend : c.tag = d.tag => c = d
    /\ sending \in [step : {"idle", "clear"}, batch : SUBSET put]
    /\ put \subseteq Coordinate
    /\ sent \cup superseded \cup overlooked \subseteq put

BatchInit ==
    /\ coordinatesToSave = {} /\ saving = Resting /\ saved = {}
    /\ coordinatesToSend = {} /\ sending = Resting /\ sent = {}
    /\ queued = {} /\ behind = {} /\ repeated = {} /\ unanswered = {}
    /\ put = {} /\ superseded = {} /\ overlooked = {}
------------------------------------------------------------------------------
(* add, its two halves.                                                      *)
AddToSave(c) ==
    /\ coordinatesToSave' = coordinatesToSave \cup {c}
    /\ queued' = queued \cup {c}
    /\ behind' = IF saving.step = "idle" THEN behind ELSE behind \cup {c}
    /\ UNCHANGED <<saving, saved, repeated, unanswered, sendVars>>

OfTag(g) == {c \in coordinatesToSend : c.tag = g}

PutToSend(c) ==
    /\ coordinatesToSend' = (coordinatesToSend \ OfTag(c.tag)) \cup {c}
    /\ put' = put \cup {c}
    /\ superseded' = superseded \cup (OfTag(c.tag) \ sending.batch)
    /\ overlooked' = IF sending.step = "idle" THEN overlooked ELSE overlooked \cup {c}
    /\ UNCHANGED <<sending, sent, saveVars>>
------------------------------------------------------------------------------
(* saveStoredCoordinates.                                                    *)
Collect ==
    /\ saving.step = "idle" /\ coordinatesToSave # {}
    /\ saving' = [step |-> "execute", batch |-> coordinatesToSave]
    /\ UNCHANGED <<coordinatesToSave, saved, queued, behind, repeated, unanswered, sendVars>>

(* The database takes the batch, as one statement, when every floor in it    *)
(* is one of F.                                                              *)
Accepted(F) == \A c \in saving.batch : c.floor \in F

Inserted ==
    /\ saved' = saved \cup saving.batch
    /\ repeated' = repeated \cup (saving.batch \cap saved)

Insert(F) ==
    /\ saving.step = "execute" /\ Accepted(F)
    /\ Inserted
    /\ saving' = [saving EXCEPT !.step = "clear"]
    /\ UNCHANGED <<coordinatesToSave, queued, behind, unanswered, sendVars>>

(* Going on to clear after a failed statement, or never running again.       *)
ClearsAnyway == "clear"
NotRunAgain == "suspended"

(* The error handler of the scheduler logs, and the task is run again.       *)
AfterFailure == "idle"

(* execute throws: the batch stays queued for the next run of the task.      *)
Throw ==
    /\ saving' = [step |-> AfterFailure, batch |-> {}]
    /\ behind' = behind \ coordinatesToSave
    /\ UNCHANGED <<coordinatesToSave, queued, sendVars>>

InsertFails(F) ==
    /\ saving.step = "execute"
    /\ Throw
    /\ UNCHANGED <<saved, repeated, unanswered>>

(* ... though the database has committed and only its answer was lost.       *)
InsertUnanswered(F) ==
    /\ saving.step = "execute" /\ Accepted(F)
    /\ Inserted
    /\ unanswered' = unanswered \cup saving.batch
    /\ Throw

(* clearCoordinatesToSave.                                                   *)
ClearToSave ==
    /\ saving.step = "clear"
    /\ coordinatesToSave' = {}
    /\ saving' = Resting
    /\ UNCHANGED <<saved, queued, behind, repeated, unanswered, sendVars>>
------------------------------------------------------------------------------
(* getCoordinatesToSend, called by sendCoordinates.                          *)
Copy ==
    /\ sending.step = "idle" /\ coordinatesToSend # {}
    /\ sending' = [step |-> "clear", batch |-> coordinatesToSend]
    /\ UNCHANGED <<coordinatesToSend, sent, put, superseded, overlooked, saveVars>>

(* Leaving what was copied in the map.                                       *)
NotCleared == coordinatesToSend
Cleared == {}

ClearToSend ==
    /\ sending.step = "clear"
    /\ coordinatesToSend' = Cleared
    /\ sent' = sent \cup sending.batch
    /\ sending' = Resting
    /\ UNCHANGED <<put, superseded, overlooked, saveVars>>
------------------------------------------------------------------------------
(* A coordinate waits in the queue until it is in the database, however the  *)
(* tasks overlap and inserts fail; only one queued behind a batch that was   *)
(* being saved can be lost, and only one whose insert was not answered can   *)
(* be saved twice.                                                           *)
EachSaved ==
    /\ queued \subseteq coordinatesToSave \cup saved \cup behind
    /\ repeated \subseteq unanswered

(* A coordinate is sent once, unless a newer one of its tag came first or it *)
(* was put behind the copy the send task made.                               *)
EachSent ==
    /\ put \subseteq coordinatesToSend \cup sending.batch \cup sent
                     \cup superseded \cup overlooked
    /\ sending.batch \cap sent = {}
==============================================================================
