---------------------------- MODULE UpgradeControl ----------------------------
(***************************************************************************)
(* DeviceUpgrade closed with the requests and with the transfer of the     *)
(* file reduced to its effect on the network: it fails, or the file lands  *)
(* under its name, is checked, and the first device is told to start.      *)
(***************************************************************************)
EXTENDS DeviceUpgrade

VARIABLE stage      \* how far the upload of each request has come

vars == <<networkVars, deviceVars, stage>>

TypeOK ==
    /\ NetworkTypeOK
    /\ DeviceTypeOK
    /\ stage \in [Request -> {"none", "queued", "uploaded", "checked", "failed"}]

Init ==
    /\ NetworkInit
    /\ DeviceInit
    /\ stage = [r \in Request |-> "none"]

Settled ==
    /\ \A r \in Request : stage[r] \notin {"queued", "uploaded"}
    /\ DevicesSettled

(* prepareUpload accepts the next request. *)
Accept(r) ==
    /\ r = lastRequest + 1
    /\ Overlap \/ Settled
    /\ Enqueue(r)
    /\ stage' = [stage EXCEPT ![r] = "queued"]
    /\ UNCHANGED <<fileName, file, status, heard, minor, starts, deviceVars>>

(* doUpload and every part acknowledged. *)
Upload(r) ==
    /\ stage[r] = "queued"
    /\ stage' = [stage EXCEPT ![r] = "uploaded"]
    /\ fileName' = r
    /\ file' = r
    /\ UNCHANGED <<lastRequest, toUpdateIds, status, heard, minor, starts, deviceVars>>

(* Any of the errors IWS_004, 005, 006, 007 and 010 of the transfer: the     *)
(* orders of the request stay in the queue.                                  *)
UploadFails(r) ==
    /\ stage[r] \in {"queued", "uploaded"}
    /\ stage' = [stage EXCEPT ![r] = "failed"]
    /\ UNCHANGED <<networkVars, deviceVars>>

(* The file is listed under the network's file name and its sums match: the  *)
(* first order of the queue is started.                                      *)
UploadChecked(r) ==
    /\ stage[r] = "uploaded"
    /\ fileName = r
    /\ stage' = [stage EXCEPT ![r] = "checked"]
    /\ SendStartUpgrade(r) \/ StartUpgradeOfNothing
    /\ UNCHANGED deviceVars

UploadNext ==
    \E r \in Request : Accept(r) \/ Upload(r) \/ UploadFails(r) \/ UploadChecked(r)

Next == UploadNext \/ (DeviceNext /\ UNCHANGED stage)

(* The executor runs what was submitted to it, get() returns or times out,   *)
(* the interval timer keeps firing and time passes. Nothing is assumed of    *)
(* the devices or of the frontends.                                          *)
Fairness ==
    /\ \A o \in Order : WF_vars(RunTask(o) /\ UNCHANGED stage)
    /\ WF_vars(UpdateStatuses /\ UNCHANGED stage)
    /\ \A d \in Device : WF_vars(RestartAges(d) /\ UNCHANGED stage)

Spec == Init /\ [][Next]_vars
FairSpec == Spec /\ Fairness

------------------------------------------------------------------------------
Orders == INSTANCE UpgradeOrders WITH
    placed  <- {o \in Order : o.req <= lastRequest},
    waiting <- OrdersIn(toUpdateIds),
    started <- StartedOrders

(* Every order is started at most once or dropped, never started after it    *)
(* was dropped and never twice, whatever the handlers and the unlocked tasks *)
(* do to the shared queue (Network.toUpdateIds, sendStartUpgrade,            *)
(* checkIfLastThenClear).                                                    *)
OrdersKept == Orders!Spec

(* A device does not stay RESTARTING for ever, unless it keeps answering the *)
(* version handshakes of the timer (checkOutdatedDeviceStatus).              *)
RestartingEnds ==
    \A d \in Device :
        \/ []<>(status[d] # "RESTARTING")
        \/ []<><<VersionCommand(d) /\ UNCHANGED stage>>_vars

(* The task submitted for a firmware ACK always comes to its finally block,  *)
(* so no executor thread is lost to a device that never comes back.          *)
TasksEnd == \A o \in Order : (task[o] = "submitted") ~> (task[o] = "ended")

(* The comment in handleFirmwareAck: "if after AFTER_UPDATE_WAIT_TIME_SECONDS*)
(* future is completed then it means update successfuly applied". A device   *)
(* its task reports as updated has installed the file it acknowledged.       *)
CompletedMeansApplied ==
    \A o \in Order : task[o] \in {"updated", "online"} => o \in installed

==============================================================================
