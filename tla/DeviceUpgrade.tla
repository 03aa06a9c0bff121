---------------------------- MODULE DeviceUpgrade ----------------------------
(***************************************************************************)
(* The upgrade of the devices of one network, from the Start command to    *)
(* the device reported as UPDATED: InfoWebSocket.handleFirmwareUpdate,     *)
(* handleFirmwareAck, onDeviceTurnOn, updateVersion, the BEACON command    *)
(* and the timer updateStatuses.                                           *)
(*                                                                         *)
(* InfoWebSocket is an EJB singleton: its message handlers and its timer   *)
(* hold the bean's lock, so each is one action.  The task handleFirmwareAck*)
(* submits runs on the executor WITHOUT that lock: each of its accesses to *)
(* shared state is an action of its own and interleaves with the handlers. *)
(*                                                                         *)
(* Time is abstracted to what the code compares: heard and restartOld say  *)
(* on which side of 30 seconds a date lies, the 60 second wait ends when   *)
(* WaitTimesOut fires, and timerSeen keeps the one relation between the    *)
(* two clocks that matters: a wait of 60 seconds sees at most one run of a *)
(* timer whose period is 90 seconds.                                       *)
(*                                                                         *)
(* The devices are external: they answer a Start with an ACK or an abort,  *)
(* install what they acknowledged, and may power up or report their        *)
(* version at any time.  Where requests and files come from is left to the *)
(* modules that extend this one: UpgradeControl, where the transfer of a   *)
(* file is one step, and FirmwareUpdate, with the whole transfer.          *)
(***************************************************************************)
EXTENDS UpdateNetwork

VARIABLES
    \* --- DeviceStatus
    restartCount,   \* restartCount
    versionChecks,  \* checkVersionAfterRestartCount
    restartOld,     \* restartingStartedTime is older than 30 seconds
    promise,        \* which updateFinished future is current (0, 1, 2, ...)
    completed,      \* the updateFinished futures that were completed
    \* --- the task handleFirmwareAck submits for an order's ACK
    task,           \* where the task is
    awaited,        \* the future its get() waits on
    timerSeen,      \* updateStatuses has run since get() began to wait
    \* --- the devices (external)
    running,        \* the partition the device really runs
    installing,     \* the order the device has acknowledged and may install
    acked, aborted, installed

deviceVars == <<restartCount, versionChecks, restartOld, promise, completed,
                task, awaited, timerSeen, running, installing, acked, aborted,
                installed>>

TaskState == {"none", "submitted", "waiting", "updated", "online", "peeking",
              "polling", "clearing", "ending", "ended"}

DeviceTypeOK ==
    /\ restartCount \in [Device -> 0..1]
    /\ versionChecks \in [Device -> 0..2]
    /\ restartOld \in [Device -> BOOLEAN]
    /\ promise \in [Device -> Nat]
    /\ completed \in [Device -> SUBSET Nat]
    /\ task \in [Order -> TaskState]
    /\ awaited \in [Order -> Nat]
    /\ timerSeen \in [Order -> BOOLEAN]
    /\ running \in [Device -> Partition]
    /\ installing \in [Device -> SUBSET Order]
    /\ acked \in SUBSET Order
    /\ aborted \in SUBSET Order
    /\ installed \in SUBSET Order

DeviceInit ==
    /\ restartCount = [d \in Device |-> 0]
    /\ versionChecks = [d \in Device |-> 0]
    /\ restartOld = [d \in Device |-> FALSE]
    /\ promise = [d \in Device |-> 0]
    /\ completed = [d \in Device |-> {}]
    /\ task = [o \in Order |-> "none"]
    /\ awaited = [o \in Order |-> 0]
    /\ timerSeen = [o \in Order |-> FALSE]
    /\ running = minor
    /\ installing = [d \in Device |-> {}]
    /\ acked = {}
    /\ aborted = {}
    /\ installed = {}

------------------------------------------------------------------------------
(* The devices.                                                              *)

(* The device installs the file it acknowledged into the partition named. *)
Install(d) ==
    /\ \E s \in starts :
        /\ s.order \in installing[d]
        /\ running' = [running EXCEPT ![d] = s.partition]
        /\ installed' = installed \cup {s.order}
    /\ installing' = [installing EXCEPT ![d] = {}]
    /\ UNCHANGED <<networkVars, restartCount, versionChecks, restartOld, promise,
                   completed, task, awaited, timerSeen, acked, aborted>>

(* Thirty seconds pass without news from the device. The date is read of an  *)
(* ONLINE device only, so its age may as well show once the device is ONLINE.*)
FallSilent(d) ==
    /\ status[d] = "ONLINE"
    /\ heard[d]
    /\ heard' = [heard EXCEPT ![d] = FALSE]
    /\ UNCHANGED <<lastRequest, toUpdateIds, fileName, file, status, minor, starts,
                   deviceVars>>

(* Thirty seconds pass since the device began to restart. *)
RestartAges(d) ==
    /\ status[d] = "RESTARTING"
    /\ ~restartOld[d]
    /\ restartOld' = [restartOld EXCEPT ![d] = TRUE]
    /\ UNCHANGED <<networkVars, restartCount, versionChecks, promise, completed,
                   task, awaited, timerSeen, running, installing, acked, aborted,
                   installed>>

------------------------------------------------------------------------------
(* Message handlers and the timer: atomic, under the lock of InfoWebSocket.  *)

(* An ACK taken again and again, as if those on the way to the device (toward *)
(* above 0) counted as well.                                                 *)
FirmwareAckEachTime(o) ==
    /\ o \in StartedOrders \ aborted
    /\ task[o] \in {"none", "ended"}
    /\ acked' = acked \cup {o}
    /\ installing' = [installing EXCEPT ![o.device] = {o}]
    /\ task' = [task EXCEPT ![o] = "submitted"]
    /\ UNCHANGED <<networkVars, restartCount, versionChecks, restartOld, promise,
                   completed, awaited, timerSeen, running, aborted, installed>>

(* handleFirmwareAck with toward = 0: the task is submitted to the executor. *)
FirmwareAck(o) ==
    /\ o \in StartedOrders \ (acked \cup aborted)
    /\ acked' = acked \cup {o}
    /\ installing' = [installing EXCEPT ![o.device] = {o}]
    /\ task' = [task EXCEPT ![o] = "submitted"]
    /\ UNCHANGED <<networkVars, restartCount, versionChecks, restartOld, promise,
                   completed, awaited, timerSeen, running, aborted, installed>>

(* handleFirmwareUpdate, INFO with ABORTED or BAD_FIRMWARE_VERSION: the      *)
(* device is ONLINE again and IWS_009 or IWS_013 is sent; nothing else, so   *)
(* the orders behind this one stay where they are.                           *)
FirmwareAborted(o) ==
    /\ o \in StartedOrders \ (aborted \cup installed)
    /\ aborted' = aborted \cup {o}
    /\ installing' = [installing EXCEPT ![o.device] = @ \ {o}]
    /\ status' = [status EXCEPT ![o.device] = "ONLINE"]
    /\ UNCHANGED <<lastRequest, toUpdateIds, fileName, file, heard, minor, starts,
                   restartCount, versionChecks, restartOld, promise, completed,
                   task, awaited, timerSeen, running, acked, installed>>

ProperFirmwareVersion(d) == minor[d] # running[d]

(* The count left at two when the firmware turns out to be the old one. *)
TurnOnKeepingCount(d) ==
    LET count == restartCount[d] + 1 IN
    /\ status[d] = "RESTARTING"
    /\ restartCount' = [restartCount EXCEPT ![d] = count]
    /\ status' = [status EXCEPT ![d] = IF count = 2 THEN "ONLINE" ELSE @]
    /\ UNCHANGED <<minor, completed, versionChecks>>

(* onDeviceTurnOn of a RESTARTING device. The second turn-on decides: a new  *)
(* partition completes updateFinished, the old one is reported as IWS_011.   *)
TurnOnRestarting(d) ==
    LET count == restartCount[d] + 1 IN
    /\ status[d] = "RESTARTING"
    /\ \/ /\ count < 2
          /\ restartCount' = [restartCount EXCEPT ![d] = count]
          /\ UNCHANGED <<status, minor, completed>>
       \/ /\ count = 2
          /\ ProperFirmwareVersion(d)
          /\ restartCount' = [restartCount EXCEPT ![d] = 0]
          /\ minor' = [minor EXCEPT ![d] = running[d]]
          /\ completed' = [completed EXCEPT ![d] = @ \cup {promise[d]}]
          /\ UNCHANGED status
       \/ /\ count = 2
          /\ ~ProperFirmwareVersion(d)
          /\ restartCount' = [restartCount EXCEPT ![d] = 0]
          /\ status' = [status EXCEPT ![d] = "ONLINE"]
          /\ UNCHANGED <<minor, completed>>
    /\ UNCHANGED versionChecks

(* onDeviceTurnOn of an OFFLINE device: it is ONLINE, its counts start over. *)
TurnOnOffline(d) ==
    /\ status[d] = "OFFLINE"
    /\ status' = [status EXCEPT ![d] = "ONLINE"]
    /\ restartCount' = [restartCount EXCEPT ![d] = 0]
    /\ versionChecks' = [versionChecks EXCEPT ![d] = 0]
    /\ minor' = [minor EXCEPT ![d] = running[d]]
    /\ UNCHANGED completed

TurnOnOnline(d) ==
    /\ status[d] = "ONLINE"
    /\ minor' = [minor EXCEPT ![d] = running[d]]
    /\ UNCHANGED <<status, restartCount, versionChecks, completed>>

(* onDeviceTurnOn of a registered device; one that is UPDATING or UPDATED is *)
(* not listened to.                                                          *)
DeviceTurnOn(d) ==
    /\ TurnOnRestarting(d) \/ TurnOnOffline(d) \/ TurnOnOnline(d)
    /\ UNCHANGED <<lastRequest, toUpdateIds, fileName, file, heard, starts,
                   restartOld, promise, task, awaited, timerSeen, running,
                   installing, acked, aborted, installed>>

(* CommandController, case VERSION: updateVersion saves the version and      *)
(* resets both counts of an ONLINE or RESTARTING device, and the case falls  *)
(* through into BEACON, which refreshes lastTimeUpdated of any device.       *)
VersionCommand(d) ==
    /\ IF status[d] \in {"ONLINE", "RESTARTING"}
       THEN /\ minor' = [minor EXCEPT ![d] = running[d]]
            /\ versionChecks' = [versionChecks EXCEPT ![d] = 0]
            /\ restartCount' = [restartCount EXCEPT ![d] = 0]
       ELSE UNCHANGED <<minor, versionChecks, restartCount>>
    /\ heard' = [heard EXCEPT ![d] = TRUE]
    /\ UNCHANGED <<lastRequest, toUpdateIds, fileName, file, status, starts,
                   restartOld, promise, completed, task, awaited, timerSeen,
                   running, installing, acked, aborted, installed>>

(* CommandController, case BEACON. *)
Beacon(d) ==
    /\ ~heard[d]
    /\ heard' = [heard EXCEPT ![d] = TRUE]
    /\ UNCHANGED <<lastRequest, toUpdateIds, fileName, file, status, minor, starts,
                   deviceVars>>

Silent(d) == status[d] = "ONLINE" /\ ~heard[d]
Overdue(d) == status[d] = "RESTARTING" /\ restartOld[d]
GivenUp(d) == Overdue(d) /\ versionChecks[d] = 2

(* A timer that asks for the version without counting. *)
UpdateStatusesNotCounting ==
    /\ \A o \in Order : task[o] = "waiting" => ~timerSeen[o]
    /\ status' = [d \in Device |->
                    IF Silent(d) \/ GivenUp(d) THEN "OFFLINE" ELSE status[d]]
    /\ timerSeen' = [o \in Order |-> task[o] = "waiting"]
    /\ UNCHANGED <<lastRequest, toUpdateIds, fileName, file, heard, minor, starts,
                   restartCount, versionChecks, restartOld, promise, completed,
                   task, awaited, running, installing, acked, aborted, installed>>

(* updateStatuses with checkOutdatedDeviceStatus on every device: a silent   *)
(* ONLINE device goes OFFLINE; a device that has not come back 30 seconds    *)
(* after it began to restart is asked for its version, twice, and then goes  *)
(* OFFLINE with IWS_014.                                                     *)
UpdateStatuses ==
    /\ \A o \in Order : task[o] = "waiting" => ~timerSeen[o]
    /\ status' = [d \in Device |->
                    IF Silent(d) \/ GivenUp(d) THEN "OFFLINE" ELSE status[d]]
    /\ versionChecks' = [d \in Device |->
                    IF GivenUp(d) THEN 0
                    ELSE IF Overdue(d) THEN versionChecks[d] + 1
                    ELSE versionChecks[d]]
    /\ timerSeen' = [o \in Order |-> task[o] = "waiting"]
    /\ UNCHANGED <<lastRequest, toUpdateIds, fileName, file, heard, minor, starts,
                   restartCount, restartOld, promise, completed, task, awaited,
                   running, installing, acked, aborted, installed>>

------------------------------------------------------------------------------
(* The task of handleFirmwareAck, step by step, without the lock.            *)

GoTo(o, next) == task' = [task EXCEPT ![o] = next]

BeginRestart(o) ==
    /\ task[o] = "submitted"
    /\ GoTo(o, "waiting")
    /\ status' = [status EXCEPT ![o.device] = "RESTARTING"]
    /\ restartOld' = [restartOld EXCEPT ![o.device] = FALSE]
    /\ awaited' = [awaited EXCEPT ![o] = promise[o.device]]
    /\ timerSeen' = [timerSeen EXCEPT ![o] = FALSE]
    /\ UNCHANGED <<lastRequest, toUpdateIds, fileName, file, heard, minor, starts,
                   restartCount, versionChecks, promise, completed, running,
                   installing, acked, aborted, installed>>

(* What get() held on to is gone when it returns. *)
StopWaiting(o) ==
    /\ awaited' = [awaited EXCEPT ![o] = 0]
    /\ timerSeen' = [timerSeen EXCEPT ![o] = FALSE]

Confirmed(o) == awaited[o] \in completed[o.device]

(* get() returns: the device is shown as UPDATED ... *)
UpdateFinished(o) ==
    /\ task[o] = "waiting"
    /\ Confirmed(o)
    /\ GoTo(o, "updated")
    /\ status' = [status EXCEPT ![o.device] = "UPDATED"]
    /\ StopWaiting(o)
    /\ UNCHANGED <<lastRequest, toUpdateIds, fileName, file, heard, minor, starts,
                   restartCount, versionChecks, restartOld, promise, completed,
                   running, installing, acked, aborted, installed>>

(* ... is ONLINE again and asked for a handshake ... *)
BackOnline(o) ==
    /\ task[o] = "updated"
    /\ GoTo(o, "online")
    /\ status' = [status EXCEPT ![o.device] = "ONLINE"]
    /\ UNCHANGED <<lastRequest, toUpdateIds, fileName, file, heard, minor, starts,
                   restartCount, versionChecks, restartOld, promise, completed,
                   awaited, timerSeen, running, installing, acked, aborted,
                   installed>>

(* ... and its last sign of life is now. *)
RefreshLastTime(o) ==
    /\ task[o] = "online"
    /\ GoTo(o, "peeking")
    /\ heard' = [heard EXCEPT ![o.device] = TRUE]
    /\ UNCHANGED <<lastRequest, toUpdateIds, fileName, file, status, minor, starts,
                   restartCount, versionChecks, restartOld, promise, completed,
                   awaited, timerSeen, running, installing, acked, aborted,
                   installed>>

PeekNext(o) ==
    /\ task[o] = "peeking"
    /\ GoTo(o, IF toUpdateIds = <<>> THEN "clearing" ELSE "polling")
    /\ UNCHANGED <<networkVars, restartCount, versionChecks, restartOld, promise,
                   completed, awaited, timerSeen, running, installing, acked,
                   aborted, installed>>

(* sendStartUpgrade for the next device; if another task took the order seen *)
(* by peek(), the exception leaves for the finally block.                    *)
StartNext(o) ==
    /\ task[o] = "polling"
    /\ \/ SendStartUpgrade(fileName) /\ GoTo(o, "clearing")
       \/ StartUpgradeOfNothing /\ GoTo(o, "ending")
    /\ UNCHANGED <<restartCount, versionChecks, restartOld, promise, completed,
                   awaited, timerSeen, running, installing, acked, aborted,
                   installed>>

ClearIfLast(o) ==
    /\ task[o] = "clearing"
    /\ CheckIfLastThenClear
    /\ GoTo(o, "ending")
    /\ UNCHANGED <<restartCount, versionChecks, restartOld, promise, completed,
                   awaited, timerSeen, running, installing, acked, aborted,
                   installed>>

(* A get() without a timeout. *)
WaitNeverTimesOut(o) == FALSE

(* Sixty seconds without confirmation: IWS_004. *)
WaitTimesOut(o) ==
    /\ task[o] = "waiting"
    /\ ~Confirmed(o)
    /\ GoTo(o, "ending")
    /\ StopWaiting(o)
    /\ UNCHANGED <<networkVars, restartCount, versionChecks, restartOld, promise,
                   completed, running, installing, acked, aborted, installed>>

(* The finally block: the count starts over and a new future is put in place. *)
EndTask(o) ==
    /\ task[o] = "ending"
    /\ GoTo(o, "ended")
    /\ restartCount' = [restartCount EXCEPT ![o.device] = 0]
    /\ promise' = [promise EXCEPT ![o.device] = @ + 1]
    /\ UNCHANGED <<networkVars, versionChecks, restartOld, completed, awaited,
                   timerSeen, running, installing, acked, aborted, installed>>

RunTask(o) ==
    \/ BeginRestart(o) \/ UpdateFinished(o) \/ BackOnline(o) \/ RefreshLastTime(o)
    \/ PeekNext(o) \/ StartNext(o) \/ ClearIfLast(o) \/ WaitTimesOut(o) \/ EndTask(o)

DeviceNext ==
    \/ \E d \in Device :
        \/ Install(d) \/ FallSilent(d) \/ RestartAges(d)
        \/ DeviceTurnOn(d) \/ VersionCommand(d) \/ Beacon(d)
    \/ \E o \in Order : FirmwareAck(o) \/ FirmwareAborted(o) \/ RunTask(o)
    \/ UpdateStatuses

(* Nothing is under way on the devices: the moment a careful operator waits  *)
(* for before sending the next update. The statuses do not tell it: an abort *)
(* of an earlier order that comes in late shows the device ONLINE although   *)
(* it has just been told to start.                                           *)
DevicesSettled ==
    /\ StartedOrders \subseteq acked \cup aborted
    /\ \A o \in Order : task[o] \in {"none", "ended"}

(* An order whose Start has been sent and whose outcome is still open, in    *)
(* the device or in the task that waits for it to restart.                   *)
InProgress(o) ==
    \/ o \in StartedOrders \ (acked \cup aborted)
    \/ task[o] \in {"submitted", "waiting", "updated", "online", "peeking", "polling"}
==============================================================================
