------------------------- MODULE FirmwareUpdateProofs -------------------------
(***************************************************************************)
(* The whole firmware update of a network, for any devices, requests, files*)
(* and room on the sink: the types, with or without overlapping requests,  *)
(* and, for requests that do not overlap, that one device is upgraded at a *)
(* time, with a file that is not older than the one it was ordered for and *)
(* that the sink has the whole of.                                         *)
(***************************************************************************)
EXTENDS FirmwareUpdate, FileTransferProofs

(* What the devices can only reach through the queue. *)
requestVars == <<lastRequest, toUpdateIds, fileName, file, starts>>

(* The upload of the last request has begun. *)
Begun == lastRequest \in Request /\ sender[lastRequest].at # "none"

LateAt(callbacks) == {i \in DOMAIN callbacks : callbacks[i].late}

(* The late stage of a transfer is still to run. *)
LatePending == LateAt(listFuture.callbacks) # {} \/ LateAt(firing.callbacks) # {}
Uploading == \E r \in Request : sender[r].at \in Active
Upgrading == \E o \in Order : InProgress(o)

(* Whatever the transfer still does, it does for the last request. *)
LastOnly ==
    /\ EarlyRequests(listFuture.callbacks) \subseteq {lastRequest}
    /\ EarlyRequests(firing.callbacks) \subseteq {lastRequest}
    /\ \A r \in Request : sender[r].at \in Active => r = lastRequest
    /\ \A i \in DOMAIN toSink :
         toSink[i].kind = "delete" => deletion.waiter \in {lastRequest, NoFile}

(* One late stage follows an upload. *)
LateOnce ==
    /\ \A i, j \in LateAt(listFuture.callbacks) : i = j
    /\ \A i, j \in LateAt(firing.callbacks) : i = j
    /\ LateAt(listFuture.callbacks) = {} \/ LateAt(firing.callbacks) = {}
    /\ LatePending => Begun /\ ~Uploading

(* The right to start a device is in one place: with an upload, with a late  *)
(* stage, or with the one device that is being upgraded.                     *)
OneStarter ==
    /\ Upgrading => Begun /\ ~Uploading /\ ~LatePending
    /\ OneUpgradeAtATime
    /\ \A o \in Order : task[o] # "none" => o \in acked

(* Once the last upload has begun its file is the one devices are started    *)
(* with, as long as there are any to start.                                  *)
LastFile ==
    /\ \A i \in DOMAIN toUpdateIds : toUpdateIds[i].req <= lastRequest
    /\ Begun => fileName = lastRequest \/ toUpdateIds = <<>>
    /\ NeverOlderFile

(* The file of an upload is on the sink, and in a list of its files, only    *)
(* after the upload has begun.                                               *)
NamedAfterBegun(files) ==
    \A i \in DOMAIN files : files[i].name \in Request => sender[files[i].name].at # "none"

(* What a list tells of the last file, the sink still has. *)
StillThere(files) ==
    \A i \in DOMAIN files : files[i].name = lastRequest =>
        \E j \in DOMAIN sinkFiles :
            sinkFiles[j].name = lastRequest /\ files[i].parts \subseteq sinkFiles[j].parts

LastKept ==
    /\ NamedAfterBegun(sinkFiles)
    /\ NamedAfterBegun(listFuture.list.files)
    /\ NamedAfterBegun(firing.list.files)
    /\ StillThere(listFuture.list.files)
    /\ StillThere(firing.list.files)
    /\ \A i \in DOMAIN toSink : toSink[i].kind = "delete" => toSink[i].name # lastRequest
    /\ Upgrading => FileWhole(lastRequest)

SerialInv == LastOnly /\ LateOnce /\ OneStarter /\ LastFile /\ LastKept

------------------------------------------------------------------------------
(* The steps of DeviceUpgrade that leave the queue alone: those of the       *)
(* devices, of the message handlers and of the timer.                        *)
LEMMA DeviceHandlers ==
    ASSUME NetworkTypeOK, DeviceTypeOK, NEW d \in Device,
           \/ Install(d) \/ FallSilent(d) \/ RestartAges(d)
           \/ DeviceTurnOn(d) \/ VersionCommand(d) \/ Beacon(d)
    PROVE  NetworkTypeOK' /\ DeviceTypeOK' /\ UNCHANGED requestVars
<1>1. CASE Install(d)
  <2>1. PICK s \in starts : /\ running' = [running EXCEPT ![d] = s.partition]
                            /\ installed' = installed \cup {s.order}
    BY <1>1 DEF Install
  <2>2. s.order \in Order /\ s.partition \in Partition
    BY DEF NetworkTypeOK, StartCommand
  <2>3. running' \in [Device -> Partition] /\ installed' \in SUBSET Order
    BY <2>1, <2>2 DEF DeviceTypeOK
  <2>4. installing' \in [Device -> SUBSET Order]
    BY <1>1 DEF Install, DeviceTypeOK
  <2>5. QED
    BY <1>1, <2>3, <2>4
    DEF Install, NetworkTypeOK, DeviceTypeOK, networkVars, requestVars
<1>2. CASE FallSilent(d) \/ Beacon(d)
  <2>1. heard' \in [Device -> BOOLEAN]
    BY <1>2 DEF FallSilent, Beacon, NetworkTypeOK
  <2>2. QED
    BY <1>2, <2>1
    DEF FallSilent, Beacon, NetworkTypeOK, DeviceTypeOK, deviceVars, requestVars
<1>3. CASE RestartAges(d)
  BY <1>3 DEF RestartAges, NetworkTypeOK, DeviceTypeOK, networkVars, requestVars
<1>4. CASE DeviceTurnOn(d)
  <2>1. /\ UNCHANGED requestVars
        /\ UNCHANGED <<fileName, file, heard, restartOld, promise, task, awaited,
                       timerSeen, running, installing, acked, aborted, installed>>
    BY <1>4 DEF DeviceTurnOn, requestVars
  <2>2. minor' \in [Device -> Partition] /\ status' \in [Device -> Status]
    BY <1>4 DEF DeviceTurnOn, TurnOnRestarting, TurnOnOffline, TurnOnOnline,
                NetworkTypeOK, DeviceTypeOK, Status
  <2>3. restartCount' \in [Device -> 0..1]
    BY <1>4 DEF DeviceTurnOn, TurnOnRestarting, TurnOnOffline, TurnOnOnline,
                DeviceTypeOK
  <2>4. versionChecks' \in [Device -> 0..2]
    BY <1>4 DEF DeviceTurnOn, TurnOnRestarting, TurnOnOffline, TurnOnOnline,
                DeviceTypeOK
  <2>5. completed' \in [Device -> SUBSET Nat]
    <3>1. completed[d] \cup {promise[d]} \in SUBSET Nat
      BY DEF DeviceTypeOK
    <3>2. QED
      BY <1>4, <3>1 DEF DeviceTurnOn, TurnOnRestarting, TurnOnOffline,
                        TurnOnOnline, DeviceTypeOK
  <2>6. QED
    BY <2>1, <2>2, <2>3, <2>4, <2>5 DEF NetworkTypeOK, DeviceTypeOK, requestVars
<1>5. CASE VersionCommand(d)
  <2>1. minor' \in [Device -> Partition] /\ heard' \in [Device -> BOOLEAN]
    BY <1>5 DEF VersionCommand, NetworkTypeOK, DeviceTypeOK
  <2>2. restartCount' \in [Device -> 0..1]
    BY <1>5 DEF VersionCommand, DeviceTypeOK
  <2>3. versionChecks' \in [Device -> 0..2]
    BY <1>5 DEF VersionCommand, DeviceTypeOK
  <2>4. QED
    BY <1>5, <2>1, <2>2, <2>3
    DEF VersionCommand, NetworkTypeOK, DeviceTypeOK, requestVars
<1>6. QED
  BY <1>1, <1>2, <1>3, <1>4, <1>5

(* updateStatuses looks at every device and touches no order.                *)
LEMMA DeviceTimer ==
    ASSUME NetworkTypeOK, DeviceTypeOK, UpdateStatuses
    PROVE  NetworkTypeOK' /\ DeviceTypeOK' /\ UNCHANGED requestVars
<1>1. status' \in [Device -> Status]
  BY DEF UpdateStatuses, NetworkTypeOK, Status
<1>2. versionChecks' \in [Device -> 0..2]
  BY DEF UpdateStatuses, DeviceTypeOK, GivenUp, Overdue
<1>3. timerSeen' \in [Order -> BOOLEAN]
  BY DEF UpdateStatuses
<1>4. QED
  BY <1>1, <1>2, <1>3 DEF UpdateStatuses, NetworkTypeOK, DeviceTypeOK, requestVars

(* The steps about one order that leave the queue alone: its ACK or abort    *)
(* and the steps of its task but the two that reach for the queue.           *)
LEMMA DeviceTasks ==
    ASSUME NetworkTypeOK, DeviceTypeOK, NEW o \in Order,
           \/ FirmwareAck(o) \/ FirmwareAborted(o) \/ BeginRestart(o)
           \/ UpdateFinished(o) \/ BackOnline(o) \/ RefreshLastTime(o)
           \/ PeekNext(o) \/ WaitTimesOut(o) \/ EndTask(o)
    PROVE  NetworkTypeOK' /\ DeviceTypeOK' /\ UNCHANGED requestVars
<1> o.device \in Device
  BY DEF Order
<1>1. CASE FirmwareAck(o)
  <2>1. /\ task' \in [Order -> TaskState]
        /\ acked' \in SUBSET Order
        /\ installing' \in [Device -> SUBSET Order]
    BY <1>1 DEF FirmwareAck, DeviceTypeOK, TaskState
  <2>2. QED
    BY <1>1, <2>1
    DEF FirmwareAck, NetworkTypeOK, DeviceTypeOK, networkVars, requestVars
<1>2. CASE FirmwareAborted(o)
  <2>1. /\ status' \in [Device -> Status]
        /\ aborted' \in SUBSET Order
        /\ installing' \in [Device -> SUBSET Order]
    BY <1>2 DEF FirmwareAborted, NetworkTypeOK, DeviceTypeOK, Status
  <2>2. QED
    BY <1>2, <2>1 DEF FirmwareAborted, NetworkTypeOK, DeviceTypeOK, requestVars
<1>3. CASE BeginRestart(o)
  <2>1. /\ task' \in [Order -> TaskState]
        /\ status' \in [Device -> Status]
        /\ restartOld' \in [Device -> BOOLEAN]
    BY <1>3 DEF BeginRestart, GoTo, NetworkTypeOK, DeviceTypeOK, Status, TaskState
  <2>2. awaited' \in [Order -> Nat] /\ timerSeen' \in [Order -> BOOLEAN]
    BY <1>3 DEF BeginRestart, DeviceTypeOK
  <2>3. QED
    BY <1>3, <2>1, <2>2 DEF BeginRestart, NetworkTypeOK, DeviceTypeOK, requestVars
<1>4. CASE UpdateFinished(o)
  <2>1. /\ task' \in [Order -> TaskState]
        /\ status' \in [Device -> Status]
        /\ awaited' \in [Order -> Nat]
        /\ timerSeen' \in [Order -> BOOLEAN]
    BY <1>4 DEF UpdateFinished, StopWaiting, GoTo, NetworkTypeOK, DeviceTypeOK,
                Status, TaskState
  <2>2. QED
    BY <1>4, <2>1 DEF UpdateFinished, NetworkTypeOK, DeviceTypeOK, requestVars
<1>5. CASE BackOnline(o) \/ RefreshLastTime(o)
  <2>1. /\ task' \in [Order -> TaskState]
        /\ status' \in [Device -> Status]
        /\ heard' \in [Device -> BOOLEAN]
    BY <1>5 DEF BackOnline, RefreshLastTime, GoTo, NetworkTypeOK, DeviceTypeOK,
                Status, TaskState
  <2>2. QED
    BY <1>5, <2>1
    DEF BackOnline, RefreshLastTime, NetworkTypeOK, DeviceTypeOK, requestVars
<1>6. CASE PeekNext(o)
  <2>1. task' \in [Order -> TaskState]
    BY <1>6 DEF PeekNext, GoTo, DeviceTypeOK, TaskState
  <2>2. QED
    BY <1>6, <2>1 DEF PeekNext, NetworkTypeOK, DeviceTypeOK, networkVars, requestVars
<1>7. CASE WaitTimesOut(o)
  <2>1. /\ task' \in [Order -> TaskState]
        /\ awaited' \in [Order -> Nat]
        /\ timerSeen' \in [Order -> BOOLEAN]
    BY <1>7 DEF WaitTimesOut, StopWaiting, GoTo, DeviceTypeOK, TaskState
  <2>2. QED
    BY <1>7, <2>1
    DEF WaitTimesOut, NetworkTypeOK, DeviceTypeOK, networkVars, requestVars
<1>8. CASE EndTask(o)
  <2>1. task' \in [Order -> TaskState]
    BY <1>8 DEF EndTask, GoTo, DeviceTypeOK, TaskState
  <2>2. restartCount' \in [Device -> 0..1]
    BY <1>8 DEF EndTask, DeviceTypeOK
  <2>3. promise' \in [Device -> Nat]
    BY <1>8 DEF EndTask, DeviceTypeOK
  <2>4. QED
    BY <1>8, <2>1, <2>2, <2>3
    DEF EndTask, NetworkTypeOK, DeviceTypeOK, networkVars, requestVars
<1>9. QED
  BY <1>1, <1>2, <1>3, <1>4, <1>5, <1>6, <1>7, <1>8


(* Starting the next device and clearing the queue. *)
LEMMA NextDevice ==
    ASSUME NetworkTypeOK, DeviceTypeOK, NEW o \in Order, StartNext(o) \/ ClearIfLast(o)
    PROVE  NetworkTypeOK' /\ DeviceTypeOK' /\ lastRequest' = lastRequest
<1>1. CASE StartNext(o)
  <2>1. DeviceTypeOK'
    BY <1>1 DEF StartNext, GoTo, DeviceTypeOK, TaskState
  <2>2. CASE SendStartUpgrade(fileName)
    <3>1. fileName \in Request \cup {NoFile}
      BY DEF NetworkTypeOK
    <3>2. QED
      BY <2>1, <2>2, <3>1, StartTypes
  <2>3. CASE StartUpgradeOfNothing
    BY <2>1, <2>3 DEF StartUpgradeOfNothing, NetworkTypeOK, networkVars
  <2>4. QED
    BY <1>1, <2>2, <2>3 DEF StartNext
<1>2. CASE ClearIfLast(o)
  <2>1. DeviceTypeOK'
    BY <1>2 DEF ClearIfLast, GoTo, DeviceTypeOK, TaskState
  <2>2. /\ toUpdateIds' \in {toUpdateIds, <<>>}
        /\ fileName' \in {fileName, NoFile} /\ file' \in {file, NoFile}
        /\ UNCHANGED <<lastRequest, status, heard, minor, starts>>
    BY <1>2 DEF ClearIfLast, CheckIfLastThenClear
  <2>3. <<>> \in Seq(Order)
    OBVIOUS
  <2>4. NetworkTypeOK'
    BY <2>2, <2>3 DEF NetworkTypeOK
  <2>5. QED
    BY <2>1, <2>2, <2>4
<1>3. QED
  BY <1>1, <1>2

(* Every step of the devices and of their tasks. *)
LEMMA DeviceStepTypes ==
    ASSUME NetworkTypeOK, DeviceTypeOK, DeviceStep
    PROVE  NetworkTypeOK' /\ DeviceTypeOK' /\ lastRequest' = lastRequest
<1>1. CASE UpdateStatuses
  BY <1>1, DeviceTimer DEF requestVars
<1>2. CASE \E d \in Device :
             \/ Install(d) \/ FallSilent(d) \/ RestartAges(d)
             \/ DeviceTurnOn(d) \/ VersionCommand(d) \/ Beacon(d)
  BY <1>2, DeviceHandlers DEF requestVars
<1>3. ASSUME NEW o \in Order, FirmwareAck(o) \/ FirmwareAborted(o) \/ RunTask(o)
      PROVE  NetworkTypeOK' /\ DeviceTypeOK' /\ lastRequest' = lastRequest
  BY <1>3, DeviceTasks, NextDevice DEF RunTask, requestVars
<1>4. QED
  BY <1>1, <1>2, <1>3 DEF DeviceStep

(* They leave the transfer as it is. *)
LEMMA TransferKept ==
    ASSUME TransferInv, NetworkTypeOK', lastRequest' = lastRequest, UNCHANGED transferVars
    PROVE  TransferInv'
BY DEF TransferInv, transferVars, TransferTypeOK, SenderOK, WaitsOnce, Waits, PartsKnown,
       SentOnly, PartsSent

Typed == TransferInv /\ DeviceTypeOK

LEMMA InitTyped == Init => Typed
<1> SUFFICES ASSUME Init PROVE Typed
  OBVIOUS
<1>1. TransferInv
  BY TransferInvInit DEF Init
<1>2. DeviceTypeOK
  BY NetworkAssumption DEF Init, NetworkInit, DeviceInit, DeviceTypeOK, TaskState, Partition
<1>3. QED
  BY <1>1, <1>2 DEF Typed

(* A step of the transfer is one of FileTransfer. *)
LEMMA TransferPart ==
    ASSUME TransferInv, DeviceTypeOK, TransferStep
    PROVE  StepOK /\ DeviceTypeOK' /\ UNCHANGED deviceVars
<1>1. TransferNext
  BY DEF TransferStep, TransferNext
<1>2. UNCHANGED deviceVars
  BY DEF TransferStep
<1>3. DeviceTypeOK'
  BY <1>2 DEF deviceVars, DeviceTypeOK
<1>4. QED
  BY <1>1, <1>2, <1>3, TransferKeeps

LEMMA DevicePart ==
    ASSUME TransferInv, DeviceTypeOK, DeviceStep
    PROVE  TransferInv' /\ DeviceTypeOK' /\ lastRequest' = lastRequest /\ UNCHANGED transferVars
<1>1. NetworkTypeOK' /\ DeviceTypeOK' /\ lastRequest' = lastRequest
  BY DeviceStepTypes DEF TransferInv
<1>2. UNCHANGED transferVars
  BY DEF DeviceStep
<1>3. QED
  BY <1>1, <1>2, TransferKept

LEMMA NextTyped == Typed /\ [Next]_vars => Typed'
<1> SUFFICES ASSUME Typed, [Next]_vars PROVE Typed'
  OBVIOUS
<1>1. CASE TransferStep
  BY <1>1, TransferPart DEF Typed, StepOK
<1>2. CASE DeviceStep
  BY <1>2, DevicePart DEF Typed
<1>3. CASE UNCHANGED vars
  <2>1. UNCHANGED networkVars /\ UNCHANGED transferVars /\ UNCHANGED deviceVars
    BY <1>3 DEF vars
  <2>2. NetworkTypeOK' /\ lastRequest' = lastRequest
    BY <2>1 DEF Typed, TransferInv, NetworkTypeOK, networkVars
  <2>3. DeviceTypeOK'
    BY <2>1 DEF Typed, DeviceTypeOK, deviceVars
  <2>4. QED
    BY <2>1, <2>2, <2>3, TransferKept DEF Typed
<1>4. QED
  BY <1>1, <1>2, <1>3 DEF Next

(* TypeOK: the states of the whole update stay within their types, whatever  *)
(* overlaps: restartCount never rests at 2, the count of version checks does *)
(* not pass 2, queue and Start commands hold real orders, no callback waits  *)
(* for a request that is none.                                               *)
THEOREM TypeInvariant == Spec => []TypeOK
<1>1. Typed => TypeOK
  BY DEF Typed, TransferInv, TypeOK
<1>2. QED
  BY <1>1, InitTyped, NextTyped, PTL DEF Spec

------------------------------------------------------------------------------
(* Requests that do not overlap. First, the late callbacks of a list.        *)

LEMMA LateOfEmpty ==
    /\ LateAt(<<>>) = {}
    /\ LateAt(NewListFuture.callbacks) = {} /\ LateAt(NotFiring.callbacks) = {}
BY DEF LateAt, NewListFuture, NotFiring

LEMMA LateOfAppend ==
    ASSUME NEW q \in Seq(Callback), NEW c \in Callback
    PROVE  LateAt(Append(q, c)) = LateAt(q) \cup (IF c.late THEN {Len(q) + 1} ELSE {})
<1>1. /\ Len(q) \in Nat /\ DOMAIN q = 1..Len(q)
      /\ DOMAIN Append(q, c) = 1..(Len(q) + 1)
      /\ \A i \in 1..Len(q) : Append(q, c)[i] = q[i]
      /\ Append(q, c)[Len(q) + 1] = c
  BY AppendProperties, LenProperties
<1>2. QED
  BY <1>1 DEF LateAt

LEMMA LateOfTail ==
    ASSUME NEW q \in Seq(Callback), q # <<>>, \A i, j \in LateAt(q) : i = j
    PROVE  /\ \A i, j \in LateAt(Tail(q)) : i = j
           /\ LateAt(Tail(q)) # {} => LateAt(q) # {} /\ ~Head(q).late
           /\ Head(q).late => LateAt(q) # {}
<1>1. /\ Head(q) = q[1] /\ Len(q) \in Nat /\ Len(q) >= 1 /\ DOMAIN q = 1..Len(q)
      /\ DOMAIN Tail(q) = 1..(Len(q) - 1)
      /\ \A i \in 1..(Len(q) - 1) : Tail(q)[i] = q[i + 1]
  BY HeadTailProperties, LenProperties
<1>2. \A i \in LateAt(Tail(q)) : i + 1 \in LateAt(q) /\ i + 1 # 1 /\ i \in Nat
  BY <1>1 DEF LateAt
<1>3. Head(q).late => 1 \in LateAt(q)
  BY <1>1 DEF LateAt
<1>4. \A i, j \in LateAt(Tail(q)) : i = j
  BY <1>2
<1>5. QED
  BY <1>2, <1>3, <1>4

LEMMA LateOfReverse ==
    ASSUME NEW q \in Seq(Callback), \A i, j \in LateAt(q) : i = j
    PROVE  /\ \A i, j \in LateAt(Reverse(q)) : i = j
           /\ LateAt(Reverse(q)) # {} => LateAt(q) # {}
<1>1. /\ Len(q) \in Nat /\ DOMAIN q = 1..Len(q) /\ DOMAIN Reverse(q) = 1..Len(q)
      /\ \A i \in 1..Len(q) : Reverse(q)[i] = q[Len(q) - i + 1]
  BY LenProperties DEF Reverse
<1>2. \A i \in LateAt(Reverse(q)) : Len(q) - i + 1 \in LateAt(q) /\ i \in Nat
  BY <1>1 DEF LateAt
<1>3. ASSUME NEW i \in LateAt(Reverse(q)), NEW j \in LateAt(Reverse(q)) PROVE i = j
  <2>1. Len(q) - i + 1 = Len(q) - j + 1 /\ i \in Nat /\ j \in Nat
    BY <1>2
  <2>2. QED
    BY <1>1, <2>1
<1>4. QED
  BY <1>2, <1>3

------------------------------------------------------------------------------
(* What most steps do to the invariant of requests that do not overlap.      *)

LateUnique ==
    /\ \A i, j \in LateAt(listFuture.callbacks) : i = j
    /\ \A i, j \in LateAt(firing.callbacks) : i = j
    /\ LateAt(listFuture.callbacks) = {} \/ LateAt(firing.callbacks) = {}

(* A step that starts no device. *)
LEMMA NothingStarted ==
    ASSUME OneStarter, LastFile, UNCHANGED <<lastRequest, toUpdateIds, starts, deviceVars>>,
           fileName' \in {fileName, lastRequest},
           Begun => Begun', Begun' => Begun \/ fileName' = lastRequest,
           Upgrading => ~Uploading' /\ ~LatePending'
    PROVE  OneStarter' /\ LastFile' /\ (Upgrading' => Upgrading)
<1>1. \A o \in Order : InProgress(o)' <=> InProgress(o)
  BY DEF InProgress, StartedOrders, deviceVars
<1>2. Upgrading' <=> Upgrading
  BY <1>1 DEF Upgrading
<1>3. OneStarter'
  BY <1>1, <1>2 DEF OneStarter, OneUpgradeAtATime, deviceVars
<1>4. LastFile'
  BY DEF LastFile, NeverOlderFile
<1>5. QED
  BY <1>2, <1>3, <1>4

FilesGrow ==
    \A i \in DOMAIN sinkFiles : sinkFiles[i].name = lastRequest =>
        \E j \in DOMAIN sinkFiles' :
            sinkFiles'[j].name = lastRequest /\ sinkFiles[i].parts \subseteq sinkFiles'[j].parts

(* A whole file stays whole when it loses no part: it gets none it cannot    *)
(* have.                                                                     *)
LEMMA WholeStays ==
    ASSUME TransferInv', NEW r \in Request, r = lastRequest, lastRequest' = lastRequest,
           NEW files, NEW i \in DOMAIN files, files[i].name = r, Whole(files[i]),
           \E j \in DOMAIN sinkFiles' :
               sinkFiles'[j].name = r /\ files[i].parts \subseteq sinkFiles'[j].parts
    PROVE  FileWhole(lastRequest)'
<1>1. PICK j \in DOMAIN sinkFiles' :
        sinkFiles'[j].name = r /\ 1..Parts[r] \subseteq sinkFiles'[j].parts
  BY DEF Whole
<1>2. (1..PartsSent(r))' \subseteq 1..Parts[r]
  <2>1. sender'[r] \in [at : SenderState, part : Nat, future : Nat] /\ Parts[r] \in Nat
    BY TransferAssumption DEF TransferInv, TransferTypeOK
  <2>2. sender'[r].part <= Parts[r] + 1
    BY <2>1 DEF TransferInv, SenderOK
  <2>3. PartsSent(r)' \in Int /\ PartsSent(r)' <= Parts[r]
    BY <2>1, <2>2 DEF PartsSent
  <2>4. QED
    BY <2>1, <2>3
<1>3. sinkFiles'[j].parts \subseteq (1..PartsSent(r))'
  BY <1>1 DEF TransferInv, PartsKnown, SentOnly, PartsSent
<1>4. QED
  BY <1>1, <1>2, <1>3 DEF FileWhole, Whole

(* A step that begins no request keeps what is known of the last file when   *)
(* it takes no part of it from the sink.                                     *)
LEMMA LastFileKept ==
    ASSUME TransferInv', LastKept, OneStarter, lastRequest' = lastRequest, FilesGrow,
           \A r \in Request : sender[r].at # "none" => sender'[r].at # "none",
           \A j \in DOMAIN sinkFiles' :
               sinkFiles'[j].name \in Request => sender'[sinkFiles'[j].name].at # "none",
           \/ listFuture'.list \in {listFuture.list, NoList}
           \/ listFuture'.list.files = sinkFiles /\ sinkFiles' = sinkFiles,
           firing'.list \in {firing.list, NoList, listFuture'.list},
           \A i \in DOMAIN toSink' : toSink'[i].kind = "delete" => toSink'[i].name # lastRequest,
           Upgrading' => Upgrading \/ FileWhole(lastRequest)'
    PROVE  LastKept'
<1>1. NamedAfterBegun(sinkFiles)'
  BY DEF NamedAfterBegun
<1>2. NamedAfterBegun(listFuture.list.files)'
  BY <1>1 DEF LastKept, NamedAfterBegun, NoList
<1>3. NamedAfterBegun(firing.list.files)'
  BY <1>2 DEF LastKept, NamedAfterBegun, NoList
<1>4. ASSUME NEW files, StillThere(files)
      PROVE  \A i \in DOMAIN files : files[i].name = lastRequest =>
               \E j \in DOMAIN sinkFiles' :
                 sinkFiles'[j].name = lastRequest /\ files[i].parts \subseteq sinkFiles'[j].parts
  <2> SUFFICES ASSUME NEW i \in DOMAIN files, files[i].name = lastRequest
               PROVE  \E j \in DOMAIN sinkFiles' :
                        sinkFiles'[j].name = lastRequest
                        /\ files[i].parts \subseteq sinkFiles'[j].parts
    OBVIOUS
  <2>1. PICK k \in DOMAIN sinkFiles :
          sinkFiles[k].name = lastRequest /\ files[i].parts \subseteq sinkFiles[k].parts
    BY <1>4 DEF StillThere
  <2>2. PICK j \in DOMAIN sinkFiles' :
          sinkFiles'[j].name = lastRequest /\ sinkFiles[k].parts \subseteq sinkFiles'[j].parts
    BY <2>1 DEF FilesGrow
  <2>3. QED
    BY <2>1, <2>2
<1>5. StillThere(listFuture.list.files)'
  <2>1. CASE listFuture'.list = NoList
    BY <2>1 DEF StillThere, NoList
  <2>2. CASE listFuture'.list = listFuture.list
    <3>1. StillThere(listFuture.list.files)
      BY DEF LastKept
    <3>2. QED
      BY <1>4, <2>2, <3>1 DEF StillThere
  <2>3. CASE listFuture'.list.files = sinkFiles /\ sinkFiles' = sinkFiles
    BY <2>3 DEF StillThere
  <2>4. QED
    BY <2>1, <2>2, <2>3
<1>6. StillThere(firing.list.files)'
  <2>1. CASE firing'.list = NoList
    BY <2>1 DEF StillThere, NoList
  <2>2. CASE firing'.list = firing.list
    <3>1. StillThere(firing.list.files)
      BY DEF LastKept
    <3>2. QED
      BY <1>4, <2>2, <3>1 DEF StillThere
  <2>3. CASE firing'.list = listFuture'.list
    BY <1>5, <2>3 DEF StillThere
  <2>4. QED
    BY <2>1, <2>2, <2>3
<1>7. ASSUME Upgrading' PROVE FileWhole(lastRequest)'
  <2>1. CASE FileWhole(lastRequest)'
    BY <2>1
  <2>2. CASE Upgrading
    <3>1. lastRequest \in Request /\ FileWhole(lastRequest)
      BY <2>2 DEF OneStarter, Begun, LastKept
    <3>2. PICK i \in DOMAIN sinkFiles : sinkFiles[i].name = lastRequest /\ Whole(sinkFiles[i])
      BY <3>1 DEF FileWhole
    <3>3. QED
      BY <3>1, <3>2, WholeStays DEF FilesGrow
  <2>3. QED
    BY <1>7, <2>1, <2>2
<1>8. QED
  BY <1>1, <1>2, <1>3, <1>5, <1>6, <1>7 DEF LastKept

(* The steps of the transfer that begin no upload and start no device.       *)
LEMMA QuietSerial ==
    ASSUME TransferInv', SerialInv, UNCHANGED <<networkVars, deviceVars>>,
           EarlyRequests(listFuture'.callbacks) \subseteq {lastRequest},
           EarlyRequests(firing'.callbacks) \subseteq {lastRequest},
           LateUnique', LatePending' => LatePending \/ (Begun /\ ~Upgrading /\ ~Uploading'),
           \A r \in Request : sender'[r].at \in Active => sender[r].at \in Active,
           \A r \in Request : sender'[r].at = "none" <=> sender[r].at = "none",
           deletion'.waiter \in {deletion.waiter, NoFile},
           \A i \in DOMAIN toSink' : toSink'[i].kind = "delete" =>
               \E j \in DOMAIN toSink : toSink'[i] = toSink[j],
           FilesGrow,
           \A j \in DOMAIN sinkFiles' :
               sinkFiles'[j].name \in Request => sender[sinkFiles'[j].name].at # "none",
           \/ listFuture'.list \in {listFuture.list, NoList}
           \/ listFuture'.list.files = sinkFiles /\ sinkFiles' = sinkFiles,
           firing'.list \in {firing.list, NoList, listFuture'.list}
    PROVE  SerialInv'
<1>1. UNCHANGED <<lastRequest, toUpdateIds, fileName, starts, deviceVars>>
  BY DEF networkVars
<1>2. Begun' <=> Begun
  BY <1>1 DEF Begun
<1>3. Uploading' => Uploading
  BY DEF Uploading
<1>4. LastOnly'
  BY <1>1 DEF SerialInv, LastOnly
<1>5. LateOnce'
  BY <1>2, <1>3 DEF SerialInv, LateOnce, LateUnique
<1>6. OneStarter' /\ LastFile' /\ (Upgrading' => Upgrading)
  BY <1>1, <1>2, <1>3, NothingStarted DEF SerialInv, OneStarter
<1>7. LastKept'
  <2>1. \A i \in DOMAIN toSink' : toSink'[i].kind = "delete" => toSink'[i].name # lastRequest
    BY DEF SerialInv, LastKept
  <2>2. QED
    BY <1>1, <1>6, <2>1, LastFileKept DEF SerialInv
<1>8. QED
  BY <1>4, <1>5, <1>6, <1>7 DEF SerialInv

LEMMA SameFiles ==
    ASSUME SerialInv, sinkFiles' = sinkFiles
    PROVE  /\ FilesGrow
           /\ \A j \in DOMAIN sinkFiles' :
                sinkFiles'[j].name \in Request => sender[sinkFiles'[j].name].at # "none"
BY DEF SerialInv, LastKept, NamedAfterBegun, FilesGrow

------------------------------------------------------------------------------
(* The steps of the transfer, one by one.                                    *)

LEMMA RejectFileSerial ==
    ASSUME TransferInv, TransferInv', SerialInv, RejectFile, UNCHANGED deviceVars
    PROVE  SerialInv'
<1>1. /\ toSink' = Append(toSink, AskList)
      /\ UNCHANGED <<networkVars, sinkFiles, listFuture, deletion, firing, sender>>
  BY DEF RejectFile
<1>2. OldDeletes(toSink', toSink)
  BY <1>1, DeletesKept, ListAsked DEF TransferInv, TransferTypeOK
<1>3. EarlyRequests(listFuture'.callbacks) \subseteq {lastRequest}
      /\ EarlyRequests(firing'.callbacks) \subseteq {lastRequest}
      /\ LateUnique' /\ (LatePending' => LatePending)
  BY <1>1 DEF SerialInv, LastOnly, LateOnce, LateUnique, LatePending
<1>4. QED
  BY <1>1, <1>2, <1>3, SameFiles, QuietSerial DEF OldDeletes

LEMMA AnswerListSerial ==
    ASSUME TransferInv, TransferInv', SerialInv, AnswerList, UNCHANGED deviceVars
    PROVE  SerialInv'
<1>1. /\ toSink # <<>> /\ toSink' = Tail(toSink) /\ LockFree
      /\ UNCHANGED <<networkVars, sinkFiles, deletion, sender>>
  BY DEF AnswerList, Answering
<1>2. OldDeletes(toSink', toSink)
  BY <1>1, DeletesAnswered DEF TransferInv
<1>3. CASE listFuture.done
  <2>1. UNCHANGED <<listFuture, firing>>
    BY <1>3 DEF AnswerList
  <2>2. EarlyRequests(listFuture'.callbacks) \subseteq {lastRequest}
        /\ EarlyRequests(firing'.callbacks) \subseteq {lastRequest}
        /\ LateUnique' /\ (LatePending' => LatePending)
    BY <2>1 DEF SerialInv, LastOnly, LateOnce, LateUnique, LatePending
  <2>3. QED
    BY <1>1, <1>2, <2>1, <2>2, SameFiles, QuietSerial DEF OldDeletes
<1>4. CASE ~listFuture.done
  <2> DEFINE list == [free |-> FreeSpace, files |-> sinkFiles]
             callbacks == Reverse(listFuture.callbacks)
  <2>1. /\ listFuture' = [done |-> TRUE, list |-> list, callbacks |-> <<>>]
        /\ firing' \in {NotFiring, [list |-> list, callbacks |-> callbacks]}
    BY <1>4 DEF AnswerList
  <2>2. /\ \A i, j \in LateAt(callbacks) : i = j
        /\ LateAt(callbacks) # {} => LateAt(listFuture.callbacks) # {}
    BY LateOfReverse DEF SerialInv, LateOnce, TransferInv, TransferTypeOK
  <2>3. EarlyRequests(callbacks) = EarlyRequests(listFuture.callbacks)
    BY EarlyOfReverse DEF TransferInv, TransferTypeOK, WaitsOnce
  <2>4. list.files = sinkFiles
    OBVIOUS
  <2> HIDE DEF list, callbacks
  <2>5. listFuture'.callbacks = <<>> /\ listFuture'.list = list
    BY <2>1
  <2>6. /\ firing'.list \in {NoList, list}
        /\ firing'.callbacks \in {<<>>, callbacks}
    BY <2>1 DEF NotFiring
  <2>7. EarlyRequests(listFuture'.callbacks) \subseteq {lastRequest}
        /\ EarlyRequests(firing'.callbacks) \subseteq {lastRequest}
    BY <2>3, <2>5, <2>6, EarlyOfEmpty DEF SerialInv, LastOnly
  <2>8. LateUnique' /\ (LatePending' => LatePending)
    BY <2>2, <2>5, <2>6, LateOfEmpty DEF LateUnique, LatePending
  <2>9. QED
    BY <1>1, <1>2, <2>4, <2>5, <2>6, <2>7, <2>8, SameFiles, QuietSerial DEF OldDeletes
<1>5. QED
  BY <1>3, <1>4

LEMMA AnswerDeleteSerial ==
    ASSUME TransferInv, TransferInv', SerialInv, AnswerDelete, UNCHANGED deviceVars
    PROVE  SerialInv'
<1> DEFINE name == Head(toSink).name
<1>1. /\ toSink # <<>> /\ sinkFiles' = WithoutFile(name) /\ Head(toSink).kind = "delete"
      /\ deletion' = [done |-> TRUE, waiter |-> NoFile]
      /\ UNCHANGED <<networkVars, firing, sender>>
      /\ \/ listFuture' = listFuture /\ toSink' = Tail(toSink)
         \/ /\ deletion.waiter # NoFile
            /\ listFuture' = [NewListFuture EXCEPT !.callbacks = <<Early(deletion.waiter)>>]
            /\ toSink' = Append(Tail(toSink), AskList)
  BY DEF AnswerDelete, Answering
<1>2. /\ Tail(toSink) \in Seq(Message) /\ OldDeletes(Tail(toSink), toSink)
      /\ Head(toSink) = toSink[1] /\ 1 \in DOMAIN toSink
  BY <1>1, QueueAnswered, DeletesAnswered DEF TransferInv
<1>3. OldDeletes(toSink', toSink)
  BY <1>1, <1>2, ListAsked
<1>4. name # lastRequest /\ deletion.waiter \in {lastRequest, NoFile}
  BY <1>1, <1>2 DEF SerialInv, LastKept, LastOnly
<1> HIDE DEF name
<1>5. FilesGrow
  BY <1>1, <1>4, FilesWithout DEF FilesGrow, TransferInv
<1>6. \A j \in DOMAIN sinkFiles' :
        sinkFiles'[j].name \in Request => sender[sinkFiles'[j].name].at # "none"
  BY <1>1, FilesWithout DEF SerialInv, LastKept, NamedAfterBegun, TransferInv
<1>7. /\ EarlyRequests(listFuture'.callbacks) \subseteq {lastRequest}
      /\ LateAt(listFuture'.callbacks) \in {{}, LateAt(listFuture.callbacks)}
      /\ listFuture'.list \in {listFuture.list, NoList}
  <2>1. CASE listFuture' = listFuture
    BY <2>1 DEF SerialInv, LastOnly
  <2>2. CASE /\ deletion.waiter # NoFile
             /\ listFuture' = [NewListFuture EXCEPT !.callbacks = <<Early(deletion.waiter)>>]
    <3>1. listFuture'.callbacks = <<Early(lastRequest)>> /\ listFuture'.list = NoList
      BY <1>4, <2>2 DEF NewListFuture
    <3>2. QED
      BY <3>1 DEF EarlyRequests, LateAt, Early
  <2>3. QED
    BY <1>1, <2>1, <2>2
<1>8. EarlyRequests(firing'.callbacks) \subseteq {lastRequest} /\ firing'.list = firing.list
  BY <1>1 DEF SerialInv, LastOnly
<1>9. LateUnique' /\ (LatePending' => LatePending)
  BY <1>1, <1>7 DEF SerialInv, LateOnce, LateUnique, LatePending
<1>10. deletion'.waiter = NoFile
  BY <1>1
<1>11. QED
  BY <1>1, <1>3, <1>5, <1>6, <1>7, <1>8, <1>9, <1>10, QuietSerial DEF OldDeletes

LEMMA AnswerPartSerial ==
    ASSUME TransferInv, TransferInv', SerialInv, AnswerPart, UNCHANGED deviceVars
    PROVE  SerialInv'
<1> DEFINE m == Head(toSink)
<1>1. /\ toSink # <<>> /\ m.kind = "part" /\ toSink' = Tail(toSink)
      /\ sinkFiles' = Stored(sinkFiles, m.name, m.part)
      /\ UNCHANGED <<networkVars, listFuture, deletion, firing, sender>>
  BY DEF AnswerPart, Answering
<1>2. OldDeletes(toSink', toSink)
  BY <1>1, DeletesAnswered DEF TransferInv
<1>3. /\ m \in Message /\ m = toSink[1] /\ 1 \in DOMAIN toSink
  BY <1>1, QueueAnswered DEF TransferInv
<1>4. /\ m.name \in Request /\ m.part \in 1..Parts[m.name]
      /\ m.part \in 1..PartsSent(m.name)
  BY <1>1, <1>3, MessageTypes DEF TransferInv, PartsKnown
<1>5. sender[m.name].at # "none"
  <2>1. PICK r \in Request : r = m.name
    BY <1>4
  <2>2. sender[r].at = "none" => PartsSent(r) = 0
    BY SenderTypes
  <2>3. QED
    BY <1>4, <2>1, <2>2
<1> HIDE DEF m
<1>6. FilesGrow
  BY <1>1, <1>4, PartsStored DEF FilesGrow, TransferInv
<1>7. \A j \in DOMAIN sinkFiles' :
        sinkFiles'[j].name \in Request => sender[sinkFiles'[j].name].at # "none"
  <2>1. \A j \in DOMAIN sinkFiles' :
          \/ \E k \in DOMAIN sinkFiles : sinkFiles'[j].name = sinkFiles[k].name
          \/ sinkFiles'[j].name = m.name
    BY <1>1, <1>4, FilesStored DEF TransferInv
  <2>2. QED
    BY <1>5, <2>1 DEF SerialInv, LastKept, NamedAfterBegun
<1>8. EarlyRequests(listFuture'.callbacks) \subseteq {lastRequest}
      /\ EarlyRequests(firing'.callbacks) \subseteq {lastRequest}
      /\ LateUnique' /\ (LatePending' => LatePending)
  BY <1>1 DEF SerialInv, LastOnly, LateOnce, LateUnique, LatePending
<1>9. QED
  BY <1>1, <1>2, <1>6, <1>7, <1>8, QuietSerial DEF OldDeletes


(* The task of an upload up to the last acknowledgement. *)
LEMMA TaskSerial ==
    ASSUME TransferInv, TransferInv', SerialInv, NEW r \in Request, UNCHANGED deviceVars,
           SendPart(r) \/ AwaitAck(r) \/ TakeAck(r) \/ AckTimesOut(r) \/ RenewListFuture(r)
    PROVE  SerialInv'
<1>1. /\ sender \in [Request -> [at : SenderState, part : Nat, future : Nat]]
      /\ Parts[r] \in Nat \ {0} /\ sender[r].part \in Nat
  BY SenderTypes DEF TransferInv, TransferTypeOK
<1>2. /\ UNCHANGED <<networkVars, sinkFiles, deletion, firing>>
      /\ listFuture' \in {listFuture, NewListFuture}
  BY DEF SendPart, AwaitAck, TakeAck, AckTimesOut, RenewListFuture, sinkVars
<1>3. /\ sender[r].at \in Active /\ sender'[r].at # "none"
      /\ \A s \in Request \ {r} : sender'[s] = sender[s]
  BY <1>1 DEF SendPart, AwaitAck, TakeAck, AckTimesOut, RenewListFuture, Sender, Active
<1>4. OldDeletes(toSink', toSink)
  <2>1. CASE toSink' = toSink
    BY <2>1, DeletesKept
  <2>2. CASE SendPart(r) /\ sender[r].part <= Parts[r]
    <3> DEFINE m == Upload(r, sender[r].part)
    <3>1. sender[r].part \in 1..Parts[r]
      BY <1>1, <2>2 DEF TransferInv, SenderOK, SendPart
    <3>2. m \in Message /\ m.kind # "delete"
      BY <3>1, MessageTypes DEF Upload
    <3>3. toSink' = Append(toSink, m)
      BY <2>2 DEF SendPart
    <3> HIDE DEF m
    <3>4. QED
      BY <3>2, <3>3, DeletesKept, DeletesGrow DEF TransferInv, TransferTypeOK
  <2>3. QED
    BY <2>1, <2>2
       DEF SendPart, AwaitAck, TakeAck, AckTimesOut, RenewListFuture, sinkVars
<1>5. EarlyRequests(listFuture'.callbacks) \subseteq {lastRequest}
      /\ EarlyRequests(firing'.callbacks) \subseteq {lastRequest}
      /\ listFuture'.list \in {listFuture.list, NoList}
  BY <1>2, EarlyOfEmpty, EmptyTypes DEF SerialInv, LastOnly
<1>6. LateUnique' /\ (LatePending' => LatePending)
  BY <1>2, LateOfEmpty DEF SerialInv, LateOnce, LateUnique, LatePending
<1>7. sender[r].at # "none"
  BY <1>3 DEF Active
<1>8. /\ \A s \in Request : sender'[s].at \in Active => sender[s].at \in Active
      /\ \A s \in Request : sender'[s].at = "none" <=> sender[s].at = "none"
  BY <1>3, <1>7
<1>9. firing'.list = firing.list /\ deletion'.waiter = deletion.waiter
  BY <1>2
<1>10. QED
  BY <1>2, <1>4, <1>5, <1>6, <1>8, <1>9, SameFiles, QuietSerial DEF OldDeletes

------------------------------------------------------------------------------
(* Starting a device.                                                        *)

(* The commands a step gives name the last file, and the sink has all of it. *)
StartsWhole ==
    \A s \in starts' \ starts :
        lastRequest \in Request /\ s.path = lastRequest /\ FileWhole(lastRequest)

(* A device is started when no other is being upgraded. *)
LEMMA StartKeeps ==
    ASSUME NetworkTypeOK, LastFile, SendStartUpgrade(fileName), Begun, Begun',
           \A o \in Order : InProgress(o)' => o = Head(toUpdateIds),
           ~Uploading', ~LatePending',
           \A o \in Order : task'[o] # "none" => o \in acked'
    PROVE  /\ OneStarter' /\ LastFile'
           /\ fileName = lastRequest /\ lastRequest' = lastRequest
           /\ \A s \in starts' \ starts : s.path = lastRequest
<1> DEFINE order == Head(toUpdateIds)
<1>1. toUpdateIds # <<>> /\ fileName = lastRequest
  BY DEF SendStartUpgrade, LastFile
<1>2. \E p : starts' = starts \cup {[order |-> order, path |-> fileName, partition |-> p]}
  BY DEF SendStartUpgrade
<1>3. /\ toUpdateIds' = Tail(toUpdateIds) /\ lastRequest' = lastRequest /\ fileName' = fileName
  BY DEF SendStartUpgrade
<1>4. /\ order = toUpdateIds[1] /\ 1 \in DOMAIN toUpdateIds
      /\ \A i \in DOMAIN Tail(toUpdateIds) :
           i + 1 \in DOMAIN toUpdateIds /\ Tail(toUpdateIds)[i] = toUpdateIds[i + 1]
  <2>1. toUpdateIds \in Seq(Order)
    BY DEF NetworkTypeOK
  <2>2. /\ Head(toUpdateIds) = toUpdateIds[1] /\ Len(toUpdateIds) \in Nat
        /\ Len(toUpdateIds) >= 1 /\ DOMAIN toUpdateIds = 1..Len(toUpdateIds)
        /\ DOMAIN Tail(toUpdateIds) = 1..(Len(toUpdateIds) - 1)
        /\ \A i \in 1..(Len(toUpdateIds) - 1) : Tail(toUpdateIds)[i] = toUpdateIds[i + 1]
    BY <1>1, <2>1, HeadTailProperties, LenProperties
  <2>3. QED
    BY <2>2
<1>5. order.req <= lastRequest
  BY <1>4 DEF LastFile
<1>6. OneStarter'
  BY DEF OneStarter, Upgrading, OneUpgradeAtATime
<1>7. NeverOlderFile'
  <2> SUFFICES ASSUME NEW s \in starts' PROVE s.path >= s.order.req
    BY DEF NeverOlderFile
  <2>1. CASE s \in starts
    BY <2>1 DEF LastFile, NeverOlderFile
  <2>2. CASE s.order = order /\ s.path = fileName
    <3>1. lastRequest \in Nat /\ order.req \in Nat
      <4>1. order \in Order
        BY <1>4 DEF NetworkTypeOK
      <4>2. QED
        BY <4>1, NetworkAssumption DEF NetworkTypeOK, Order, Request
    <3>2. QED
      BY <1>1, <1>5, <2>2, <3>1
  <2>3. QED
    BY <1>2, <2>1, <2>2
<1>8. LastFile'
  BY <1>1, <1>3, <1>4, <1>7 DEF LastFile
<1>9. QED
  BY <1>1, <1>2, <1>3, <1>6, <1>8

(* The late stage starts a device only once its list shows the last file     *)
(* whole, and then the sink has it whole.                                    *)
LEMMA LateStageSerial ==
    ASSUME TransferInv, TransferInv', SerialInv, UNCHANGED <<deviceVars, sinkFiles>>,
           NEW list \in List, StillThere(list.files), NEW sent, LateStage(list, sent),
           Begun, ~Upgrading, ~Uploading',
           LateAt(listFuture.callbacks) = {}, LateAt(firing'.callbacks) = {},
           EarlyRequests(firing'.callbacks) \subseteq {lastRequest},
           \A r \in Request : sender'[r].at \in Active => sender[r].at \in Active,
           \A r \in Request : sender'[r].at = "none" <=> sender[r].at = "none",
           OldDeletes(sent, toSink), firing'.list \in {firing.list, NoList}
    PROVE  SerialInv' /\ StartsWhole
<1>1. /\ toSink' = sent /\ UNCHANGED deletion /\ listFuture' \in {listFuture, NewListFuture}
  BY DEF LateStage
<1>2. /\ EarlyRequests(listFuture'.callbacks) \subseteq {lastRequest}
      /\ listFuture'.list \in {listFuture.list, NoList}
      /\ LateAt(listFuture'.callbacks) = {}
  BY <1>1, EarlyOfEmpty, LateOfEmpty, EmptyTypes DEF SerialInv, LastOnly
<1>3. LateUnique' /\ ~LatePending'
  BY <1>2 DEF LateUnique, LatePending
<1>4. CASE UNCHANGED networkVars
  <2>1. starts' = starts
    BY <1>4 DEF networkVars
  <2>2. SerialInv'
    BY <1>1, <1>2, <1>3, <1>4, SameFiles, QuietSerial DEF OldDeletes
  <2>3. QED
    BY <2>1, <2>2 DEF StartsWhole
<1>5. CASE ~(UNCHANGED networkVars)
  <2>1. PICK i \in DOMAIN list.files :
          /\ list.files[i].name = fileName
          /\ ChecksumsMatch(list.files[i])
          /\ SendStartUpgrade(fileName)
    BY <1>5 DEF LateStage, StartUpgradeOfNothing
  <2>2. lastRequest' = lastRequest /\ Begun'
    BY <2>1 DEF SendStartUpgrade, Begun
  <2>3. \E p : starts' = starts \cup
                 {[order |-> Head(toUpdateIds), path |-> fileName, partition |-> p]}
    BY <2>1 DEF SendStartUpgrade
  <2>4. \A o \in StartedOrders' : o \in StartedOrders \/ o = Head(toUpdateIds)
    BY <2>3 DEF StartedOrders
  <2>5. \A o \in Order : InProgress(o)' => InProgress(o) \/ o = Head(toUpdateIds)
    BY <2>4 DEF InProgress, deviceVars
  <2>6. \A o \in Order : InProgress(o)' => o = Head(toUpdateIds)
    BY <2>5 DEF Upgrading
  <2>7. \A o \in Order : task'[o] # "none" => o \in acked'
    BY DEF SerialInv, OneStarter, deviceVars
  <2>8. /\ OneStarter' /\ LastFile' /\ fileName = lastRequest
        /\ \A s \in starts' \ starts : s.path = lastRequest
    BY <1>3, <2>1, <2>2, <2>6, <2>7, StartKeeps DEF TransferInv, SerialInv
  <2>9. lastRequest \in Request
    BY DEF Begun
  <2>10. FileWhole(lastRequest)'
    <3>1. Whole(list.files[i]) /\ list.files[i].name = lastRequest
      BY <2>1, <2>8 DEF ChecksumsMatch
    <3>2. \E j \in DOMAIN sinkFiles' :
            sinkFiles'[j].name = lastRequest /\ list.files[i].parts \subseteq sinkFiles'[j].parts
      BY <3>1 DEF StillThere
    <3>3. QED
      BY <2>2, <2>9, <3>1, <3>2, WholeStays
  <2>11. FileWhole(lastRequest)
    BY <2>2, <2>10 DEF FileWhole
  <2>12. LastOnly'
    BY <1>1, <1>2, <2>2 DEF SerialInv, LastOnly, OldDeletes
  <2>13. LateOnce'
    BY <1>2, <1>3 DEF LateOnce, LateUnique
  <2>14. LastKept'
    <3>1. \A i_1 \in DOMAIN toSink' :
            toSink'[i_1].kind = "delete" => toSink'[i_1].name # lastRequest
      BY <1>1 DEF SerialInv, LastKept, OldDeletes
    <3>2. \A r \in Request : sender[r].at # "none" => sender'[r].at # "none"
      OBVIOUS
    <3>3. \A j \in DOMAIN sinkFiles' :
            sinkFiles'[j].name \in Request => sender'[sinkFiles'[j].name].at # "none"
      BY SameFiles
    <3>4. QED
      BY <1>2, <2>2, <2>10, <3>1, <3>2, <3>3, SameFiles, LastFileKept DEF SerialInv
  <2>15. QED
    BY <2>8, <2>9, <2>11, <2>12, <2>13, <2>14 DEF SerialInv, StartsWhole
<1>6. QED
  BY <1>4, <1>5

(* The end of an upload: the late stage waits for the next list, or runs.    *)
LEMMA AwaitFinalListSerial ==
    ASSUME TransferInv, TransferInv', SerialInv, NEW r \in Request, UNCHANGED deviceVars,
           AwaitFinalList(r)
    PROVE  SerialInv' /\ StartsWhole
<1>1. sender \in [Request -> [at : SenderState, part : Nat, future : Nat]]
  BY DEF TransferInv, TransferTypeOK
<1>2. /\ UNCHANGED <<sinkFiles, firing>> /\ sender[r].at = "registering"
      /\ sender'[r].at = "done" /\ \A s \in Request \ {r} : sender'[s] = sender[s]
  BY <1>1 DEF AwaitFinalList, Sender
<1>3. /\ r = lastRequest /\ Begun /\ Uploading
      /\ \A s \in Request : sender[s].at \in Active => s = r
  BY <1>2 DEF SerialInv, LastOnly, Begun, Uploading, Active
<1>4. ~LatePending /\ ~Upgrading
  BY <1>3 DEF SerialInv, LateOnce, OneStarter
<1>5. /\ \A s \in Request : sender'[s].at \in Active => sender[s].at \in Active
      /\ \A s \in Request : sender'[s].at = "none" <=> sender[s].at = "none"
      /\ ~Uploading'
  BY <1>2, <1>3 DEF Uploading, Active
<1>6. OldDeletes(Append(toSink, AskList), toSink)
  BY DeletesKept, ListAsked DEF TransferInv, TransferTypeOK
<1>7. /\ LateAt(listFuture.callbacks) = {} /\ LateAt(firing'.callbacks) = {}
      /\ EarlyRequests(firing'.callbacks) \subseteq {lastRequest}
      /\ firing'.list = firing.list
  BY <1>2, <1>4 DEF LatePending, SerialInv, LastOnly
<1>8. CASE listFuture.done
  <2>1. LateStage(listFuture.list, Append(toSink, AskList))
    BY <1>8 DEF AwaitFinalList
  <2>2. listFuture.list \in List /\ StillThere(listFuture.list.files)
    BY DEF TransferInv, TransferTypeOK, SerialInv, LastKept
  <2>3. QED
    BY <1>2, <1>3, <1>4, <1>5, <1>6, <1>7, <2>1, <2>2, LateStageSerial
<1>9. CASE ~listFuture.done
  <2>1. /\ listFuture' = [listFuture EXCEPT !.callbacks = Append(@, Late(r))]
        /\ toSink' = Append(toSink, AskList) /\ UNCHANGED <<networkVars, deletion>>
    BY <1>9 DEF AwaitFinalList
  <2>2. /\ listFuture'.callbacks = Append(listFuture.callbacks, Late(r))
        /\ listFuture'.list = listFuture.list
        /\ listFuture.callbacks \in Seq(Callback) /\ Late(r) \in Callback /\ Late(r).late
    BY <2>1, EmptyTypes DEF TransferInv, TransferTypeOK, Late
  <2>3. /\ EarlyRequests(listFuture'.callbacks) = EarlyRequests(listFuture.callbacks)
        /\ LateAt(listFuture'.callbacks) = {Len(listFuture.callbacks) + 1}
    BY <1>7, <2>2, EarlyOfAppend, LateOfAppend
  <2>4. LateUnique'
    BY <1>7, <2>3 DEF LateUnique
  <2>5. EarlyRequests(listFuture'.callbacks) \subseteq {lastRequest}
    BY <2>3 DEF SerialInv, LastOnly
  <2>6. SerialInv'
    BY <1>2, <1>3, <1>4, <1>5, <1>6, <1>7, <2>1, <2>2, <2>4, <2>5, SameFiles, QuietSerial
       DEF OldDeletes
  <2>7. QED
    BY <2>1, <2>6 DEF StartsWhole, networkVars
<1>10. QED
  BY <1>8, <1>9

------------------------------------------------------------------------------
(* Beginning an upload.                                                      *)

(* What is settled when the last request has not begun its upload. *)
LEMMA NotBegun ==
    ASSUME SerialInv, ~Begun, lastRequest \in Request
    PROVE  /\ ~Upgrading /\ ~LatePending
           /\ \A s \in Request : sender[s].at \notin Active
<1>1. sender[lastRequest].at = "none"
  BY DEF Begun
<1>2. QED
  BY <1>1 DEF SerialInv, OneStarter, LateOnce, LastOnly, Active

(* Until it begins, no device is started and the request's file is nowhere.  *)
LEMMA BeforeUpload ==
    ASSUME NEW r \in Request, lastRequest' = r, sender'[r].at = "none",
           ~Upgrading, UNCHANGED <<starts, deviceVars>>,
           \A s \in Request : sender'[s].at \notin Active,
           EarlyRequests(listFuture'.callbacks) \subseteq {r},
           EarlyRequests(firing'.callbacks) \subseteq {r},
           LateAt(listFuture'.callbacks) = {}, LateAt(firing'.callbacks) = {},
           \A i \in DOMAIN toSink' : toSink'[i].kind = "delete" =>
               toSink'[i].name # r /\ deletion'.waiter \in {r, NoFile},
           NeverOlderFile, \A o \in Order : task[o] # "none" => o \in acked,
           \A i \in DOMAIN toUpdateIds' : toUpdateIds'[i].req <= r,
           NamedAfterBegun(sinkFiles)', NamedAfterBegun(listFuture.list.files)',
           NamedAfterBegun(firing.list.files)'
    PROVE  SerialInv'
<1>1. ~Begun'
  BY DEF Begun
<1>2. ~Upgrading'
  BY DEF Upgrading, InProgress, StartedOrders, deviceVars
<1>3. ~LatePending' /\ LateUnique'
  BY DEF LatePending, LateUnique
<1>4. LastOnly' /\ LateOnce'
  BY <1>3 DEF LastOnly, LateOnce, LateUnique
<1>5. OneStarter'
  BY <1>2 DEF OneStarter, OneUpgradeAtATime, Upgrading, deviceVars
<1>6. LastFile'
  BY <1>1 DEF LastFile, NeverOlderFile
<1>7. LastKept'
  <2>1. StillThere(listFuture.list.files)' /\ StillThere(firing.list.files)'
    BY DEF NamedAfterBegun, StillThere
  <2>2. QED
    BY <1>2, <2>1 DEF LastKept
<1>8. QED
  BY <1>4, <1>5, <1>6, <1>7 DEF SerialInv

(* The early stage of the last request begins its upload or makes room, but  *)
(* never by deleting its own file.                                           *)
LEMMA EarlyStageSerial ==
    ASSUME NEW r \in Request, NEW list \in List, NEW sent \in Seq(Message),
           EarlyStage(r, list, sent),
           sender \in [Request -> [at : SenderState, part : Nat, future : Nat]],
           lastRequest' = r, sender[r].at = "none",
           ~Upgrading, UNCHANGED <<starts, deviceVars, sinkFiles>>,
           \A s \in Request : sender[s].at \notin Active,
           EarlyRequests(firing'.callbacks) \subseteq {r}, LateAt(firing'.callbacks) = {},
           \A i \in DOMAIN sent : sent[i].kind = "delete" =>
               sent[i].name # r /\ deletion.waiter \in {r, NoFile},
           NeverOlderFile, \A o \in Order : task[o] # "none" => o \in acked,
           \A i \in DOMAIN toUpdateIds' : toUpdateIds'[i].req <= r,
           NamedAfterBegun(sinkFiles), NamedAfterBegun(list.files),
           NamedAfterBegun(firing'.list.files)
    PROVE  SerialInv'
<1>1. /\ listFuture' = NewListFuture /\ listFuture'.list = NoList
      /\ EarlyRequests(listFuture'.callbacks) = {} /\ LateAt(listFuture'.callbacks) = {}
  BY EmptyTypes, EarlyOfEmpty, LateOfEmpty DEF EarlyStage
<1>2. CASE list.free >= Parts[r]
  <2>1. DoUpload(r, sent)
    BY <1>2 DEF EarlyStage
  <2>2. /\ fileName' = r /\ toSink' = sent /\ deletion' = deletion
        /\ sender'[r].at = "sending" /\ \A s \in Request \ {r} : sender'[s] = sender[s]
    BY <2>1 DEF DoUpload
  <2>3. Begun'
    BY <2>2 DEF Begun
  <2>4. ~Upgrading'
    BY DEF Upgrading, InProgress, StartedOrders, deviceVars
  <2>5. ~LatePending' /\ LateUnique'
    BY <1>1 DEF LatePending, LateUnique
  <2>6. \A s \in Request : sender'[s].at \in Active => s = r
    BY <2>2
  <2>7. LastOnly' /\ LateOnce'
    BY <1>1, <2>2, <2>5, <2>6 DEF LastOnly, LateOnce, LateUnique
  <2>8. OneStarter'
    BY <2>4 DEF OneStarter, OneUpgradeAtATime, Upgrading, deviceVars
  <2>9. LastFile'
    BY <2>2 DEF LastFile, NeverOlderFile
  <2>10. LastKept'
    <3>1. \A s \in Request : sender[s].at # "none" => sender'[s].at # "none"
      BY <2>2
    <3>2. /\ NamedAfterBegun(sinkFiles)' /\ NamedAfterBegun(listFuture.list.files)'
          /\ NamedAfterBegun(firing.list.files)'
      BY <1>1, <3>1 DEF NamedAfterBegun, NoList
    <3>3. StillThere(listFuture.list.files)' /\ StillThere(firing.list.files)'
      BY <1>1 DEF NamedAfterBegun, StillThere, NoList
    <3>4. \A i \in DOMAIN toSink' : toSink'[i].kind = "delete" => toSink'[i].name # r
      BY <2>2
    <3>5. QED
      BY <2>4, <3>2, <3>3, <3>4 DEF LastKept
  <2>11. QED
    BY <2>7, <2>8, <2>9, <2>10 DEF SerialInv
<1>3. CASE ~(list.free >= Parts[r])
  <2>1. MakeRoom(r, list, sent)
    BY <1>3 DEF EarlyStage
  <2>2. /\ deletion' = [done |-> FALSE, waiter |-> r]
        /\ UNCHANGED <<fileName, file, sender>>
    BY <2>1 DEF MakeRoom
  <2>3. \A i \in DOMAIN toSink' : toSink'[i].kind = "delete" => toSink'[i].name # r
    <3>1. CASE list.files = <<>>
      BY <2>1, <3>1 DEF MakeRoom
    <3>2. CASE list.files # <<>>
      <4> DEFINE m == Delete(Head(list.files).name)
      <4>1. list.files \in Seq(SinkFile)
        BY DEF List
      <4>2. Head(list.files) = list.files[1] /\ 1 \in DOMAIN list.files
            /\ Head(list.files) \in SinkFile
        BY <3>2, <4>1, HeadTailProperties, LenProperties
      <4>3. m.name # r /\ m \in Message
        BY <4>2, MessageTypes DEF NamedAfterBegun, Delete, SinkFile
      <4>4. toSink' = Append(sent, m)
        BY <2>1, <3>2 DEF MakeRoom
      <4> HIDE DEF m
      <4>5. \A i \in DOMAIN Append(sent, m) :
              (i \in DOMAIN sent /\ Append(sent, m)[i] = sent[i]) \/ Append(sent, m)[i] = m
        BY <4>3, AppendProperties, LenProperties
      <4>6. QED
        BY <4>3, <4>4, <4>5
    <3>3. QED
      BY <3>1, <3>2
  <2>4. deletion'.waiter = r
    BY <2>2
  <2>5. /\ NamedAfterBegun(sinkFiles)' /\ NamedAfterBegun(listFuture.list.files)'
        /\ NamedAfterBegun(firing.list.files)'
    BY <1>1, <2>2 DEF NamedAfterBegun, NoList
  <2>6. QED
    BY <1>1, <2>2, <2>3, <2>4, <2>5, BeforeUpload
<1>4. QED
  BY <1>2, <1>3

(* A callback of the completed list. *)
LEMMA FireCallbackSerial ==
    ASSUME TransferInv, TransferInv', SerialInv, FireCallback, UNCHANGED deviceVars
    PROVE  SerialInv' /\ StartsWhole
<1> DEFINE c == Head(firing.callbacks)
<1>1. /\ firing \in [list : List, callbacks : Seq(Callback)] /\ firing.callbacks # <<>>
      /\ toSink \in Seq(Message) /\ EarlyOnce(firing.callbacks) /\ firing.list \in List
      /\ sender \in [Request -> [at : SenderState, part : Nat, future : Nat]]
  BY DEF TransferInv, TransferTypeOK, FireCallback, LockFree, WaitsOnce
<1>2. /\ c \in Callback /\ Tail(firing.callbacks) \in Seq(Callback)
      /\ EarlyRequests(Tail(firing.callbacks)) \subseteq EarlyRequests(firing.callbacks)
      /\ ~c.late => c.req \in EarlyRequests(firing.callbacks)
  BY <1>1, EarlyOfTail
<1>3. /\ LateAt(Tail(firing.callbacks)) # {} => LateAt(firing.callbacks) # {} /\ ~c.late
      /\ c.late => LateAt(firing.callbacks) # {}
  BY <1>1, LateOfTail DEF SerialInv, LateOnce
<1>4. /\ firing'.list \in {firing.list, NoList}
      /\ firing'.callbacks \in {<<>>, Tail(firing.callbacks)}
  <2>1. firing' \in {NotFiring, [list |-> firing.list, callbacks |-> Tail(firing.callbacks)]}
    BY <1>1 DEF FireCallback
  <2>2. QED
    BY <2>1 DEF NotFiring
<1>5. /\ sinkFiles' = sinkFiles
      /\ EarlyRequests(firing'.callbacks) \subseteq {lastRequest}
  BY <1>2, <1>4, EarlyOfEmpty DEF FireCallback, SerialInv, LastOnly
<1>6. CASE c.late /\ LateStage(firing.list, toSink) /\ UNCHANGED sender
  <2>1. LatePending /\ LateAt(firing'.callbacks) = {} /\ LateAt(listFuture.callbacks) = {}
    BY <1>3, <1>4, <1>6, LateOfEmpty DEF LatePending, SerialInv, LateOnce
  <2>2. Begun /\ ~Uploading /\ ~Upgrading
    BY <2>1 DEF SerialInv, LateOnce, OneStarter
  <2>3. ~Uploading'
    BY <1>6, <2>2 DEF Uploading
  <2>4. StillThere(firing.list.files)
    BY DEF SerialInv, LastKept
  <2> HIDE DEF c
  <2>5. QED
    BY <1>1, <1>4, <1>5, <1>6, <2>1, <2>2, <2>3, <2>4, DeletesKept, LateStageSerial
<1>7. CASE /\ ~c.late /\ EarlyStage(c.req, firing.list, toSink)
           /\ UNCHANGED <<lastRequest, toUpdateIds, status, heard, minor, starts>>
  <2>1. c.req \in Request /\ c.req = lastRequest
    BY <1>2, <1>7 DEF Callback, SerialInv, LastOnly
  <2>2. sender[lastRequest].at = "none"
    BY <1>2, <1>7, <2>1 DEF TransferInv, WaitsOnce, Waits
  <2>3. /\ ~Upgrading /\ ~LatePending
        /\ \A s \in Request : sender[s].at \notin Active
    BY <2>1, <2>2, NotBegun DEF Begun
  <2>4. LateAt(firing'.callbacks) = {}
    BY <1>3, <1>4, <2>3, LateOfEmpty DEF LatePending
  <2>5. /\ NamedAfterBegun(sinkFiles) /\ NamedAfterBegun(firing.list.files)
        /\ NamedAfterBegun(firing'.list.files)
    BY <1>4 DEF SerialInv, LastKept, NamedAfterBegun, NoList
  <2>6. \A i \in DOMAIN toSink : toSink[i].kind = "delete" =>
          toSink[i].name # lastRequest /\ deletion.waiter \in {lastRequest, NoFile}
    BY DEF SerialInv, LastKept, LastOnly
  <2>7. /\ NeverOlderFile /\ \A o \in Order : task[o] # "none" => o \in acked
        /\ \A i \in DOMAIN toUpdateIds' : toUpdateIds'[i].req <= lastRequest
    BY <1>7 DEF SerialInv, LastFile, OneStarter
  <2>8. /\ EarlyStage(lastRequest, firing.list, toSink)
        /\ lastRequest' = lastRequest /\ UNCHANGED <<starts, deviceVars, sinkFiles>>
    BY <1>5, <1>7, <2>1
  <2>9. SerialInv'
    BY <1>1, <1>5, <2>1, <2>2, <2>3, <2>4, <2>5, <2>6, <2>7, <2>8, EarlyStageSerial
  <2>10. QED
    BY <1>7, <2>9 DEF StartsWhole
<1>8. QED
  BY <1>6, <1>7 DEF FireCallback

(* The orders of a new request are its own. *)
LEMMA OrdersJoin ==
    ASSUME NetworkTypeOK, NEW r \in Request, Enqueue(r), lastRequest < r,
           \A i \in DOMAIN toUpdateIds : toUpdateIds[i].req <= lastRequest
    PROVE  \A i \in DOMAIN toUpdateIds' : toUpdateIds'[i].req <= r
<1>1. PICK new \in Arrangements(OrdersOf(r)) : toUpdateIds' = toUpdateIds \o new
  BY DEF Enqueue
<1>2. Cardinality(Device) \in Nat
  BY NetworkAssumption, FS_CardinalityType
<1>3. PICK n \in 0..Cardinality(Device) : new \in [1..n -> OrdersOf(r)]
  BY <1>1 DEF Arrangements
<1>4. n \in Nat /\ new \in Seq(Order) /\ Len(new) = n
      /\ \A i \in 1..n : new[i].req = r
  BY <1>2, <1>3 DEF OrdersOf
<1>5. toUpdateIds \in Seq(Order) /\ Len(toUpdateIds) \in Nat
      /\ DOMAIN toUpdateIds = 1..Len(toUpdateIds)
  BY LenProperties DEF NetworkTypeOK
<1>6. /\ Len(toUpdateIds \o new) = Len(toUpdateIds) + n
      /\ DOMAIN (toUpdateIds \o new) = 1..(Len(toUpdateIds) + n)
      /\ \A i \in 1..(Len(toUpdateIds) + n) :
           (toUpdateIds \o new)[i] = IF i <= Len(toUpdateIds) THEN toUpdateIds[i]
                                     ELSE new[i - Len(toUpdateIds)]
  <2>1. new \in Seq(Order) /\ toUpdateIds \in Seq(Order)
    BY <1>4, <1>5
  <2>2. /\ toUpdateIds \o new \in Seq(Order)
        /\ Len(toUpdateIds \o new) = Len(toUpdateIds) + Len(new)
        /\ \A i \in 1..(Len(toUpdateIds) + Len(new)) :
             (toUpdateIds \o new)[i] = IF i <= Len(toUpdateIds) THEN toUpdateIds[i]
                                       ELSE new[i - Len(toUpdateIds)]
    BY <2>1, ConcatProperties
  <2>3. DOMAIN (toUpdateIds \o new) = 1..Len(toUpdateIds \o new)
    BY <2>2, LenProperties
  <2>4. Len(new) = n
    BY <1>4
  <2>5. QED
    BY <2>2, <2>3, <2>4
<1> SUFFICES ASSUME NEW i \in 1..(Len(toUpdateIds) + n)
             PROVE  (toUpdateIds \o new)[i].req <= r
  BY <1>1, <1>6
<1>7. lastRequest \in Nat /\ r \in Nat
  BY NetworkAssumption DEF NetworkTypeOK, Request
<1>8. CASE i <= Len(toUpdateIds)
  <2>1. i \in DOMAIN toUpdateIds /\ (toUpdateIds \o new)[i] = toUpdateIds[i]
    BY <1>4, <1>5, <1>6, <1>8
  <2>2. toUpdateIds[i] \in Order
    BY <1>5, <2>1
  <2>3. toUpdateIds[i].req \in Nat
    BY <2>2, NetworkAssumption DEF Order, Request
  <2>4. QED
    BY <1>7, <2>1, <2>3
<1>9. CASE ~(i <= Len(toUpdateIds))
  <2>1. i - Len(toUpdateIds) \in 1..n
    BY <1>4, <1>5, <1>9
  <2>2. QED
    BY <1>4, <1>6, <1>7, <1>9, <2>1
<1>10. QED
  BY <1>8, <1>9

(* A request that arrives when everything before it has settled. *)
LEMMA UpdateFirmwareSerial ==
    ASSUME TransferInv, SerialInv, NEW r \in Request, UpdateFirmware(r), Settled,
           UNCHANGED deviceVars
    PROVE  SerialInv'
<1>1. /\ r = lastRequest + 1 /\ Enqueue(r) /\ lastRequest' = r /\ lastRequest < r
      /\ UNCHANGED <<starts, sinkFiles, firing>>
  <2>1. r = lastRequest + 1 /\ Enqueue(r) /\ UNCHANGED <<starts, sinkFiles, firing>>
    BY DEF UpdateFirmware
  <2>2. lastRequest' = r /\ lastRequest \in Nat
    BY <2>1, NetworkAssumption DEF Enqueue, TransferInv, NetworkTypeOK
  <2>3. QED
    BY <2>1, <2>2
<1>2. \A i \in DOMAIN toUpdateIds' : toUpdateIds'[i].req <= r
  BY <1>1, OrdersJoin DEF TransferInv, SerialInv, LastFile
<1>3. sender[r].at = "none"
  BY <1>1 DEF TransferInv, SenderOK, NetworkTypeOK
<1>4. /\ toSink = <<>> /\ firing.callbacks = <<>> /\ listFuture.callbacks = <<>>
      /\ \A s \in Request : sender[s].at \notin Active
  BY DEF Settled, TransferSettled, LockFree, Active
<1>5. ~Upgrading
  BY DEF Settled, DevicesSettled, Upgrading, InProgress
<1>6. /\ toSink \o Asks(r) \in Seq(Message)
      /\ \A i \in DOMAIN (toSink \o Asks(r)) : (toSink \o Asks(r))[i].kind # "delete"
  <2>1. DOMAIN toSink = {}
    BY <1>4
  <2>2. QED
    BY <2>1, ListsAsked DEF TransferInv, AskList
<1>7. /\ EarlyRequests(firing'.callbacks) = {} /\ LateAt(firing'.callbacks) = {}
  BY <1>1, <1>4, EarlyOfEmpty, LateOfEmpty
<1>8. /\ NamedAfterBegun(sinkFiles) /\ NamedAfterBegun(listFuture.list.files)
      /\ NamedAfterBegun(firing.list.files)
      /\ NeverOlderFile /\ \A o \in Order : task[o] # "none" => o \in acked
  BY DEF SerialInv, LastKept, LastFile, OneStarter
<1>9. sender \in [Request -> [at : SenderState, part : Nat, future : Nat]]
      /\ listFuture.list \in List
  BY DEF TransferInv, TransferTypeOK
<1>10. CASE listFuture.done
  <2>1. EarlyStage(r, listFuture.list, toSink \o Asks(r))
    BY <1>10 DEF UpdateFirmware
  <2>2. NamedAfterBegun(firing'.list.files)
    BY <1>1, <1>8
  <2>3. QED
    BY <1>1, <1>2, <1>3, <1>4, <1>5, <1>6, <1>7, <1>8, <1>9, <2>1, <2>2, EarlyStageSerial
<1>11. CASE ~listFuture.done
  <2>1. /\ listFuture' = [listFuture EXCEPT !.callbacks = Append(@, Early(r))]
        /\ toSink' = toSink \o Asks(r) /\ UNCHANGED sender
    BY <1>11 DEF UpdateFirmware
  <2>2. /\ listFuture'.callbacks = Append(listFuture.callbacks, Early(r))
        /\ listFuture'.list = listFuture.list
        /\ listFuture.callbacks \in Seq(Callback) /\ Early(r) \in Callback
        /\ ~Early(r).late /\ Early(r).req = r
    BY <2>1, EmptyTypes DEF TransferInv, TransferTypeOK, Early
  <2>3. /\ EarlyRequests(listFuture'.callbacks) = {r} /\ LateAt(listFuture'.callbacks) = {}
    <3>1. /\ EarlyRequests(listFuture.callbacks) = {}
          /\ LateAt(listFuture.callbacks) = {}
      BY <1>4, EarlyOfEmpty, LateOfEmpty
    <3>2. /\ EarlyRequests(Append(listFuture.callbacks, Early(r))) = {r}
          /\ LateAt(Append(listFuture.callbacks, Early(r))) = {}
      BY <2>2, <3>1, EarlyOfAppend, LateOfAppend
    <3>3. QED
      BY <2>2, <3>2
  <2>4. /\ NamedAfterBegun(sinkFiles)' /\ NamedAfterBegun(listFuture.list.files)'
        /\ NamedAfterBegun(firing.list.files)'
    BY <1>1, <1>8, <2>1, <2>2 DEF NamedAfterBegun
  <2>5. QED
    BY <1>1, <1>2, <1>3, <1>4, <1>5, <1>6, <1>7, <1>8, <2>1, <2>3, <2>4, BeforeUpload
<1>12. QED
  BY <1>10, <1>11

------------------------------------------------------------------------------
(* The devices.                                                              *)

(* A step of the devices that starts none and takes up no upgrade. *)
LEMMA DeviceQuiet ==
    ASSUME TransferInv', SerialInv, UNCHANGED <<transferVars, lastRequest, starts>>,
           (toUpdateIds' = toUpdateIds /\ fileName' = fileName) \/ toUpdateIds' = <<>>,
           \A o \in Order : InProgress(o)' => InProgress(o),
           \A o \in Order : task'[o] # "none" => o \in acked'
    PROVE  SerialInv'
<1>1. /\ UNCHANGED <<toSink, sinkFiles, listFuture, deletion, firing, sender>>
      /\ UNCHANGED <<lastRequest, starts>>
  BY DEF transferVars
<1>2. /\ Begun' <=> Begun
      /\ Uploading' <=> Uploading
      /\ LatePending' <=> LatePending
  BY <1>1 DEF Begun, Uploading, LatePending
<1>3. Upgrading' => Upgrading
  BY DEF Upgrading
<1>4. LastOnly' /\ LateOnce'
  BY <1>1, <1>2 DEF SerialInv, LastOnly, LateOnce
<1>5. OneStarter'
  BY <1>2, <1>3 DEF SerialInv, OneStarter, OneUpgradeAtATime
<1>6. LastFile'
  BY <1>1, <1>2 DEF SerialInv, LastFile, NeverOlderFile
<1>7. LastKept'
  <2>1. firing'.list = firing.list /\ listFuture'.list = listFuture.list
    BY <1>1
  <2>2. \A i \in DOMAIN toSink' : toSink'[i].kind = "delete" => toSink'[i].name # lastRequest
    BY <1>1 DEF SerialInv, LastKept
  <2>3. \A r \in Request : sender[r].at # "none" => sender'[r].at # "none"
    BY <1>1
  <2>4. \A j \in DOMAIN sinkFiles' :
          sinkFiles'[j].name \in Request => sender'[sinkFiles'[j].name].at # "none"
    BY <1>1, SameFiles
  <2>5. QED
    BY <1>1, <1>3, <2>1, <2>2, <2>3, <2>4, SameFiles, LastFileKept DEF SerialInv
<1>8. QED
  BY <1>4, <1>5, <1>6, <1>7 DEF SerialInv

(* Handlers, the timer and what happens on the devices. *)
LEMMA HandlersSerial ==
    ASSUME TransferInv', DeviceTypeOK, SerialInv, UNCHANGED transferVars,
           \/ UpdateStatuses
           \/ \E d \in Device :
                \/ Install(d) \/ FallSilent(d) \/ RestartAges(d)
                \/ DeviceTurnOn(d) \/ VersionCommand(d) \/ Beacon(d)
           \/ \E o \in Order : FirmwareAck(o) \/ FirmwareAborted(o)
    PROVE  SerialInv' /\ starts' = starts
<1>1. CASE UNCHANGED <<lastRequest, toUpdateIds, fileName, starts, task, acked, aborted>>
  <2>1. \A o \in Order : InProgress(o)' => InProgress(o)
    BY <1>1 DEF InProgress, StartedOrders
  <2>2. \A o \in Order : task'[o] # "none" => o \in acked'
    BY <1>1 DEF SerialInv, OneStarter
  <2>3. QED
    BY <1>1, <2>1, <2>2, DeviceQuiet
<1>2. ASSUME NEW o \in Order, FirmwareAck(o)
      PROVE  SerialInv' /\ starts' = starts
  <2>1. /\ UNCHANGED <<lastRequest, toUpdateIds, fileName, starts, aborted>>
        /\ o \in StartedOrders \ (acked \cup aborted) /\ acked' = acked \cup {o}
        /\ task'[o] = "submitted" /\ \A p \in Order \ {o} : task'[p] = task[p]
    BY <1>2 DEF FirmwareAck, networkVars, DeviceTypeOK
  <2>2. \A p \in Order : InProgress(p)' => InProgress(p)
    BY <2>1 DEF InProgress, StartedOrders
  <2>3. \A p \in Order : task'[p] # "none" => p \in acked'
    BY <2>1 DEF SerialInv, OneStarter
  <2>4. QED
    BY <2>1, <2>2, <2>3, DeviceQuiet
<1>3. ASSUME NEW o \in Order, FirmwareAborted(o)
      PROVE  SerialInv' /\ starts' = starts
  <2>1. /\ UNCHANGED <<lastRequest, toUpdateIds, fileName, starts, acked, task>>
        /\ aborted' = aborted \cup {o}
    BY <1>3 DEF FirmwareAborted
  <2>2. \A p \in Order : InProgress(p)' => InProgress(p)
    BY <2>1 DEF InProgress, StartedOrders
  <2>3. \A p \in Order : task'[p] # "none" => p \in acked'
    BY <2>1 DEF SerialInv, OneStarter
  <2>4. QED
    BY <2>1, <2>2, <2>3, DeviceQuiet
<1>4. ASSUME NEW d \in Device,
             \/ Install(d) \/ FallSilent(d) \/ RestartAges(d)
             \/ DeviceTurnOn(d) \/ VersionCommand(d) \/ Beacon(d)
      PROVE  UNCHANGED <<lastRequest, toUpdateIds, fileName, starts, task, acked, aborted>>
  <2>1. CASE Install(d) \/ RestartAges(d)
    BY <2>1 DEF Install, RestartAges, networkVars
  <2>2. CASE FallSilent(d) \/ Beacon(d)
    BY <2>2 DEF FallSilent, Beacon, deviceVars
  <2>3. CASE DeviceTurnOn(d) \/ VersionCommand(d)
    BY <2>3 DEF DeviceTurnOn, VersionCommand
  <2>4. QED
    BY <1>4, <2>1, <2>2, <2>3
<1>5. CASE UpdateStatuses
  BY <1>1, <1>5 DEF UpdateStatuses
<1>6. QED
  BY <1>1, <1>2, <1>3, <1>4, <1>5

(* The task of an upgrade. It starts the next device as the only one that is *)
(* being upgraded, and from then on no longer counts as such.                *)
LEMMA RunTaskSerial ==
    ASSUME TransferInv, TransferInv', DeviceTypeOK, SerialInv, UNCHANGED transferVars,
           NEW o \in Order, RunTask(o)
    PROVE  SerialInv' /\ StartsWhole
<1>1. /\ UNCHANGED <<lastRequest, acked, aborted>>
      /\ task[o] # "none" /\ \A p \in Order \ {o} : task'[p] = task[p]
  <2>1. CASE StartNext(o)
    BY <2>1 DEF StartNext, SendStartUpgrade, StartUpgradeOfNothing, networkVars, GoTo,
                DeviceTypeOK
  <2>2. CASE ClearIfLast(o)
    BY <2>2 DEF ClearIfLast, CheckIfLastThenClear, GoTo, DeviceTypeOK
  <2>3. CASE BeginRestart(o) \/ UpdateFinished(o) \/ BackOnline(o) \/ RefreshLastTime(o)
    BY <2>3 DEF BeginRestart, UpdateFinished, BackOnline, RefreshLastTime, GoTo,
                DeviceTypeOK
  <2>4. CASE PeekNext(o) \/ WaitTimesOut(o) \/ EndTask(o)
    BY <2>4 DEF PeekNext, WaitTimesOut, EndTask, GoTo, DeviceTypeOK, networkVars
  <2>5. QED
    BY <2>1, <2>2, <2>3, <2>4 DEF RunTask
<1>2. \A p \in Order : task'[p] # "none" => p \in acked'
  BY <1>1 DEF SerialInv, OneStarter
<1>3. CASE ~(StartNext(o) /\ SendStartUpgrade(fileName))
  <2>1. /\ (toUpdateIds' = toUpdateIds /\ fileName' = fileName) \/ toUpdateIds' = <<>>
        /\ starts' = starts
        /\ task'[o] \in {"submitted", "waiting", "updated", "online", "peeking", "polling"}
             => task[o] \in {"submitted", "waiting", "updated", "online", "peeking", "polling"}
    <3>1. CASE StartNext(o)
      BY <1>3, <3>1 DEF StartNext, StartUpgradeOfNothing, networkVars, GoTo, DeviceTypeOK
    <3>2. CASE ClearIfLast(o)
      BY <3>2 DEF ClearIfLast, CheckIfLastThenClear, GoTo, DeviceTypeOK
    <3>3. CASE BeginRestart(o) \/ UpdateFinished(o) \/ BackOnline(o) \/ RefreshLastTime(o)
      BY <3>3 DEF BeginRestart, UpdateFinished, BackOnline, RefreshLastTime, GoTo,
                  DeviceTypeOK
    <3>4. CASE PeekNext(o) \/ WaitTimesOut(o) \/ EndTask(o)
      BY <3>4 DEF PeekNext, WaitTimesOut, EndTask, GoTo, DeviceTypeOK, networkVars
    <3>5. QED
      BY <3>1, <3>2, <3>3, <3>4 DEF RunTask
  <2>2. \A p \in Order : InProgress(p)' => InProgress(p)
    BY <1>1, <2>1 DEF InProgress, StartedOrders
  <2>3. QED
    BY <1>1, <1>2, <2>1, <2>2, DeviceQuiet DEF StartsWhole
<1>4. CASE StartNext(o) /\ SendStartUpgrade(fileName)
  <2>1. task[o] = "polling" /\ SendStartUpgrade(fileName) /\ task'[o] = "clearing"
    BY <1>4 DEF StartNext, GoTo, DeviceTypeOK, SendStartUpgrade, StartUpgradeOfNothing
  <2>2. InProgress(o) /\ Upgrading
    BY <2>1 DEF InProgress, Upgrading
  <2>3. /\ Begun /\ ~Uploading /\ ~LatePending /\ FileWhole(lastRequest)
        /\ \A p \in Order : InProgress(p) => p = o
    BY <2>2 DEF SerialInv, OneStarter, LastKept, OneUpgradeAtATime
  <2>4. /\ UNCHANGED <<toSink, sinkFiles, listFuture, deletion, firing, sender>>
    BY DEF transferVars
  <2>5. Begun' /\ ~Uploading' /\ ~LatePending'
    BY <1>1, <2>3, <2>4 DEF Begun, Uploading, LatePending
  <2>6. \A p \in Order : InProgress(p)' => p = Head(toUpdateIds)
    <3> SUFFICES ASSUME NEW p \in Order, InProgress(p)', p # Head(toUpdateIds)
                 PROVE  FALSE
      OBVIOUS
    <3>1. \E x : starts' = starts \cup
                   {[order |-> Head(toUpdateIds), path |-> fileName, partition |-> x]}
      BY <2>1 DEF SendStartUpgrade
    <3>2. p \in StartedOrders' => p \in StartedOrders
      BY <3>1 DEF StartedOrders
    <3>3. CASE p = o
      <4>1. o \in acked
        BY <1>1 DEF SerialInv, OneStarter
      <4>2. QED
        BY <1>1, <2>1, <3>3, <4>1 DEF InProgress
    <3>4. CASE p # o
      <4>1. InProgress(p)
        BY <1>1, <3>2, <3>4 DEF InProgress
      <4>2. QED
        BY <2>3, <3>4, <4>1
    <3>5. QED
      BY <3>3, <3>4
  <2>7. /\ OneStarter' /\ LastFile' /\ fileName = lastRequest
        /\ \A s \in starts' \ starts : s.path = lastRequest
    BY <1>2, <2>1, <2>3, <2>5, <2>6, StartKeeps DEF TransferInv, SerialInv
  <2>8. LastOnly' /\ LateOnce'
    BY <1>1, <2>3, <2>4, <2>5 DEF SerialInv, LastOnly, LateOnce
  <2>9. LastKept'
    <3>1. firing'.list = firing.list /\ listFuture'.list = listFuture.list
      BY <2>4
    <3>2. \A i \in DOMAIN toSink' : toSink'[i].kind = "delete" => toSink'[i].name # lastRequest
      BY <2>4 DEF SerialInv, LastKept
    <3>3. \A r \in Request : sender[r].at # "none" => sender'[r].at # "none"
      BY <2>4
    <3>4. \A j \in DOMAIN sinkFiles' :
            sinkFiles'[j].name \in Request => sender'[sinkFiles'[j].name].at # "none"
      BY <2>4, SameFiles
    <3>5. QED
      BY <1>1, <2>2, <2>4, <3>1, <3>2, <3>3, <3>4, SameFiles, LastFileKept DEF SerialInv
  <2>10. QED
    BY <2>3, <2>7, <2>8, <2>9 DEF SerialInv, StartsWhole, Begun
<1>5. QED
  BY <1>3, <1>4

------------------------------------------------------------------------------
(* All steps together.                                                       *)

IInv == Typed /\ SerialInv

LEMMA InitSerial == Init => SerialInv
<1> SUFFICES ASSUME Init PROVE SerialInv
  OBVIOUS
<1>1. /\ lastRequest = 0 /\ toUpdateIds = <<>> /\ starts = {} /\ acked = {}
      /\ task = [o \in Order |-> "none"]
      /\ toSink = <<>> /\ listFuture = NewListFuture /\ firing = NotFiring
      /\ sender = [r \in Request |-> [at |-> "none", part |-> 0, future |-> 0]]
      /\ sinkFiles = [i \in 1..OldFiles |->
                       [name |-> MaxRequest + i, size |-> 1, parts |-> {1}]]
  BY DEF Init, NetworkInit, DeviceInit, TransferInit
<1>2. ~Begun /\ ~Uploading /\ ~Upgrading
  BY <1>1 DEF Begun, Uploading, Upgrading, InProgress, StartedOrders, Active
<1>3. ~LatePending /\ LateUnique
  BY <1>1, LateOfEmpty DEF LatePending, LateUnique
<1>4. LastOnly
  BY <1>1, EarlyOfEmpty DEF LastOnly, Active
<1>5. LateOnce
  BY <1>3 DEF LateOnce, LateUnique
<1>6. OneStarter
  BY <1>1, <1>2 DEF OneStarter, OneUpgradeAtATime, Upgrading
<1>7. LastFile
  BY <1>1, <1>2 DEF LastFile, NeverOlderFile
<1>8. LastKept
  <2>1. \A i \in DOMAIN sinkFiles : sinkFiles[i].name \notin Request
    BY <1>1, TransferAssumption, NetworkAssumption DEF Request
  <2>2. listFuture.list.files = <<>> /\ firing.list.files = <<>>
    BY <1>1 DEF NewListFuture, NotFiring, NoList
  <2>3. QED
    BY <1>1, <1>2, <2>1, <2>2 DEF LastKept, NamedAfterBegun, StillThere
<1>9. QED
  BY <1>4, <1>5, <1>6, <1>7, <1>8 DEF SerialInv

LEMMA NextSerial ==
    ASSUME ~Overlap, IInv, Next
    PROVE  SerialInv' /\ StartsWhole
<1>1. CASE TransferStep
  <2>1. TransferInv /\ TransferInv' /\ SerialInv /\ UNCHANGED deviceVars
    BY <1>1, TransferPart DEF IInv, Typed, StepOK
  <2>2. CASE RejectFile
    BY <2>1, <2>2, RejectFileSerial DEF RejectFile, StartsWhole, networkVars
  <2>3. CASE AnswerList
    BY <2>1, <2>3, AnswerListSerial DEF AnswerList, StartsWhole, networkVars
  <2>4. CASE FireCallback
    BY <2>1, <2>4, FireCallbackSerial
  <2>5. CASE AnswerDelete
    BY <2>1, <2>5, AnswerDeleteSerial DEF AnswerDelete, StartsWhole, networkVars
  <2>6. CASE AnswerPart
    BY <2>1, <2>6, AnswerPartSerial DEF AnswerPart, StartsWhole, networkVars
  <2>7. ASSUME NEW r \in Request, Settled, UpdateFirmware(r)
        PROVE  SerialInv' /\ StartsWhole
    BY <2>1, <2>7, UpdateFirmwareSerial DEF UpdateFirmware, StartsWhole
  <2>8. ASSUME NEW r \in Request, RunSender(r)
        PROVE  SerialInv' /\ StartsWhole
    <3>1. CASE AwaitFinalList(r)
      BY <2>1, <3>1, AwaitFinalListSerial
    <3>2. CASE SendPart(r) \/ AwaitAck(r) \/ TakeAck(r) \/ AckTimesOut(r) \/ RenewListFuture(r)
      <4>1. starts' = starts
        BY <3>2 DEF SendPart, AwaitAck, TakeAck, AckTimesOut, RenewListFuture, networkVars
      <4>2. QED
        BY <2>1, <3>2, <4>1, TaskSerial DEF StartsWhole
    <3>3. QED
      BY <2>8, <3>1, <3>2 DEF RunSender
  <2>9. QED
    BY <1>1, <2>2, <2>3, <2>4, <2>5, <2>6, <2>7, <2>8 DEF TransferStep, Handle
<1>2. CASE DeviceStep
  <2>1. /\ TransferInv /\ TransferInv' /\ DeviceTypeOK /\ SerialInv
        /\ UNCHANGED transferVars
    BY <1>2, DevicePart DEF IInv, Typed
  <2>2. ASSUME NEW o \in Order, RunTask(o)
        PROVE  SerialInv' /\ StartsWhole
    BY <2>1, <2>2, RunTaskSerial
  <2>3. QED
    BY <1>2, <2>1, <2>2, HandlersSerial DEF DeviceStep, StartsWhole
<1>3. QED
  BY <1>1, <1>2 DEF Next

LEMMA NextInv ==
    ASSUME ~Overlap, IInv, [Next]_vars
    PROVE  IInv'
<1>1. Typed'
  BY NextTyped DEF IInv
<1>2. CASE Next
  BY <1>1, <1>2, NextSerial DEF IInv
<1>3. CASE UNCHANGED vars
  <2>1. UNCHANGED transferVars /\ UNCHANGED networkVars /\ UNCHANGED deviceVars
    BY <1>3 DEF vars
  <2>2. UNCHANGED <<lastRequest, starts, toUpdateIds, fileName>>
    BY <2>1 DEF networkVars
  <2>3. /\ \A o \in Order : InProgress(o)' => InProgress(o)
        /\ \A o \in Order : task'[o] # "none" => o \in acked'
    BY <2>1, <2>2 DEF InProgress, StartedOrders, deviceVars, IInv, SerialInv, OneStarter
  <2>4. SerialInv'
    BY <1>1, <2>1, <2>2, <2>3, DeviceQuiet DEF IInv, Typed
  <2>5. QED
    BY <1>1, <2>4 DEF IInv
<1>4. QED
  BY <1>2, <1>3

LEMMA InitInv == Init => IInv
BY InitTyped, InitSerial DEF IInv

(* OneUpgradeAtATime: when no request arrives before the one before it has   *)
(* settled, two devices of the network are never upgraded at once, whatever  *)
(* late acknowledgements, aborts and timeouts come in.                       *)
THEOREM OneUpgradeInvariant ==
    ASSUME ~Overlap
    PROVE  Spec => []OneUpgradeAtATime
<1>1. IInv /\ [Next]_vars => IInv'
  BY NextInv
<1>2. IInv => OneUpgradeAtATime
  BY DEF IInv, SerialInv, OneStarter
<1>3. QED
  BY <1>1, <1>2, InitInv, PTL DEF Spec

(* NeverOlderFile: nor is a device told to install an older file than the    *)
(* one it was ordered for, or none.                                          *)
THEOREM NeverOlderInvariant ==
    ASSUME ~Overlap
    PROVE  Spec => []NeverOlderFile
<1>1. IInv /\ [Next]_vars => IInv'
  BY NextInv
<1>2. IInv => NeverOlderFile
  BY DEF IInv, SerialInv, LastFile
<1>3. QED
  BY <1>1, <1>2, InitInv, PTL DEF Spec

(* StartedFileOnSink: and whenever a device is told to start, be it the      *)
(* first of the queue or a later one, the sink has the whole of its file.    *)
THEOREM StartedOnSink ==
    ASSUME ~Overlap
    PROVE  Spec => StartedFileOnSink
<1>1. IInv /\ [Next]_vars => IInv'
  BY NextInv
<1>2. IInv /\ [Next]_vars =>
        [\A s \in starts' \ starts : s.path # NoFile /\ FileWhole(s.path)]_vars
  <2>1. ASSUME IInv, Next
        PROVE  \A s \in starts' \ starts : s.path # NoFile /\ FileWhole(s.path)
    <3>1. NoFile \notin Request
      BY NetworkAssumption DEF Request, NoFile
    <3>2. QED
      BY <2>1, <3>1, NextSerial DEF StartsWhole
  <2>2. QED
    BY <2>1
<1>3. QED
  BY <1>1, <1>2, InitInv, PTL DEF Spec, StartedFileOnSink
==============================================================================
