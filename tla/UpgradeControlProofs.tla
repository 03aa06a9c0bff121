------------------------- MODULE UpgradeControlProofs -------------------------
(***************************************************************************)
(* Proofs about UpgradeControl, for any devices, any number of requests,   *)
(* any devices named by them, and with or without overlapping requests:    *)
(* the type invariant, and that the upgrade of the devices implements      *)
(* UpgradeOrders.                                                          *)
(*                                                                         *)
(* The refinement needs to know that the queue holds no order twice, and   *)
(* for that, that it holds orders of accepted requests only: QueueOK.      *)
(***************************************************************************)
EXTENDS UpgradeControl, TLAPS, FiniteSetTheorems, SequenceTheorems

(* What UpgradeOrders can see of a state. *)
orderVars == <<lastRequest, toUpdateIds, starts>>

QueuePlaced == \A i \in DOMAIN toUpdateIds : toUpdateIds[i].req <= lastRequest

QueueDistinct ==
    \A i, j \in DOMAIN toUpdateIds : toUpdateIds[i] = toUpdateIds[j] => i = j

QueueOK == QueuePlaced /\ QueueDistinct

------------------------------------------------------------------------------
(* The iteration of the set of a request's orders is a sequence of them,     *)
(* without repetition (prepareUpload).                                       *)
LEMMA ArrangementType ==
    ASSUME NEW S \in SUBSET Order, NEW q \in Arrangements(S)
    PROVE  /\ q \in Seq(S)
           /\ q \in Seq(Order)
           /\ OrdersIn(q) = S
           /\ \A i, j \in DOMAIN q : q[i] = q[j] => i = j
<1>1. Cardinality(Device) \in Nat
  BY NetworkAssumption, FS_CardinalityType
<1>2. PICK n \in 0..Cardinality(Device) : q \in [1..n -> S]
  BY DEF Arrangements
<1>3. n \in Nat
  BY <1>1
<1>4. q \in Seq(S)
  BY <1>2, <1>3
<1>5. q \in Seq(Order)
  BY <1>2, <1>3
<1>6. QED
  BY <1>4, <1>5 DEF Arrangements

(* An order taken from a queue without repetition is no longer in it.        *)
LEMMA PolledQueue ==
    ASSUME NEW queue \in Seq(Order), queue # <<>>,
           \A i, j \in DOMAIN queue : queue[i] = queue[j] => i = j
    PROVE  /\ Head(queue) \in OrdersIn(queue)
           /\ Head(queue) \in Order
           /\ Tail(queue) \in Seq(Order)
           /\ OrdersIn(Tail(queue)) = OrdersIn(queue) \ {Head(queue)}
           /\ \A i, j \in DOMAIN Tail(queue) : Tail(queue)[i] = Tail(queue)[j] => i = j
           /\ \A i \in DOMAIN Tail(queue) : Tail(queue)[i] \in OrdersIn(queue)
<1>1. /\ Head(queue) = queue[1]
      /\ Len(queue) \in Nat
      /\ Len(queue) >= 1
      /\ DOMAIN queue = 1..Len(queue)
      /\ Tail(queue) \in Seq(Order)
      /\ Len(Tail(queue)) = Len(queue) - 1
      /\ DOMAIN Tail(queue) = 1..(Len(queue) - 1)
      /\ \A i \in 1..(Len(queue) - 1) : Tail(queue)[i] = queue[i + 1]
  BY HeadTailProperties
<1>2. OrdersIn(Tail(queue)) \subseteq OrdersIn(queue) \ {Head(queue)}
  BY <1>1 DEF OrdersIn
<1>3. ASSUME NEW o \in OrdersIn(queue) \ {Head(queue)}
      PROVE  o \in OrdersIn(Tail(queue))
  <2>1. PICK i \in DOMAIN queue : queue[i] = o
    BY DEF OrdersIn
  <2>2. i # 1
    BY <2>1, <1>1
  <2>3. /\ i - 1 \in DOMAIN Tail(queue)
        /\ Tail(queue)[i - 1] = o
    BY <2>1, <2>2, <1>1
  <2>4. QED
    BY <2>3 DEF OrdersIn
<1>4. /\ Head(queue) \in OrdersIn(queue)
      /\ Head(queue) \in Order
  BY <1>1, ElementOfSeq DEF OrdersIn
<1>5. \A i, j \in DOMAIN Tail(queue) : Tail(queue)[i] = Tail(queue)[j] => i = j
  BY <1>1
<1>6. \A i \in DOMAIN Tail(queue) : Tail(queue)[i] \in OrdersIn(queue)
  BY <1>1 DEF OrdersIn
<1>7. QED
  BY <1>1, <1>2, <1>3, <1>4, <1>5, <1>6

------------------------------------------------------------------------------
(* The operations on the queue, wherever they are called from.               *)

(* prepareUpload: the new orders are those of the next request, none of them *)
(* in the queue yet.                                                         *)
LEMMA EnqueueStep ==
    ASSUME NEW r \in Request, NetworkTypeOK, QueueOK, r = lastRequest + 1,
           Enqueue(r), starts' = starts
    PROVE  /\ lastRequest' \in 0..MaxRequest
           /\ toUpdateIds' \in Seq(Order)
           /\ QueueOK'
           /\ Orders!Place
<1>1. PICK new \in Arrangements(OrdersOf(r)) : toUpdateIds' = toUpdateIds \o new
  BY DEF Enqueue
<1>2. OrdersOf(r) \in SUBSET Order
  BY DEF OrdersOf
<1>3. /\ new \in Seq(Order)
      /\ OrdersIn(new) = OrdersOf(r)
      /\ \A i, j \in DOMAIN new : new[i] = new[j] => i = j
  BY <1>2, ArrangementType
<1>4. /\ toUpdateIds \in Seq(Order)
      /\ lastRequest \in Nat
      /\ lastRequest' = r
      /\ r \in 0..MaxRequest
  BY NetworkAssumption DEF NetworkTypeOK, Enqueue, Request
<1>5. /\ toUpdateIds' \in Seq(Order)
      /\ Len(toUpdateIds') = Len(toUpdateIds) + Len(new)
      /\ \A i \in 1..(Len(toUpdateIds) + Len(new)) :
            toUpdateIds'[i] = IF i <= Len(toUpdateIds) THEN toUpdateIds[i]
                              ELSE new[i - Len(toUpdateIds)]
  BY <1>1, <1>3, <1>4, ConcatProperties
<1>6. /\ DOMAIN toUpdateIds = 1..Len(toUpdateIds)
      /\ DOMAIN new = 1..Len(new)
      /\ DOMAIN toUpdateIds' = 1..(Len(toUpdateIds) + Len(new))
      /\ Len(toUpdateIds) \in Nat
      /\ Len(new) \in Nat
  BY <1>3, <1>4, <1>5
<1>7. \A i \in DOMAIN toUpdateIds' :
        \/ i \in DOMAIN toUpdateIds /\ toUpdateIds'[i] = toUpdateIds[i]
        \/ /\ i \notin DOMAIN toUpdateIds
           /\ i - Len(toUpdateIds) \in DOMAIN new
           /\ toUpdateIds'[i] = new[i - Len(toUpdateIds)]
  BY <1>5, <1>6
<1>8. /\ \A i \in DOMAIN new : new[i].req = r
      /\ \A i \in DOMAIN toUpdateIds : toUpdateIds[i].req \in Nat
      /\ \A i \in DOMAIN toUpdateIds : toUpdateIds[i].req <= lastRequest
  <2>1. \A i \in DOMAIN new : new[i].req = r
    BY <1>3 DEF OrdersIn, OrdersOf
  <2>2. \A i \in DOMAIN toUpdateIds : toUpdateIds[i] \in Order
    BY <1>4, <1>6
  <2>3. \A i \in DOMAIN toUpdateIds : toUpdateIds[i].req \in Nat
    BY <2>2, NetworkAssumption DEF Order, Request
  <2>4. QED
    BY <2>1, <2>3 DEF QueueOK, QueuePlaced
<1>9. QueueOK'
  <2>1. QueuePlaced'
    <3>1. SUFFICES ASSUME NEW i \in DOMAIN toUpdateIds'
                   PROVE  toUpdateIds'[i].req <= r
      BY <1>4 DEF QueuePlaced
    <3>2. CASE i \in DOMAIN toUpdateIds /\ toUpdateIds'[i] = toUpdateIds[i]
      BY <3>2, <1>4, <1>8
    <3>3. CASE /\ i - Len(toUpdateIds) \in DOMAIN new
               /\ toUpdateIds'[i] = new[i - Len(toUpdateIds)]
      BY <3>3, <1>4, <1>8
    <3>4. QED
      BY <3>2, <3>3, <1>7
  <2>2. \A i \in DOMAIN toUpdateIds, j \in DOMAIN new : toUpdateIds[i] # new[j]
    <3>1. ~(r <= lastRequest)
      BY <1>4
    <3>2. QED
      BY <1>8, <3>1
  <2>3. QueueDistinct'
    <3>1. SUFFICES ASSUME NEW i \in DOMAIN toUpdateIds', NEW j \in DOMAIN toUpdateIds',
                          toUpdateIds'[i] = toUpdateIds'[j]
                   PROVE  i = j
      BY DEF QueueDistinct
    <3>2. CASE i \in DOMAIN toUpdateIds /\ j \in DOMAIN toUpdateIds
      BY <3>1, <3>2, <1>7 DEF QueueOK, QueueDistinct
    <3>3. CASE i \notin DOMAIN toUpdateIds /\ j \notin DOMAIN toUpdateIds
      <4>1. i - Len(toUpdateIds) = j - Len(toUpdateIds)
        BY <3>1, <3>3, <1>7, <1>3
      <4>2. QED
        BY <4>1, <1>6
    <3>4. CASE i \in DOMAIN toUpdateIds /\ j \notin DOMAIN toUpdateIds
      BY <3>1, <3>4, <1>7, <2>2
    <3>5. CASE i \notin DOMAIN toUpdateIds /\ j \in DOMAIN toUpdateIds
      BY <3>1, <3>5, <1>7, <2>2
    <3>6. QED
      BY <3>2, <3>3, <3>4, <3>5
  <2>4. QED
    BY <2>1, <2>3 DEF QueueOK
<1>10. OrdersIn(toUpdateIds') = OrdersIn(toUpdateIds) \cup OrdersOf(r)
  <2>1. ASSUME NEW i \in DOMAIN toUpdateIds'
        PROVE  toUpdateIds'[i] \in OrdersIn(toUpdateIds) \cup OrdersIn(new)
    BY <1>7 DEF OrdersIn
  <2>2. ASSUME NEW i \in DOMAIN toUpdateIds
        PROVE  toUpdateIds[i] \in OrdersIn(toUpdateIds')
    <3>1. i \in DOMAIN toUpdateIds' /\ toUpdateIds'[i] = toUpdateIds[i]
      BY <1>5, <1>6
    <3>2. QED
      BY <3>1 DEF OrdersIn
  <2>3. ASSUME NEW o \in OrdersIn(new)
        PROVE  o \in OrdersIn(toUpdateIds')
    <3>1. PICK k \in DOMAIN new : new[k] = o
      BY DEF OrdersIn
    <3>2. /\ Len(toUpdateIds) + k \in DOMAIN toUpdateIds'
          /\ toUpdateIds'[Len(toUpdateIds) + k] = o
      BY <3>1, <1>5, <1>6
    <3>3. QED
      BY <3>2 DEF OrdersIn
  <2>4. OrdersIn(toUpdateIds') = OrdersIn(toUpdateIds) \cup OrdersIn(new)
    BY <2>1, <2>2, <2>3 DEF OrdersIn
  <2>5. QED
    BY <2>4, <1>3
<1>11. /\ OrdersOf(r) \in SUBSET (Order \ {o \in Order : o.req <= lastRequest})
       /\ {o \in Order : o.req <= lastRequest'}
            = {o \in Order : o.req <= lastRequest} \cup OrdersOf(r)
  BY <1>4, NetworkAssumption DEF OrdersOf, Order, Request
<1>12. Orders!Place
  BY <1>10, <1>11 DEF Orders!Place, StartedOrders
<1>13. QED
  BY <1>4, <1>5, <1>9, <1>12

(* sendStartUpgrade: the head of the queue is started and leaves it.         *)
LEMMA StartStep ==
    ASSUME NEW path \in Request \cup {NoFile}, NetworkTypeOK, QueueOK,
           SendStartUpgrade(path)
    PROVE  NetworkTypeOK' /\ QueueOK' /\ Orders!Start
<1> DEFINE order == Head(toUpdateIds)
           command == [order |-> order, path |-> path,
                       partition |-> 1 - minor[order.device]]
<1>1. /\ toUpdateIds \in Seq(Order)
      /\ toUpdateIds # <<>>
      /\ toUpdateIds' = Tail(toUpdateIds)
      /\ starts' = starts \cup {command}
      /\ lastRequest' = lastRequest
  BY DEF NetworkTypeOK, SendStartUpgrade
<1>2. /\ order \in OrdersIn(toUpdateIds)
      /\ order \in Order
      /\ toUpdateIds' \in Seq(Order)
      /\ OrdersIn(toUpdateIds') = OrdersIn(toUpdateIds) \ {order}
      /\ QueueDistinct'
      /\ \A i \in DOMAIN toUpdateIds' : toUpdateIds'[i] \in OrdersIn(toUpdateIds)
  BY <1>1, PolledQueue DEF QueueOK, QueueDistinct
<1>3. order.device \in Device
  BY <1>2 DEF Order
<1>4. NetworkTypeOK'
  <2>1. minor[order.device] \in {0, 1}
    BY <1>3 DEF NetworkTypeOK, Partition
  <2>2. command \in StartCommand
    BY <1>2, <2>1 DEF StartCommand, Partition
  <2>3. status' \in [Device -> Status]
    BY <1>3 DEF NetworkTypeOK, SendStartUpgrade, Status
  <2>4. heard' \in [Device -> BOOLEAN]
    BY <1>3 DEF NetworkTypeOK, SendStartUpgrade
  <2>5. QED
    BY <1>1, <1>2, <2>2, <2>3, <2>4 DEF NetworkTypeOK, SendStartUpgrade
<1>5. QueueOK'
  <2>1. QueuePlaced'
    BY <1>1, <1>2 DEF QueueOK, QueuePlaced, OrdersIn
  <2>2. QED
    BY <1>2, <2>1 DEF QueueOK
<1>6. Orders!Start
  <2>1. command.order = order
    OBVIOUS
  <2>2. StartedOrders' = StartedOrders \cup {order}
    BY <1>1, <2>1 DEF StartedOrders
  <2>3. QED
    BY <1>1, <1>2, <2>2 DEF Orders!Start
<1>7. QED
  BY <1>4, <1>5, <1>6

(* checkIfLastThenClear drops every order of the queue, or none.             *)
LEMMA ClearStep ==
    ASSUME NetworkTypeOK, QueueOK, CheckIfLastThenClear
    PROVE  NetworkTypeOK' /\ QueueOK' /\ (Orders!Drop \/ UNCHANGED orderVars)
<1>1. CASE AnyUpdating
  BY <1>1 DEF CheckIfLastThenClear, NetworkTypeOK, QueueOK, QueuePlaced,
              QueueDistinct, orderVars
<1>2. CASE ~AnyUpdating
  <2>1. toUpdateIds' = <<>> /\ fileName' = NoFile /\ file' = NoFile
    BY <1>2 DEF CheckIfLastThenClear
  <2>2. OrdersIn(toUpdateIds') = {} /\ toUpdateIds' \in Seq(Order)
    BY <2>1 DEF OrdersIn
  <2>3. QueueOK'
    BY <2>1 DEF QueueOK, QueuePlaced, QueueDistinct
  <2>4. NetworkTypeOK'
    BY <2>1, <2>2 DEF CheckIfLastThenClear, NetworkTypeOK
  <2>5. Orders!Drop
    BY <2>2 DEF CheckIfLastThenClear, Orders!Drop, StartedOrders
  <2>6. QED
    BY <2>3, <2>4, <2>5
<1>3. QED
  BY <1>1, <1>2

(* A step that leaves the queue, the requests and the Start commands alone.  *)
LEMMA OtherStep ==
    ASSUME QueueOK, UNCHANGED orderVars
    PROVE  /\ QueueOK'
           /\ UNCHANGED Orders!vars
BY DEF QueueOK, QueuePlaced, QueueDistinct, orderVars, Orders!vars, StartedOrders

------------------------------------------------------------------------------
(* Every step of the transfer stub keeps the types and the queue, and is a   *)
(* step of UpgradeOrders or leaves it alone.                                 *)
OrdersStep == Orders!Next \/ UNCHANGED Orders!vars

LEMMA UploadStep ==
    ASSUME TypeOK, QueueOK, UploadNext
    PROVE  TypeOK' /\ QueueOK' /\ OrdersStep
<1> USE DEF TypeOK
<1>1. PICK r \in Request :
         Accept(r) \/ Upload(r) \/ UploadFails(r) \/ UploadChecked(r)
  BY DEF UploadNext
<1>2. /\ DeviceTypeOK'
      /\ stage' \in [Request -> {"none", "queued", "uploaded", "checked", "failed"}]
  BY <1>1 DEF Accept, Upload, UploadFails, UploadChecked, DeviceTypeOK, deviceVars
<1>3. CASE Accept(r)
  <2>1. Enqueue(r) /\ starts' = starts /\ r = lastRequest + 1
    BY <1>3 DEF Accept
  <2>2. /\ lastRequest' \in 0..MaxRequest
        /\ toUpdateIds' \in Seq(Order)
        /\ QueueOK'
        /\ Orders!Place
    BY <2>1, EnqueueStep
  <2>3. NetworkTypeOK'
    BY <1>3, <2>2 DEF Accept, NetworkTypeOK
  <2>4. QED
    BY <1>2, <2>2, <2>3 DEF OrdersStep, Orders!Next
<1>4. CASE Upload(r)
  <2>1. NetworkTypeOK' /\ UNCHANGED orderVars
    BY <1>4 DEF Upload, NetworkTypeOK, orderVars
  <2>2. QED
    BY <1>2, <2>1, OtherStep DEF OrdersStep
<1>5. CASE UploadFails(r)
  <2>1. NetworkTypeOK' /\ UNCHANGED orderVars
    BY <1>5 DEF UploadFails, NetworkTypeOK, networkVars, orderVars
  <2>2. QED
    BY <1>2, <2>1, OtherStep DEF OrdersStep
<1>6. CASE UploadChecked(r)
  <2>1. CASE SendStartUpgrade(r)
    BY <2>1, <1>2, StartStep DEF OrdersStep, Orders!Next
  <2>2. CASE StartUpgradeOfNothing
    <3>1. NetworkTypeOK' /\ UNCHANGED orderVars
      BY <2>2 DEF StartUpgradeOfNothing, NetworkTypeOK, networkVars, orderVars
    <3>2. QED
      BY <1>2, <3>1, OtherStep DEF OrdersStep
  <2>3. QED
    BY <1>6, <2>1, <2>2 DEF UploadChecked
<1>7. QED
  BY <1>1, <1>3, <1>4, <1>5, <1>6

------------------------------------------------------------------------------
(* The steps of DeviceUpgrade that leave the queue alone: those of the       *)
(* devices, of the message handlers and of the timer.                        *)
LEMMA HandlerTypes ==
    ASSUME NetworkTypeOK, DeviceTypeOK, NEW d \in Device,
           \/ Install(d) \/ FallSilent(d) \/ RestartAges(d)
           \/ DeviceTurnOn(d) \/ VersionCommand(d) \/ Beacon(d)
    PROVE  NetworkTypeOK' /\ DeviceTypeOK' /\ UNCHANGED orderVars
<1>1. CASE Install(d)
  <2>1. PICK s \in starts : /\ running' = [running EXCEPT ![d] = s.partition]
                            /\ installed' = installed \cup {s.order}
    BY <1>1 DEF Install
  <2>2. s.order \in Order /\ s.partition \in Partition
    BY DEF NetworkTypeOK, StartCommand
  <2>3. running' \in [Device -> Partition] /\ installed' \in SUBSET Order
    BY <2>1, <2>2 DEF DeviceTypeOK
  <2>4. installing' \in [Device -> SUBSET Order]
    BY <1>1 DEF Install, DeviceTypeOK
  <2>5. QED
    BY <1>1, <2>3, <2>4
    DEF Install, NetworkTypeOK, DeviceTypeOK, networkVars, orderVars
<1>2. CASE FallSilent(d) \/ Beacon(d)
  <2>1. heard' \in [Device -> BOOLEAN]
    BY <1>2 DEF FallSilent, Beacon, NetworkTypeOK
  <2>2. QED
    BY <1>2, <2>1
    DEF FallSilent, Beacon, NetworkTypeOK, DeviceTypeOK, deviceVars, orderVars
<1>3. CASE RestartAges(d)
  BY <1>3 DEF RestartAges, NetworkTypeOK, DeviceTypeOK, networkVars, orderVars
<1>4. CASE DeviceTurnOn(d)
  <2>1. /\ UNCHANGED orderVars
        /\ UNCHANGED <<fileName, file, heard, restartOld, promise, task, awaited,
                       timerSeen, running, installing, acked, aborted, installed>>
    BY <1>4 DEF DeviceTurnOn, orderVars
  <2>2. minor' \in [Device -> Partition] /\ status' \in [Device -> Status]
    BY <1>4 DEF DeviceTurnOn, TurnOnRestarting, TurnOnOffline, TurnOnOnline,
                NetworkTypeOK, DeviceTypeOK, Status
  <2>3. restartCount' \in [Device -> 0..1]
    BY <1>4 DEF DeviceTurnOn, TurnOnRestarting, TurnOnOffline, TurnOnOnline,
                DeviceTypeOK
  <2>4. versionChecks' \in [Device -> 0..2]
    BY <1>4 DEF DeviceTurnOn, TurnOnRestarting, TurnOnOffline, TurnOnOnline,
                DeviceTypeOK
  <2>5. completed' \in [Device -> SUBSET Nat]
    <3>1. completed[d] \cup {promise[d]} \in SUBSET Nat
      BY DEF DeviceTypeOK
    <3>2. QED
      BY <1>4, <3>1 DEF DeviceTurnOn, TurnOnRestarting, TurnOnOffline,
                        TurnOnOnline, DeviceTypeOK
  <2>6. QED
    BY <2>1, <2>2, <2>3, <2>4, <2>5 DEF NetworkTypeOK, DeviceTypeOK, orderVars
<1>5. CASE VersionCommand(d)
  <2>1. minor' \in [Device -> Partition] /\ heard' \in [Device -> BOOLEAN]
    BY <1>5 DEF VersionCommand, NetworkTypeOK, DeviceTypeOK
  <2>2. restartCount' \in [Device -> 0..1]
    BY <1>5 DEF VersionCommand, DeviceTypeOK
  <2>3. versionChecks' \in [Device -> 0..2]
    BY <1>5 DEF VersionCommand, DeviceTypeOK
  <2>4. QED
    BY <1>5, <2>1, <2>2, <2>3
    DEF VersionCommand, NetworkTypeOK, DeviceTypeOK, orderVars
<1>6. QED
  BY <1>1, <1>2, <1>3, <1>4, <1>5

(* updateStatuses looks at every device and touches no order.                *)
LEMMA TimerTypes ==
    ASSUME NetworkTypeOK, DeviceTypeOK, UpdateStatuses
    PROVE  NetworkTypeOK' /\ DeviceTypeOK' /\ UNCHANGED orderVars
<1>1. status' \in [Device -> Status]
  BY DEF UpdateStatuses, NetworkTypeOK, Status
<1>2. versionChecks' \in [Device -> 0..2]
  BY DEF UpdateStatuses, DeviceTypeOK, GivenUp, Overdue
<1>3. timerSeen' \in [Order -> BOOLEAN]
  BY DEF UpdateStatuses
<1>4. QED
  BY <1>1, <1>2, <1>3 DEF UpdateStatuses, NetworkTypeOK, DeviceTypeOK, orderVars

(* The steps about one order that leave the queue alone: its ACK or abort    *)
(* and the steps of its task but the two that reach for the queue.           *)
LEMMA TaskTypes ==
    ASSUME NetworkTypeOK, DeviceTypeOK, NEW o \in Order,
           \/ FirmwareAck(o) \/ FirmwareAborted(o) \/ BeginRestart(o)
           \/ UpdateFinished(o) \/ BackOnline(o) \/ RefreshLastTime(o)
           \/ PeekNext(o) \/ WaitTimesOut(o) \/ EndTask(o)
    PROVE  NetworkTypeOK' /\ DeviceTypeOK' /\ UNCHANGED orderVars
<1> o.device \in Device
  BY DEF Order
<1>1. CASE FirmwareAck(o)
  <2>1. /\ task' \in [Order -> TaskState]
        /\ acked' \in SUBSET Order
        /\ installing' \in [Device -> SUBSET Order]
    BY <1>1 DEF FirmwareAck, DeviceTypeOK, TaskState
  <2>2. QED
    BY <1>1, <2>1
    DEF FirmwareAck, NetworkTypeOK, DeviceTypeOK, networkVars, orderVars
<1>2. CASE FirmwareAborted(o)
  <2>1. /\ status' \in [Device -> Status]
        /\ aborted' \in SUBSET Order
        /\ installing' \in [Device -> SUBSET Order]
    BY <1>2 DEF FirmwareAborted, NetworkTypeOK, DeviceTypeOK, Status
  <2>2. QED
    BY <1>2, <2>1 DEF FirmwareAborted, NetworkTypeOK, DeviceTypeOK, orderVars
<1>3. CASE BeginRestart(o)
  <2>1. /\ task' \in [Order -> TaskState]
        /\ status' \in [Device -> Status]
        /\ restartOld' \in [Device -> BOOLEAN]
    BY <1>3 DEF BeginRestart, GoTo, NetworkTypeOK, DeviceTypeOK, Status, TaskState
  <2>2. awaited' \in [Order -> Nat] /\ timerSeen' \in [Order -> BOOLEAN]
    BY <1>3 DEF BeginRestart, DeviceTypeOK
  <2>3. QED
    BY <1>3, <2>1, <2>2 DEF BeginRestart, NetworkTypeOK, DeviceTypeOK, orderVars
<1>4. CASE UpdateFinished(o)
  <2>1. /\ task' \in [Order -> TaskState]
        /\ status' \in [Device -> Status]
        /\ awaited' \in [Order -> Nat]
        /\ timerSeen' \in [Order -> BOOLEAN]
    BY <1>4 DEF UpdateFinished, StopWaiting, GoTo, NetworkTypeOK, DeviceTypeOK,
                Status, TaskState
  <2>2. QED
    BY <1>4, <2>1 DEF UpdateFinished, NetworkTypeOK, DeviceTypeOK, orderVars
<1>5. CASE BackOnline(o) \/ RefreshLastTime(o)
  <2>1. /\ task' \in [Order -> TaskState]
        /\ status' \in [Device -> Status]
        /\ heard' \in [Device -> BOOLEAN]
    BY <1>5 DEF BackOnline, RefreshLastTime, GoTo, NetworkTypeOK, DeviceTypeOK,
                Status, TaskState
  <2>2. QED
    BY <1>5, <2>1
    DEF BackOnline, RefreshLastTime, NetworkTypeOK, DeviceTypeOK, orderVars
<1>6. CASE PeekNext(o)
  <2>1. task' \in [Order -> TaskState]
    BY <1>6 DEF PeekNext, GoTo, DeviceTypeOK, TaskState
  <2>2. QED
    BY <1>6, <2>1 DEF PeekNext, NetworkTypeOK, DeviceTypeOK, networkVars, orderVars
<1>7. CASE WaitTimesOut(o)
  <2>1. /\ task' \in [Order -> TaskState]
        /\ awaited' \in [Order -> Nat]
        /\ timerSeen' \in [Order -> BOOLEAN]
    BY <1>7 DEF WaitTimesOut, StopWaiting, GoTo, DeviceTypeOK, TaskState
  <2>2. QED
    BY <1>7, <2>1
    DEF WaitTimesOut, NetworkTypeOK, DeviceTypeOK, networkVars, orderVars
<1>8. CASE EndTask(o)
  <2>1. task' \in [Order -> TaskState]
    BY <1>8 DEF EndTask, GoTo, DeviceTypeOK, TaskState
  <2>2. restartCount' \in [Device -> 0..1]
    BY <1>8 DEF EndTask, DeviceTypeOK
  <2>3. promise' \in [Device -> Nat]
    BY <1>8 DEF EndTask, DeviceTypeOK
  <2>4. QED
    BY <1>8, <2>1, <2>2, <2>3
    DEF EndTask, NetworkTypeOK, DeviceTypeOK, networkVars, orderVars
<1>9. QED
  BY <1>1, <1>2, <1>3, <1>4, <1>5, <1>6, <1>7, <1>8

(* The two steps of a task that reach for the queue, the next Start and the  *)
(* clearing, are steps of UpgradeOrders; so is nothing else the devices do.  *)
LEMMA DeviceStep ==
    ASSUME NetworkTypeOK, DeviceTypeOK, QueueOK, DeviceNext
    PROVE  NetworkTypeOK' /\ DeviceTypeOK' /\ QueueOK' /\ OrdersStep
<1>1. CASE UpdateStatuses
  BY <1>1, TimerTypes, OtherStep DEF OrdersStep
<1>2. CASE \E d \in Device :
             \/ Install(d) \/ FallSilent(d) \/ RestartAges(d)
             \/ DeviceTurnOn(d) \/ VersionCommand(d) \/ Beacon(d)
  BY <1>2, HandlerTypes, OtherStep DEF OrdersStep
<1>3. ASSUME NEW o \in Order, FirmwareAck(o) \/ FirmwareAborted(o) \/ RunTask(o)
      PROVE  NetworkTypeOK' /\ DeviceTypeOK' /\ QueueOK' /\ OrdersStep
  <2>1. CASE StartNext(o)
    <3>1. DeviceTypeOK'
      BY <2>1 DEF StartNext, GoTo, DeviceTypeOK, TaskState
    <3>2. CASE SendStartUpgrade(fileName)
      <4>1. fileName \in Request \cup {NoFile}
        BY DEF NetworkTypeOK
      <4>2. QED
        BY <3>1, <3>2, <4>1, StartStep DEF OrdersStep, Orders!Next
    <3>3. CASE StartUpgradeOfNothing
      <4>1. NetworkTypeOK' /\ UNCHANGED orderVars
        BY <3>3 DEF StartUpgradeOfNothing, NetworkTypeOK, networkVars, orderVars
      <4>2. QED
        BY <3>1, <4>1, OtherStep DEF OrdersStep
    <3>4. QED
      BY <2>1, <3>2, <3>3 DEF StartNext
  <2>2. CASE ClearIfLast(o)
    <3>1. DeviceTypeOK'
      BY <2>2 DEF ClearIfLast, GoTo, DeviceTypeOK, TaskState
    <3>2. CheckIfLastThenClear
      BY <2>2 DEF ClearIfLast
    <3>3. QED
      BY <3>1, <3>2, ClearStep, OtherStep DEF OrdersStep, Orders!Next
  <2>3. CASE ~StartNext(o) /\ ~ClearIfLast(o)
    <3>1. NetworkTypeOK' /\ DeviceTypeOK' /\ UNCHANGED orderVars
      BY <1>3, <2>3, TaskTypes DEF RunTask
    <3>2. QED
      BY <3>1, OtherStep DEF OrdersStep
  <2>4. QED
    BY <2>1, <2>2, <2>3
<1>4. QED
  BY <1>1, <1>2, <1>3 DEF DeviceNext

------------------------------------------------------------------------------
(* Initially no request has arrived, nothing is queued and nothing started.  *)
LEMMA InitialState ==
    ASSUME Init
    PROVE  TypeOK /\ QueueOK /\ Orders!Init
<1> USE DEF Init, NetworkInit, DeviceInit
<1>1. NetworkTypeOK
  BY NetworkAssumption DEF NetworkTypeOK, Status, Partition
<1>2. DeviceTypeOK
  BY NetworkAssumption DEF DeviceTypeOK, TaskState, Partition
<1>3. TypeOK
  BY <1>1, <1>2 DEF TypeOK
<1>4. QueueOK
  BY DEF QueueOK, QueuePlaced, QueueDistinct
<1>5. Orders!Init
  <2>1. {o \in Order : o.req <= lastRequest} = {}
    BY NetworkAssumption DEF Order, Request
  <2>2. OrdersIn(toUpdateIds) = {} /\ StartedOrders = {}
    BY DEF OrdersIn, StartedOrders
  <2>3. QED
    BY <2>1, <2>2 DEF Orders!Init
<1>6. QED
  BY <1>3, <1>4, <1>5

(* Every step, and every stutter, keeps the invariant and is a step or a     *)
(* stutter of UpgradeOrders.                                                 *)
LEMMA NextStep ==
    ASSUME TypeOK, QueueOK, [Next]_vars
    PROVE  TypeOK' /\ QueueOK' /\ OrdersStep
<1>1. CASE UploadNext
  BY <1>1, UploadStep
<1>2. CASE DeviceNext /\ UNCHANGED stage
  BY <1>2, DeviceStep DEF TypeOK
<1>3. CASE UNCHANGED vars
  <2>1. TypeOK' /\ UNCHANGED orderVars
    BY <1>3 DEF vars, networkVars, deviceVars, orderVars, TypeOK, NetworkTypeOK,
                DeviceTypeOK
  <2>2. QED
    BY <2>1, OtherStep DEF OrdersStep
<1>4. QED
  BY <1>1, <1>2, <1>3 DEF Next

(* The states of the update of any network stay within their types: in       *)
(* particular restartCount never reaches 2 between two messages (it would    *)
(* make every later turn-on miss the comparison with 2 in onDeviceTurnOn)    *)
(* and checkVersionAfterRestartCount never passes 2.                         *)
THEOREM TypeInvariant == Spec => []TypeOK
<1>1. Init => TypeOK /\ QueueOK
  BY InitialState
<1>2. TypeOK /\ QueueOK /\ [Next]_vars => (TypeOK /\ QueueOK)'
  BY NextStep
<1>3. QED
  BY <1>1, <1>2, PTL DEF Spec

(* Network.toUpdateIds never holds an order of a request that has not        *)
(* arrived, nor an order twice.                                              *)
THEOREM QueueInvariant == Spec => []QueueOK
<1>1. Init => TypeOK /\ QueueOK
  BY InitialState
<1>2. TypeOK /\ QueueOK /\ [Next]_vars => (TypeOK /\ QueueOK)'
  BY NextStep
<1>3. QED
  BY <1>1, <1>2, PTL DEF Spec

(* The detailed update of the devices, with its unlocked tasks polling and   *)
(* clearing the queue, implements UpgradeOrders: each order is started at    *)
(* most once or dropped, and never started after that.                       *)
THEOREM Refinement == Spec => OrdersKept
<1>1. Init => Orders!Init
  BY InitialState
<1>2. TypeOK /\ QueueOK /\ [Next]_vars => [Orders!Next]_(Orders!vars)
  BY NextStep DEF OrdersStep
<1>3. QED
  BY <1>1, <1>2, TypeInvariant, QueueInvariant, PTL DEF Spec, OrdersKept, Orders!Spec
==============================================================================
