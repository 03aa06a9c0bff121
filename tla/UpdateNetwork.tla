---------------------------- MODULE UpdateNetwork ----------------------------
(***************************************************************************)
(* The part of socket/info/controller/Network and DeviceStatus that the    *)
(* transfer of a firmware file and the upgrade of the devices share, for   *)
(* one connected sink and the devices registered in its network, and the   *)
(* two operations both sides call: sendStartUpgrade and                    *)
(* checkIfLastThenClear.                                                   *)
(*                                                                         *)
(* A request stands for one UPDATE_FIRMWARE message, numbered as it        *)
(* arrives; the number also stands for the file the message carries and    *)
(* for the random name that file is stored under.                          *)
(* An order is one device of one request: in the code the queue holds the  *)
(* device's short id alone, the request is remembered here so that the     *)
(* properties can tell two orders of one device apart.                     *)
(***************************************************************************)
EXTENDS Naturals, Sequences, FiniteSets

CONSTANTS
    Device,         \* the devices registered in the network, its sink included
    MaxRequest,     \* bound: how many update requests arrive
    Wanted,         \* Wanted[r] is the set of devices the r-th request names
    Overlap,        \* may a request arrive while another is in progress?
    FirstPartition  \* the partition each device runs at first

Request == 1..MaxRequest
NoFile == 0         \* the null of Network.fileName and Network.file

ASSUME NetworkAssumption ==
    /\ IsFiniteSet(Device)
    /\ MaxRequest \in Nat
    /\ Wanted \in [Request -> SUBSET Device]
    /\ Overlap \in BOOLEAN
    /\ FirstPartition \in [Device -> {0, 1}]

VARIABLES
    lastRequest,    \* how many requests have put their devices into the queue
    toUpdateIds,    \* Network.toUpdateIds, a queue of orders
    fileName,       \* Network.fileName: the request that named the last upload
    file,           \* Network.file: the request whose bytes were last uploaded
    status,         \* DeviceStatus.status of each device
    heard,          \* lastTimeUpdated is younger than 30 seconds
    minor,          \* the partition the database has for each device (minor % 2)
    starts          \* history: every Start command sent

networkVars ==
    <<lastRequest, toUpdateIds, fileName, file, status, heard, minor, starts>>

Partition == {0, 1}
Status == {"OFFLINE", "ONLINE", "UPDATING", "UPDATED", "RESTARTING"}
Order == {o \in [req : Request, device : Device] : o.device \in Wanted[o.req]}
StartCommand == [order : Order, path : Request \cup {NoFile}, partition : Partition]

OrdersOf(r) == {o \in Order : o.req = r}
OrdersIn(queue) == {queue[i] : i \in DOMAIN queue}
StartedOrders == {s.order : s \in starts}

(* A HashSet of orders, at most one per device, in the order of an iteration.*)
Arrangements(S) ==
    {q \in UNION {[1..n -> S] : n \in 0..Cardinality(Device)} :
        /\ OrdersIn(q) = S
        /\ \A i, j \in DOMAIN q : q[i] = q[j] => i = j}

NetworkTypeOK ==
    /\ lastRequest \in 0..MaxRequest
    /\ toUpdateIds \in Seq(Order)
    /\ fileName \in Request \cup {NoFile}
    /\ file \in Request \cup {NoFile}
    /\ status \in [Device -> Status]
    /\ heard \in [Device -> BOOLEAN]
    /\ minor \in [Device -> Partition]
    /\ starts \in SUBSET StartCommand

NetworkInit ==
    /\ lastRequest = 0
    /\ toUpdateIds = <<>>
    /\ fileName = NoFile
    /\ file = NoFile
    /\ status = [d \in Device |-> "ONLINE"]
    /\ heard = [d \in Device |-> TRUE]
    /\ minor = FirstPartition
    /\ starts = {}

------------------------------------------------------------------------------
(* prepareUpload: the devices of request r join the queue. *)
Enqueue(r) ==
    /\ lastRequest' = r
    /\ \E new \in Arrangements(OrdersOf(r)) : toUpdateIds' = toUpdateIds \o new

(* The plausible slip of reading the queue's head without removing it. *)
SendStartUpgradePeeking(path) ==
    /\ toUpdateIds # <<>>
    /\ LET order == Head(toUpdateIds)
           d == order.device
       IN  /\ starts' = starts \cup {[order |-> order, path |-> path,
                                      partition |-> 1 - minor[d]]}
           /\ status' = [status EXCEPT ![d] = "UPDATING"]
           /\ heard' = [heard EXCEPT ![d] = TRUE]
    /\ UNCHANGED <<lastRequest, toUpdateIds, fileName, file, minor>>

(* sendStartUpgrade: the first order leaves the queue, its device is told to *)
(* install the file into the partition the database believes it does not run. *)
SendStartUpgrade(path) ==
    /\ toUpdateIds # <<>>
    /\ LET order == Head(toUpdateIds)
           d == order.device
       IN  /\ starts' = starts \cup {[order |-> order, path |-> path,
                                      partition |-> 1 - minor[d]]}
           /\ status' = [status EXCEPT ![d] = "UPDATING"]
           /\ heard' = [heard EXCEPT ![d] = TRUE]
    /\ toUpdateIds' = Tail(toUpdateIds)
    /\ UNCHANGED <<lastRequest, fileName, file, minor>>

(* sendStartUpgrade polling an empty queue: a NullPointerException on the    *)
(* missing short id, before anything was sent or changed.                    *)
StartUpgradeOfNothing ==
    /\ toUpdateIds = <<>>
    /\ UNCHANGED networkVars

AnyUpdating == \E d \in Device : status[d] = "UPDATING"

(* checkIfLastThenClear: unless a device is UPDATING the update is over, and *)
(* the file and the orders still in the queue are forgotten.                 *)
CheckIfLastThenClear ==
    /\ IF AnyUpdating
       THEN UNCHANGED <<fileName, file, toUpdateIds>>
       ELSE fileName' = NoFile /\ file' = NoFile /\ toUpdateIds' = <<>>
    /\ UNCHANGED <<lastRequest, status, heard, minor, starts>>
==============================================================================
