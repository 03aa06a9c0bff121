-------------------------- MODULE FileTransferProofs --------------------------
(***************************************************************************)
(* What every step of FileTransfer keeps, for any requests, devices, files *)
(* and room on the sink, requests that overlap included: types, that a     *)
(* request is uploaded once, and that neither the sink nor any list of its *)
(* files knows of a part that was not sent.                                *)
(***************************************************************************)
EXTENDS FileTransfer, FiniteSetTheorems, SequenceTheorems, TLAPS

(* Where the task of a request can be, and the part it is at. The task waits *)
(* on a future there is.                                                     *)
SenderOK ==
    /\ acks # <<>>
    /\ \A r \in Request :
         /\ sender[r].at = "none" => sender[r].part = 0
         /\ sender[r].at \in {"sending", "crashed"} => sender[r].part \in 1..(Parts[r] + 1)
         /\ sender[r].at \notin {"none", "sending", "crashed"} => sender[r].part \in 1..Parts[r]
         /\ sender[r].at = "waiting" => sender[r].future \in DOMAIN acks
         /\ sender[r].at # "none" => r <= lastRequest

(* The task of a request is at work: it sends parts, waits for their          *)
(* acknowledgements or goes on to the late stage.                             *)
Active == {"sending", "sent", "waiting", "verifying", "registering"}

(* The requests whose early stage is still to run for one of the callbacks. *)
EarlyRequests(callbacks) ==
    {callbacks[i].req : i \in {j \in DOMAIN callbacks : ~callbacks[j].late}}

EarlyOnce(callbacks) ==
    \A i, j \in DOMAIN callbacks :
        ~callbacks[i].late /\ ~callbacks[j].late /\ callbacks[i].req = callbacks[j].req
            => i = j

Waits(r) ==
    \/ r \in EarlyRequests(listFuture.callbacks)
    \/ r \in EarlyRequests(firing.callbacks)
    \/ r = deletion.waiter

(* A request whose upload is still to begin waits in one place: for a list,  *)
(* in the handler of a list, or for room. Otherwise the upload would begin   *)
(* twice, and the second one would start with no part sent.                  *)
WaitsOnce ==
    /\ EarlyOnce(listFuture.callbacks) /\ EarlyOnce(firing.callbacks)
    /\ EarlyRequests(listFuture.callbacks) \cap EarlyRequests(firing.callbacks) = {}
    /\ deletion.waiter \notin EarlyRequests(listFuture.callbacks)
    /\ deletion.waiter \notin EarlyRequests(firing.callbacks)
    /\ \A r \in Request : Waits(r) => sender[r].at = "none" /\ r <= lastRequest

(* No list tells of a part that has not been sent. *)
SentOnly(files) ==
    \A i \in DOMAIN files :
        files[i].name \in Request => files[i].parts \subseteq 1..PartsSent(files[i].name)

PartsKnown ==
    /\ SentOnly(sinkFiles)
    /\ SentOnly(listFuture.list.files)
    /\ SentOnly(firing.list.files)
    /\ \A i \in DOMAIN toSink :
         toSink[i].kind = "part" => toSink[i].part \in 1..PartsSent(toSink[i].name)

TransferInv ==
    NetworkTypeOK /\ TransferTypeOK /\ SenderOK /\ WaitsOnce /\ PartsKnown

------------------------------------------------------------------------------
(* The queue of the network.                                                 *)

(* The devices of a request join it in some order (prepareUpload). *)
LEMMA EnqueueTypes ==
    ASSUME NetworkTypeOK, NEW r \in Request, Enqueue(r)
    PROVE  toUpdateIds' \in Seq(Order) /\ lastRequest' = r /\ r \in 0..MaxRequest
<1>1. PICK new \in Arrangements(OrdersOf(r)) : toUpdateIds' = toUpdateIds \o new
  BY DEF Enqueue
<1>2. Cardinality(Device) \in Nat
  BY NetworkAssumption, FS_CardinalityType
<1>3. PICK n \in 0..Cardinality(Device) : new \in [1..n -> OrdersOf(r)]
  BY <1>1 DEF Arrangements
<1>4. n \in Nat /\ new \in [1..n -> Order]
  BY <1>2, <1>3 DEF OrdersOf
<1>5. new \in Seq(Order)
  BY <1>4
<1>6. toUpdateIds' \in Seq(Order)
  BY <1>1, <1>5, ConcatProperties DEF NetworkTypeOK
<1>7. QED
  BY <1>6, NetworkAssumption DEF Enqueue, Request

(* Its head is started and leaves it (sendStartUpgrade). *)
LEMMA StartTypes ==
    ASSUME NetworkTypeOK, NEW path \in Request \cup {NoFile}, SendStartUpgrade(path)
    PROVE  /\ NetworkTypeOK' /\ UNCHANGED <<lastRequest, fileName, file>>
           /\ \E command \in StartCommand :
                command.path = path /\ starts' = starts \cup {command}
<1> DEFINE order == Head(toUpdateIds)
           command == [order |-> order, path |-> path,
                       partition |-> 1 - minor[order.device]]
<1>1. order \in Order /\ Tail(toUpdateIds) \in Seq(Order)
  BY HeadTailProperties DEF NetworkTypeOK, SendStartUpgrade
<1>2. order.device \in Device
  BY <1>1 DEF Order
<1>3. command \in StartCommand
  <2>1. minor[order.device] \in {0, 1}
    BY <1>2 DEF NetworkTypeOK, Partition
  <2>2. 1 - minor[order.device] \in Partition
    BY <2>1 DEF Partition
  <2>3. QED
    BY <1>1, <2>2 DEF StartCommand
<1>4. starts' = starts \cup {command} /\ command.path = path
  BY DEF SendStartUpgrade
<1>5. status' \in [Device -> Status] /\ heard' \in [Device -> BOOLEAN]
  BY <1>2 DEF NetworkTypeOK, SendStartUpgrade, Status
<1> HIDE DEF command
<1>6. NetworkTypeOK'
  BY <1>1, <1>3, <1>4, <1>5 DEF NetworkTypeOK, SendStartUpgrade
<1>7. QED
  BY <1>3, <1>4, <1>6 DEF SendStartUpgrade

------------------------------------------------------------------------------
(* Callbacks.                                                                *)

LEMMA EarlyOfEmpty ==
    /\ EarlyRequests(<<>>) = {} /\ EarlyOnce(<<>>)
    /\ EarlyRequests(NewListFuture.callbacks) = {} /\ EarlyOnce(NewListFuture.callbacks)
    /\ EarlyRequests(NotFiring.callbacks) = {} /\ EarlyOnce(NotFiring.callbacks)
BY DEF EarlyRequests, EarlyOnce, NewListFuture, NotFiring

LEMMA EarlyOfAppend ==
    ASSUME NEW q \in Seq(Callback), NEW c \in Callback
    PROVE  /\ Append(q, c) \in Seq(Callback)
           /\ EarlyRequests(Append(q, c)) =
                EarlyRequests(q) \cup (IF c.late THEN {} ELSE {c.req})
           /\ EarlyOnce(q) /\ (c.late \/ c.req \notin EarlyRequests(q))
                => EarlyOnce(Append(q, c))
<1>1. /\ Append(q, c) \in Seq(Callback) /\ Len(q) \in Nat
      /\ DOMAIN q = 1..Len(q) /\ DOMAIN Append(q, c) = 1..(Len(q) + 1)
      /\ \A i \in 1..Len(q) : Append(q, c)[i] = q[i]
      /\ Append(q, c)[Len(q) + 1] = c
  BY AppendProperties, LenProperties
<1>2. \A x : x \in EarlyRequests(Append(q, c))
               <=> x \in EarlyRequests(q) \/ (~c.late /\ x = c.req)
  BY <1>1 DEF EarlyRequests
<1>3. ASSUME EarlyOnce(q), c.late \/ c.req \notin EarlyRequests(q)
      PROVE  EarlyOnce(Append(q, c))
  <2>1. \A i \in 1..Len(q) : ~q[i].late /\ ~c.late => q[i].req # c.req
    BY <1>1, <1>3 DEF EarlyRequests
  <2>2. QED
    BY <1>1, <1>3, <2>1 DEF EarlyOnce
<1>4. EarlyRequests(Append(q, c)) =
        EarlyRequests(q) \cup (IF c.late THEN {} ELSE {c.req})
  BY <1>2
<1>5. QED
  BY <1>1, <1>3, <1>4

LEMMA EarlyOfTail ==
    ASSUME NEW q \in Seq(Callback), q # <<>>, EarlyOnce(q)
    PROVE  /\ Head(q) \in Callback /\ Tail(q) \in Seq(Callback)
           /\ EarlyRequests(Tail(q)) \subseteq EarlyRequests(q)
           /\ EarlyOnce(Tail(q))
           /\ ~Head(q).late => /\ Head(q).req \in EarlyRequests(q)
                               /\ Head(q).req \notin EarlyRequests(Tail(q))
<1>1. /\ Head(q) = q[1] /\ Head(q) \in Callback /\ Tail(q) \in Seq(Callback)
      /\ Len(q) \in Nat /\ Len(q) >= 1 /\ DOMAIN q = 1..Len(q)
      /\ DOMAIN Tail(q) = 1..(Len(q) - 1)
      /\ \A i \in 1..(Len(q) - 1) : Tail(q)[i] = q[i + 1]
  BY HeadTailProperties, LenProperties
<1>2. \A i \in DOMAIN Tail(q) : i + 1 \in DOMAIN q /\ Tail(q)[i] = q[i + 1] /\ i + 1 # 1
  BY <1>1
<1>3. \A i, j \in DOMAIN Tail(q) : i + 1 = j + 1 => i = j
  BY <1>1
<1>4. EarlyRequests(Tail(q)) \subseteq EarlyRequests(q)
  BY <1>2 DEF EarlyRequests
<1>5. EarlyOnce(Tail(q))
  BY <1>2, <1>3 DEF EarlyOnce
<1>6. ASSUME ~Head(q).late
      PROVE  Head(q).req \in EarlyRequests(q) /\ Head(q).req \notin EarlyRequests(Tail(q))
  <2>1. 1 \in DOMAIN q /\ q[1] = Head(q)
    BY <1>1
  <2>2. Head(q).req \in EarlyRequests(q)
    BY <1>6, <2>1 DEF EarlyRequests
  <2>3. \A i \in DOMAIN Tail(q) : ~Tail(q)[i].late => Tail(q)[i].req # Head(q).req
    BY <1>2, <1>6, <2>1 DEF EarlyOnce
  <2>4. QED
    BY <2>2, <2>3 DEF EarlyRequests
<1>7. QED
  BY <1>1, <1>4, <1>5, <1>6

(* The last registered first (CompletableFuture.postComplete). *)
LEMMA EarlyOfReverse ==
    ASSUME NEW q \in Seq(Callback), EarlyOnce(q)
    PROVE  /\ Reverse(q) \in Seq(Callback)
           /\ EarlyRequests(Reverse(q)) = EarlyRequests(q)
           /\ EarlyOnce(Reverse(q))
<1> DEFINE at(i) == Len(q) - i + 1
<1>1. /\ Len(q) \in Nat /\ DOMAIN q = 1..Len(q)
      /\ DOMAIN Reverse(q) = 1..Len(q)
      /\ \A i \in 1..Len(q) : at(i) \in 1..Len(q) /\ Reverse(q)[i] = q[at(i)]
      /\ \A i \in 1..Len(q) : at(at(i)) = i
      /\ \A i, j \in 1..Len(q) : at(i) = at(j) => i = j
  BY LenProperties DEF Reverse
<1> HIDE DEF at
<1>2. Reverse(q) \in Seq(Callback)
  <2>1. \A i \in 1..Len(q) : q[i] \in Callback
    BY ElementOfSeq
  <2>2. Reverse(q) \in [1..Len(q) -> Callback]
    BY <1>1, <2>1 DEF Reverse
  <2>3. QED
    BY <1>1, <2>2
<1>3. EarlyOnce(Reverse(q))
  BY <1>1 DEF EarlyOnce
<1>4. \A x : x \in EarlyRequests(Reverse(q)) <=> x \in EarlyRequests(q)
  BY <1>1 DEF EarlyRequests
<1>5. QED
  BY <1>2, <1>3, <1>4
------------------------------------------------------------------------------
(* Parts.                                                                    *)

(* No part that was sent is unsent. *)
Grown == \A r \in Request : 1..PartsSent(r) \subseteq (1..PartsSent(r))'

(* The parts among new messages were among the old ones. *)
OldParts(new, old) ==
    \A i \in DOMAIN new :
        new[i].kind = "part" => \E j \in DOMAIN old : new[i] = old[j]

LEMMA SenderTypes ==
    ASSUME TransferInv, NEW r \in Request
    PROVE  /\ Parts[r] \in Nat \ {0} /\ sender[r].part \in Nat
           /\ sender[r].part <= Parts[r] + 1
           /\ PartsSent(r) \in Int
           /\ sender[r].at = "none" => PartsSent(r) = 0
<1>1. Parts[r] \in Nat \ {0}
  BY TransferAssumption
<1>2. sender[r] \in [at : SenderState, part : Nat, future : Nat]
  BY DEF TransferInv, TransferTypeOK
<1>3. sender[r].part <= Parts[r] + 1
  BY <1>1, <1>2 DEF TransferInv, SenderOK
<1>4. QED
  BY <1>1, <1>2, <1>3 DEF PartsSent, TransferInv, SenderOK

LEMMA SameSender ==
    ASSUME sender' = sender
    PROVE  Grown
BY DEF Grown, PartsSent

(* An upload begins with no part sent. *)
LEMMA UploadBegins ==
    ASSUME TransferInv, NEW r \in Request, sender[r].at = "none",
           sender' = [sender EXCEPT ![r] = [at |-> "sending", part |-> 1, future |-> 0]]
    PROVE  Grown
<1> SUFFICES ASSUME NEW s \in Request
             PROVE  1..PartsSent(s) \subseteq (1..PartsSent(s))'
  BY DEF Grown
<1>1. CASE s = r
  <2>1. PartsSent(r) = 0
    BY SenderTypes
  <2>2. QED
    BY <1>1, <2>1
<1>2. CASE s # r
  BY <1>2 DEF PartsSent
<1>3. QED
  BY <1>1, <1>2

(* Later steps of a task send a part or keep its number. *)
LEMMA SenderContinues ==
    ASSUME TransferInv, NEW r \in Request, sender[r].at # "none",
           \A s \in Request \ {r} : sender'[s] = sender[s],
           \/ /\ sender'[r].part = sender[r].part
              /\ sender'[r].at # "sending"
           \/ /\ sender'[r].part = sender[r].part + 1
              /\ sender[r].at # "sending" /\ sender'[r].at = "sending"
    PROVE  Grown
<1> SUFFICES ASSUME NEW s \in Request
             PROVE  1..PartsSent(s) \subseteq (1..PartsSent(s))'
  BY DEF Grown
<1>1. CASE s = r
  <2>1. /\ sender[r].part \in Nat /\ Parts[r] \in Nat
        /\ sender[r].at # "sending" /\ sender'[r].at = "sending"
             => sender[r].part <= Parts[r] \/ sender[r].part = Parts[r] + 1
    BY SenderTypes
  <2>2. PartsSent(r) <= PartsSent(r)'
    BY <2>1 DEF PartsSent
  <2>3. PartsSent(r) \in Int /\ PartsSent(r)' \in Int
    BY <2>1 DEF PartsSent
  <2>4. QED
    BY <1>1, <2>2, <2>3
<1>2. CASE s # r
  BY <1>2 DEF PartsSent
<1>3. QED
  BY <1>1, <1>2

(* A step that stores no part, makes no new list and sends no part keeps     *)
(* what the lists know.                                                      *)
LEMMA PartsStayKnown ==
    ASSUME PartsKnown, Grown,
           SentOnly(sinkFiles)' \/ sinkFiles' = sinkFiles,
           listFuture'.list \in {listFuture.list, NoList},
           firing'.list \in {firing.list, NoList, listFuture'.list},
           OldParts(toSink', toSink),
           \A i \in DOMAIN toSink : toSink[i].kind = "part" => toSink[i].name \in Request
    PROVE  PartsKnown'
<1>1. \A r \in Request : \A S : S \subseteq 1..PartsSent(r) => S \subseteq (1..PartsSent(r))'
  BY DEF Grown
<1>2. SentOnly(sinkFiles)'
  BY <1>1 DEF PartsKnown, SentOnly
<1>3. SentOnly(listFuture.list.files)'
  BY <1>1 DEF PartsKnown, SentOnly, NoList
<1>4. SentOnly(firing.list.files)'
  BY <1>1, <1>3 DEF PartsKnown, SentOnly, NoList
<1>5. ASSUME NEW i \in DOMAIN toSink', toSink'[i].kind = "part"
      PROVE  (toSink[i].part \in 1..PartsSent(toSink[i].name))'
  <2>1. PICK j \in DOMAIN toSink : toSink'[i] = toSink[j]
    BY <1>5 DEF OldParts
  <2>2. toSink[j].part \in 1..PartsSent(toSink[j].name) /\ toSink[j].name \in Request
    BY <1>5, <2>1 DEF PartsKnown
  <2>3. PICK r \in Request : r = toSink[j].name
    BY <2>2
  <2>4. toSink[j].part \in (1..PartsSent(r))'
    BY <2>2, <2>3 DEF Grown
  <2>5. toSink'[i].name = r /\ toSink'[i].part = toSink[j].part
    BY <2>1, <2>3
  <2>6. QED
    BY <2>4, <2>5 DEF PartsSent
<1>6. QED
  BY <1>2, <1>3, <1>4, <1>5 DEF PartsKnown

(* Messages.                                                                 *)

LEMMA MessageTypes ==
    /\ AskList \in Message
    /\ \A name \in FileNames : Delete(name) \in Message
    /\ \A r \in Request : \A i \in 1..Parts[r] : Upload(r, i) \in Message
    /\ \A m \in Message :
         /\ m.kind = "part" => m.name \in Request /\ m.part \in 1..Parts[m.name]
         /\ m.kind = "delete" => m.name \in FileNames
<1>1. AskList \in Message
  BY DEF Message
<1>2. \A name \in FileNames : Delete(name) \in Message
  BY DEF Message
<1>3. \A r \in Request : \A i \in 1..Parts[r] : Upload(r, i) \in Message
  BY DEF Message
<1>4. ASSUME NEW m \in Message
      PROVE  /\ m.kind = "part" => m.name \in Request /\ m.part \in 1..Parts[m.name]
             /\ m.kind = "delete" => m.name \in FileNames
  <2>1. CASE m = AskList
    BY <2>1 DEF AskList
  <2>2. ASSUME NEW name \in FileNames, m = Delete(name)
        PROVE  m.kind = "delete" /\ m.name \in FileNames
    BY <2>2 DEF Delete
  <2>3. ASSUME NEW r \in Request, NEW i \in 1..Parts[r], m = Upload(r, i)
        PROVE  m.kind = "part" /\ m.name \in Request /\ m.part \in 1..Parts[m.name]
    BY <2>3 DEF Upload
  <2>4. QED
    BY <2>1, <2>2, <2>3 DEF Message
<1>5. QED
  BY <1>1, <1>2, <1>3, <1>4

LEMMA MessageInQueue ==
    ASSUME TransferTypeOK, NEW i \in DOMAIN toSink
    PROVE  toSink[i] \in Message
BY DEF TransferTypeOK

(* What goes to the sink besides parts, and what it has answered. *)
LEMMA QueueGrows ==
    ASSUME NEW q \in Seq(Message), NEW m \in Message, m.kind # "part"
    PROVE  /\ Append(q, m) \in Seq(Message)
           /\ \A old : OldParts(q, old) => OldParts(Append(q, m), old)
<1>1. /\ Append(q, m) \in Seq(Message) /\ Len(q) \in Nat
      /\ DOMAIN q = 1..Len(q) /\ DOMAIN Append(q, m) = 1..(Len(q) + 1)
      /\ \A i \in 1..Len(q) : Append(q, m)[i] = q[i]
      /\ Append(q, m)[Len(q) + 1] = m
  BY AppendProperties, LenProperties
<1>2. \A i \in DOMAIN Append(q, m) :
        (i \in DOMAIN q /\ Append(q, m)[i] = q[i]) \/ Append(q, m)[i] = m
  BY <1>1
<1>3. QED
  BY <1>1, <1>2 DEF OldParts

LEMMA QueueAnswered ==
    ASSUME TransferTypeOK, toSink # <<>>
    PROVE  /\ Tail(toSink) \in Seq(Message) /\ Head(toSink) \in Message
           /\ Head(toSink) = toSink[1] /\ 1 \in DOMAIN toSink
           /\ OldParts(Tail(toSink), toSink)
<1>1. toSink \in Seq(Message)
  BY DEF TransferTypeOK
<1>2. /\ Head(toSink) = toSink[1] /\ Head(toSink) \in Message
      /\ Tail(toSink) \in Seq(Message)
      /\ Len(toSink) \in Nat /\ Len(toSink) >= 1 /\ DOMAIN toSink = 1..Len(toSink)
      /\ DOMAIN Tail(toSink) = 1..(Len(toSink) - 1)
      /\ \A i \in 1..(Len(toSink) - 1) : Tail(toSink)[i] = toSink[i + 1]
  BY <1>1, HeadTailProperties, LenProperties
<1>3. \A i \in DOMAIN Tail(toSink) : i + 1 \in DOMAIN toSink
  BY <1>2
<1>4. 1 \in DOMAIN toSink
  BY <1>2
<1>5. QED
  BY <1>2, <1>3, <1>4 DEF OldParts

LEMMA QueueKept == OldParts(toSink, toSink)
BY DEF OldParts

(* A list is asked for once per device. *)
LEMMA ListsAsked ==
    ASSUME TransferTypeOK, NEW r \in Request
    PROVE  /\ toSink \o Asks(r) \in Seq(Message)
           /\ OldParts(toSink \o Asks(r), toSink)
           /\ \A i \in DOMAIN (toSink \o Asks(r)) :
                \/ i \in DOMAIN toSink /\ (toSink \o Asks(r))[i] = toSink[i]
                \/ (toSink \o Asks(r))[i] = AskList
<1>1. Cardinality(Wanted[r]) \in Nat
  BY NetworkAssumption, FS_Subset, FS_CardinalityType
<1>2. Asks(r) \in Seq(Message) /\ Len(Asks(r)) = Cardinality(Wanted[r])
      /\ \A i \in 1..Len(Asks(r)) : Asks(r)[i] = AskList
  BY <1>1, MessageTypes DEF Asks
<1>3. /\ toSink \o Asks(r) \in Seq(Message)
      /\ Len(toSink \o Asks(r)) = Len(toSink) + Len(Asks(r))
      /\ Len(toSink) \in Nat /\ DOMAIN toSink = 1..Len(toSink)
      /\ \A i \in 1..(Len(toSink) + Len(Asks(r))) :
           (toSink \o Asks(r))[i] = IF i <= Len(toSink) THEN toSink[i]
                                    ELSE Asks(r)[i - Len(toSink)]
  <2>1. toSink \in Seq(Message) /\ Asks(r) \in Seq(Message)
    BY <1>2 DEF TransferTypeOK
  <2>2. Len(toSink) \in Nat /\ DOMAIN toSink = 1..Len(toSink)
    BY <2>1, LenProperties
  <2>3. QED
    BY <2>1, <2>2, ConcatProperties
<1>4. \A i \in DOMAIN (toSink \o Asks(r)) :
        \/ i \in DOMAIN toSink /\ (toSink \o Asks(r))[i] = toSink[i]
        \/ (toSink \o Asks(r))[i] = AskList
  <2> SUFFICES ASSUME NEW i \in 1..(Len(toSink) + Len(Asks(r)))
               PROVE  \/ i \in DOMAIN toSink /\ (toSink \o Asks(r))[i] = toSink[i]
                      \/ (toSink \o Asks(r))[i] = AskList
    BY <1>3, LenProperties
  <2>1. CASE i <= Len(toSink)
    BY <1>3, <2>1
  <2>2. CASE ~(i <= Len(toSink))
    <3>1. i - Len(toSink) \in 1..Len(Asks(r))
      BY <1>1, <1>2, <1>3, <2>2
    <3>2. QED
      BY <1>2, <1>3, <2>2, <3>1
  <2>3. QED
    BY <2>1, <2>2
<1>5. QED
  BY <1>3, <1>4 DEF OldParts, AskList
(* Deletions are asked for by the early stage only. *)
OldDeletes(new, old) ==
    \A i \in DOMAIN new :
        new[i].kind = "delete" => \E j \in DOMAIN old : new[i] = old[j]

LEMMA DeletesAnswered ==
    ASSUME TransferTypeOK, toSink # <<>>
    PROVE  OldDeletes(Tail(toSink), toSink)
<1>1. toSink \in Seq(Message)
  BY DEF TransferTypeOK
<1>2. /\ Len(toSink) \in Nat /\ DOMAIN toSink = 1..Len(toSink)
      /\ DOMAIN Tail(toSink) = 1..(Len(toSink) - 1)
      /\ \A i \in 1..(Len(toSink) - 1) : Tail(toSink)[i] = toSink[i + 1]
  BY <1>1, HeadTailProperties, LenProperties
<1>3. \A i \in DOMAIN Tail(toSink) : i + 1 \in DOMAIN toSink
  BY <1>2
<1>4. QED
  BY <1>2, <1>3 DEF OldDeletes

LEMMA DeletesGrow ==
    ASSUME NEW q \in Seq(Message), NEW m \in Message, m.kind # "delete",
           NEW old, OldDeletes(q, old)
    PROVE  OldDeletes(Append(q, m), old)
<1>1. \A i \in DOMAIN Append(q, m) :
        (i \in DOMAIN q /\ Append(q, m)[i] = q[i]) \/ Append(q, m)[i] = m
  BY AppendProperties, LenProperties
<1>2. QED
  BY <1>1 DEF OldDeletes

LEMMA DeletesKept == OldDeletes(toSink, toSink)
BY DEF OldDeletes

LEMMA ListAsked ==
    ASSUME NEW q \in Seq(Message), NEW old, OldDeletes(q, old)
    PROVE  Append(q, AskList) \in Seq(Message) /\ OldDeletes(Append(q, AskList), old)
<1>1. AskList \in Message /\ AskList.kind # "delete"
  BY MessageTypes DEF AskList
<1>2. QED
  BY <1>1, DeletesGrow, AppendProperties

(* How often a kind of message is under way to the sink. *)
None(q, kind) == \A i \in DOMAIN q : q[i].kind # kind
AtMostOne(q, kind) == \A i, j \in DOMAIN q : q[i].kind = kind /\ q[j].kind = kind => i = j

LEMMA KindsOfTail ==
    ASSUME NEW q \in Seq(Message), q # <<>>, NEW kind, AtMostOne(q, kind)
    PROVE  AtMostOne(Tail(q), kind) /\ (Head(q).kind = kind => None(Tail(q), kind))
<1>1. /\ Len(q) \in Nat /\ DOMAIN q = 1..Len(q) /\ Len(q) >= 1 /\ Head(q) = q[1]
      /\ DOMAIN Tail(q) = 1..(Len(q) - 1)
      /\ \A i \in 1..(Len(q) - 1) : Tail(q)[i] = q[i + 1]
  BY HeadTailProperties, LenProperties, EmptySeq
<1>2. \A i \in DOMAIN Tail(q) : i \in Nat /\ i + 1 \in DOMAIN q /\ i + 1 # 1
                              /\ Tail(q)[i] = q[i + 1]
  BY <1>1
<1>3. ASSUME NEW i \in DOMAIN Tail(q), NEW j \in DOMAIN Tail(q),
             Tail(q)[i].kind = kind, Tail(q)[j].kind = kind
      PROVE  i = j
  <2>1. i + 1 = j + 1
    BY <1>2, <1>3 DEF AtMostOne
  <2>2. QED
    BY <1>2, <2>1
<1>4. 1 \in DOMAIN q
  BY <1>1
<1>5. ASSUME Head(q).kind = kind, NEW i \in DOMAIN Tail(q) PROVE Tail(q)[i].kind # kind
  BY <1>1, <1>2, <1>4, <1>5 DEF AtMostOne
<1>6. QED
  BY <1>3, <1>5 DEF AtMostOne, None

LEMMA KindsOfAppend ==
    ASSUME NEW q \in Seq(Message), NEW m \in Message, NEW kind,
           None(q, kind) \/ (AtMostOne(q, kind) /\ m.kind # kind)
    PROVE  /\ AtMostOne(Append(q, m), kind)
           /\ None(q, kind) /\ m.kind # kind => None(Append(q, m), kind)
<1>1. /\ Len(q) \in Nat /\ DOMAIN q = 1..Len(q)
      /\ DOMAIN Append(q, m) = 1..(Len(q) + 1)
      /\ Append(q, m)[Len(q) + 1] = m
      /\ \A i \in 1..Len(q) : Append(q, m)[i] = q[i]
  BY AppendProperties, LenProperties
<1>2. \A i \in DOMAIN Append(q, m) :
        \/ i \in DOMAIN q /\ Append(q, m)[i] = q[i]
        \/ i = Len(q) + 1 /\ Append(q, m)[i] = m
  BY <1>1
<1>3. QED
  BY <1>2 DEF None, AtMostOne

(* The list a step asks for is of neither kind. *)
LEMMA KindsKept ==
    ASSUME NEW q \in Seq(Message), NEW kind, kind # "list", AtMostOne(q, kind)
    PROVE  /\ AtMostOne(Append(q, AskList), kind)
           /\ None(q, kind) => None(Append(q, AskList), kind)
BY KindsOfAppend, MessageTypes DEF AskList

------------------------------------------------------------------------------
(* The files of the sink.                                                    *)

(* They are finitely many, each of a size. *)
LEMMA UsedFinite ==
    ASSUME NEW files \in Seq(SinkFile)
    PROVE  IsFiniteSet(UNION {{i} \X (1..files[i].size) : i \in DOMAIN files})
<1> DEFINE units(i) == {i} \X (1..files[i].size)
           room == {units(i) : i \in DOMAIN files}
           f == [i \in DOMAIN files |-> units(i)]
<1>1. DOMAIN files = 1..Len(files) /\ Len(files) \in Nat
      /\ \A i \in DOMAIN files : files[i].size \in Nat
  <2>1. \A i \in DOMAIN files : files[i] \in SinkFile
    OBVIOUS
  <2>2. QED
    BY <2>1, LenProperties DEF SinkFile
<1>2. IsFiniteSet(DOMAIN files)
  BY <1>1, FS_Interval
<1>3. ASSUME NEW i \in DOMAIN files PROVE IsFiniteSet(units(i))
  <2>1. IsFiniteSet({i})
    BY FS_Singleton
  <2>2. 1 \in Int /\ files[i].size \in Int
    BY <1>1
  <2>3. IsFiniteSet(1..files[i].size)
    BY <2>2, FS_Interval
  <2>4. QED
    BY <2>1, <2>3, FS_Product
<1> HIDE DEF units
<1>4. f \in Surjection(DOMAIN files, room)
  BY DEF Surjection
<1>5. IsFiniteSet(room)
  BY <1>2, <1>4, FS_Surjection
<1>6. IsFiniteSet(UNION room)
  BY <1>3, <1>5, FS_UNION
<1>7. QED
  BY <1>6 DEF units

(* The room they leave is a number. *)
LEMMA FreeSpaceType ==
    ASSUME TransferTypeOK
    PROVE  FreeSpace \in Int
<1> DEFINE used == UNION {{i} \X (1..sinkFiles[i].size) : i \in DOMAIN sinkFiles}
<1>1. IsFiniteSet(used)
  BY UsedFinite DEF TransferTypeOK
<1>2. FreeSpace = Capacity - Cardinality(used)
  BY DEF FreeSpace
<1> HIDE DEF used
<1>3. Cardinality(used) \in Nat
  BY <1>1, FS_CardinalityType
<1>4. QED
  BY <1>2, <1>3, TransferAssumption

(* RemoveAt takes out one element and moves those behind it up. *)
LEMMA RemoveAtElements ==
    ASSUME NEW S, NEW s \in Seq(S), NEW i \in DOMAIN s
    PROVE  /\ RemoveAt(s, i) \in Seq(S)
           /\ \A j \in DOMAIN RemoveAt(s, i) :
                \E k \in DOMAIN s : RemoveAt(s, i)[j] = s[k]
           /\ \A k \in DOMAIN s \ {i} :
                \E j \in DOMAIN RemoveAt(s, i) : RemoveAt(s, i)[j] = s[k]
<1> DEFINE front == SubSeq(s, 1, i - 1)
           back == SubSeq(s, i + 1, Len(s))
<1>1. i \in 1..Len(s) /\ Len(s) \in Nat /\ DOMAIN s = 1..Len(s)
  BY LenProperties
<1>2. /\ front \in Seq(S) /\ Len(front) = i - 1
      /\ \A j \in 1..(i - 1) : front[j] = s[j]
  BY <1>1, SubSeqProperties
<1>3. /\ back \in Seq(S) /\ Len(back) = Len(s) - i
      /\ \A j \in 1..(Len(s) - i) : back[j] = s[i + j]
  BY <1>1, SubSeqProperties
<1> HIDE DEF front, back
<1>4. /\ front \o back \in Seq(S)
      /\ Len(front \o back) = Len(front) + Len(back)
      /\ \A j \in 1..(Len(front) + Len(back)) :
           (front \o back)[j] = IF j <= Len(front) THEN front[j] ELSE back[j - Len(front)]
  BY <1>2, <1>3, ConcatProperties
<1>5. RemoveAt(s, i) = front \o back
  BY DEF RemoveAt, front, back
<1>6. DOMAIN (front \o back) = 1..(Len(front) + Len(back))
  BY <1>4, LenProperties
<1>7. ASSUME NEW j \in DOMAIN (front \o back)
      PROVE  \E k \in DOMAIN s : (front \o back)[j] = s[k]
  <2>1. CASE j < i
    BY <1>1, <1>2, <1>3, <1>4, <1>6, <2>1
  <2>2. CASE ~(j < i)
    <3>1. /\ j - (i - 1) \in 1..(Len(s) - i) /\ i + (j - (i - 1)) = j + 1
          /\ j + 1 \in DOMAIN s /\ ~(j <= Len(front))
      BY <1>1, <1>2, <1>3, <1>6, <2>2
    <3>2. (front \o back)[j] = back[j - (i - 1)]
      BY <1>2, <1>4, <1>6, <3>1
    <3>3. back[j - (i - 1)] = s[j + 1]
      BY <1>3, <3>1
    <3>4. QED
      BY <3>1, <3>2, <3>3
  <2>3. QED
    BY <2>1, <2>2
<1>8. ASSUME NEW k \in DOMAIN s, k # i
      PROVE  \E j \in DOMAIN (front \o back) : (front \o back)[j] = s[k]
  <2>1. CASE k < i
    BY <1>1, <1>2, <1>3, <1>4, <1>6, <2>1
  <2>2. CASE ~(k < i)
    <3>0. k \in Nat /\ i \in Nat /\ 1 <= i /\ i < k /\ k <= Len(s) /\ Len(s) \in Nat
      BY <1>1, <1>8, <2>2
    <3>1. /\ k - i \in 1..(Len(s) - i) /\ i + (k - i) = k
          /\ k - 1 \in DOMAIN (front \o back) /\ ~(k - 1 <= Len(front))
          /\ (k - 1) - Len(front) = k - i
      <4>1. Len(front) + Len(back) = Len(s) - 1
        BY <1>2, <1>3, <3>0
      <4>2. k - 1 \in 1..(Len(s) - 1) /\ k - i \in 1..(Len(s) - i) /\ i + (k - i) = k
            /\ ~(k - 1 <= i - 1) /\ (k - 1) - (i - 1) = k - i
        BY <3>0
      <4>3. Len(front) = i - 1
        BY <1>2
      <4>4. QED
        BY <1>6, <4>1, <4>2, <4>3
    <3>2. (front \o back)[k - 1] = back[k - i]
      BY <1>4, <1>6, <3>1
    <3>3. back[k - i] = s[k]
      BY <1>3, <3>1
    <3>4. QED
      BY <3>1, <3>2, <3>3
  <2>3. QED
    BY <2>1, <2>2
<1>9. QED
  BY <1>4, <1>5, <1>7, <1>8

(* A deletion leaves the other files as they are. *)
LEMMA FilesWithout ==
    ASSUME TransferTypeOK, NEW name
    PROVE  /\ WithoutFile(name) \in Seq(SinkFile)
           /\ \A j \in DOMAIN WithoutFile(name) :
                \E k \in DOMAIN sinkFiles : WithoutFile(name)[j] = sinkFiles[k]
           /\ \A k \in DOMAIN sinkFiles : sinkFiles[k].name # name =>
                \E j \in DOMAIN WithoutFile(name) : WithoutFile(name)[j] = sinkFiles[k]
<1>1. sinkFiles \in Seq(SinkFile)
  BY DEF TransferTypeOK
<1>2. CASE name \in Names(sinkFiles)
  <2> DEFINE i == CHOOSE i \in DOMAIN sinkFiles : sinkFiles[i].name = name
  <2>1. i \in DOMAIN sinkFiles /\ sinkFiles[i].name = name
    BY <1>2 DEF Names
  <2>2. WithoutFile(name) = RemoveAt(sinkFiles, i)
    BY <1>2 DEF WithoutFile
  <2> HIDE DEF i
  <2>3. QED
    BY <1>1, <2>1, <2>2, RemoveAtElements
<1>3. CASE name \notin Names(sinkFiles)
  BY <1>1, <1>3 DEF WithoutFile
<1>4. QED
  BY <1>2, <1>3

(* A part is stored in the file of its name, or in a new one. *)
LEMMA FilesStored ==
    ASSUME TransferTypeOK, NEW r \in Request, NEW i \in 1..Parts[r]
    PROVE  /\ Stored(sinkFiles, r, i) \in Seq(SinkFile)
           /\ \A j \in DOMAIN Stored(sinkFiles, r, i) :
                LET f == Stored(sinkFiles, r, i)[j]
                IN  \/ \E k \in DOMAIN sinkFiles :
                         /\ f.name = sinkFiles[k].name
                         /\ f.parts \subseteq sinkFiles[k].parts
                              \cup (IF f.name = r THEN {i} ELSE {})
                    \/ f.name = r /\ f.parts = {i}
<1>1. /\ sinkFiles \in Seq(SinkFile) /\ Len(sinkFiles) \in Nat
      /\ DOMAIN sinkFiles = 1..Len(sinkFiles)
      /\ \A k \in DOMAIN sinkFiles : sinkFiles[k] \in SinkFile
  BY DEF TransferTypeOK
<1>2. Parts[r] \in Nat /\ i \in Nat /\ r \in FileNames
  BY TransferAssumption, NetworkAssumption DEF FileNames, Request
<1>3. CASE r \in Names(sinkFiles)
  <2> DEFINE g(k) == IF sinkFiles[k].name = r
                     THEN [sinkFiles[k] EXCEPT !.parts = @ \cup {i}] ELSE sinkFiles[k]
  <2>1. Stored(sinkFiles, r, i) = [k \in DOMAIN sinkFiles |-> g(k)]
    BY <1>3 DEF Stored
  <2>2. \A k \in DOMAIN sinkFiles :
          /\ g(k) \in SinkFile /\ g(k).name = sinkFiles[k].name
          /\ g(k).parts \subseteq sinkFiles[k].parts \cup (IF g(k).name = r THEN {i} ELSE {})
    BY <1>1, <1>2 DEF SinkFile
  <2> HIDE DEF g
  <2>3. [k \in 1..Len(sinkFiles) |-> g(k)] \in Seq(SinkFile)
    BY <1>1, <2>2
  <2>4. QED
    BY <1>1, <2>1, <2>2, <2>3
<1>4. CASE r \notin Names(sinkFiles)
  <2> DEFINE f == [name |-> r, size |-> Parts[r], parts |-> {i}]
  <2>1. f \in SinkFile /\ f.name = r /\ f.parts = {i}
    BY <1>2 DEF SinkFile
  <2>2. Stored(sinkFiles, r, i) = Append(sinkFiles, f)
    BY <1>4 DEF Stored
  <2> HIDE DEF f
  <2>3. /\ Append(sinkFiles, f) \in Seq(SinkFile)
        /\ DOMAIN Append(sinkFiles, f) = 1..(Len(sinkFiles) + 1)
        /\ \A k \in 1..Len(sinkFiles) : Append(sinkFiles, f)[k] = sinkFiles[k]
        /\ Append(sinkFiles, f)[Len(sinkFiles) + 1] = f
    BY <1>1, <2>1, AppendProperties, LenProperties
  <2>4. \A j \in DOMAIN Append(sinkFiles, f) :
          \/ j \in DOMAIN sinkFiles /\ Append(sinkFiles, f)[j] = sinkFiles[j]
          \/ Append(sinkFiles, f)[j] = f
    BY <1>1, <2>3
  <2>5. QED
    BY <2>1, <2>2, <2>3, <2>4
<1>5. QED
  BY <1>3, <1>4

(* The files that were there lose no part. *)
LEMMA PartsStored ==
    ASSUME TransferTypeOK, NEW r \in Request, NEW i \in 1..Parts[r]
    PROVE  \A k \in DOMAIN sinkFiles : \E j \in DOMAIN Stored(sinkFiles, r, i) :
             /\ Stored(sinkFiles, r, i)[j].name = sinkFiles[k].name
             /\ sinkFiles[k].parts \subseteq Stored(sinkFiles, r, i)[j].parts
<1> DEFINE new == Stored(sinkFiles, r, i)
<1>1. /\ sinkFiles \in Seq(SinkFile) /\ Len(sinkFiles) \in Nat
      /\ DOMAIN sinkFiles = 1..Len(sinkFiles)
      /\ \A k \in DOMAIN sinkFiles : sinkFiles[k] \in SinkFile
  BY DEF TransferTypeOK
<1>2. CASE r \in Names(sinkFiles)
  <2>1. \A k \in DOMAIN sinkFiles :
          /\ k \in DOMAIN new /\ new[k].name = sinkFiles[k].name
          /\ sinkFiles[k].parts \subseteq new[k].parts
    BY <1>1, <1>2 DEF Stored, SinkFile
  <2>2. QED
    BY <2>1
<1>3. CASE r \notin Names(sinkFiles)
  <2>1. PICK f : new = Append(sinkFiles, f)
    BY <1>3 DEF Stored
  <2>2. \A k \in DOMAIN sinkFiles : k \in DOMAIN new /\ new[k] = sinkFiles[k]
    BY <1>1, <2>1
  <2>3. QED
    BY <2>2
<1>4. QED
  BY <1>2, <1>3

(* A part joins those of its file that are there. *)
LEMMA PartJoins ==
    ASSUME TransferTypeOK, NEW r \in Request, NEW i \in 1..Parts[r], NEW before,
           \/ before = {}
           \/ \E k \in DOMAIN sinkFiles :
                sinkFiles[k].name = r /\ before \subseteq sinkFiles[k].parts
    PROVE  \E j \in DOMAIN Stored(sinkFiles, r, i) :
             /\ Stored(sinkFiles, r, i)[j].name = r
             /\ before \cup {i} \subseteq Stored(sinkFiles, r, i)[j].parts
<1> DEFINE new == Stored(sinkFiles, r, i)
<1>1. /\ sinkFiles \in Seq(SinkFile) /\ Len(sinkFiles) \in Nat
      /\ DOMAIN sinkFiles = 1..Len(sinkFiles)
      /\ \A k \in DOMAIN sinkFiles : sinkFiles[k] \in SinkFile
  BY DEF TransferTypeOK
<1>2. CASE r \in Names(sinkFiles)
  <2>1. PICK k \in DOMAIN sinkFiles :
          sinkFiles[k].name = r /\ before \subseteq sinkFiles[k].parts
    BY <1>2 DEF Names
  <2>2. k \in DOMAIN new /\ new[k] = [sinkFiles[k] EXCEPT !.parts = @ \cup {i}]
    BY <1>2, <2>1 DEF Stored
  <2>3. new[k].name = r /\ new[k].parts = sinkFiles[k].parts \cup {i}
    BY <1>1, <2>1, <2>2 DEF SinkFile
  <2>4. QED
    BY <2>1, <2>2, <2>3
<1>3. CASE r \notin Names(sinkFiles)
  <2> DEFINE f == [name |-> r, size |-> Parts[r], parts |-> {i}]
  <2>1. new = Append(sinkFiles, f) /\ before = {}
    BY <1>3 DEF Stored, Names
  <2>2. f.name = r /\ f.parts = {i}
    OBVIOUS
  <2> HIDE DEF f
  <2>3. /\ Len(sinkFiles) + 1 \in DOMAIN Append(sinkFiles, f)
        /\ Append(sinkFiles, f)[Len(sinkFiles) + 1] = f
    BY <1>1
  <2>4. QED
    BY <2>1, <2>2, <2>3
<1>4. QED
  BY <1>2, <1>3

(* The sink has no more room after a part than before. *)
LEMMA RoomStored ==
    ASSUME TransferTypeOK, NEW r \in Request, NEW i \in 1..Parts[r],
           sinkFiles' = Stored(sinkFiles, r, i)
    PROVE  FreeSpace' \in Int /\ FreeSpace' <= FreeSpace
<1> DEFINE used == UNION {{k} \X (1..sinkFiles[k].size) : k \in DOMAIN sinkFiles}
           next == UNION {{k} \X (1..sinkFiles'[k].size) : k \in DOMAIN sinkFiles'}
<1>1. /\ sinkFiles \in Seq(SinkFile) /\ Len(sinkFiles) \in Nat
      /\ DOMAIN sinkFiles = 1..Len(sinkFiles)
      /\ \A k \in DOMAIN sinkFiles : sinkFiles[k] \in SinkFile
  BY DEF TransferTypeOK
<1>2. \A k \in DOMAIN sinkFiles :
        k \in DOMAIN sinkFiles' /\ sinkFiles'[k].size = sinkFiles[k].size
  <2>1. CASE r \in Names(sinkFiles)
    BY <1>1, <2>1 DEF Stored, SinkFile
  <2>2. CASE r \notin Names(sinkFiles)
    <3>1. PICK f : sinkFiles' = Append(sinkFiles, f)
      BY <2>2 DEF Stored
    <3>2. QED
      BY <1>1, <3>1
  <2>3. QED
    BY <2>1, <2>2
<1>3. used \subseteq next
  BY <1>2
<1>4. IsFiniteSet(used) /\ IsFiniteSet(next)
  <2>1. sinkFiles' \in Seq(SinkFile)
    BY FilesStored
  <2>2. QED
    BY <1>1, <2>1, UsedFinite
<1>5. FreeSpace = Capacity - Cardinality(used) /\ FreeSpace' = Capacity - Cardinality(next)
  BY DEF FreeSpace
<1> HIDE DEF used, next
<1>6. /\ Cardinality(used) <= Cardinality(next)
      /\ Cardinality(used) \in Nat /\ Cardinality(next) \in Nat
  BY <1>3, <1>4, FS_Subset, FS_CardinalityType
<1>7. QED
  BY <1>5, <1>6, TransferAssumption

------------------------------------------------------------------------------
(* The two stages.                                                           *)

LEMMA EmptyTypes ==
    /\ NoList \in List
    /\ NewListFuture \in [done : BOOLEAN, list : List, callbacks : Seq(Callback)]
    /\ NotFiring \in [list : List, callbacks : Seq(Callback)]
    /\ NewListFuture.list = NoList /\ NotFiring.list = NoList
    /\ \A r \in Request : Early(r) \in Callback /\ Late(r) \in Callback
BY DEF NoList, List, NewListFuture, NotFiring, Early, Late, Callback

(* The early stage of a request that waits nowhere else any more begins its  *)
(* upload or waits for room.                                                 *)
LEMMA EarlyStageStep ==
    ASSUME TransferInv, NEW r \in Request, NEW list \in List, NEW sent \in Seq(Message),
           EarlyStage(r, list, sent), OldParts(sent, toSink),
           sender[r].at = "none", deletion.waiter # r,
           lastRequest <= lastRequest', r <= lastRequest', lastRequest' \in 0..MaxRequest,
           toUpdateIds' \in Seq(Order),
           UNCHANGED <<status, heard, minor, starts, sinkFiles, acks, rejected>>,
           firing' \in [list : List, callbacks : Seq(Callback)],
           firing'.list \in {firing.list, NoList},
           EarlyOnce(firing'.callbacks),
           EarlyRequests(firing'.callbacks) \subseteq EarlyRequests(firing.callbacks) \ {r}
    PROVE  TransferInv' /\ Grown
<1>1. listFuture' = NewListFuture
  BY DEF EarlyStage
<1>2. lastRequest \in Nat /\ lastRequest' \in Nat /\ r \in Nat /\ r # NoFile
      /\ \A s \in Request : s \in Nat
  BY NetworkAssumption DEF TransferInv, NetworkTypeOK, Request, NoFile
<1>3. /\ listFuture' \in [done : BOOLEAN, list : List, callbacks : Seq(Callback)]
      /\ EarlyRequests(listFuture'.callbacks) = {} /\ EarlyOnce(listFuture'.callbacks)
      /\ listFuture'.list = NoList
  BY <1>1, EmptyTypes, EarlyOfEmpty
<1>4. CASE list.free >= Parts[r]
  <2>1. DoUpload(r, sent)
    BY <1>4 DEF EarlyStage
  <2>2. /\ fileName' = r /\ file' = r /\ toSink' = sent /\ deletion' = deletion
        /\ sender' = [sender EXCEPT ![r] = [at |-> "sending", part |-> 1, future |-> 0]]
    BY <2>1 DEF DoUpload
  <2>3. sender' \in [Request -> [at : SenderState, part : Nat, future : Nat]]
    BY <2>2 DEF TransferInv, TransferTypeOK, SenderState
  <2>4. NetworkTypeOK' /\ TransferTypeOK'
    BY <1>3, <2>2, <2>3 DEF TransferInv, NetworkTypeOK, TransferTypeOK
  <2>5. /\ sender'[r].at = "sending" /\ sender'[r].part = 1
        /\ \A s \in Request \ {r} : sender'[s] = sender[s]
    BY <2>2 DEF TransferInv, TransferTypeOK
  <2>6. SenderOK'
    <3>1. 1 \in 1..(Parts[r] + 1)
      BY TransferAssumption
    <3>2. \A s \in Request : s <= lastRequest => s <= lastRequest'
      BY <1>2
    <3>3. QED
      BY <2>5, <3>1, <3>2 DEF TransferInv, SenderOK
  <2>7. WaitsOnce'
    <3>1. ASSUME NEW s \in Request, Waits(s)' PROVE s # r /\ Waits(s)
      BY <1>3, <2>2, <3>1 DEF Waits
    <3>2. \A s \in Request : s <= lastRequest => s <= lastRequest'
      BY <1>2
    <3>3. QED
      BY <1>3, <2>2, <2>5, <3>1, <3>2 DEF TransferInv, WaitsOnce
  <2>8. Grown
    BY <2>2, UploadBegins
  <2>9. PartsKnown'
    <3>1. \A i \in DOMAIN toSink : toSink[i].kind = "part" => toSink[i].name \in Request
      BY MessageInQueue, MessageTypes DEF TransferInv
    <3>2. QED
      BY <1>3, <2>2, <2>8, <3>1, PartsStayKnown DEF TransferInv
  <2>10. QED
    BY <2>8, <2>4, <2>6, <2>7, <2>9 DEF TransferInv
<1>5. CASE ~(list.free >= Parts[r])
  <2>1. MakeRoom(r, list, sent)
    BY <1>5 DEF EarlyStage
  <2>2. /\ deletion' = [done |-> FALSE, waiter |-> r]
        /\ UNCHANGED <<fileName, file, sender>>
    BY <2>1 DEF MakeRoom
  <2>3. toSink' \in Seq(Message) /\ OldParts(toSink', toSink)
    <3>1. CASE list.files = <<>>
      BY <2>1, <3>1 DEF MakeRoom
    <3>2. CASE list.files # <<>>
      <4>1. list.files \in Seq(SinkFile)
        BY DEF List
      <4>2. Head(list.files) \in SinkFile
        BY <3>2, <4>1, HeadTailProperties
      <4> DEFINE m == Delete(Head(list.files).name)
      <4>3. m \in Message /\ m.kind # "part"
        BY <4>2, MessageTypes DEF SinkFile, Delete
      <4>4. toSink' = Append(sent, m)
        BY <2>1, <3>2 DEF MakeRoom
      <4> HIDE DEF m
      <4>5. QED
        BY <4>3, <4>4, QueueGrows
    <3>3. QED
      BY <3>1, <3>2
  <2>4. NetworkTypeOK' /\ TransferTypeOK'
    BY <1>3, <2>2, <2>3 DEF TransferInv, NetworkTypeOK, TransferTypeOK
  <2>5. \A s \in Request : s <= lastRequest => s <= lastRequest'
    BY <1>2
  <2>6. SenderOK'
    BY <2>2, <2>5 DEF TransferInv, SenderOK
  <2>7. WaitsOnce'
    <3>1. ASSUME NEW s \in Request, Waits(s)' PROVE s = r \/ Waits(s)
      BY <1>3, <2>2, <3>1 DEF Waits
    <3>2. QED
      BY <1>3, <2>2, <2>5, <3>1 DEF TransferInv, WaitsOnce
  <2>8. Grown
    BY <2>2, SameSender
  <2>9. PartsKnown'
    <3>1. \A i \in DOMAIN toSink : toSink[i].kind = "part" => toSink[i].name \in Request
      BY MessageInQueue, MessageTypes DEF TransferInv
    <3>2. QED
      BY <1>3, <2>3, <2>8, <3>1, PartsStayKnown DEF TransferInv
  <2>10. QED
    BY <2>8, <2>4, <2>6, <2>7, <2>9 DEF TransferInv
<1>6. QED
  BY <1>4, <1>5

Sent(s) == s.path \in Request /\ Parts[s.path] \in 1..PartsSent(s.path)

(* The late stage starts a device with nothing but the file whose checksums  *)
(* it finds right, and those are right only of a file that is whole.         *)
LEMMA LateStageStep ==
    ASSUME TransferInv, NEW list \in List, SentOnly(list.files),
           NEW sent, LateStage(list, sent)
    PROVE  /\ NetworkTypeOK' /\ UNCHANGED <<lastRequest, file, deletion>> /\ toSink' = sent
           /\ listFuture' \in {listFuture, NewListFuture}
           /\ \A s \in starts' \ starts : Sent(s)
<1>1. toSink' = sent /\ UNCHANGED deletion /\ listFuture' \in {listFuture, NewListFuture}
  BY DEF LateStage
<1>2. CASE UNCHANGED networkVars
  BY <1>1, <1>2 DEF networkVars, TransferInv, NetworkTypeOK
<1>3. CASE ~(UNCHANGED networkVars)
  <2>1. PICK i \in DOMAIN list.files :
          /\ list.files[i].name = fileName
          /\ ChecksumsMatch(list.files[i])
          /\ SendStartUpgrade(fileName)
    BY <1>3 DEF LateStage, StartUpgradeOfNothing
  <2>2. list.files[i] \in SinkFile
    BY DEF List
  <2>3. fileName \in Request
    <3>1. fileName \in FileNames
      BY <2>1, <2>2 DEF SinkFile
    <3>2. fileName # NoFile
      BY <3>1 DEF FileNames, NoFile
    <3>3. QED
      BY <3>2 DEF TransferInv, NetworkTypeOK
  <2>4. Parts[fileName] \in 1..PartsSent(fileName)
    <3>1. list.files[i].parts = 1..Parts[fileName]
      BY <2>1 DEF ChecksumsMatch, Whole
    <3>2. Parts[fileName] \in 1..Parts[fileName]
      BY <2>3, TransferAssumption
    <3>3. list.files[i].parts \subseteq 1..PartsSent(fileName)
      BY <2>1, <2>3 DEF SentOnly
    <3>4. QED
      BY <3>1, <3>2, <3>3
  <2>5. /\ NetworkTypeOK' /\ UNCHANGED <<lastRequest, file>>
        /\ \E command \in StartCommand :
             command.path = fileName /\ starts' = starts \cup {command}
    BY <2>1, <2>3, StartTypes DEF TransferInv
  <2>6. \A s \in starts' \ starts : Sent(s)
    BY <2>3, <2>4, <2>5 DEF Sent
  <2>7. QED
    BY <1>1, <2>5, <2>6
<1>4. QED
  BY <1>2, <1>3
------------------------------------------------------------------------------
(* The handlers.                                                             *)

StepOK == TransferInv' /\ Grown /\ \A s \in starts' \ starts : Sent(s)

LEMMA UpdateFirmwareStep ==
    ASSUME TransferInv, NEW r \in Request, UpdateFirmware(r)
    PROVE  StepOK
<1>1. /\ toUpdateIds' \in Seq(Order) /\ lastRequest' = r /\ r \in 0..MaxRequest
      /\ r = lastRequest + 1 /\ lastRequest \in Nat /\ starts' = starts
  BY EnqueueTypes DEF TransferInv, UpdateFirmware, NetworkTypeOK
<1>2. sender[r].at = "none" /\ ~Waits(r)
  <2>1. ~(r <= lastRequest)
    BY <1>1
  <2>2. QED
    BY <2>1 DEF TransferInv, SenderOK, WaitsOnce
<1>3. firing' = firing /\ UNCHANGED <<status, heard, minor, starts, sinkFiles, acks, rejected>>
  BY DEF UpdateFirmware
<1>4. toSink \o Asks(r) \in Seq(Message) /\ OldParts(toSink \o Asks(r), toSink)
  BY ListsAsked DEF TransferInv
<1>5. CASE listFuture.done
  <2>1. EarlyStage(r, listFuture.list, toSink \o Asks(r))
    BY <1>5 DEF UpdateFirmware
  <2>2. listFuture.list \in List /\ firing \in [list : List, callbacks : Seq(Callback)]
        /\ EarlyOnce(firing.callbacks)
    BY DEF TransferInv, TransferTypeOK, WaitsOnce
  <2>3. /\ deletion.waiter # r /\ r \notin EarlyRequests(firing.callbacks)
        /\ lastRequest <= lastRequest' /\ r <= lastRequest' /\ lastRequest' \in 0..MaxRequest
    BY <1>1, <1>2 DEF Waits
  <2>4. TransferInv' /\ Grown
    BY <1>1, <1>2, <1>3, <1>4, <2>1, <2>2, <2>3, EarlyStageStep
  <2>5. QED
    BY <1>1, <2>4 DEF StepOK
<1>6. CASE ~listFuture.done
  <2>1. /\ listFuture' = [listFuture EXCEPT !.callbacks = Append(@, Early(r))]
        /\ toSink' = toSink \o Asks(r)
        /\ UNCHANGED <<fileName, file, sender, deletion>>
    BY <1>6 DEF UpdateFirmware
  <2>2. listFuture.callbacks \in Seq(Callback) /\ Early(r) \in Callback
        /\ ~Early(r).late /\ Early(r).req = r
    BY EmptyTypes DEF TransferInv, TransferTypeOK, Early
  <2>3. /\ listFuture'.callbacks \in Seq(Callback)
        /\ EarlyRequests(listFuture'.callbacks) = EarlyRequests(listFuture.callbacks) \cup {r}
        /\ EarlyOnce(listFuture'.callbacks)
        /\ listFuture'.list = listFuture.list /\ listFuture'.done = listFuture.done
    <3>1. listFuture'.callbacks = Append(listFuture.callbacks, Early(r))
          /\ listFuture'.list = listFuture.list /\ listFuture'.done = listFuture.done
      BY <2>1 DEF TransferInv, TransferTypeOK
    <3>2. EarlyOnce(listFuture.callbacks) /\ r \notin EarlyRequests(listFuture.callbacks)
      BY <1>2 DEF Waits, TransferInv, WaitsOnce
    <3>3. QED
      BY <2>2, <3>1, <3>2, EarlyOfAppend
  <2>4. NetworkTypeOK' /\ TransferTypeOK'
    BY <1>1, <1>3, <1>4, <2>1, <2>3 DEF TransferInv, NetworkTypeOK, TransferTypeOK
  <2>5. \A s \in Request : s <= lastRequest => s <= lastRequest'
    BY <1>1 DEF Request
  <2>6. SenderOK'
    BY <1>3, <2>1, <2>5 DEF TransferInv, SenderOK
  <2>7. WaitsOnce'
    <3>1. ASSUME NEW s \in Request, Waits(s)' PROVE s = r \/ Waits(s)
      BY <1>3, <2>1, <2>3, <3>1 DEF Waits
    <3>2. r <= lastRequest'
      BY <1>1
    <3>3. QED
      BY <1>2, <1>3, <2>1, <2>3, <2>5, <3>1, <3>2 DEF TransferInv, WaitsOnce, Waits
  <2>8. Grown
    BY <2>1, SameSender
  <2>9. PartsKnown'
    <3>1. \A i \in DOMAIN toSink : toSink[i].kind = "part" => toSink[i].name \in Request
      BY MessageInQueue, MessageTypes DEF TransferInv
    <3>2. QED
      BY <1>3, <1>4, <2>1, <2>3, <2>8, <3>1, PartsStayKnown DEF TransferInv
  <2>10. QED
    BY <1>1, <2>4, <2>6, <2>7, <2>8, <2>9 DEF StepOK, TransferInv
<1>7. QED
  BY <1>5, <1>6

LEMMA RejectFileStep ==
    ASSUME TransferInv, RejectFile
    PROVE  StepOK
<1>1. /\ UNCHANGED networkVars
      /\ UNCHANGED <<sinkFiles, listFuture, deletion, acks, firing, sender>>
      /\ toSink' = Append(toSink, AskList)
      /\ rejected' = rejected + 1 /\ rejected < MaxRejected
  BY DEF RejectFile
<1>2. toSink' \in Seq(Message) /\ OldParts(toSink', toSink)
  <2>1. AskList \in Message /\ AskList.kind # "part"
    BY MessageTypes DEF AskList
  <2>2. QED
    BY <1>1, <2>1, QueueKept, QueueGrows DEF TransferInv, TransferTypeOK
<1>3. rejected' \in 0..MaxRejected
  BY <1>1, TransferAssumption DEF TransferInv, TransferTypeOK
<1>4. NetworkTypeOK' /\ TransferTypeOK' /\ SenderOK' /\ WaitsOnce'
  BY <1>1, <1>2, <1>3
     DEF TransferInv, NetworkTypeOK, TransferTypeOK, SenderOK, WaitsOnce, Waits, networkVars
<1>5. Grown
  BY <1>1, SameSender
<1>6. PartsKnown'
  <2>1. \A i \in DOMAIN toSink : toSink[i].kind = "part" => toSink[i].name \in Request
    BY MessageInQueue, MessageTypes DEF TransferInv
  <2>2. QED
    BY <1>1, <1>2, <1>5, <2>1, PartsStayKnown DEF TransferInv
<1>7. QED
  BY <1>1, <1>4, <1>5, <1>6 DEF StepOK, TransferInv, networkVars

(* A list is what the sink holds at that moment, and the callbacks of the    *)
(* future that completes move to the handler.                                *)
LEMMA AnswerListStep ==
    ASSUME TransferInv, AnswerList
    PROVE  StepOK
<1> DEFINE list == [free |-> FreeSpace, files |-> sinkFiles]
<1>1. /\ toSink # <<>> /\ toSink' = Tail(toSink) /\ LockFree
      /\ UNCHANGED <<networkVars, sinkFiles, deletion, acks, sender, rejected>>
  BY DEF AnswerList, Answering
<1>2. toSink' \in Seq(Message) /\ OldParts(toSink', toSink)
  BY <1>1, QueueAnswered DEF TransferInv
<1>3. Grown
  BY <1>1, SameSender
<1>4. \A i \in DOMAIN toSink : toSink[i].kind = "part" => toSink[i].name \in Request
  BY MessageInQueue, MessageTypes DEF TransferInv
<1>5. NetworkTypeOK' /\ SenderOK' /\ starts' = starts
  BY <1>1 DEF TransferInv, NetworkTypeOK, SenderOK, networkVars
<1>6. CASE listFuture.done
  <2>1. UNCHANGED <<listFuture, firing>>
    BY <1>6 DEF AnswerList
  <2>2. TransferTypeOK' /\ WaitsOnce'
    BY <1>1, <1>2, <2>1
       DEF TransferInv, TransferTypeOK, WaitsOnce, Waits, networkVars
  <2>3. PartsKnown'
    BY <1>1, <1>2, <1>3, <1>4, <2>1, PartsStayKnown DEF TransferInv
  <2>4. QED
    BY <1>3, <1>5, <2>2, <2>3 DEF StepOK, TransferInv
<1>7. CASE ~listFuture.done
  <2> DEFINE callbacks == Reverse(listFuture.callbacks)
  <2>1. /\ listFuture' = [done |-> TRUE, list |-> list, callbacks |-> <<>>]
        /\ firing' \in {NotFiring, [list |-> list, callbacks |-> callbacks]}
    BY <1>7 DEF AnswerList
  <2>2. list \in List
    BY FreeSpaceType DEF List, TransferInv, TransferTypeOK
  <2>3. /\ callbacks \in Seq(Callback) /\ EarlyOnce(callbacks)
        /\ EarlyRequests(callbacks) = EarlyRequests(listFuture.callbacks)
    BY EarlyOfReverse DEF TransferInv, TransferTypeOK, WaitsOnce
  <2> HIDE DEF list, callbacks
  <2>4. /\ firing'.list \in {NoList, list} /\ EarlyOnce(firing'.callbacks)
        /\ firing' \in [list : List, callbacks : Seq(Callback)]
        /\ EarlyRequests(firing'.callbacks) \subseteq EarlyRequests(listFuture.callbacks)
    BY <2>1, <2>2, <2>3, EmptyTypes, EarlyOfEmpty
  <2>5. /\ listFuture' \in [done : BOOLEAN, list : List, callbacks : Seq(Callback)]
        /\ listFuture'.list = list
        /\ EarlyOnce(listFuture'.callbacks) /\ EarlyRequests(listFuture'.callbacks) = {}
    BY <2>1, <2>2, EarlyOfEmpty
  <2>6. TransferTypeOK'
    BY <1>1, <1>2, <2>4, <2>5 DEF TransferInv, TransferTypeOK
  <2>7. WaitsOnce'
    <3>1. ASSUME NEW s \in Request, Waits(s)' PROVE Waits(s)
      BY <1>1, <2>4, <2>5, <3>1 DEF Waits
    <3>2. QED
      BY <1>1, <2>4, <2>5, <3>1 DEF TransferInv, WaitsOnce, networkVars
  <2>8. PartsKnown'
    <3>1. SentOnly(sinkFiles) /\ list.files = sinkFiles
      BY DEF TransferInv, PartsKnown, list
    <3>2. /\ SentOnly(sinkFiles)' /\ SentOnly(listFuture.list.files)'
          /\ SentOnly(firing.list.files)'
      BY <1>1, <2>4, <2>5, <3>1 DEF SentOnly, PartsSent, NoList
    <3>3. \A i \in DOMAIN toSink' :
            toSink'[i].kind = "part" => (toSink[i].part \in 1..PartsSent(toSink[i].name))'
      BY <1>1, <1>2 DEF OldParts, TransferInv, PartsKnown, PartsSent
    <3>4. QED
      BY <3>2, <3>3 DEF PartsKnown
  <2>9. QED
    BY <1>3, <1>5, <2>6, <2>7, <2>8 DEF StepOK, TransferInv
<1>8. QED
  BY <1>6, <1>7

(* The callback that runs has left the handler's list, so that an early      *)
(* stage finds its request waiting nowhere else.                             *)
LEMMA FireCallbackStep ==
    ASSUME TransferInv, FireCallback
    PROVE  StepOK
<1> DEFINE c == Head(firing.callbacks)
<1>1. /\ firing \in [list : List, callbacks : Seq(Callback)] /\ firing.callbacks # <<>>
      /\ toSink \in Seq(Message) /\ OldParts(toSink, toSink)
      /\ EarlyOnce(firing.callbacks)
  BY QueueKept DEF TransferInv, TransferTypeOK, FireCallback, LockFree, WaitsOnce
<1>2. /\ c \in Callback /\ Tail(firing.callbacks) \in Seq(Callback)
      /\ EarlyRequests(Tail(firing.callbacks)) \subseteq EarlyRequests(firing.callbacks)
      /\ EarlyOnce(Tail(firing.callbacks))
      /\ ~c.late => /\ c.req \in EarlyRequests(firing.callbacks)
                    /\ c.req \notin EarlyRequests(Tail(firing.callbacks))
  BY <1>1, EarlyOfTail
<1>3. firing' \in {NotFiring, [list |-> firing.list, callbacks |-> Tail(firing.callbacks)]}
  BY <1>1 DEF FireCallback
<1>4. /\ firing' \in [list : List, callbacks : Seq(Callback)]
      /\ firing'.list \in {firing.list, NoList} /\ EarlyOnce(firing'.callbacks)
      /\ EarlyRequests(firing'.callbacks) \subseteq EarlyRequests(Tail(firing.callbacks))
  <2>1. CASE firing' = NotFiring
    BY <2>1, EmptyTypes, EarlyOfEmpty
  <2>2. CASE firing' = [list |-> firing.list, callbacks |-> Tail(firing.callbacks)]
    <3>1. firing'.list = firing.list /\ firing'.callbacks = Tail(firing.callbacks)
          /\ firing' \in [list : List, callbacks : Seq(Callback)]
      BY <1>1, <1>2, <2>2
    <3>2. QED
      BY <1>2, <3>1
  <2>3. QED
    BY <1>3, <2>1, <2>2
<1>5. UNCHANGED <<sinkFiles, acks, rejected>> /\ firing.list \in List
  BY <1>1 DEF FireCallback
<1>6. CASE c.late /\ LateStage(firing.list, toSink) /\ UNCHANGED sender
  <2>1. SentOnly(firing.list.files)
    BY DEF TransferInv, PartsKnown
  <2>2. /\ NetworkTypeOK' /\ UNCHANGED <<lastRequest, deletion>> /\ toSink' = toSink
        /\ listFuture' \in {listFuture, NewListFuture}
        /\ \A s \in starts' \ starts : Sent(s)
    BY <1>5, <1>6, <2>1, LateStageStep
  <2>3. /\ listFuture' \in [done : BOOLEAN, list : List, callbacks : Seq(Callback)]
        /\ listFuture'.list \in {listFuture.list, NoList}
        /\ EarlyRequests(listFuture'.callbacks) \subseteq EarlyRequests(listFuture.callbacks)
        /\ EarlyOnce(listFuture'.callbacks)
    BY <2>2, EmptyTypes, EarlyOfEmpty DEF TransferInv, TransferTypeOK, WaitsOnce
  <2>4. TransferTypeOK'
    BY <1>1, <1>4, <1>5, <1>6, <2>2, <2>3 DEF TransferInv, TransferTypeOK
  <2>5. SenderOK'
    BY <1>5, <1>6, <2>2 DEF TransferInv, SenderOK
  <2>6. WaitsOnce'
    <3>1. ASSUME NEW s \in Request, Waits(s)' PROVE Waits(s)
      BY <1>2, <1>4, <2>2, <2>3, <3>1 DEF Waits
    <3>2. QED
      BY <1>2, <1>4, <1>6, <2>2, <2>3, <3>1 DEF TransferInv, WaitsOnce
  <2>7. Grown
    BY <1>6, SameSender
  <2>8. PartsKnown'
    <3>1. \A i \in DOMAIN toSink : toSink[i].kind = "part" => toSink[i].name \in Request
      BY MessageInQueue, MessageTypes DEF TransferInv
    <3>2. QED
      BY <1>1, <1>4, <1>5, <2>2, <2>3, <2>7, <3>1, PartsStayKnown DEF TransferInv
  <2>9. QED
    BY <2>2, <2>4, <2>5, <2>6, <2>7, <2>8 DEF StepOK, TransferInv
<1>7. CASE /\ ~c.late /\ EarlyStage(c.req, firing.list, toSink)
           /\ UNCHANGED <<lastRequest, toUpdateIds, status, heard, minor, starts>>
  <2>1. c.req \in Request
    BY <1>2 DEF Callback
  <2>2. Waits(c.req) /\ deletion.waiter # c.req
    BY <1>2, <1>7 DEF Waits, TransferInv, WaitsOnce
  <2>3. sender[c.req].at = "none" /\ c.req <= lastRequest
    BY <2>1, <2>2 DEF TransferInv, WaitsOnce
  <2>4. /\ lastRequest <= lastRequest' /\ c.req <= lastRequest'
        /\ lastRequest' \in 0..MaxRequest /\ toUpdateIds' \in Seq(Order)
    BY <1>7, <2>3, NetworkAssumption DEF TransferInv, NetworkTypeOK
  <2>5. EarlyRequests(firing'.callbacks) \subseteq EarlyRequests(firing.callbacks) \ {c.req}
    BY <1>2, <1>4, <1>7
  <2> HIDE DEF c
  <2>6. TransferInv' /\ Grown
    BY <1>1, <1>4, <1>5, <1>7, <2>1, <2>2, <2>3, <2>4, <2>5, EarlyStageStep
  <2>7. QED
    BY <1>7, <2>6 DEF StepOK
<1>8. QED
  BY <1>6, <1>7 DEF FireCallback

(* After a deletion the request that waited for room waits for a new list. *)
LEMMA AnswerDeleteStep ==
    ASSUME TransferInv, AnswerDelete
    PROVE  StepOK
<1> DEFINE name == Head(toSink).name
<1>1. /\ toSink # <<>> /\ sinkFiles' = WithoutFile(name)
      /\ deletion' = [done |-> TRUE, waiter |-> NoFile]
      /\ UNCHANGED <<networkVars, acks, firing, sender, rejected>>
  BY DEF AnswerDelete, Answering
<1>2. /\ toSink' \in Seq(Message) /\ OldParts(toSink', toSink)
  <2>1. Tail(toSink) \in Seq(Message) /\ OldParts(Tail(toSink), toSink)
    BY <1>1, QueueAnswered DEF TransferInv
  <2>2. AskList \in Message /\ AskList.kind # "part"
    BY MessageTypes DEF AskList
  <2>3. toSink' \in {Tail(toSink), Append(Tail(toSink), AskList)}
    BY DEF AnswerDelete
  <2>4. QED
    BY <2>1, <2>2, <2>3, QueueGrows
<1>3. Grown
  BY <1>1, SameSender
<1>4. sinkFiles' \in Seq(SinkFile) /\ SentOnly(sinkFiles)'
  <2>1. /\ sinkFiles' \in Seq(SinkFile)
        /\ \A j \in DOMAIN sinkFiles' : \E k \in DOMAIN sinkFiles : sinkFiles'[j] = sinkFiles[k]
    BY <1>1, FilesWithout DEF TransferInv
  <2>2. QED
    BY <1>1, <2>1 DEF TransferInv, PartsKnown, SentOnly, PartsSent
<1>5. \/ listFuture' = listFuture
      \/ /\ deletion.waiter \in Request
         /\ listFuture' = [NewListFuture EXCEPT !.callbacks = <<Early(deletion.waiter)>>]
  BY DEF AnswerDelete, TransferInv, TransferTypeOK
<1>6. /\ listFuture' \in [done : BOOLEAN, list : List, callbacks : Seq(Callback)]
      /\ listFuture'.list \in {listFuture.list, NoList}
      /\ EarlyOnce(listFuture'.callbacks)
      /\ \/ EarlyRequests(listFuture'.callbacks) = EarlyRequests(listFuture.callbacks)
         \/ EarlyRequests(listFuture'.callbacks) = {deletion.waiter}
  <2>1. CASE listFuture' = listFuture
    BY <2>1 DEF TransferInv, TransferTypeOK, WaitsOnce
  <2>2. CASE /\ deletion.waiter \in Request
             /\ listFuture' = [NewListFuture EXCEPT !.callbacks = <<Early(deletion.waiter)>>]
    <3> DEFINE q == <<Early(deletion.waiter)>>
    <3>1. /\ listFuture'.list = NoList /\ listFuture'.callbacks = q
          /\ listFuture'.done = FALSE
          /\ listFuture' = [done |-> FALSE, list |-> NoList, callbacks |-> q]
      BY <2>2 DEF NewListFuture
    <3>2. Early(deletion.waiter) \in Callback
      BY <2>2, EmptyTypes
    <3>3. q \in Seq(Callback)
      BY <3>2
    <3>4. EarlyOnce(q) /\ EarlyRequests(q) = {deletion.waiter}
      BY DEF EarlyOnce, EarlyRequests, Early
    <3>5. QED
      BY <3>1, <3>3, <3>4, EmptyTypes
  <2>3. QED
    BY <1>5, <2>1, <2>2
<1>7. NetworkTypeOK' /\ TransferTypeOK'
  BY <1>1, <1>2, <1>4, <1>6
     DEF TransferInv, NetworkTypeOK, TransferTypeOK, networkVars
<1>8. SenderOK'
  BY <1>1 DEF TransferInv, SenderOK, networkVars
<1>9. WaitsOnce'
  <2>1. ASSUME NEW s \in Request, Waits(s)' PROVE Waits(s)
    <3>1. s # NoFile
      BY NetworkAssumption DEF Request, NoFile
    <3>2. QED
      BY <1>1, <1>6, <2>1, <3>1 DEF Waits
  <2>2. /\ NoFile \notin EarlyRequests(listFuture'.callbacks)
        /\ NoFile \notin EarlyRequests(firing'.callbacks)
    <3>1. NoFile \notin Request
      BY NetworkAssumption DEF Request, NoFile
    <3>2. ASSUME NEW q \in Seq(Callback) PROVE EarlyRequests(q) \subseteq Request
      <4>1. \A i \in DOMAIN q : q[i] \in Callback
        BY <3>2
      <4>2. QED
        BY <4>1 DEF EarlyRequests, Callback
    <3>3. listFuture'.callbacks \in Seq(Callback) /\ firing'.callbacks \in Seq(Callback)
      BY <1>7 DEF TransferTypeOK
    <3>4. QED
      BY <3>1, <3>2, <3>3
  <2>3. EarlyRequests(listFuture'.callbacks) \cap EarlyRequests(firing'.callbacks) = {}
    BY <1>1, <1>6 DEF TransferInv, WaitsOnce
  <2>4. QED
    BY <1>1, <1>6, <2>1, <2>2, <2>3 DEF TransferInv, WaitsOnce, networkVars
<1>10. PartsKnown'
  <2>1. \A i \in DOMAIN toSink : toSink[i].kind = "part" => toSink[i].name \in Request
    BY MessageInQueue, MessageTypes DEF TransferInv
  <2>2. QED
    BY <1>1, <1>2, <1>3, <1>4, <1>6, <2>1, PartsStayKnown DEF TransferInv
<1>11. QED
  BY <1>1, <1>3, <1>7, <1>8, <1>9, <1>10 DEF StepOK, TransferInv, networkVars

(* The part the sink stores has been sent, whoever takes its acknowledgement. *)
LEMMA AnswerPartStep ==
    ASSUME TransferInv, AnswerPart
    PROVE  StepOK
<1> DEFINE m == Head(toSink)
<1>1. /\ toSink # <<>> /\ m.kind = "part" /\ toSink' = Tail(toSink)
      /\ sinkFiles' = Stored(sinkFiles, m.name, m.part)
      /\ acks' = IF Last(acks) = NoAck THEN [acks EXCEPT ![Len(acks)] = m.part] ELSE acks
      /\ UNCHANGED <<networkVars, listFuture, deletion, firing, sender, rejected>>
  BY DEF AnswerPart, Answering
<1>2. /\ toSink' \in Seq(Message) /\ OldParts(toSink', toSink)
      /\ m \in Message /\ m = toSink[1] /\ 1 \in DOMAIN toSink
  BY <1>1, QueueAnswered DEF TransferInv
<1>3. /\ m.name \in Request /\ m.part \in 1..Parts[m.name] /\ m.part \in Nat
      /\ m.part \in 1..PartsSent(m.name)
  BY <1>1, <1>2, MessageTypes, TransferAssumption DEF TransferInv, PartsKnown
<1> HIDE DEF m
<1>4. Grown
  BY <1>1, SameSender
<1>5. sinkFiles' \in Seq(SinkFile) /\ SentOnly(sinkFiles)'
  <2>1. sinkFiles' \in Seq(SinkFile)
    BY <1>1, <1>3, FilesStored DEF TransferInv
  <2>2. ASSUME NEW j \in DOMAIN sinkFiles', sinkFiles'[j].name \in Request
        PROVE  sinkFiles'[j].parts \subseteq 1..PartsSent(sinkFiles'[j].name)
    <3>1. CASE \E k \in DOMAIN sinkFiles :
                 /\ sinkFiles'[j].name = sinkFiles[k].name
                 /\ sinkFiles'[j].parts \subseteq sinkFiles[k].parts
                      \cup (IF sinkFiles'[j].name = m.name THEN {m.part} ELSE {})
      BY <1>3, <2>2, <3>1 DEF TransferInv, PartsKnown, SentOnly
    <3>2. CASE sinkFiles'[j].name = m.name /\ sinkFiles'[j].parts = {m.part}
      BY <1>3, <3>2
    <3>3. QED
      BY <1>1, <1>3, <3>1, <3>2, FilesStored DEF TransferInv
  <2>3. SentOnly(sinkFiles)'
    BY <1>1, <2>2 DEF SentOnly, PartsSent
  <2>4. QED
    BY <2>1, <2>3
<1>6. acks' \in Seq(Nat) /\ acks' # <<>> /\ DOMAIN acks' = DOMAIN acks
  <2>1. acks \in Seq(Nat) /\ acks # <<>>
    BY DEF TransferInv, TransferTypeOK, SenderOK
  <2>2. Len(acks) \in DOMAIN acks
    BY <2>1
  <2>3. CASE acks' = acks
    BY <2>1, <2>3
  <2>4. CASE acks' = [acks EXCEPT ![Len(acks)] = m.part]
    <3>1. acks' \in Seq(Nat) /\ DOMAIN acks' = DOMAIN acks
      BY <1>3, <2>1, <2>2, <2>4, ExceptSeq
    <3>2. acks' # <<>>
      BY <2>2, <3>1
    <3>3. QED
      BY <3>1, <3>2
  <2>5. QED
    BY <1>1, <2>3, <2>4
<1>7. NetworkTypeOK' /\ TransferTypeOK'
  BY <1>1, <1>2, <1>5, <1>6
     DEF TransferInv, NetworkTypeOK, TransferTypeOK, networkVars
<1>8. SenderOK' /\ WaitsOnce'
  BY <1>1, <1>6 DEF TransferInv, SenderOK, WaitsOnce, Waits, networkVars
<1>9. PartsKnown'
  <2>1. \A i \in DOMAIN toSink : toSink[i].kind = "part" => toSink[i].name \in Request
    BY MessageInQueue, MessageTypes DEF TransferInv
  <2>2. QED
    BY <1>1, <1>2, <1>4, <1>5, <2>1, PartsStayKnown DEF TransferInv
<1>10. QED
  BY <1>1, <1>4, <1>7, <1>8, <1>9 DEF StepOK, TransferInv, networkVars
------------------------------------------------------------------------------
(* The task of a request.                                                    *)

(* A step of the task that keeps the number of its part, or takes up the     *)
(* next one, leaves the task as SenderOK says.                               *)
LEMMA TaskStep ==
    ASSUME TransferInv, NEW r \in Request, NEW at \in SenderState, NEW part, NEW future \in Nat,
           sender' = [sender EXCEPT ![r] = [at |-> at, part |-> part, future |-> future]],
           sender[r].at # "none", at # "none",
           at \in {"sending", "crashed"} => part \in 1..(Parts[r] + 1),
           at \notin {"sending", "crashed"} => part \in 1..Parts[r],
           at = "waiting" => future \in DOMAIN acks',
           acks' \in Seq(Nat), acks' # <<>>, DOMAIN acks \subseteq DOMAIN acks',
           lastRequest' = lastRequest,
           \/ part = sender[r].part /\ at # "sending"
           \/ part = sender[r].part + 1 /\ sender[r].at # "sending" /\ at = "sending"
    PROVE  /\ sender' \in [Request -> [at : SenderState, part : Nat, future : Nat]]
           /\ SenderOK' /\ Grown
           /\ \A s \in Request : sender'[s].at = "none" <=> sender[s].at = "none"
<1>1. /\ sender \in [Request -> [at : SenderState, part : Nat, future : Nat]]
      /\ Parts[r] \in Nat
  BY TransferAssumption DEF TransferInv, TransferTypeOK
<1>2. part \in Nat
  BY <1>1
<1>3. /\ sender' \in [Request -> [at : SenderState, part : Nat, future : Nat]]
      /\ sender'[r] = [at |-> at, part |-> part, future |-> future]
      /\ \A s \in Request \ {r} : sender'[s] = sender[s]
  BY <1>1, <1>2
<1>4. sender'[r].at = at /\ sender'[r].part = part /\ sender'[r].future = future
  BY <1>3
<1>5. SenderOK'
  BY <1>3, <1>4 DEF TransferInv, SenderOK
<1>6. Grown
  BY <1>3, <1>4, SenderContinues
<1>7. QED
  BY <1>3, <1>4, <1>5, <1>6

LEMMA TaskPart ==
    ASSUME NEW t \in [at : SenderState, part : Nat, future : Nat], NEW state, NEW n
    PROVE  [[t EXCEPT !.at = state] EXCEPT !.part = n] =
             [at |-> state, part |-> n, future |-> t.future]
<1> DEFINE u == [at |-> state, part |-> t.part, future |-> t.future]
<1>1. [t EXCEPT !.at = state] = u
  OBVIOUS
<1>2. [u EXCEPT !.part = n] = [at |-> state, part |-> n, future |-> t.future]
  OBVIOUS
<1> HIDE DEF u
<1>3. QED
  BY <1>1, <1>2

LEMMA TaskFuture ==
    ASSUME NEW t \in [at : SenderState, part : Nat, future : Nat], NEW state, NEW n
    PROVE  [[t EXCEPT !.at = state] EXCEPT !.future = n] =
             [at |-> state, part |-> t.part, future |-> n]
<1> DEFINE u == [at |-> state, part |-> t.part, future |-> t.future]
<1>1. [t EXCEPT !.at = state] = u
  OBVIOUS
<1>2. [u EXCEPT !.future = n] = [at |-> state, part |-> t.part, future |-> n]
  OBVIOUS
<1> HIDE DEF u
<1>3. QED
  BY <1>1, <1>2

LEMMA SenderAt ==
    ASSUME TransferTypeOK, NEW r \in Request, NEW state, Sender(r, state)
    PROVE  sender' = [sender EXCEPT ![r] = [at |-> state, part |-> sender[r].part,
                                            future |-> sender[r].future]]
<1>1. sender[r] \in [at : SenderState, part : Nat, future : Nat]
  BY DEF TransferTypeOK
<1>2. [sender[r] EXCEPT !.at = state] =
        [at |-> state, part |-> sender[r].part, future |-> sender[r].future]
  BY <1>1
<1>3. sender' = [sender EXCEPT ![r] = [sender[r] EXCEPT !.at = state]]
  BY DEF Sender
<1>4. QED
  BY <1>2, <1>3

(* What the task leaves alone, and the little it does to the list future,    *)
(* keeps the rest; parts it sends are parts sent.                            *)
LEMMA TaskFrame ==
    ASSUME TransferInv, NetworkTypeOK', SenderOK', Grown, lastRequest' = lastRequest,
           sender' \in [Request -> [at : SenderState, part : Nat, future : Nat]],
           \A s \in Request : sender'[s].at = "none" <=> sender[s].at = "none",
           UNCHANGED <<deletion, firing, sinkFiles, rejected>>,
           acks' \in Seq(Nat), toSink' \in Seq(Message),
           listFuture' \in [done : BOOLEAN, list : List, callbacks : Seq(Callback)],
           listFuture'.list \in {listFuture.list, NoList},
           EarlyOnce(listFuture'.callbacks),
           EarlyRequests(listFuture'.callbacks) \subseteq EarlyRequests(listFuture.callbacks),
           NEW old \in Seq(Message),
           OldParts(old, toSink),
           \A i \in DOMAIN toSink' :
               \/ i \in DOMAIN old /\ toSink'[i] = old[i]
               \/ toSink'[i].kind = "part" =>
                    (toSink[i].part \in 1..PartsSent(toSink[i].name))'
    PROVE  TransferInv'
<1>1. TransferTypeOK'
  BY DEF TransferInv, TransferTypeOK
<1>2. WaitsOnce'
  <2>1. ASSUME NEW s \in Request, Waits(s)' PROVE Waits(s)
    BY <2>1 DEF Waits
  <2>2. QED
    BY <2>1 DEF TransferInv, WaitsOnce
<1>3. PartsKnown'
  <2>1. \A S : \A r \in Request : S \subseteq 1..PartsSent(r) => S \subseteq (1..PartsSent(r))'
    BY DEF Grown
  <2>2. SentOnly(sinkFiles)' /\ SentOnly(firing.list.files)'
    BY <2>1 DEF TransferInv, PartsKnown, SentOnly
  <2>3. SentOnly(listFuture.list.files)'
    BY <2>1 DEF TransferInv, PartsKnown, SentOnly, NoList
  <2>4. ASSUME NEW i \in DOMAIN toSink', toSink'[i].kind = "part"
        PROVE  (toSink[i].part \in 1..PartsSent(toSink[i].name))'
    <3>1. CASE i \in DOMAIN old /\ toSink'[i] = old[i]
      <4>1. PICK j \in DOMAIN toSink : toSink'[i] = toSink[j]
        BY <2>4, <3>1 DEF OldParts
      <4>2. toSink[j].name \in Request
        BY <2>4, <4>1, MessageInQueue, MessageTypes DEF TransferInv
      <4>3. PICK r \in Request : r = toSink[j].name
        BY <4>2
      <4>4. toSink[j].part \in 1..PartsSent(r)
        BY <2>4, <4>1, <4>3 DEF TransferInv, PartsKnown
      <4>5. toSink[j].part \in (1..PartsSent(r))'
        BY <4>4 DEF Grown
      <4>6. toSink'[i].name = r /\ toSink'[i].part = toSink[j].part
        BY <4>1, <4>3
      <4>7. QED
        BY <4>5, <4>6 DEF PartsSent
    <3>2. CASE (toSink[i].part \in 1..PartsSent(toSink[i].name))'
      BY <3>2
    <3>3. QED
      BY <2>4, <3>1, <3>2
  <2>5. QED
    BY <2>2, <2>3, <2>4 DEF PartsKnown
<1>4. QED
  BY <1>1, <1>2, <1>3 DEF TransferInv


(* A step of the task that sends nothing and leaves the lists alone. *)
LEMMA QuietStep ==
    ASSUME TransferInv, SenderOK', Grown,
           sender' \in [Request -> [at : SenderState, part : Nat, future : Nat]],
           \A s \in Request : sender'[s].at = "none" <=> sender[s].at = "none",
           UNCHANGED <<networkVars, deletion, firing, sinkVars, rejected>>,
           acks' \in Seq(Nat), listFuture' \in {listFuture, NewListFuture}
    PROVE  StepOK
<1>1. /\ listFuture' \in [done : BOOLEAN, list : List, callbacks : Seq(Callback)]
      /\ listFuture'.list \in {listFuture.list, NoList}
      /\ EarlyOnce(listFuture'.callbacks)
      /\ EarlyRequests(listFuture'.callbacks) \subseteq EarlyRequests(listFuture.callbacks)
  BY EmptyTypes, EarlyOfEmpty DEF TransferInv, TransferTypeOK, WaitsOnce
<1>2. toSink' = toSink /\ toSink \in Seq(Message) /\ OldParts(toSink, toSink)
  BY QueueKept DEF TransferInv, TransferTypeOK, sinkVars
<1>3. NetworkTypeOK' /\ lastRequest' = lastRequest /\ starts' = starts
  BY DEF TransferInv, NetworkTypeOK, networkVars
<1>4. sinkFiles' = sinkFiles
  BY DEF sinkVars
<1>5. TransferInv'
  BY <1>1, <1>2, <1>3, <1>4, TaskFrame
<1>6. QED
  BY <1>3, <1>5 DEF StepOK

LEMMA AcksTypes ==
    ASSUME TransferInv
    PROVE  /\ acks \in Seq(Nat) /\ acks # <<>> /\ Len(acks) \in DOMAIN acks
           /\ Append(acks, NoAck) \in Seq(Nat) /\ Append(acks, NoAck) # <<>>
           /\ DOMAIN acks \subseteq DOMAIN Append(acks, NoAck)
<1>1. acks \in Seq(Nat) /\ acks # <<>> /\ NoAck \in Nat
  BY DEF TransferInv, TransferTypeOK, SenderOK, NoAck
<1>2. /\ Len(acks) \in Nat /\ DOMAIN acks = 1..Len(acks) /\ Len(acks) # 0
  BY <1>1, EmptySeq, LenProperties
<1>3. /\ Append(acks, NoAck) \in Seq(Nat)
      /\ DOMAIN Append(acks, NoAck) = 1..(Len(acks) + 1)
  BY <1>1, <1>2, AppendProperties, LenProperties
<1>4. Append(acks, NoAck) # <<>>
  BY <1>1, AppendProperties
<1>5. QED
  BY <1>1, <1>2, <1>3, <1>4

(* Where the task is says which part it is at. *)
LEMMA TaskTypes ==
    ASSUME TransferInv, NEW r \in Request, sender[r].at # "none"
    PROVE  /\ sender[r].part \in 1..(Parts[r] + 1) /\ sender[r].future \in Nat
           /\ sender[r].at \notin {"sending", "crashed"} => sender[r].part \in 1..Parts[r]
           /\ 1..Parts[r] \subseteq 1..(Parts[r] + 1) /\ Parts[r] \in Nat
<1>1. Parts[r] \in Nat
  BY TransferAssumption
<1>2. sender[r] \in [at : SenderState, part : Nat, future : Nat]
  BY DEF TransferInv, TransferTypeOK
<1>3. QED
  BY <1>1, <1>2 DEF TransferInv, SenderOK

LEMMA SendPartStep ==
    ASSUME TransferInv, NEW r \in Request, SendPart(r)
    PROVE  StepOK
<1>1. /\ sender[r].at = "sending"
      /\ UNCHANGED <<networkVars, sinkFiles, listFuture, deletion, acks, firing, rejected>>
  BY DEF SendPart
<1>2. /\ sender[r].part \in 1..(Parts[r] + 1) /\ sender[r].future \in Nat /\ Parts[r] \in Nat
  BY <1>1, TaskTypes
<1>3. acks' \in Seq(Nat) /\ acks' # <<>> /\ DOMAIN acks \subseteq DOMAIN acks'
  BY <1>1, AcksTypes
<1>4. NetworkTypeOK' /\ lastRequest' = lastRequest /\ starts' = starts
  BY <1>1 DEF TransferInv, NetworkTypeOK, networkVars
<1>5. toSink \in Seq(Message) /\ OldParts(toSink, toSink)
  BY QueueKept DEF TransferInv, TransferTypeOK
<1>6. CASE sender[r].part <= Parts[r]
  <2> DEFINE m == Upload(r, sender[r].part)
  <2>1. sender[r].part \in 1..Parts[r]
    BY <1>2, <1>6
  <2>2. sender' = [sender EXCEPT ![r] = [at |-> "sent", part |-> sender[r].part,
                                         future |-> sender[r].future]]
    BY <1>6, SenderAt DEF SendPart, TransferInv
  <2>3. /\ sender' \in [Request -> [at : SenderState, part : Nat, future : Nat]]
        /\ SenderOK' /\ Grown
        /\ \A s \in Request : sender'[s].at = "none" <=> sender[s].at = "none"
    BY <1>1, <1>2, <1>3, <1>4, <2>1, <2>2, TaskStep DEF SenderState
  <2>4. m \in Message /\ m.name = r /\ m.part = sender[r].part
    BY <2>1, MessageTypes DEF Upload
  <2>5. toSink' = Append(toSink, m)
    BY <1>6 DEF SendPart
  <2> HIDE DEF m
  <2>6. /\ toSink' \in Seq(Message)
        /\ \A i \in DOMAIN toSink' :
             (i \in DOMAIN toSink /\ toSink'[i] = toSink[i]) \/ toSink'[i] = m
    BY <1>5, <2>4, <2>5, AppendProperties, LenProperties
  <2>7. (PartsSent(r) = sender[r].part)'
    <3>1. sender'[r].at = "sent" /\ sender'[r].part = sender[r].part
      BY <2>2 DEF TransferInv, TransferTypeOK
    <3>2. QED
      BY <2>1, <3>1, <1>2 DEF PartsSent
  <2>8. ASSUME NEW i \in DOMAIN toSink', toSink'[i] = m
        PROVE  (toSink[i].part \in 1..PartsSent(toSink[i].name))'
    <3>1. toSink'[i].name = r /\ toSink'[i].part = sender'[r].part
      BY <2>2, <2>4, <2>8 DEF TransferInv, TransferTypeOK
    <3>2. sender'[r].part \in 1..sender'[r].part
      BY <2>1, <2>2 DEF TransferInv, TransferTypeOK
    <3>3. QED
      BY <2>7, <3>1, <3>2 DEF PartsSent
  <2>9. /\ listFuture' \in [done : BOOLEAN, list : List, callbacks : Seq(Callback)]
        /\ listFuture'.list \in {listFuture.list, NoList}
        /\ EarlyOnce(listFuture'.callbacks)
        /\ EarlyRequests(listFuture'.callbacks) \subseteq EarlyRequests(listFuture.callbacks)
    BY <1>1 DEF TransferInv, TransferTypeOK, WaitsOnce
  <2>10. TransferInv'
    BY <1>1, <1>3, <1>4, <1>5, <2>3, <2>6, <2>8, <2>9, TaskFrame
  <2>11. QED
    BY <1>4, <2>3, <2>10 DEF StepOK
<1>7. CASE ~(sender[r].part <= Parts[r])
  <2>1. sender' = [sender EXCEPT ![r] = [at |-> "crashed", part |-> sender[r].part,
                                         future |-> sender[r].future]]
        /\ toSink' = toSink
    BY <1>7, SenderAt DEF SendPart, TransferInv
  <2>2. /\ sender' \in [Request -> [at : SenderState, part : Nat, future : Nat]]
        /\ SenderOK' /\ Grown
        /\ \A s \in Request : sender'[s].at = "none" <=> sender[s].at = "none"
    BY <1>1, <1>2, <1>3, <1>4, <2>1, TaskStep DEF SenderState
  <2>3. QED
    BY <1>1, <1>3, <2>1, <2>2, QuietStep DEF sinkVars
<1>8. QED
  BY <1>6, <1>7

LEMMA AwaitAckStep ==
    ASSUME TransferInv, NEW r \in Request, AwaitAck(r)
    PROVE  StepOK
<1>1. /\ sender[r].at = "sent"
      /\ sender' = [sender EXCEPT ![r].at = "waiting", ![r].future = Len(acks)]
      /\ UNCHANGED <<networkVars, sinkVars, listFuture, deletion, acks, firing, rejected>>
  BY DEF AwaitAck
<1>2. sender' = [sender EXCEPT ![r] = [at |-> "waiting", part |-> sender[r].part,
                                       future |-> Len(acks)]]
  <2>1. sender \in [Request -> [at : SenderState, part : Nat, future : Nat]]
    BY DEF TransferInv, TransferTypeOK
  <2>2. sender[r] \in [at : SenderState, part : Nat, future : Nat]
    BY <2>1
  <2>3. sender' = [sender EXCEPT ![r] =
                     [[sender[r] EXCEPT !.at = "waiting"] EXCEPT !.future = Len(acks)]]
    BY <1>1, <2>1
  <2>4. [[sender[r] EXCEPT !.at = "waiting"] EXCEPT !.future = Len(acks)] =
          [at |-> "waiting", part |-> sender[r].part, future |-> Len(acks)]
    BY <2>2, TaskFuture
  <2>5. QED
    BY <2>3, <2>4
<1>3. acks' \in Seq(Nat) /\ acks' # <<>> /\ DOMAIN acks \subseteq DOMAIN acks'
      /\ Len(acks) \in Nat /\ Len(acks) \in DOMAIN acks'
  BY <1>1, AcksTypes
<1>4. lastRequest' = lastRequest
  BY <1>1 DEF networkVars
<1>5. /\ sender' \in [Request -> [at : SenderState, part : Nat, future : Nat]]
      /\ SenderOK' /\ Grown
      /\ \A s \in Request : sender'[s].at = "none" <=> sender[s].at = "none"
  BY <1>1, <1>2, <1>3, <1>4, TaskTypes, TaskStep DEF SenderState
<1>6. QED
  BY <1>1, <1>3, <1>5, QuietStep


LEMMA TakeAckStep ==
    ASSUME TransferInv, NEW r \in Request, TakeAck(r)
    PROVE  StepOK
<1>1. /\ sender[r].at = "waiting" /\ acks' = Append(acks, NoAck)
      /\ UNCHANGED <<networkVars, sinkVars, listFuture, deletion, firing, rejected>>
  BY DEF TakeAck
<1>2. acks' \in Seq(Nat) /\ acks' # <<>> /\ DOMAIN acks \subseteq DOMAIN acks'
  BY <1>1, AcksTypes
<1>3. /\ sender[r].part \in 1..Parts[r] /\ sender[r].future \in Nat /\ Parts[r] \in Nat
      /\ 1..Parts[r] \subseteq 1..(Parts[r] + 1)
  BY <1>1, TaskTypes
<1>4. lastRequest' = lastRequest
  BY <1>1 DEF networkVars
<1>5. PICK at \in {"crashed", "verifying", "sending"} :
        sender' = [sender EXCEPT ![r] =
                     [at |-> at,
                      part |-> IF at = "sending" THEN sender[r].part + 1 ELSE sender[r].part,
                      future |-> sender[r].future]]
  <2>1. CASE Sender(r, "crashed")
    BY <2>1, SenderAt DEF TransferInv
  <2>2. CASE Sender(r, "verifying")
    BY <2>2, SenderAt DEF TransferInv
  <2>3. CASE sender' = [sender EXCEPT ![r].at = "sending", ![r].part = @ + 1]
    <3>1. sender \in [Request -> [at : SenderState, part : Nat, future : Nat]]
      BY DEF TransferInv, TransferTypeOK
    <3>2. sender[r] \in [at : SenderState, part : Nat, future : Nat]
      BY <3>1
    <3> DEFINE next == sender[r].part + 1
    <3>3. sender' = [sender EXCEPT ![r] =
                       [[sender[r] EXCEPT !.at = "sending"] EXCEPT !.part = next]]
      BY <2>3, <3>1
    <3> HIDE DEF next
    <3>4. [[sender[r] EXCEPT !.at = "sending"] EXCEPT !.part = next] =
            [at |-> "sending", part |-> next, future |-> sender[r].future]
      BY <3>2, TaskPart
    <3>5. QED
      BY <3>3, <3>4 DEF next
  <2>4. QED
    BY <2>1, <2>2, <2>3 DEF TakeAck
<1>6. /\ sender' \in [Request -> [at : SenderState, part : Nat, future : Nat]]
      /\ SenderOK' /\ Grown
      /\ \A s \in Request : sender'[s].at = "none" <=> sender[s].at = "none"
  <2>1. CASE at = "sending"
    <3>1. sender[r].part + 1 \in 1..(Parts[r] + 1)
      BY <1>3
    <3>2. QED
      BY <1>1, <1>2, <1>3, <1>4, <1>5, <2>1, <3>1, TaskStep DEF SenderState
  <2>2. CASE at # "sending"
    BY <1>1, <1>2, <1>3, <1>4, <1>5, <2>2, TaskStep DEF SenderState
  <2>3. QED
    BY <2>1, <2>2
<1>7. QED
  BY <1>1, <1>2, <1>6, QuietStep

LEMMA AckTimesOutStep ==
    ASSUME TransferInv, NEW r \in Request, AckTimesOut(r)
    PROVE  StepOK
<1>1. /\ sender[r].at = "waiting" /\ Sender(r, "timed out")
      /\ UNCHANGED <<networkVars, sinkVars, listFuture, deletion, acks, firing, rejected>>
  BY DEF AckTimesOut
<1>2. acks' \in Seq(Nat) /\ acks' # <<>> /\ DOMAIN acks \subseteq DOMAIN acks'
  BY <1>1, AcksTypes
<1>3. lastRequest' = lastRequest
  BY <1>1 DEF networkVars
<1>4. sender' = [sender EXCEPT ![r] = [at |-> "timed out", part |-> sender[r].part,
                                       future |-> sender[r].future]]
  BY <1>1, SenderAt DEF TransferInv
<1>5. /\ sender' \in [Request -> [at : SenderState, part : Nat, future : Nat]]
      /\ SenderOK' /\ Grown
      /\ \A s \in Request : sender'[s].at = "none" <=> sender[s].at = "none"
  BY <1>1, <1>2, <1>3, <1>4, TaskTypes, TaskStep DEF SenderState
<1>6. QED
  BY <1>1, <1>2, <1>5, QuietStep

LEMMA RenewListFutureStep ==
    ASSUME TransferInv, NEW r \in Request, RenewListFuture(r)
    PROVE  StepOK
<1>1. /\ sender[r].at = "verifying" /\ Sender(r, "registering")
      /\ listFuture' = NewListFuture
      /\ UNCHANGED <<networkVars, sinkVars, deletion, acks, firing, rejected>>
  BY DEF RenewListFuture
<1>2. acks' \in Seq(Nat) /\ acks' # <<>> /\ DOMAIN acks \subseteq DOMAIN acks'
  BY <1>1, AcksTypes
<1>3. lastRequest' = lastRequest
  BY <1>1 DEF networkVars
<1>4. sender' = [sender EXCEPT ![r] = [at |-> "registering", part |-> sender[r].part,
                                       future |-> sender[r].future]]
  BY <1>1, SenderAt DEF TransferInv
<1>5. /\ sender' \in [Request -> [at : SenderState, part : Nat, future : Nat]]
      /\ SenderOK' /\ Grown
      /\ \A s \in Request : sender'[s].at = "none" <=> sender[s].at = "none"
  BY <1>1, <1>2, <1>3, <1>4, TaskTypes, TaskStep DEF SenderState
<1>6. QED
  BY <1>1, <1>2, <1>5, QuietStep

(* The last step of the task, whether it registers the late stage or runs it. *)
LEMMA FinalListAwaited ==
    ASSUME TransferInv, NEW r \in Request, AwaitFinalList(r)
    PROVE  /\ sender[r].at = "registering" /\ Sender(r, "done")
           /\ UNCHANGED <<sinkFiles, acks, firing, rejected>>
           /\ NetworkTypeOK' /\ UNCHANGED <<lastRequest, file, deletion>>
           /\ toSink' = Append(toSink, AskList)
           /\ \A s \in starts' \ starts : Sent(s)
           /\ listFuture' \in [done : BOOLEAN, list : List, callbacks : Seq(Callback)]
           /\ listFuture'.list \in {listFuture.list, NoList}
           /\ EarlyOnce(listFuture'.callbacks)
           /\ EarlyRequests(listFuture'.callbacks) \subseteq EarlyRequests(listFuture.callbacks)
           /\ listFuture'.done => listFuture.done /\ listFuture'.list = listFuture.list
<1> DEFINE sent == Append(toSink, AskList)
<1>1. /\ sender[r].at = "registering" /\ Sender(r, "done")
      /\ UNCHANGED <<sinkFiles, acks, firing, rejected>>
  BY DEF AwaitFinalList
<1>2. /\ NetworkTypeOK' /\ UNCHANGED <<lastRequest, file, deletion>> /\ toSink' = sent
      /\ \A s \in starts' \ starts : Sent(s)
      /\ listFuture' \in {listFuture, NewListFuture,
                          [listFuture EXCEPT !.callbacks = Append(@, Late(r))]}
  <2>1. CASE listFuture.done
    <3>1. LateStage(listFuture.list, sent)
      BY <2>1 DEF AwaitFinalList
    <3>2. listFuture.list \in List /\ SentOnly(listFuture.list.files)
      BY DEF TransferInv, TransferTypeOK, PartsKnown
    <3> HIDE DEF sent
    <3>3. QED
      BY <3>1, <3>2, LateStageStep
  <2>2. CASE ~listFuture.done
    <3>1. /\ UNCHANGED <<networkVars, deletion>> /\ toSink' = sent
          /\ listFuture' = [listFuture EXCEPT !.callbacks = Append(@, Late(r))]
      BY <2>2 DEF AwaitFinalList
    <3>2. NetworkTypeOK' /\ UNCHANGED <<lastRequest, file, starts>>
      BY <3>1 DEF TransferInv, NetworkTypeOK, networkVars
    <3>3. QED
      BY <3>1, <3>2
  <2>3. QED
    BY <2>1, <2>2
<1>3. /\ listFuture' \in [done : BOOLEAN, list : List, callbacks : Seq(Callback)]
      /\ listFuture'.list \in {listFuture.list, NoList}
      /\ EarlyOnce(listFuture'.callbacks)
      /\ EarlyRequests(listFuture'.callbacks) \subseteq EarlyRequests(listFuture.callbacks)
      /\ listFuture'.done => listFuture.done /\ listFuture'.list = listFuture.list
  <2>1. /\ listFuture \in [done : BOOLEAN, list : List, callbacks : Seq(Callback)]
        /\ listFuture.callbacks \in Seq(Callback) /\ EarlyOnce(listFuture.callbacks)
    BY DEF TransferInv, TransferTypeOK, WaitsOnce
  <2>2. Late(r) \in Callback /\ Late(r).late
    BY EmptyTypes DEF Late
  <2> DEFINE q == Append(listFuture.callbacks, Late(r))
  <2>3. /\ q \in Seq(Callback) /\ EarlyOnce(q)
        /\ EarlyRequests(q) = EarlyRequests(listFuture.callbacks)
    BY <2>1, <2>2, EarlyOfAppend
  <2>4. CASE listFuture' = [listFuture EXCEPT !.callbacks = Append(@, Late(r))]
    <3>1. listFuture' = [listFuture EXCEPT !.callbacks = q]
      BY <2>4
    <3> HIDE DEF q
    <3>2. /\ listFuture'.callbacks = q /\ listFuture'.list = listFuture.list
          /\ listFuture'.done = listFuture.done
          /\ listFuture' \in [done : BOOLEAN, list : List, callbacks : Seq(Callback)]
      BY <2>1, <2>3, <3>1
    <3>3. QED
      BY <2>3, <3>2
  <2>5. CASE listFuture' \in {listFuture, NewListFuture}
    BY <2>1, <2>5, EmptyTypes, EarlyOfEmpty DEF NewListFuture
  <2>6. QED
    BY <1>2, <2>4, <2>5
<1>4. QED
  BY <1>1, <1>2, <1>3

LEMMA AwaitFinalListStep ==
    ASSUME TransferInv, NEW r \in Request, AwaitFinalList(r)
    PROVE  StepOK
<1> DEFINE sent == Append(toSink, AskList)
<1>1. /\ sender[r].at = "registering" /\ Sender(r, "done")
      /\ UNCHANGED <<sinkFiles, acks, firing, rejected>>
  BY FinalListAwaited
<1>2. acks' \in Seq(Nat) /\ acks' # <<>> /\ DOMAIN acks \subseteq DOMAIN acks'
  BY <1>1, AcksTypes
<1>3. /\ NetworkTypeOK' /\ UNCHANGED <<lastRequest, deletion>> /\ toSink' = sent
      /\ \A s \in starts' \ starts : Sent(s)
  BY FinalListAwaited
<1>4. /\ listFuture' \in [done : BOOLEAN, list : List, callbacks : Seq(Callback)]
      /\ listFuture'.list \in {listFuture.list, NoList}
      /\ EarlyOnce(listFuture'.callbacks)
      /\ EarlyRequests(listFuture'.callbacks) \subseteq EarlyRequests(listFuture.callbacks)
  BY FinalListAwaited
<1>5. sender' = [sender EXCEPT ![r] = [at |-> "done", part |-> sender[r].part,
                                       future |-> sender[r].future]]
  BY <1>1, SenderAt DEF TransferInv
<1>6. /\ sender' \in [Request -> [at : SenderState, part : Nat, future : Nat]]
      /\ SenderOK' /\ Grown
      /\ \A s \in Request : sender'[s].at = "none" <=> sender[s].at = "none"
  BY <1>1, <1>2, <1>3, <1>5, TaskTypes, TaskStep DEF SenderState
<1>7. sent \in Seq(Message) /\ OldParts(sent, toSink)
  <2>1. AskList \in Message /\ AskList.kind # "part"
    BY MessageTypes DEF AskList
  <2>2. QED
    BY <2>1, QueueKept, QueueGrows DEF TransferInv, TransferTypeOK
<1> HIDE DEF sent
<1>8. TransferInv'
  BY <1>1, <1>2, <1>3, <1>4, <1>6, <1>7, TaskFrame
<1>9. QED
  BY <1>3, <1>6, <1>8 DEF StepOK

------------------------------------------------------------------------------
(* The handlers and the tasks together keep TransferInv, forget no part that *)
(* was sent and start devices only with a file that has been sent.           *)
LEMMA TransferKeeps ==
    ASSUME TransferInv, TransferNext
    PROVE  StepOK
<1>1. CASE Handle
  BY <1>1, AnswerListStep, FireCallbackStep, AnswerDeleteStep, AnswerPartStep DEF Handle
<1>2. CASE RejectFile
  BY <1>2, RejectFileStep
<1>3. ASSUME NEW r \in Request, UpdateFirmware(r) PROVE StepOK
  BY <1>3, UpdateFirmwareStep
<1>4. ASSUME NEW r \in Request, RunSender(r) PROVE StepOK
  BY <1>4, SendPartStep, AwaitAckStep, TakeAckStep, AckTimesOutStep,
     RenewListFutureStep, AwaitFinalListStep DEF RunSender
<1>5. QED
  BY <1>1, <1>2, <1>3, <1>4 DEF TransferNext

LEMMA TransferInvInit == NetworkInit /\ TransferInit => TransferInv
<1> SUFFICES ASSUME NetworkInit, TransferInit PROVE TransferInv
  OBVIOUS
<1>1. NetworkTypeOK
  BY NetworkAssumption DEF NetworkInit, NetworkTypeOK, Status, Partition
<1>2. sinkFiles \in Seq(SinkFile) /\ \A i \in DOMAIN sinkFiles : sinkFiles[i].name \notin Request
  <2>1. OldFiles \in Nat /\ MaxRequest \in Nat
    BY TransferAssumption, NetworkAssumption
  <2>2. \A i \in 1..OldFiles : MaxRequest + i \in FileNames /\ MaxRequest + i \notin Request
    BY <2>1 DEF FileNames, Request
  <2>3. /\ DOMAIN sinkFiles = 1..OldFiles
        /\ \A i \in 1..OldFiles :
             sinkFiles[i] = [name |-> MaxRequest + i, size |-> 1, parts |-> {1}]
    BY DEF TransferInit
  <2>4. \A i \in 1..OldFiles : sinkFiles[i] \in SinkFile /\ sinkFiles[i].name \notin Request
    BY <2>2, <2>3 DEF SinkFile
  <2>5. sinkFiles \in [1..OldFiles -> SinkFile]
    BY <2>3, <2>4 DEF TransferInit
  <2>6. QED
    BY <2>1, <2>3, <2>4, <2>5
<1>3. TransferTypeOK
  <2>1. toSink \in Seq(Message) /\ acks \in Seq(Nat)
    BY DEF TransferInit, NoAck
  <2>2. sender \in [Request -> [at : SenderState, part : Nat, future : Nat]]
    BY DEF TransferInit, SenderState
  <2>3. QED
    BY <1>2, <2>1, <2>2, EmptyTypes, TransferAssumption DEF TransferInit, TransferTypeOK
<1>4. SenderOK
  BY DEF TransferInit, SenderOK
<1>5. WaitsOnce
  <2>1. NoFile \notin Request
    BY NetworkAssumption DEF Request, NoFile
  <2>2. QED
    BY <2>1, EarlyOfEmpty DEF TransferInit, WaitsOnce, Waits
<1>6. PartsKnown
  BY <1>2 DEF TransferInit, PartsKnown, SentOnly, NewListFuture, NotFiring, NoList
<1>7. QED
  BY <1>1, <1>3, <1>4, <1>5, <1>6 DEF TransferInv

==============================================================================
