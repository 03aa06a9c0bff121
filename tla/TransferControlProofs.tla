------------------------- MODULE TransferControlProofs -------------------------
(***************************************************************************)
(* TransferControl for any requests, devices, files and room on the sink,  *)
(* overlapping requests and late acknowledgements included.                *)
(* What holds of requests one at a time only comes second.                 *)
(***************************************************************************)
EXTENDS TransferControl, FileTransferProofs

(* A step forgets no part that was sent, so that what was true of a command  *)
(* when it was given stays true.                                             *)
IInv == TransferInv /\ \A s \in starts : Sent(s)

LEMMA SentStays ==
    ASSUME Grown, NEW s, Sent(s)
    PROVE  Sent(s)'
<1>1. PICK r \in Request : r = s.path
  BY DEF Sent
<1>2. Parts[r] \in 1..PartsSent(r)
  BY <1>1 DEF Sent
<1>3. Parts[r] \in (1..PartsSent(r))'
  BY <1>2 DEF Grown
<1>4. QED
  BY <1>1, <1>3 DEF Sent

LEMMA InitInv == Init => IInv
<1>1. Init => TransferInv
  BY TransferInvInit DEF Init
<1>2. Init => starts = {}
  BY DEF Init, NetworkInit
<1>3. QED
  BY <1>1, <1>2 DEF IInv

LEMMA NextInv == IInv /\ [Next]_vars => IInv'
<1> SUFFICES ASSUME IInv, [Next]_vars PROVE IInv'
  OBVIOUS
<1>1. CASE Next
  <2>1. TransferNext
    BY <1>1 DEF Next, TransferNext, Accept, Refuse
  <2>2. StepOK
    BY <2>1, TransferKeeps DEF IInv
  <2>3. ASSUME NEW s \in starts' PROVE Sent(s)'
    <3>1. Sent(s)
      BY <2>2 DEF StepOK, IInv
    <3>2. QED
      BY <2>2, <3>1, SentStays DEF StepOK
  <2>4. QED
    BY <2>2, <2>3 DEF StepOK, IInv
<1>2. CASE UNCHANGED vars
  BY <1>2 DEF vars, networkVars, transferVars, IInv, TransferInv, NetworkTypeOK,
              TransferTypeOK, SenderOK, WaitsOnce, Waits, PartsKnown, SentOnly, Sent,
              PartsSent
<1>3. QED
  BY <1>1, <1>2

(* TransferInv: what the transfer's state looks like at any time, among it   *)
(* that the upload of a request begins once.                                 *)
THEOREM TransferInvariant == Spec => []TransferInv
<1>1. IInv => TransferInv
  BY DEF IInv
<1>2. QED
  BY <1>1, InitInv, NextInv, PTL DEF Spec

(* StartedFileSent: the late stage starts a device only with a file all of   *)
(* whose parts have been sent, whatever other requests are under way.        *)
THEOREM StartedInvariant == Spec => []StartedFileSent
<1>1. IInv => StartedFileSent
  <2> SUFFICES ASSUME IInv, NEW s \in starts
               PROVE  s.path # NoFile /\ PartsSent(s.path) >= Parts[s.path]
    BY DEF StartedFileSent
  <2>1. PICK r \in Request : r = s.path /\ Parts[r] \in 1..PartsSent(r)
    BY DEF IInv, Sent
  <2>2. PartsSent(r) \in Int
    BY SenderTypes DEF IInv
  <2>3. r # NoFile
    BY NetworkAssumption DEF Request, NoFile
  <2>4. QED
    BY <2>1, <2>2, <2>3
<1>2. QED
  BY <1>1, InitInv, NextInv, PTL DEF Spec

------------------------------------------------------------------------------
(* One request at a time.                                                    *)

(* Whatever is still to be done, is to be done for the last request.         *)
InTurn ==
    /\ EarlyRequests(listFuture.callbacks) \subseteq {lastRequest}
    /\ EarlyRequests(firing.callbacks) \subseteq {lastRequest}
    /\ \A r \in Request : sender[r].at \in Active => r = lastRequest

(* A list in use shows no more room than there is, and no file that is gone. *)
NotAhead(list) == list.free >= FreeSpace /\ Names(list.files) \subseteq Names(sinkFiles)

(* At most one deletion is under way. The last request waits for it, lacks   *)
(* room, and the file to go is there.                                        *)
Decided ==
    /\ AtMostOne(toSink, "delete")
    /\ \A i \in DOMAIN toSink : toSink[i].kind = "delete" =>
         /\ deletion = [done |-> FALSE, waiter |-> lastRequest]
         /\ lastRequest \in Request
         /\ FreeSpace < Parts[lastRequest]
         /\ toSink[i].name \in Names(sinkFiles)
    /\ listFuture.done => NotAhead(listFuture.list)
    /\ firing.callbacks # <<>> => NotAhead(firing.list)

(* The sink has the first n parts of the file of request r. *)
OnSink(r, n) ==
    \/ 1..n = {}
    \/ \E j \in DOMAIN sinkFiles :
         sinkFiles[j].name = r /\ 1..n \subseteq sinkFiles[j].parts

Acked == Last(acks) # NoAck
Idle == \A r \in Request : sender[r].at \notin Active

(* The parts before the one a task is at are on the sink, and it waits on the *)
(* future that the next acknowledgement completes.                           *)
TaskInStep(r) ==
    /\ file = r
    /\ sender[r].at \in {"sending", "sent", "waiting"} =>
         sender[r].part <= Parts[r] /\ OnSink(r, sender[r].part - 1)
    /\ sender[r].at = "waiting" => sender[r].future = Len(acks)
    /\ sender[r].at = "verifying" => OnSink(r, Parts[r])

(* Its part is in one place: under way, or acknowledged. *)
PartInStep(r) ==
    /\ \A i \in DOMAIN toSink : toSink[i].kind = "part" =>
         /\ sender[r].at \in {"sent", "waiting"} /\ ~Acked
         /\ toSink[i] = Upload(r, sender[r].part)
    /\ Acked => /\ sender[r].at \in {"sent", "waiting"}
                /\ Last(acks) = sender[r].part /\ OnSink(r, sender[r].part)

(* Acknowledgements belong to the part that is awaited. *)
InStep ==
    /\ AtMostOne(toSink, "part")
    /\ Idle => None(toSink, "part") /\ ~Acked
    /\ \A r \in Request : sender[r].at \in Active => TaskInStep(r) /\ PartInStep(r)

(* Room.                                                                     *)

(* Most steps leave the files alone or add to them, and ask for no deletion. *)
LEMMA DecidedFrame ==
    ASSUME TransferInv, Decided, OldDeletes(toSink', toSink), AtMostOne(toSink', "delete"),
           UNCHANGED <<lastRequest, deletion>>,
           \/ sinkFiles' = sinkFiles
           \/ /\ FreeSpace' \in Int /\ FreeSpace' <= FreeSpace
              /\ Names(sinkFiles) \subseteq Names(sinkFiles'),
           NEW list \in List, listFuture'.done => listFuture'.list = list,
           NEW other \in List, firing'.callbacks # <<>> => firing'.list = other,
           listFuture'.done => NotAhead(list), firing'.callbacks # <<>> => NotAhead(other)
    PROVE  Decided'
<1>1. /\ FreeSpace \in Int /\ FreeSpace' \in Int /\ FreeSpace' <= FreeSpace
      /\ Names(sinkFiles) \subseteq Names(sinkFiles')
  <2>1. FreeSpace \in Int
    BY FreeSpaceType DEF TransferInv
  <2>2. CASE sinkFiles' = sinkFiles
    <3>1. FreeSpace' = FreeSpace
      BY <2>2 DEF FreeSpace
    <3>2. QED
      BY <2>1, <2>2, <3>1
  <2>3. QED
    BY <2>1, <2>2
<1>2. ASSUME NEW l \in List, NotAhead(l)
      PROVE  l.free >= FreeSpace' /\ Names(l.files) \subseteq Names(sinkFiles')
  <2>1. l.free \in Int
    BY DEF List
  <2>2. QED
    BY <1>1, <1>2, <2>1 DEF NotAhead
<1>3. ASSUME NEW i \in DOMAIN toSink', toSink'[i].kind = "delete"
      PROVE  /\ deletion' = [done |-> FALSE, waiter |-> lastRequest']
             /\ lastRequest' \in Request
             /\ FreeSpace' < Parts[lastRequest']
             /\ toSink'[i].name \in Names(sinkFiles')
  <2>1. PICK j \in DOMAIN toSink : toSink'[i] = toSink[j]
    BY <1>3 DEF OldDeletes
  <2>2. /\ deletion = [done |-> FALSE, waiter |-> lastRequest] /\ lastRequest \in Request
        /\ FreeSpace < Parts[lastRequest] /\ toSink[j].name \in Names(sinkFiles)
    BY <1>3, <2>1 DEF Decided
  <2>3. Parts[lastRequest] \in Int
    BY <2>2, TransferAssumption
  <2>4. QED
    BY <1>1, <2>1, <2>2, <2>3
<1>4. listFuture'.done => NotAhead(listFuture.list)'
  BY <1>2 DEF NotAhead
<1>5. firing'.callbacks # <<>> => NotAhead(firing.list)'
  BY <1>2 DEF NotAhead
<1>6. QED
  BY <1>3, <1>4, <1>5 DEF Decided

(* The early stage asks for a deletion only when there is no other and the    *)
(* request lacks room.                                                       *)
LEMMA EarlyDecides ==
    ASSUME TransferInv, NEW r \in Request, NEW list \in List, NEW sent \in Seq(Message),
           EarlyStage(r, list, sent), None(sent, "delete"), NotAhead(list),
           lastRequest' = r, sinkFiles' = sinkFiles,
           firing'.callbacks # <<>> => firing'.list = list
    PROVE  Decided'
<1>1. FreeSpace \in Int /\ FreeSpace' = FreeSpace /\ list.free \in Int /\ Parts[r] \in Int
  BY FreeSpaceType, TransferAssumption DEF TransferInv, FreeSpace, List
<1>2. ~listFuture'.done /\ (firing'.callbacks # <<>> => NotAhead(firing.list)')
  BY <1>1 DEF EarlyStage, NewListFuture, NotAhead
<1>3. AtMostOne(sent, "delete")
  BY DEF None, AtMostOne
<1>4. CASE toSink' = sent
  BY <1>2, <1>3, <1>4 DEF Decided, None
<1>5. CASE toSink' # sent
  <2> DEFINE d == Delete(Head(list.files).name)
  <2>1. /\ list.free < Parts[r] /\ deletion' = [done |-> FALSE, waiter |-> r]
        /\ list.files # <<>> /\ toSink' = Append(sent, d)
    BY <1>1, <1>5 DEF EarlyStage, DoUpload, MakeRoom
  <2>2. /\ list.files \in Seq(SinkFile) /\ 1 \in DOMAIN list.files
        /\ Head(list.files) = list.files[1]
    BY <2>1, EmptySeq, HeadTailProperties, LenProperties DEF List
  <2>3. Head(list.files).name \in Names(sinkFiles) /\ Head(list.files).name \in FileNames
    <3>1. Head(list.files) \in SinkFile
      BY <2>2
    <3>2. QED
      BY <2>2, <3>1 DEF NotAhead, Names, SinkFile
  <2>4. d \in Message /\ d.kind = "delete" /\ d.name = Head(list.files).name
    BY <2>3, MessageTypes DEF Delete
  <2> HIDE DEF d
  <2>5. AtMostOne(toSink', "delete")
    BY <2>1, <2>4, KindsOfAppend
  <2>6. \A i \in DOMAIN toSink' : toSink'[i].kind = "delete" => toSink'[i] = d
    <3>1. \A i \in DOMAIN Append(sent, d) :
            (i \in DOMAIN sent /\ Append(sent, d)[i] = sent[i]) \/ Append(sent, d)[i] = d
      BY <2>4, AppendProperties, LenProperties
    <3>2. QED
      BY <2>1, <3>1 DEF None
  <2>7. FreeSpace' < Parts[r]
    BY <1>1, <2>1 DEF NotAhead
  <2>8. QED
    BY <1>2, <2>1, <2>3, <2>4, <2>5, <2>6, <2>7 DEF Decided
<1>6. QED
  BY <1>4, <1>5

(* While a deletion is under way the last request has not begun to send.     *)
LEMMA NoneBegun ==
    ASSUME TransferInv, InTurn, Decided, NEW i \in DOMAIN toSink, toSink[i].kind = "delete"
    PROVE  /\ Idle /\ ~deletion.done /\ deletion.waiter = lastRequest
           /\ lastRequest \in Request /\ lastRequest # NoFile
           /\ toSink[i].name \in Names(sinkFiles)
<1>1. /\ deletion = [done |-> FALSE, waiter |-> lastRequest] /\ lastRequest \in Request
      /\ toSink[i].name \in Names(sinkFiles)
  BY DEF Decided
<1>2. ~deletion.done /\ deletion.waiter = lastRequest /\ lastRequest # NoFile
  BY <1>1, NetworkAssumption DEF Request, NoFile
<1>3. sender[lastRequest].at = "none"
  BY <1>1, <1>2 DEF TransferInv, WaitsOnce, Waits
<1>4. Idle
  BY <1>3 DEF Idle, InTurn, Active
<1>5. QED
  BY <1>1, <1>2, <1>4

(* Parts.                                                                    *)

(* Without a task at work, no part is on its way.                            *)
LEMMA InStepIdle ==
    ASSUME Idle', None(toSink', "part"), ~Acked'
    PROVE  InStep'
BY DEF Idle, InStep, None, AtMostOne

(* A step of others: it neither sends nor takes a part.                      *)
LEMMA InStepFrame ==
    ASSUME InStep, OldParts(toSink', toSink), AtMostOne(toSink', "part"),
           UNCHANGED <<sinkFiles, sender, file, acks>>
    PROVE  InStep'
<1>1. None(toSink, "part") => None(toSink', "part")
  BY DEF None, OldParts
<1>2. Idle' => None(toSink', "part") /\ ~Acked'
  BY <1>1 DEF InStep, Idle, Acked
<1>3. ASSUME NEW r \in Request, sender'[r].at \in Active
      PROVE  TaskInStep(r)' /\ PartInStep(r)'
  <2>1. TaskInStep(r) /\ PartInStep(r)
    BY <1>3 DEF InStep
  <2>2. \A n : OnSink(r, n)' <=> OnSink(r, n)
    BY DEF OnSink
  <2>3. TaskInStep(r)'
    BY <2>1 DEF TaskInStep, OnSink
  <2>4. PartInStep(r)'
    BY <2>1 DEF PartInStep, OldParts, OnSink, Acked, Upload
  <2>5. QED
    BY <2>3, <2>4
<1>4. QED
  BY <1>2, <1>3 DEF InStep

(* A step of the one task that is at work.                                   *)
LEMMA InStepOwn ==
    ASSUME NEW r \in Request, \A s \in Request \ {r} : sender'[s].at \notin Active,
           sender'[r].at \in Active, AtMostOne(toSink', "part"),
           TaskInStep(r)', PartInStep(r)'
    PROVE  InStep'
BY DEF InStep, Idle

(* What is so of the one task that is at work.                               *)
LEMMA AtWork ==
    ASSUME InTurn, InStep, NEW r \in Request, sender[r].at \in Active
    PROVE  /\ r = lastRequest /\ \A s \in Request \ {r} : sender[s].at \notin Active
           /\ TaskInStep(r) /\ PartInStep(r) /\ AtMostOne(toSink, "part")
BY DEF InTurn, InStep

------------------------------------------------------------------------------
(* The steps, and room.                                                      *)

LEMMA RefuseDecides ==
    ASSUME TransferInv, InTurn, Decided, RejectFile
    PROVE  InTurn' /\ Decided'
<1>1. /\ toSink' = Append(toSink, AskList)
      /\ UNCHANGED <<lastRequest, sinkFiles, listFuture, deletion, firing, sender>>
  BY DEF RejectFile, networkVars
<1>2. toSink \in Seq(Message) /\ OldDeletes(toSink, toSink) /\ AtMostOne(toSink, "delete")
  BY DeletesKept DEF TransferInv, TransferTypeOK, Decided
<1>3. OldDeletes(toSink', toSink) /\ AtMostOne(toSink', "delete")
  BY <1>1, <1>2, ListAsked, KindsKept
<1>4. InTurn'
  BY <1>1 DEF InTurn
<1>5. listFuture.list \in List /\ firing.list \in List
  BY DEF TransferInv, TransferTypeOK
<1>6. /\ listFuture'.done => NotAhead(listFuture.list)
      /\ firing'.callbacks # <<>> => NotAhead(firing.list)
  BY <1>1 DEF Decided
<1>7. QED
  BY <1>1, <1>3, <1>4, <1>5, <1>6, DecidedFrame

LEMMA ListDecides ==
    ASSUME TransferInv, InTurn, Decided, AnswerList
    PROVE  InTurn' /\ Decided'
<1>1. /\ toSink # <<>> /\ toSink' = Tail(toSink) /\ firing.callbacks = <<>>
      /\ UNCHANGED <<lastRequest, sinkFiles, deletion, sender>>
  BY DEF AnswerList, Answering, LockFree, networkVars
<1>2. OldDeletes(toSink', toSink) /\ AtMostOne(toSink', "delete")
  BY <1>1, DeletesAnswered, KindsOfTail DEF TransferInv, TransferTypeOK, Decided
<1>3. listFuture.list \in List /\ firing.list \in List
  BY DEF TransferInv, TransferTypeOK
<1>4. CASE listFuture.done
  <2>1. UNCHANGED <<listFuture, firing>>
    BY <1>4 DEF AnswerList
  <2>2. InTurn'
    BY <1>1, <2>1 DEF InTurn
  <2>3. /\ listFuture'.done => NotAhead(listFuture.list)
        /\ firing'.callbacks # <<>> => NotAhead(firing.list)
    BY <1>1, <2>1 DEF Decided
  <2>4. QED
    BY <1>1, <1>2, <1>3, <2>1, <2>2, <2>3, DecidedFrame
<1>5. CASE ~listFuture.done
  <2> DEFINE list == [free |-> FreeSpace, files |-> sinkFiles]
             callbacks == Reverse(listFuture.callbacks)
  <2>1. /\ listFuture' = [done |-> TRUE, list |-> list, callbacks |-> <<>>]
        /\ firing' \in {NotFiring, [list |-> list, callbacks |-> callbacks]}
    BY <1>5 DEF AnswerList
  <2>2. EarlyRequests(callbacks) = EarlyRequests(listFuture.callbacks)
    BY EarlyOfReverse DEF TransferInv, TransferTypeOK, WaitsOnce
  <2>3. list \in List /\ NotAhead(list)
    BY FreeSpaceType DEF TransferInv, TransferTypeOK, List, NotAhead
  <2> HIDE DEF list, callbacks
  <2>4. listFuture'.callbacks = <<>> /\ listFuture'.list = list
    BY <2>1
  <2>5. /\ firing'.callbacks # <<>> => firing'.list = list
        /\ firing'.callbacks \in {<<>>, callbacks}
    BY <2>1 DEF NotFiring
  <2>6. InTurn'
    BY <1>1, <2>2, <2>4, <2>5, EarlyOfEmpty DEF InTurn
  <2>7. QED
    BY <1>1, <1>2, <2>3, <2>4, <2>5, <2>6, DecidedFrame
<1>6. QED
  BY <1>4, <1>5

LEMMA CallbackDecides ==
    ASSUME TransferInv, InTurn, Decided, FireCallback
    PROVE  InTurn' /\ Decided'
<1> DEFINE c == Head(firing.callbacks)
<1>1. /\ firing \in [list : List, callbacks : Seq(Callback)] /\ firing.callbacks # <<>>
      /\ toSink \in Seq(Message) /\ EarlyOnce(firing.callbacks)
      /\ sinkFiles' = sinkFiles
  BY DEF TransferInv, TransferTypeOK, FireCallback, LockFree, WaitsOnce
<1>2. /\ c \in Callback /\ Tail(firing.callbacks) \in Seq(Callback)
      /\ EarlyRequests(Tail(firing.callbacks)) \subseteq EarlyRequests(firing.callbacks)
      /\ ~c.late => c.req \in EarlyRequests(firing.callbacks)
  BY <1>1, EarlyOfTail
<1>3. firing' \in {NotFiring, [list |-> firing.list, callbacks |-> Tail(firing.callbacks)]}
  BY <1>1 DEF FireCallback
<1>4. /\ firing'.callbacks # <<>> => firing'.list = firing.list
      /\ EarlyRequests(firing'.callbacks) \subseteq {lastRequest}
  <2>1. CASE firing' = NotFiring
    BY <2>1, EarlyOfEmpty DEF NotFiring
  <2>2. CASE firing' = [list |-> firing.list, callbacks |-> Tail(firing.callbacks)]
    <3>1. firing'.list = firing.list /\ firing'.callbacks = Tail(firing.callbacks)
      BY <2>2
    <3>2. QED
      BY <1>2, <3>1 DEF InTurn
  <2>3. QED
    BY <1>3, <2>1, <2>2
<1>5. firing.list \in List /\ NotAhead(firing.list)
  BY <1>1 DEF Decided
<1>6. CASE c.late /\ LateStage(firing.list, toSink) /\ UNCHANGED sender
  <2>1. SentOnly(firing.list.files)
    BY DEF TransferInv, PartsKnown
  <2>2. /\ UNCHANGED <<lastRequest, deletion>> /\ toSink' = toSink
        /\ listFuture' \in {listFuture, NewListFuture}
    BY <1>5, <1>6, <2>1, LateStageStep
  <2>3. OldDeletes(toSink', toSink) /\ AtMostOne(toSink', "delete")
    BY <2>2, DeletesKept DEF Decided
  <2>4. EarlyRequests(listFuture'.callbacks) \subseteq {lastRequest}
        /\ (listFuture'.done => listFuture' = listFuture)
    BY <2>2, EarlyOfEmpty DEF InTurn, NewListFuture
  <2>5. InTurn'
    BY <1>4, <1>6, <2>2, <2>4 DEF InTurn
  <2>6. listFuture.list \in List /\ (listFuture'.done => NotAhead(listFuture.list))
    BY <2>4 DEF TransferInv, TransferTypeOK, Decided
  <2> HIDE DEF c
  <2>7. QED
    BY <1>1, <1>4, <1>5, <2>2, <2>3, <2>4, <2>5, <2>6, DecidedFrame
<1>7. CASE /\ ~c.late /\ EarlyStage(c.req, firing.list, toSink)
           /\ UNCHANGED <<lastRequest, toUpdateIds, status, heard, minor, starts>>
  <2>1. c.req \in Request /\ c.req = lastRequest
    BY <1>2, <1>7 DEF Callback, InTurn
  <2>2. deletion.waiter # c.req
    BY <1>2, <1>7 DEF TransferInv, WaitsOnce
  <2>3. None(toSink, "delete")
    BY <2>1, <2>2, NoneBegun DEF None
  <2> HIDE DEF c
  <2>4. Decided'
    BY <1>1, <1>4, <1>5, <1>7, <2>1, <2>3, EarlyDecides
  <2>5. \A r \in Request : sender'[r].at \in Active => sender[r].at \in Active \/ r = c.req
    BY <1>7, <2>1 DEF EarlyStage, DoUpload, MakeRoom, TransferInv, TransferTypeOK
  <2>6. EarlyRequests(listFuture'.callbacks) = {}
    BY <1>7, EarlyOfEmpty DEF EarlyStage
  <2>7. InTurn'
    BY <1>4, <1>7, <2>1, <2>5, <2>6 DEF InTurn
  <2>8. QED
    BY <2>4, <2>7
<1>8. QED
  BY <1>6, <1>7 DEF FireCallback

(* With the deletion it asked for nothing is left to delete.                 *)
LEMMA DeleteDecides ==
    ASSUME TransferInv, InTurn, Decided, AnswerDelete
    PROVE  /\ InTurn' /\ Decided' /\ Idle'
           /\ AtMostOne(toSink, "part") => AtMostOne(toSink', "part")
           /\ None(toSink, "part") => None(toSink', "part")
<1> DEFINE name == Head(toSink).name
<1>1. /\ toSink # <<>> /\ Head(toSink).kind = "delete" /\ firing.callbacks = <<>>
      /\ UNCHANGED <<lastRequest, firing, sender>>
  BY DEF AnswerDelete, Answering, LockFree, networkVars
<1>2. /\ toSink \in Seq(Message) /\ Tail(toSink) \in Seq(Message)
      /\ OldParts(Tail(toSink), toSink) /\ Head(toSink) = toSink[1] /\ 1 \in DOMAIN toSink
  BY <1>1, QueueAnswered DEF TransferInv, TransferTypeOK
<1>3. /\ Idle /\ ~deletion.done /\ deletion.waiter = lastRequest
      /\ lastRequest \in Request /\ lastRequest # NoFile /\ name \in Names(sinkFiles)
  BY <1>1, <1>2, NoneBegun
<1>4. /\ listFuture' = [NewListFuture EXCEPT !.callbacks = <<Early(lastRequest)>>]
      /\ toSink' = Append(Tail(toSink), AskList)
  BY <1>3 DEF AnswerDelete
<1>5. None(toSink', "delete")
  <2>1. None(Tail(toSink), "delete")
    BY <1>1, <1>2, KindsOfTail DEF Decided
  <2>2. AtMostOne(Tail(toSink), "delete")
    BY <2>1 DEF None, AtMostOne
  <2>3. QED
    BY <1>2, <1>4, <2>1, <2>2, KindsKept
<1>6. AtMostOne(toSink, "part") => AtMostOne(toSink', "part")
  BY <1>1, <1>2, <1>4, KindsOfTail, KindsKept
<1>7. None(toSink, "part") => None(toSink', "part")
  <2> SUFFICES ASSUME None(toSink, "part") PROVE None(toSink', "part")
    OBVIOUS
  <2>1. None(Tail(toSink), "part")
    BY <1>2 DEF None, OldParts
  <2>2. AtMostOne(Tail(toSink), "part")
    BY <2>1 DEF None, AtMostOne
  <2>3. QED
    BY <1>2, <1>4, <2>1, <2>2, KindsKept
<1>8. ~listFuture'.done /\ listFuture'.callbacks = <<Early(lastRequest)>>
  BY <1>4 DEF NewListFuture
<1>9. EarlyRequests(<<Early(lastRequest)>>) = {lastRequest}
  BY DEF EarlyRequests, Early
<1>10. InTurn'
  BY <1>1, <1>8, <1>9 DEF InTurn
<1>11. AtMostOne(toSink', "delete")
  BY <1>5 DEF None, AtMostOne
<1>12. Decided'
  BY <1>1, <1>5, <1>8, <1>11 DEF Decided, None
<1>13. Idle'
  BY <1>1, <1>3 DEF Idle
<1>14. QED
  BY <1>6, <1>7, <1>10, <1>12, <1>13

LEMMA PartDecides ==
    ASSUME TransferInv, InTurn, Decided, AnswerPart
    PROVE  InTurn' /\ Decided'
<1> DEFINE m == Head(toSink)
<1>1. /\ toSink # <<>> /\ m.kind = "part" /\ toSink' = Tail(toSink)
      /\ sinkFiles' = Stored(sinkFiles, m.name, m.part)
      /\ UNCHANGED <<lastRequest, listFuture, deletion, firing, sender>>
  BY DEF AnswerPart, Answering, networkVars
<1>2. OldDeletes(toSink', toSink) /\ AtMostOne(toSink', "delete")
  BY <1>1, DeletesAnswered, KindsOfTail DEF TransferInv, TransferTypeOK, Decided
<1>3. m.name \in Request /\ m.part \in 1..Parts[m.name]
  BY <1>1, QueueAnswered, MessageTypes DEF TransferInv
<1> HIDE DEF m
<1>4. FreeSpace' \in Int /\ FreeSpace' <= FreeSpace
  BY <1>1, <1>3, RoomStored DEF TransferInv
<1>5. Names(sinkFiles) \subseteq Names(sinkFiles')
  BY <1>1, <1>3, PartsStored DEF TransferInv, Names
<1>6. InTurn'
  BY <1>1 DEF InTurn
<1>7. listFuture.list \in List /\ firing.list \in List
  BY DEF TransferInv, TransferTypeOK
<1>8. /\ listFuture'.done => NotAhead(listFuture.list)
      /\ firing'.callbacks # <<>> => NotAhead(firing.list)
  BY <1>1 DEF Decided
<1>9. QED
  BY <1>1, <1>2, <1>4, <1>5, <1>6, <1>7, <1>8, DecidedFrame

LEMMA TaskDecides ==
    ASSUME TransferInv, InTurn, Decided, NEW r \in Request, RunSender(r)
    PROVE  InTurn' /\ Decided'
<1> DEFINE Keeps == /\ OldDeletes(toSink', toSink) /\ AtMostOne(toSink', "delete")
                    /\ EarlyRequests(listFuture'.callbacks)
                         \subseteq EarlyRequests(listFuture.callbacks)
                    /\ listFuture'.done =>
                         listFuture.done /\ listFuture'.list = listFuture.list
<1>1. toSink \in Seq(Message) /\ OldDeletes(toSink, toSink) /\ AtMostOne(toSink, "delete")
  BY DeletesKept DEF TransferInv, TransferTypeOK, Decided
<1>2. /\ UNCHANGED <<lastRequest, deletion, firing, sinkFiles>>
      /\ sender[r].at \in Active
      /\ \A s \in Request \ {r} : sender'[s] = sender[s]
  <2>1. CASE AwaitFinalList(r)
    BY <2>1, FinalListAwaited DEF Sender, Active, TransferInv, TransferTypeOK
  <2>2. CASE ~AwaitFinalList(r)
    BY <2>2 DEF RunSender, SendPart, AwaitAck, TakeAck, AckTimesOut, RenewListFuture, Sender,
                sinkVars, networkVars, Active, TransferInv, TransferTypeOK
  <2>3. QED
    BY <2>1, <2>2
<1>3. Keeps
  <2>1. CASE AwaitFinalList(r)
    BY <1>1, <2>1, FinalListAwaited, ListAsked, KindsKept
  <2>2. CASE SendPart(r)
    <3>1. UNCHANGED listFuture
      BY <2>2 DEF SendPart
    <3>2. CASE toSink' = toSink
      BY <1>1, <3>1, <3>2
    <3>3. CASE toSink' # toSink
      <4> DEFINE m == Upload(r, sender[r].part)
      <4>1. toSink' = Append(toSink, m) /\ sender[r].part <= Parts[r]
            /\ sender[r].at = "sending"
        BY <2>2, <3>3 DEF SendPart
      <4>2. sender[r].part \in 1..Parts[r]
        BY <4>1, TransferAssumption, TaskTypes
      <4>3. m \in Message /\ m.kind # "delete"
        BY <4>2, MessageTypes DEF Upload
      <4> HIDE DEF m
      <4>4. QED
        BY <1>1, <3>1, <4>1, <4>3, DeletesGrow, KindsOfAppend
    <3>4. QED
      BY <3>2, <3>3
  <2>3. CASE RenewListFuture(r)
    BY <1>1, <2>3, EarlyOfEmpty DEF RenewListFuture, sinkVars, NewListFuture
  <2>4. CASE AwaitAck(r) \/ TakeAck(r) \/ AckTimesOut(r)
    BY <1>1, <2>4 DEF AwaitAck, TakeAck, AckTimesOut, sinkVars
  <2>5. QED
    BY <2>1, <2>2, <2>3, <2>4 DEF RunSender
<1>4. InTurn'
  BY <1>2, <1>3 DEF InTurn
<1>5. listFuture.list \in List /\ firing.list \in List
  BY DEF TransferInv, TransferTypeOK
<1>6. /\ listFuture'.done => NotAhead(listFuture.list)
      /\ firing'.callbacks # <<>> => NotAhead(firing.list)
  BY <1>2, <1>3 DEF Decided
<1>7. QED
  BY <1>2, <1>3, <1>4, <1>5, <1>6, DecidedFrame

(* A request that arrives when all is settled. *)
LEMMA AcceptDecides ==
    ASSUME TransferInv, InTurn, Decided, NEW r \in Request, UpdateFirmware(r), TransferSettled
    PROVE  InTurn' /\ Decided' /\ Idle
<1>1. lastRequest' = r
  BY DEF UpdateFirmware, Enqueue
<1>2. /\ toSink = <<>> /\ listFuture.callbacks = <<>> /\ firing.callbacks = <<>>
      /\ firing' = firing /\ sinkFiles' = sinkFiles
  BY DEF TransferSettled, LockFree, UpdateFirmware
<1>3. Idle
  BY DEF TransferSettled, Idle, Active
<1>4. /\ toSink \o Asks(r) \in Seq(Message) /\ None(toSink \o Asks(r), "delete")
  <2>1. /\ toSink \o Asks(r) \in Seq(Message)
        /\ \A i \in DOMAIN (toSink \o Asks(r)) :
             i \in DOMAIN toSink \/ (toSink \o Asks(r))[i] = AskList
    BY ListsAsked DEF TransferInv
  <2>2. DOMAIN toSink = {}
    BY <1>2
  <2>3. QED
    BY <2>1, <2>2 DEF None, AskList
<1>5. EarlyRequests(firing'.callbacks) = {}
  BY <1>2, EarlyOfEmpty
<1>6. CASE listFuture.done
  <2>1. EarlyStage(r, listFuture.list, toSink \o Asks(r))
    BY <1>6 DEF UpdateFirmware
  <2>2. listFuture.list \in List /\ NotAhead(listFuture.list)
    BY <1>6 DEF TransferInv, TransferTypeOK, Decided
  <2>3. Decided'
    BY <1>1, <1>2, <1>4, <2>1, <2>2, EarlyDecides
  <2>4. \A s \in Request : sender'[s].at \in Active => s = r
    BY <1>3, <2>1 DEF Idle, EarlyStage, DoUpload, MakeRoom, TransferInv, TransferTypeOK
  <2>5. EarlyRequests(listFuture'.callbacks) = {}
    BY <2>1, EarlyOfEmpty DEF EarlyStage
  <2>6. InTurn'
    BY <1>1, <1>5, <2>4, <2>5 DEF InTurn
  <2>7. QED
    BY <1>3, <2>3, <2>6
<1>7. CASE ~listFuture.done
  <2>1. /\ listFuture' = [listFuture EXCEPT !.callbacks = Append(@, Early(r))]
        /\ toSink' = toSink \o Asks(r) /\ UNCHANGED sender
    BY <1>7 DEF UpdateFirmware
  <2>2. /\ listFuture'.callbacks = <<Early(r)>> /\ ~listFuture'.done
    BY <1>2, <1>7, <2>1 DEF TransferInv, TransferTypeOK
  <2>3. EarlyRequests(<<Early(r)>>) = {r}
    BY DEF EarlyRequests, Early
  <2>4. InTurn'
    BY <1>1, <1>3, <1>5, <2>1, <2>2, <2>3 DEF InTurn, Idle
  <2>5. AtMostOne(toSink', "delete")
    BY <1>4, <2>1 DEF None, AtMostOne
  <2>6. Decided'
    BY <1>2, <1>4, <2>1, <2>2, <2>5 DEF Decided, None
  <2>7. QED
    BY <1>3, <2>4, <2>6
<1>8. QED
  BY <1>6, <1>7

------------------------------------------------------------------------------
(* The steps, and parts.                                                     *)

(* While no task is at work, no part is on its way and none acknowledged.    *)
LEMMA NoPart ==
    ASSUME TransferInv, InStep, Idle
    PROVE  /\ None(toSink, "part") /\ ~Acked
           /\ \A q : OldParts(q, toSink) => None(q, "part")
<1>1. None(toSink, "part") /\ ~Acked
  BY DEF InStep
<1>2. QED
  BY <1>1 DEF None, OldParts

LEMMA RefuseInStep ==
    ASSUME TransferInv, InStep, RejectFile
    PROVE  InStep'
<1>1. /\ toSink' = Append(toSink, AskList)
      /\ UNCHANGED <<sinkFiles, sender, file, acks>>
  BY DEF RejectFile, networkVars
<1>2. /\ toSink \in Seq(Message) /\ OldParts(toSink, toSink) /\ AtMostOne(toSink, "part")
      /\ AskList \in Message /\ AskList.kind # "part"
  BY QueueKept, MessageTypes DEF TransferInv, TransferTypeOK, InStep, AskList
<1>3. OldParts(toSink', toSink) /\ AtMostOne(toSink', "part")
  BY <1>1, <1>2, QueueGrows, KindsKept
<1>4. QED
  BY <1>1, <1>3, InStepFrame

LEMMA ListInStep ==
    ASSUME TransferInv, InStep, AnswerList
    PROVE  InStep'
<1>1. /\ toSink # <<>> /\ toSink' = Tail(toSink)
      /\ UNCHANGED <<sinkFiles, sender, file, acks>>
  BY DEF AnswerList, Answering, networkVars
<1>2. OldParts(toSink', toSink) /\ AtMostOne(toSink', "part")
  BY <1>1, QueueAnswered, KindsOfTail DEF TransferInv, TransferTypeOK, InStep
<1>3. QED
  BY <1>1, <1>2, InStepFrame

(* An upload begins with its first part and nothing on its way. *)
LEMMA EarlyInStep ==
    ASSUME TransferInv, InStep, Idle, NEW r \in Request, NEW list \in List,
           NEW sent \in Seq(Message), None(sent, "part"), EarlyStage(r, list, sent),
           acks' = acks
    PROVE  InStep'
<1>1. ~Acked'
  BY NoPart DEF Acked
<1>2. CASE DoUpload(r, sent)
  <2>1. /\ file' = r /\ toSink' = sent
        /\ sender' = [sender EXCEPT ![r] = [at |-> "sending", part |-> 1, future |-> 0]]
    BY <1>2 DEF DoUpload
  <2>2. /\ sender'[r] = [at |-> "sending", part |-> 1, future |-> 0]
        /\ \A s \in Request \ {r} : sender'[s] = sender[s]
    BY <2>1 DEF TransferInv, TransferTypeOK
  <2>3. sender'[r].at = "sending" /\ sender'[r].part = 1
    BY <2>2
  <2>4. 1 <= Parts[r] /\ OnSink(r, 0)' /\ 1 - 1 = 0
    BY TransferAssumption DEF OnSink
  <2>5. TaskInStep(r)'
    BY <2>1, <2>3, <2>4 DEF TaskInStep, OnSink
  <2>6. PartInStep(r)'
    BY <1>1, <2>1 DEF PartInStep, None
  <2>7. AtMostOne(toSink', "part")
    BY <2>1 DEF None, AtMostOne
  <2>8. sender'[r].at \in Active /\ \A s \in Request \ {r} : sender'[s].at \notin Active
    BY <2>2, <2>3 DEF Active, Idle
  <2>9. QED
    BY <2>5, <2>6, <2>7, <2>8, InStepOwn
<1>3. CASE MakeRoom(r, list, sent)
  <2>1. Idle'
    BY <1>3 DEF MakeRoom, Idle
  <2>2. CASE list.files = <<>>
    BY <1>1, <1>3, <2>1, <2>2, InStepIdle DEF MakeRoom
  <2>3. CASE list.files # <<>>
    <3> DEFINE d == Delete(Head(list.files).name)
    <3>1. list.files \in Seq(SinkFile) /\ Head(list.files) \in SinkFile
      BY <2>3, HeadTailProperties DEF List
    <3>2. d \in Message /\ d.kind # "part"
      BY <3>1, MessageTypes DEF Delete, SinkFile
    <3>3. toSink' = Append(sent, d)
      BY <1>3, <2>3 DEF MakeRoom
    <3> HIDE DEF d
    <3>4. None(toSink', "part")
      BY <3>2, <3>3, KindsOfAppend
    <3>5. QED
      BY <1>1, <2>1, <3>4, InStepIdle
  <2>4. QED
    BY <2>2, <2>3
<1>4. QED
  BY <1>2, <1>3 DEF EarlyStage

LEMMA CallbackInStep ==
    ASSUME TransferInv, InTurn, InStep, FireCallback
    PROVE  InStep'
<1> DEFINE c == Head(firing.callbacks)
<1>1. /\ firing.callbacks \in Seq(Callback) /\ firing.callbacks # <<>>
      /\ firing.list \in List /\ toSink \in Seq(Message) /\ EarlyOnce(firing.callbacks)
      /\ sinkFiles' = sinkFiles /\ acks' = acks
  BY DEF TransferInv, TransferTypeOK, FireCallback, LockFree, WaitsOnce
<1>2. CASE c.late /\ LateStage(firing.list, toSink) /\ UNCHANGED sender
  <2>1. SentOnly(firing.list.files)
    BY DEF TransferInv, PartsKnown
  <2>2. file' = file /\ toSink' = toSink
    BY <1>1, <1>2, <2>1, LateStageStep
  <2>3. QED
    BY <1>1, <1>2, <2>2, QueueKept, InStepFrame DEF InStep
<1>3. CASE ~c.late /\ EarlyStage(c.req, firing.list, toSink)
  <2>1. c \in Callback /\ c.req \in EarlyRequests(firing.callbacks)
    BY <1>1, <1>3, EarlyOfTail
  <2>2. c.req \in Request /\ c.req = lastRequest /\ sender[c.req].at = "none"
    BY <2>1 DEF Callback, InTurn, TransferInv, WaitsOnce, Waits
  <2>3. Idle
    BY <2>2 DEF Idle, InTurn, Active
  <2>4. None(toSink, "part")
    BY <2>3, NoPart
  <2> HIDE DEF c
  <2>5. QED
    BY <1>1, <1>3, <2>2, <2>3, <2>4, EarlyInStep
<1>4. QED
  BY <1>2, <1>3 DEF FireCallback

LEMMA DeleteInStep ==
    ASSUME TransferInv, InTurn, Decided, InStep, AnswerDelete
    PROVE  InStep'
<1>1. sender' = sender /\ acks' = acks
  BY DEF AnswerDelete
<1>2. Idle' /\ (None(toSink, "part") => None(toSink', "part"))
  BY DeleteDecides
<1>3. Idle
  BY <1>1, <1>2 DEF Idle
<1>4. None(toSink, "part") /\ ~Acked
  BY <1>3, NoPart
<1>5. ~Acked'
  BY <1>1, <1>4 DEF Acked
<1>6. QED
  BY <1>2, <1>4, <1>5, InStepIdle

(* The acknowledgement of a part completes the future its task waits on.     *)
LEMMA PartAnswered ==
    ASSUME TransferInv, InTurn, InStep, AnswerPart
    PROVE  InStep'
<1> DEFINE m == Head(toSink)
<1>1. /\ toSink # <<>> /\ m.kind = "part" /\ toSink' = Tail(toSink)
      /\ sinkFiles' = Stored(sinkFiles, m.name, m.part)
      /\ acks' = IF Last(acks) = NoAck THEN [acks EXCEPT ![Len(acks)] = m.part] ELSE acks
      /\ UNCHANGED <<sender, file>>
  BY DEF AnswerPart, Answering, networkVars
<1>2. /\ toSink \in Seq(Message) /\ m \in Message /\ m = toSink[1] /\ 1 \in DOMAIN toSink
  BY <1>1, QueueAnswered DEF TransferInv, TransferTypeOK
<1>3. PICK r \in Request : sender[r].at \in Active
  BY <1>1, <1>2, NoPart DEF None, Idle
<1>4. /\ \A s \in Request \ {r} : sender[s].at \notin Active
      /\ TaskInStep(r) /\ PartInStep(r) /\ AtMostOne(toSink, "part")
  BY <1>3, AtWork
<1>5. /\ sender[r].at \in {"sent", "waiting"} /\ ~Acked
      /\ m = Upload(r, sender[r].part)
  BY <1>1, <1>2, <1>4 DEF PartInStep
<1>6. m.name = r /\ m.part = sender[r].part
  BY <1>5 DEF Upload
<1>7. m.part \in 1..Parts[r] /\ m.part \in Nat /\ m.part # NoAck
  BY <1>1, <1>2, <1>6, MessageTypes, TransferAssumption DEF NoAck
<1>8. None(toSink', "part") /\ AtMostOne(toSink', "part")
  BY <1>1, <1>2, <1>4, KindsOfTail
<1> HIDE DEF m
<1>9. Len(acks') = Len(acks) /\ Last(acks') = m.part
  <2>1. acks \in Seq(Nat) /\ Len(acks) \in DOMAIN acks
    BY AcksTypes
  <2>2. acks' = [acks EXCEPT ![Len(acks)] = m.part]
    BY <1>1, <1>5 DEF Acked
  <2>3. Len(acks') = Len(acks) /\ acks'[Len(acks)] = m.part
    BY <1>7, <2>1, <2>2, ExceptSeq, LenProperties
  <2>4. QED
    BY <2>3 DEF Last
<1>10. OnSink(r, sender[r].part - 1)' /\ OnSink(r, sender[r].part)'
  <2> DEFINE before == 1..(m.part - 1)
  <2>1. OnSink(r, m.part - 1)
    BY <1>4, <1>5, <1>6 DEF TaskInStep
  <2>2. \/ before = {}
        \/ \E k \in DOMAIN sinkFiles :
             sinkFiles[k].name = r /\ before \subseteq sinkFiles[k].parts
    BY <2>1 DEF OnSink
  <2>3. 1..m.part = before \cup {m.part} /\ before \subseteq 1..m.part
    BY <1>7
  <2> HIDE DEF before
  <2>4. PICK j \in DOMAIN sinkFiles' :
          sinkFiles'[j].name = r /\ before \cup {m.part} \subseteq sinkFiles'[j].parts
    BY <1>1, <1>6, <1>7, <2>2, PartJoins DEF TransferInv
  <2>5. 1..(m.part - 1) \subseteq sinkFiles'[j].parts /\ 1..m.part \subseteq sinkFiles'[j].parts
    BY <2>3, <2>4 DEF before
  <2>6. QED
    BY <1>1, <1>6, <2>4, <2>5 DEF OnSink
<1>11. TaskInStep(r)'
  BY <1>1, <1>4, <1>5, <1>9, <1>10 DEF TaskInStep
<1>12. PartInStep(r)'
  BY <1>1, <1>5, <1>6, <1>8, <1>9, <1>10 DEF PartInStep, None
<1>13. QED
  BY <1>1, <1>3, <1>4, <1>8, <1>11, <1>12, InStepOwn

LEMMA SendInStep ==
    ASSUME TransferInv, InTurn, InStep, NEW r \in Request, SendPart(r)
    PROVE  InStep'
<1>1. sender[r].at = "sending" /\ sender[r].at \in Active
      /\ UNCHANGED <<file, acks, sinkFiles>>
  BY DEF SendPart, networkVars, Active
<1>2. /\ \A s \in Request \ {r} : sender[s].at \notin Active
      /\ TaskInStep(r) /\ PartInStep(r)
  BY <1>1, AtWork
<1>3. sender[r].part <= Parts[r] /\ OnSink(r, sender[r].part - 1) /\ file = r
  BY <1>1, <1>2 DEF TaskInStep
<1>4. None(toSink, "part") /\ ~Acked
  BY <1>1, <1>2 DEF PartInStep, None
<1> DEFINE m == Upload(r, sender[r].part)
<1>5. toSink' = Append(toSink, m) /\ sender' = [sender EXCEPT ![r].at = "sent"]
  BY <1>3 DEF SendPart, Sender
<1>6. /\ sender'[r].at = "sent" /\ sender'[r].part = sender[r].part
      /\ \A s \in Request \ {r} : sender'[s] = sender[s]
  BY <1>5 DEF TransferInv, TransferTypeOK
<1>7. m \in Message
  BY <1>1, <1>3, TransferAssumption, TaskTypes, MessageTypes
<1>8. m = Upload(r, sender'[r].part)
  BY <1>6
<1> HIDE DEF m
<1>9. toSink \in Seq(Message)
  BY DEF TransferInv, TransferTypeOK
<1>10. AtMostOne(toSink', "part")
  BY <1>4, <1>5, <1>7, <1>9, KindsOfAppend
<1>11. \A i \in DOMAIN toSink' : toSink'[i].kind = "part" => toSink'[i] = m
  <2>1. \A i \in DOMAIN Append(toSink, m) :
          \/ i \in DOMAIN toSink /\ Append(toSink, m)[i] = toSink[i]
          \/ Append(toSink, m)[i] = m
    BY <1>7, <1>9, AppendProperties, LenProperties
  <2>2. QED
    BY <1>4, <1>5, <2>1 DEF None
<1>12. TaskInStep(r)'
  BY <1>1, <1>3, <1>6 DEF TaskInStep, OnSink
<1>13. PartInStep(r)'
  BY <1>1, <1>4, <1>6, <1>8, <1>11 DEF PartInStep, Acked
<1>14. sender'[r].at \in Active /\ \A s \in Request \ {r} : sender'[s].at \notin Active
  BY <1>2, <1>6 DEF Active
<1>15. QED
  BY <1>10, <1>12, <1>13, <1>14, InStepOwn

LEMMA AwaitInStep ==
    ASSUME TransferInv, InTurn, InStep, NEW r \in Request, AwaitAck(r)
    PROVE  InStep'
<1>1. sender[r].at = "sent" /\ sender[r].at \in Active
      /\ UNCHANGED <<file, acks, sinkFiles, toSink>>
  BY DEF AwaitAck, networkVars, sinkVars, Active
<1>2. /\ \A s \in Request \ {r} : sender[s].at \notin Active
      /\ TaskInStep(r) /\ PartInStep(r) /\ AtMostOne(toSink, "part")
  BY <1>1, AtWork
<1>3. /\ sender'[r].at = "waiting" /\ sender'[r].part = sender[r].part
      /\ sender'[r].future = Len(acks)
      /\ \A s \in Request \ {r} : sender'[s] = sender[s]
  BY DEF AwaitAck, TransferInv, TransferTypeOK
<1>4. TaskInStep(r)'
  BY <1>1, <1>2, <1>3 DEF TaskInStep, OnSink
<1>5. PartInStep(r)'
  BY <1>1, <1>2, <1>3 DEF PartInStep, OnSink, Acked
<1>6. sender'[r].at \in Active /\ \A s \in Request \ {r} : sender'[s].at \notin Active
  BY <1>2, <1>3 DEF Active
<1>7. QED
  BY <1>1, <1>2, <1>4, <1>5, <1>6, InStepOwn

(* The acknowledgement a task takes is that of its own part. *)
LEMMA TakeInStep ==
    ASSUME TransferInv, InTurn, InStep, NEW r \in Request, TakeAck(r)
    PROVE  InStep'
<1>1. /\ sender[r].at = "waiting" /\ sender[r].at \in Active
      /\ acks[sender[r].future] # NoAck /\ acks' = Append(acks, NoAck)
      /\ UNCHANGED <<file, sinkFiles, toSink>>
  BY DEF TakeAck, networkVars, sinkVars, Active
<1>2. /\ \A s \in Request \ {r} : sender[s].at \notin Active
      /\ TaskInStep(r) /\ PartInStep(r) /\ AtMostOne(toSink, "part")
  BY <1>1, AtWork
<1>3. Last(acks) = acks[sender[r].future] /\ Acked /\ file = r
  BY <1>1, <1>2 DEF TaskInStep, Last, Acked
<1>4. /\ acks[sender[r].future] = sender[r].part /\ OnSink(r, sender[r].part)
      /\ None(toSink, "part")
  BY <1>2, <1>3 DEF PartInStep, None
<1>5. ~Acked'
  <2>1. acks \in Seq(Nat) /\ NoAck \in Nat
    BY AcksTypes DEF NoAck
  <2>2. Len(acks') = Len(acks) + 1 /\ acks'[Len(acks) + 1] = NoAck
    BY <1>1, <2>1, AppendProperties
  <2>3. QED
    BY <2>2 DEF Acked, Last
<1>6. PartInStep(r)'
  BY <1>1, <1>4, <1>5 DEF PartInStep, None
<1>7. sender[r].part \in 1..Parts[r] /\ Parts[r] \in Nat /\ r # NoFile
  BY <1>1, TaskTypes, NetworkAssumption DEF Request, NoFile
<1>8. CASE sender[r].part < Parts[r]
  <2>1. sender' = [sender EXCEPT ![r].at = "sending", ![r].part = @ + 1]
    BY <1>3, <1>4, <1>7, <1>8 DEF TakeAck, PartsLeft
  <2>2. /\ sender'[r].at = "sending" /\ sender'[r].part = sender[r].part + 1
        /\ \A s \in Request \ {r} : sender'[s] = sender[s]
    BY <2>1 DEF TransferInv, TransferTypeOK
  <2>3. sender'[r].part <= Parts[r] /\ sender'[r].part - 1 = sender[r].part
    BY <1>7, <1>8, <2>2
  <2>4. TaskInStep(r)'
    BY <1>1, <1>3, <1>4, <2>2, <2>3 DEF TaskInStep, OnSink
  <2>5. sender'[r].at \in Active /\ \A s \in Request \ {r} : sender'[s].at \notin Active
    BY <1>2, <2>2 DEF Active
  <2>6. QED
    BY <1>1, <1>2, <1>6, <2>4, <2>5, InStepOwn
<1>9. CASE ~(sender[r].part < Parts[r])
  <2>1. sender' = [sender EXCEPT ![r].at = "verifying"]
    BY <1>3, <1>4, <1>7, <1>9 DEF TakeAck, PartsLeft, Sender
  <2>2. /\ sender'[r].at = "verifying"
        /\ \A s \in Request \ {r} : sender'[s] = sender[s]
    BY <2>1 DEF TransferInv, TransferTypeOK
  <2>3. sender[r].part = Parts[r]
    BY <1>7, <1>9
  <2>4. TaskInStep(r)'
    BY <1>1, <1>3, <1>4, <2>2, <2>3 DEF TaskInStep, OnSink
  <2>5. sender'[r].at \in Active /\ \A s \in Request \ {r} : sender'[s].at \notin Active
    BY <1>2, <2>2 DEF Active
  <2>6. QED
    BY <1>1, <1>2, <1>6, <2>4, <2>5, InStepOwn
<1>10. QED
  BY <1>8, <1>9

LEMMA RenewInStep ==
    ASSUME TransferInv, InTurn, InStep, NEW r \in Request, RenewListFuture(r)
    PROVE  InStep'
<1>1. sender[r].at = "verifying" /\ sender[r].at \in Active
      /\ UNCHANGED <<file, acks, sinkFiles, toSink>>
  BY DEF RenewListFuture, networkVars, sinkVars, Active
<1>2. /\ \A s \in Request \ {r} : sender[s].at \notin Active
      /\ TaskInStep(r) /\ PartInStep(r) /\ AtMostOne(toSink, "part")
  BY <1>1, AtWork
<1>3. /\ sender'[r].at = "registering"
      /\ \A s \in Request \ {r} : sender'[s] = sender[s]
  BY DEF RenewListFuture, Sender, TransferInv, TransferTypeOK
<1>4. TaskInStep(r)'
  BY <1>1, <1>2, <1>3 DEF TaskInStep
<1>5. PartInStep(r)'
  BY <1>1, <1>2 DEF PartInStep, Acked
<1>6. sender'[r].at \in Active /\ \A s \in Request \ {r} : sender'[s].at \notin Active
  BY <1>2, <1>3 DEF Active
<1>7. QED
  BY <1>1, <1>2, <1>4, <1>5, <1>6, InStepOwn

LEMMA FinalListInStep ==
    ASSUME TransferInv, InTurn, InStep, NEW r \in Request, AwaitFinalList(r)
    PROVE  InStep'
<1>1. /\ sender[r].at = "registering" /\ sender[r].at \in Active /\ Sender(r, "done")
      /\ toSink' = Append(toSink, AskList) /\ acks' = acks
  BY FinalListAwaited DEF Active
<1>2. /\ \A s \in Request \ {r} : sender[s].at \notin Active
      /\ PartInStep(r) /\ AtMostOne(toSink, "part")
  BY <1>1, AtWork
<1>3. Idle'
  BY <1>1, <1>2 DEF Idle, Active, Sender, TransferInv, TransferTypeOK
<1>4. None(toSink, "part") /\ ~Acked
  BY <1>1, <1>2 DEF PartInStep, None
<1>5. None(toSink', "part")
  BY <1>1, <1>2, <1>4, KindsKept DEF TransferInv, TransferTypeOK
<1>6. QED
  BY <1>1, <1>3, <1>4, <1>5, InStepIdle DEF Acked

LEMMA AcceptInStep ==
    ASSUME TransferInv, InTurn, Decided, InStep, NEW r \in Request,
           UpdateFirmware(r), TransferSettled
    PROVE  InStep'
<1>1. Idle
  BY AcceptDecides
<1>2. acks' = acks /\ ~Acked
  BY <1>1, NoPart DEF UpdateFirmware
<1>3. toSink \o Asks(r) \in Seq(Message) /\ None(toSink \o Asks(r), "part")
  BY <1>1, ListsAsked, NoPart DEF TransferInv
<1>4. CASE listFuture.done
  <2>1. EarlyStage(r, listFuture.list, toSink \o Asks(r)) /\ listFuture.list \in List
    BY <1>4 DEF UpdateFirmware, TransferInv, TransferTypeOK
  <2>2. QED
    BY <1>1, <1>2, <1>3, <2>1, EarlyInStep
<1>5. CASE ~listFuture.done
  <2>1. toSink' = toSink \o Asks(r) /\ sender' = sender
    BY <1>5 DEF UpdateFirmware
  <2>2. Idle' /\ ~Acked'
    BY <1>1, <1>2, <2>1 DEF Idle, Acked
  <2>3. QED
    BY <1>3, <2>1, <2>2, InStepIdle
<1>6. QED
  BY <1>4, <1>5

------------------------------------------------------------------------------
(* All of it, for requests that do not overlap.                              *)

SerialInv == TransferInv /\ InTurn /\ Decided

LEMMA InitSerial == Init => SerialInv /\ InStep
<1> SUFFICES ASSUME Init PROVE SerialInv /\ InStep
  OBVIOUS
<1>1. /\ toSink = <<>> /\ listFuture = NewListFuture /\ firing = NotFiring
      /\ acks = <<NoAck>> /\ \A r \in Request : sender[r].at = "none"
  BY DEF Init, TransferInit
<1>2. TransferInv
  BY TransferInvInit DEF Init
<1>3. None(toSink, "part") /\ Idle /\ InTurn
  BY <1>1, EarlyOfEmpty DEF None, Idle, InTurn, Active
<1>4. ~Acked
  BY <1>1 DEF Acked, Last
<1>5. InStep
  BY <1>3, <1>4 DEF InStep, None, AtMostOne, Idle
<1>6. Decided
  BY <1>1 DEF Decided, AtMostOne, NewListFuture, NotFiring
<1>7. QED
  BY <1>2, <1>3, <1>5, <1>6 DEF SerialInv

LEMMA NextTransfer == TransferInv /\ [Next]_vars => TransferInv'
<1> SUFFICES ASSUME TransferInv, [Next]_vars PROVE TransferInv'
  OBVIOUS
<1>1. CASE Next
  <2>1. TransferNext
    BY <1>1 DEF Next, TransferNext, Accept, Refuse
  <2>2. QED
    BY <2>1, TransferKeeps DEF StepOK
<1>2. CASE UNCHANGED vars
  BY <1>2 DEF vars, networkVars, transferVars, TransferInv, NetworkTypeOK,
              TransferTypeOK, SenderOK, WaitsOnce, Waits, PartsKnown, SentOnly, PartsSent
<1>3. QED
  BY <1>1, <1>2

LEMMA NextSerial ==
    ASSUME ~Overlap, SerialInv, [Next]_vars
    PROVE  SerialInv'
<1>1. TransferInv'
  BY NextTransfer DEF SerialInv
<1>2. CASE Handle
  BY <1>1, <1>2, ListDecides, CallbackDecides, DeleteDecides, PartDecides
     DEF Handle, SerialInv
<1>3. CASE Refuse
  BY <1>1, <1>3, RefuseDecides DEF Refuse, SerialInv
<1>4. ASSUME NEW r \in Request, Accept(r) \/ RunSender(r) PROVE SerialInv'
  BY <1>1, <1>4, AcceptDecides, TaskDecides DEF Accept, SerialInv
<1>5. CASE UNCHANGED vars
  <2>1. InTurn'
    BY <1>5 DEF vars, networkVars, transferVars, SerialInv, InTurn
  <2>2. Decided'
    BY <1>5 DEF vars, networkVars, transferVars, SerialInv, Decided, NotAhead, FreeSpace, Names
  <2>3. QED
    BY <1>1, <2>1, <2>2 DEF SerialInv
<1>6. QED
  BY <1>2, <1>3, <1>4, <1>5 DEF Next

LEMMA NextInStep ==
    ASSUME ~Overlap, ~AckTimeouts, SerialInv, InStep, [Next]_vars
    PROVE  InStep'
<1>1. CASE Handle
  BY <1>1, ListInStep, CallbackInStep, DeleteInStep, PartAnswered DEF Handle, SerialInv
<1>2. CASE Refuse
  BY <1>2, RefuseInStep DEF Refuse, SerialInv
<1>3. ASSUME NEW r \in Request, Accept(r) PROVE InStep'
  BY <1>3, AcceptInStep DEF Accept, SerialInv
<1>4. ASSUME NEW r \in Request, RunSender(r) PROVE InStep'
  BY <1>4, SendInStep, AwaitInStep, TakeInStep, RenewInStep, FinalListInStep
     DEF RunSender, AckTimesOut, SerialInv
<1>5. CASE UNCHANGED vars
  BY <1>5, QueueKept, InStepFrame DEF vars, networkVars, transferVars, InStep
<1>6. QED
  BY <1>1, <1>2, <1>3, <1>4, <1>5 DEF Next

(* NoNeedlessDelete: when requests do not overlap, a file is deleted only for *)
(* want of room, however many stale lists arrive and whatever is timed out.  *)
THEOREM NoNeedlessInvariant ==
    ASSUME ~Overlap
    PROVE  Spec => []NoNeedlessDelete
<1>1. Init => SerialInv
  BY InitSerial
<1>2. SerialInv /\ [Next]_vars => SerialInv'
  BY NextSerial
<1>3. SerialInv => NoNeedlessDelete
  <2> SUFFICES ASSUME SerialInv, toSink # <<>>, Head(toSink).kind = "delete"
               PROVE  deletion.waiter # NoFile /\ FreeSpace < Parts[deletion.waiter]
    BY DEF NoNeedlessDelete
  <2>1. Head(toSink) = toSink[1] /\ 1 \in DOMAIN toSink
    BY QueueAnswered DEF SerialInv, TransferInv
  <2>2. deletion.waiter = lastRequest /\ lastRequest # NoFile
    BY <2>1, NoneBegun DEF SerialInv
  <2>3. FreeSpace < Parts[lastRequest]
    BY <2>1 DEF SerialInv, Decided
  <2>4. QED
    BY <2>2, <2>3
<1>4. QED
  BY <1>1, <1>2, <1>3, PTL DEF Spec

(* WholeWhenVerifying: and when no acknowledgement is late either, the sink   *)
(* has the whole file once its last part counts as acknowledged.             *)
THEOREM WholeInvariant ==
    ASSUME ~Overlap, ~AckTimeouts
    PROVE  Spec => []WholeWhenVerifying
<1>1. Init => SerialInv /\ InStep
  BY InitSerial
<1>2. SerialInv /\ InStep /\ [Next]_vars => SerialInv' /\ InStep'
  BY NextSerial, NextInStep
<1>3. SerialInv /\ InStep => WholeWhenVerifying
  <2> SUFFICES ASSUME SerialInv, InStep, NEW r \in Request, sender[r].at = "verifying"
               PROVE  FileWhole(r)
    BY DEF WholeWhenVerifying
  <2>1. OnSink(r, Parts[r])
    BY DEF InStep, TaskInStep, Active
  <2>2. Parts[r] \in Nat /\ 1 \in 1..Parts[r]
    BY TransferAssumption
  <2>3. PICK j \in DOMAIN sinkFiles :
          sinkFiles[j].name = r /\ 1..Parts[r] \subseteq sinkFiles[j].parts
    BY <2>1, <2>2 DEF OnSink
  <2>4. sinkFiles[j].parts \subseteq 1..PartsSent(r)
    BY <2>3 DEF SerialInv, TransferInv, PartsKnown, SentOnly
  <2>5. PartsSent(r) \in Int /\ PartsSent(r) <= Parts[r]
    BY <2>2, SenderTypes DEF SerialInv, PartsSent
  <2>6. sinkFiles[j].parts = 1..Parts[r]
    <3>1. 1..PartsSent(r) \subseteq 1..Parts[r]
      BY <2>2, <2>5
    <3>2. QED
      BY <2>3, <2>4, <3>1
  <2>7. QED
    BY <2>3, <2>6 DEF FileWhole, Whole
<1>4. QED
  BY <1>1, <1>2, <1>3, PTL DEF Spec
==============================================================================
