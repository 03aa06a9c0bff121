----------------------------- MODULE FileTransfer -----------------------------
(***************************************************************************)
(* How InfoWebSocket brings a firmware file to the sink of a network:      *)
(* prepareUpload, the two applyOnAskListResponse, applyOnDelete,           *)
(* removeRedundantFile, doUpload, sendFilePart and handleFileMessage, with *)
(* the three futures of Network that connect them.                         *)
(*                                                                         *)
(* Message handlers hold the lock of the InfoWebSocket singleton. Completing*)
(* a future inside a handler runs its callbacks there, the last registered *)
(* first (CompletableFuture keeps them on a stack): firing holds those still*)
(* to run, and no other handler runs until it is empty. sendFilePart runs  *)
(* on the executor without the lock; each of its accesses is an action.    *)
(*                                                                         *)
(* The sink is external: it answers what it is sent in order, so its answer*)
(* is computed when the server handles it. A file of Parts[r] parts takes  *)
(* that much room from its first part on; sinkFiles is in order of creation.*)
(***************************************************************************)
EXTENDS UpdateNetwork, SequencesExt

CONSTANTS
    Parts,          \* Parts[r]: how many parts the file of request r is cut into
    OldFiles,       \* how many files of one unit the sink holds at first
    Capacity,       \* the room on the sink
    MaxRejected,    \* bound: how many requests carry a file that is no IHS file
    AckTimeouts     \* may an ACK take longer than TIMEOUT_SECONDS_ACK?

ASSUME TransferAssumption ==
    /\ Parts \in [Request -> Nat \ {0}]
    /\ OldFiles \in Nat
    /\ Capacity \in Nat
    /\ MaxRejected \in Nat
    /\ AckTimeouts \in BOOLEAN

VARIABLES
    \* --- the sink (external)
    toSink,         \* messages sent to the sink it has not answered
    sinkFiles,      \* the files it holds
    \* --- Network
    listFuture,     \* fileListSummaryFuture, with the callbacks registered on it
    deletion,       \* fileDeletionStatus, with the request whose callback waits
    acks,           \* the fileUploadFutures so far, the current one last
    \* --- threads
    firing,         \* callbacks of a completed list future still to run
    sender,         \* where the sendFilePart task of each request is
    rejected        \* requests refused so far for their file (IWS_012)

transferVars == <<toSink, sinkFiles, listFuture, deletion, acks, firing, sender,
                  rejected>>
sinkVars == <<toSink, sinkFiles>>

FileNames == 1..(MaxRequest + OldFiles)
SinkFile == [name : FileNames, size : Nat, parts : SUBSET Nat]
List == [free : Int, files : Seq(SinkFile)]
Callback == [late : BOOLEAN, req : Request]

AskList == [kind |-> "list", name |-> NoFile, part |-> 0]
Delete(name) == [kind |-> "delete", name |-> name, part |-> 0]
Upload(r, i) == [kind |-> "part", name |-> r, part |-> i]
Message == {AskList} \cup {Delete(name) : name \in FileNames}
               \cup UNION {{Upload(r, i) : i \in 1..Parts[r]} : r \in Request}

NoList == [free |-> 0, files |-> <<>>]
NoAck == 0          \* a fileUploadFuture that is not completed
NewListFuture == [done |-> FALSE, list |-> NoList, callbacks |-> <<>>]
NotFiring == [list |-> NoList, callbacks |-> <<>>]
Early(r) == [late |-> FALSE, req |-> r]
Late(r) == [late |-> TRUE, req |-> r]

SenderState == {"none", "sending", "sent", "waiting", "verifying", "registering",
                "done", "timed out", "crashed"}

TransferTypeOK ==
    /\ toSink \in Seq(Message)
    /\ sinkFiles \in Seq(SinkFile)
    /\ listFuture \in [done : BOOLEAN, list : List, callbacks : Seq(Callback)]
    /\ deletion \in [done : BOOLEAN, waiter : Request \cup {NoFile}]
    /\ acks \in Seq(Nat)
    /\ firing \in [list : List, callbacks : Seq(Callback)]
    /\ sender \in [Request -> [at : SenderState, part : Nat, future : Nat]]
    /\ rejected \in 0..MaxRejected

TransferInit ==
    /\ toSink = <<>>
    /\ sinkFiles = [i \in 1..OldFiles |->
                     [name |-> MaxRequest + i, size |-> 1, parts |-> {1}]]
    /\ listFuture = NewListFuture
    /\ deletion = [done |-> FALSE, waiter |-> NoFile]
    /\ acks = <<NoAck>>
    /\ firing = NotFiring
    /\ sender = [r \in Request |-> [at |-> "none", part |-> 0, future |-> 0]]
    /\ rejected = 0

FreeSpace == Capacity - Cardinality(UNION {{i} \X (1..sinkFiles[i].size) : i \in DOMAIN sinkFiles})
Names(files) == {files[i].name : i \in DOMAIN files}
WithoutFile(name) ==
    IF name \in Names(sinkFiles)
    THEN RemoveAt(sinkFiles, CHOOSE i \in DOMAIN sinkFiles : sinkFiles[i].name = name)
    ELSE sinkFiles
Whole(f) == f.parts = 1..Parts[f.name]

(* No handler is running. *)
LockFree == firing.callbacks = <<>>
------------------------------------------------------------------------------
(* The callbacks. sent is what has gone to the sink before the callback runs *)
(* in the same step.                                                         *)

(* An upload that takes up the file the network still has. *)
DoUploadKeepingFile(r, sent) ==
    /\ fileName' = IF fileName = NoFile THEN r ELSE fileName
    /\ file' = IF file = NoFile THEN r ELSE file
    /\ sender' = [sender EXCEPT ![r] = [at |-> "sending", part |-> 1, future |-> 0]]
    /\ toSink' = sent
    /\ UNCHANGED deletion

(* doUpload: the file gets its name and the task for its first part is       *)
(* handed to the executor.                                                   *)
DoUpload(r, sent) ==
    /\ fileName' = r
    /\ file' = r
    /\ sender' = [sender EXCEPT ![r] = [at |-> "sending", part |-> 1, future |-> 0]]
    /\ toSink' = sent
    /\ UNCHANGED deletion

(* applyOnDelete and removeRedundantFile: the oldest file has to go. With no *)
(* file to delete get(0) throws, and nothing is sent.                        *)
MakeRoom(r, list, sent) ==
    /\ deletion' = [done |-> FALSE, waiter |-> r]
    /\ toSink' = IF list.files = <<>> THEN sent
                 ELSE Append(sent, Delete(Head(list.files).name))
    /\ UNCHANGED <<fileName, file, sender>>

(* applyOnAskListResponse(network, bytes), the early stage. *)
EarlyStage(r, list, sent) ==
    /\ IF list.free >= Parts[r] THEN DoUpload(r, sent) ELSE MakeRoom(r, list, sent)
    /\ listFuture' = NewListFuture

(* A check that trusts the name of the listed file. *)
NamesMatch(f) == f.name = file

(* md5 and crc16 of network.file against those the sink lists: they agree    *)
(* when the listed file is the one last uploaded and the sink has all of it. *)
ChecksumsMatch(f) == f.name = file /\ Whole(f)

(* applyOnAskListResponse(network), the late stage. A list without the file  *)
(* is left in the future and nobody is told.                                 *)
LateStage(list, sent) ==
    /\ IF fileName \in Names(list.files)
       THEN /\ \E i \in DOMAIN list.files :
                 /\ list.files[i].name = fileName
                 /\ IF ChecksumsMatch(list.files[i])
                    THEN SendStartUpgrade(fileName) \/ StartUpgradeOfNothing
                    ELSE UNCHANGED networkVars          \* IWS_006
            /\ listFuture' = NewListFuture
       ELSE UNCHANGED <<networkVars, listFuture>>
    /\ toSink' = sent
    /\ UNCHANGED deletion

------------------------------------------------------------------------------
(* Message handlers.                                                         *)

Asks(r) == [i \in 1..Cardinality(Wanted[r]) |-> AskList]

(* prepareUpload: a list is asked for once per device, the devices are       *)
(* enqueued, and the early stage waits for the list, or runs at once on a    *)
(* list that is already there.                                               *)
UpdateFirmware(r) ==
    /\ LockFree
    /\ r = lastRequest + 1
    /\ Enqueue(r)
    /\ IF listFuture.done
       THEN EarlyStage(r, listFuture.list, toSink \o Asks(r))
       ELSE /\ listFuture' = [listFuture EXCEPT !.callbacks = Append(@, Early(r))]
            /\ toSink' = toSink \o Asks(r)
            /\ UNCHANGED <<fileName, file, sender, deletion>>
    /\ UNCHANGED <<status, heard, minor, starts, sinkFiles, acks, firing, rejected>>

(* prepareUpload of a file that is no IHS file: the lists have been asked    *)
(* for all the same, and nobody waits for them (IWS_012).                    *)
RejectFile ==
    /\ LockFree
    /\ rejected < MaxRejected
    /\ rejected' = rejected + 1
    /\ toSink' = Append(toSink, AskList)
    /\ UNCHANGED <<networkVars, sinkFiles, listFuture, deletion, acks, firing, sender>>

Answering(kind) == LockFree /\ toSink # <<>> /\ Head(toSink).kind = kind

(* handleFileMessage, LIST: the current future completes, unless it already  *)
(* has, and its callbacks run.                                               *)
AnswerList ==
    /\ Answering("list")
    /\ toSink' = Tail(toSink)
    /\ IF listFuture.done
       THEN UNCHANGED <<listFuture, firing>>
       ELSE LET list == [free |-> FreeSpace, files |-> sinkFiles]
            IN  /\ listFuture' = [done |-> TRUE, list |-> list, callbacks |-> <<>>]
                /\ firing' = IF listFuture.callbacks = <<>> THEN NotFiring
                             ELSE [list |-> list,
                                   callbacks |-> Reverse(listFuture.callbacks)]
    /\ UNCHANGED <<networkVars, sinkFiles, deletion, acks, sender, rejected>>

(* The next callback of the completed future, still inside the handler. *)
FireCallback ==
    /\ ~LockFree
    /\ firing' = IF Tail(firing.callbacks) = <<>> THEN NotFiring
                 ELSE [firing EXCEPT !.callbacks = Tail(@)]
    /\ LET c == Head(firing.callbacks)
       IN  \/ c.late /\ LateStage(firing.list, toSink) /\ UNCHANGED sender
           \/ /\ ~c.late
              /\ EarlyStage(c.req, firing.list, toSink)
              /\ UNCHANGED <<lastRequest, toUpdateIds, status, heard, minor, starts>>
    /\ UNCHANGED <<sinkFiles, acks, rejected>>

(* applyOnDelete without line 454: the early stage waits on the old future. *)
AnswerDeleteReusingFuture ==
    /\ Answering("delete")
    /\ LET name == Head(toSink).name
           sent == Append(Tail(toSink), AskList)
       IN  /\ name \in Names(sinkFiles) /\ deletion.waiter # NoFile
           /\ sinkFiles' = WithoutFile(name)
           /\ IF listFuture.done
              THEN EarlyStage(deletion.waiter, listFuture.list, sent)
              ELSE /\ listFuture' = [listFuture EXCEPT
                                       !.callbacks = Append(@, Early(deletion.waiter))]
                   /\ toSink' = sent
                   /\ deletion' = [done |-> TRUE, waiter |-> NoFile]
                   /\ UNCHANGED <<fileName, file, sender>>
    /\ UNCHANGED <<lastRequest, toUpdateIds, status, heard, minor, starts, acks,
                   firing, rejected>>

(* handleFileMessage, DELETED, with the callback of applyOnDelete: after a   *)
(* success the early stage is entered again with a new list future.          *)
AnswerDelete ==
    /\ Answering("delete")
    /\ LET name == Head(toSink).name
           waiting == ~deletion.done /\ deletion.waiter # NoFile
       IN  /\ sinkFiles' = WithoutFile(name)
           /\ deletion' = [done |-> TRUE, waiter |-> NoFile]
           /\ IF waiting /\ name \in Names(sinkFiles)
              THEN /\ listFuture' = [NewListFuture EXCEPT
                                       !.callbacks = <<Early(deletion.waiter)>>]
                   /\ toSink' = Append(Tail(toSink), AskList)
              ELSE /\ toSink' = Tail(toSink)            \* IWS_005 if waiting
                   /\ UNCHANGED listFuture
    /\ UNCHANGED <<networkVars, acks, firing, sender, rejected>>

Stored(files, r, i) ==
    IF r \in Names(files)
    THEN [k \in DOMAIN files |->
            IF files[k].name = r THEN [files[k] EXCEPT !.parts = @ \cup {i}] ELSE files[k]]
    ELSE Append(files, [name |-> r, size |-> Parts[r], parts |-> {i}])

(* handleFileMessage, ACK of one part. *)
AnswerPart ==
    /\ Answering("part")
    /\ LET m == Head(toSink) IN
       /\ sinkFiles' = Stored(sinkFiles, m.name, m.part)
       /\ acks' = IF Last(acks) = NoAck THEN [acks EXCEPT ![Len(acks)] = m.part]
                  ELSE acks
    /\ toSink' = Tail(toSink)
    /\ UNCHANGED <<networkVars, listFuture, deletion, firing, sender, rejected>>

------------------------------------------------------------------------------
(* The task of sendFilePart, one per part, for the upload of request r.      *)

Sender(r, state) == sender' = [sender EXCEPT ![r].at = state]

(* uploads.get(currentIndex) is sent; past the last part it throws. *)
SendPart(r) ==
    /\ sender[r].at = "sending"
    /\ IF sender[r].part <= Parts[r]
       THEN Sender(r, "sent") /\ toSink' = Append(toSink, Upload(r, sender[r].part))
       ELSE Sender(r, "crashed") /\ UNCHANGED toSink
    /\ UNCHANGED <<networkVars, sinkFiles, listFuture, deletion, acks, firing, rejected>>

(* getFileUploadFuture(): whichever future is current now. *)
AwaitAck(r) ==
    /\ sender[r].at = "sent"
    /\ sender' = [sender EXCEPT ![r].at = "waiting", ![r].future = Len(acks)]
    /\ UNCHANGED <<networkVars, sinkVars, listFuture, deletion, acks, firing, rejected>>

(* Off by one: the last part but one ends the upload. *)
PartsLeftButOne(acked) == acked + 1 < Parts[file]

PartsLeft(acked) == acked < Parts[file]

(* get() returns and a new future is put in place. The next part follows     *)
(* unless the acknowledged part was the last of network.file; without a file *)
(* the task dies of a NullPointerException nobody sees.                      *)
TakeAck(r) ==
    /\ sender[r].at = "waiting"
    /\ acks[sender[r].future] # NoAck
    /\ acks' = Append(acks, NoAck)
    /\ IF file = NoFile THEN Sender(r, "crashed")
       ELSE IF PartsLeft(acks[sender[r].future])
       THEN sender' = [sender EXCEPT ![r].at = "sending", ![r].part = @ + 1]
       ELSE Sender(r, "verifying")
    /\ UNCHANGED <<networkVars, sinkVars, listFuture, deletion, firing, rejected>>

(* A get() without a timeout. *)
AckNeverTimesOut(r) == FALSE

(* No ACK for thirty seconds: IWS_004; the future and the queue stay. *)
AckTimesOut(r) ==
    /\ AckTimeouts
    /\ sender[r].at = "waiting"
    /\ acks[sender[r].future] = NoAck
    /\ Sender(r, "timed out")
    /\ UNCHANGED <<networkVars, sinkVars, listFuture, deletion, acks, firing, rejected>>

(* The late stage registered on whatever list future there is. *)
KeepListFuture(r) ==
    /\ sender[r].at = "verifying"
    /\ Sender(r, "registering")
    /\ UNCHANGED <<networkVars, sinkVars, listFuture, deletion, acks, firing, rejected>>

(* All parts acknowledged: a new list future ... *)
RenewListFuture(r) ==
    /\ sender[r].at = "verifying"
    /\ listFuture' = NewListFuture
    /\ Sender(r, "registering")
    /\ UNCHANGED <<networkVars, sinkVars, deletion, acks, firing, rejected>>

(* ... on which the late stage waits, and a list is asked for. If a list has *)
(* arrived meanwhile, the late stage runs on it here, without the lock.      *)
AwaitFinalList(r) ==
    /\ sender[r].at = "registering"
    /\ IF listFuture.done
       THEN LateStage(listFuture.list, Append(toSink, AskList))
       ELSE /\ listFuture' = [listFuture EXCEPT !.callbacks = Append(@, Late(r))]
            /\ toSink' = Append(toSink, AskList)
            /\ UNCHANGED <<networkVars, deletion>>
    /\ Sender(r, "done")
    /\ UNCHANGED <<sinkFiles, acks, firing, rejected>>

RunSender(r) ==
    \/ SendPart(r) \/ AwaitAck(r) \/ TakeAck(r) \/ AckTimesOut(r)
    \/ RenewListFuture(r) \/ AwaitFinalList(r)

Handle == AnswerList \/ FireCallback \/ AnswerDelete \/ AnswerPart

TransferNext ==
    \/ Handle
    \/ RejectFile
    \/ \E r \in Request : UpdateFirmware(r) \/ RunSender(r)

(* How many parts of the file of request r have been sent. *)
PartsSent(r) ==
    IF sender[r].at = "sending" \/ sender[r].part > Parts[r]
    THEN sender[r].part - 1 ELSE sender[r].part

(* Nothing is under way between the server and the sink. *)
TransferSettled ==
    /\ LockFree
    /\ toSink = <<>>
    /\ listFuture.callbacks = <<>>
    /\ \A r \in Request : sender[r].at \in {"none", "done", "timed out", "crashed"}
==============================================================================
