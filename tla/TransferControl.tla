--------------------------- MODULE TransferControl ---------------------------
(***************************************************************************)
(* FileTransfer closed with its requests; the devices only receive their   *)
(* Start command.                                                          *)
(***************************************************************************)
EXTENDS FileTransfer

vars == <<networkVars, transferVars>>

Init == NetworkInit /\ TransferInit

Accept(r) == (Overlap \/ TransferSettled) /\ UpdateFirmware(r)
Refuse == (Overlap \/ TransferSettled) /\ RejectFile

Next ==
    \/ Handle
    \/ Refuse
    \/ \E r \in Request : Accept(r) \/ RunSender(r)

(* The executor runs the tasks it was given and get() returns or times out;  *)
(* the sink answers everything it is sent and its answers are handled.       *)
Fairness == WF_vars(Handle) /\ \A r \in Request : WF_vars(RunSender(r))

Spec == Init /\ [][Next]_vars
FairSpec == Spec /\ Fairness

------------------------------------------------------------------------------
(* One request at a time, no ACK later than thirty seconds.                  *)

FileWhole(r) == \E i \in DOMAIN sinkFiles : sinkFiles[i].name = r /\ Whole(sinkFiles[i])

(* A file is deleted from the sink only while the update at hand still lacks *)
(* room, although a list is asked for once per device and so several lists   *)
(* arrive, some of them older than the last deletion (applyOnDelete).        *)
NoNeedlessDelete ==
    LockFree /\ toSink # <<>> /\ Head(toSink).kind = "delete"
        => deletion.waiter # NoFile /\ FreeSpace < Parts[deletion.waiter]

(* When the last part counts as acknowledged the sink has the whole file:    *)
(* each acknowledgement was taken by the part it belongs to (sendFilePart    *)
(* and the renewal of fileUploadFuture).                                     *)
WholeWhenVerifying == \A r \in Request : sender[r].at = "verifying" => FileWhole(r)

(* Every accepted request gets as far as a Start command for its own file:   *)
(* no list is awaited that was already consumed, no stale list is taken for  *)
(* the final one.                                                            *)
EveryRequestStarts ==
    \A r \in Request : (lastRequest >= r) ~> (\E s \in starts : s.path = r)

------------------------------------------------------------------------------
(* Any number of requests at once, ACKs late or lost.                        *)

(* Every upload that began comes to an end; no thread of the executor waits  *)
(* for an ACK for ever (the timeout of sendFilePart).                        *)
SendersEnd ==
    \A r \in Request :
        (sender[r].at = "sending")
            ~> (sender[r].at \in {"done", "timed out", "crashed"})

(* The late stage starts a device only with a file all of whose parts have   *)
(* been sent, whatever acknowledgements and lists of other uploads came in   *)
(* between.                                                                  *)
StartedFileSent ==
    \A s \in starts :
        /\ s.path # NoFile
        /\ PartsSent(s.path) >= Parts[s.path]
==============================================================================
