---------------------------- MODULE FirmwareUpdate ----------------------------
(***************************************************************************)
(* The whole firmware update of one network: the transfer of files to the  *)
(* sink (FileTransfer) and the upgrade of the devices (DeviceUpgrade) over *)
(* the Network they share. The late stage of a transfer starts the first   *)
(* device of the queue, the task of each upgrade the next one, with        *)
(* whatever network.getFileName() is by then.                              *)
(***************************************************************************)
EXTENDS FileTransfer, DeviceUpgrade

vars == <<networkVars, transferVars, deviceVars>>

TypeOK == NetworkTypeOK /\ TransferTypeOK /\ DeviceTypeOK

Init == NetworkInit /\ TransferInit /\ DeviceInit

(* The moment a careful operator waits for. *)
Settled == TransferSettled /\ DevicesSettled

TransferStep ==
    /\ \/ Handle
       \/ (Overlap \/ Settled) /\ RejectFile
       \/ \E r \in Request :
            \/ (Overlap \/ Settled) /\ UpdateFirmware(r)
            \/ RunSender(r)
    /\ UNCHANGED deviceVars

(* Tasks run while a handler is still completing a future; handlers wait.    *)
DeviceStep ==
    /\ \/ \E d \in Device :
            \/ Install(d) \/ FallSilent(d) \/ RestartAges(d)
            \/ LockFree /\ (DeviceTurnOn(d) \/ VersionCommand(d) \/ Beacon(d))
       \/ \E o \in Order :
            \/ LockFree /\ (FirmwareAck(o) \/ FirmwareAborted(o))
            \/ RunTask(o)
       \/ LockFree /\ UpdateStatuses
    /\ UNCHANGED transferVars

Next == TransferStep \/ DeviceStep

Spec == Init /\ [][Next]_vars

------------------------------------------------------------------------------
FileWhole(r) == \E i \in DOMAIN sinkFiles : sinkFiles[i].name = r /\ Whole(sinkFiles[i])

(* One request at a time: a device is told to install a file only while the  *)
(* sink holds all of it, be it the first device of the queue, whose file the *)
(* late stage has just verified, or a later one, whose file nobody verifies  *)
(* again and which a later update could have deleted or renamed.             *)
StartedFileOnSink ==
    [][\A s \in starts' \ starts : s.path # NoFile /\ FileWhole(s.path)]_vars

(* One request at a time: the queue upgrades one device of a network at a    *)
(* time, the next Start is sent only when the device before it has confirmed,*)
(* failed or aborted, whatever acknowledgements and timeouts come in.        *)
OneUpgradeAtATime ==
    \A o1, o2 \in Order : InProgress(o1) /\ InProgress(o2) => o1 = o2

(* Orders left behind by a failed update are started by a later one, with    *)
(* its file: a device may get a newer file than it was ordered for, never an *)
(* older one and never none (sendStartUpgrade with network.getFileName()).   *)
NeverOlderFile == \A s \in starts : s.path >= s.order.req

(* The comment on the late stage: "It will check md5 and crc16 of the        *)
(* uploaded file to make sure that uploading process has been finishied      *)
(* successfully. If everything is fine, it will send a command to start an   *)
(* update." A Start command names a file all of whose parts have been sent.  *)
StartOnlyFinishedUpload ==
    \A s \in starts : s.path # NoFile /\ PartsSent(s.path) >= Parts[s.path]
==============================================================================
