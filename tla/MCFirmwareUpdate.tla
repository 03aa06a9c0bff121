--------------------------- MODULE MCFirmwareUpdate ---------------------------
EXTENDS FirmwareUpdate

CONSTANTS d1, d2

MCDevice == {d1, d2}
MCFirstPartition == [d \in MCDevice |-> 0]
MCWanted == <<{d1}, {d2}>>
MCParts == <<2, 2>>

(* One device that three requests name, the last with the smallest file. *)
OneDevice == {d1}
OneDeviceAtA == [d \in OneDevice |-> 0]
SameDeviceAgain == <<{d1}, {d1}, {d1}>>
LastSmaller == <<2, 2, 1>>
==============================================================================
