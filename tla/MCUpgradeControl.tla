--------------------------- MODULE MCUpgradeControl ---------------------------
EXTENDS UpgradeControl

CONSTANTS d1, d2

(* Two devices, the first of them ordered twice. *)
TwoDevices == {d1, d2}
FirstOrderedTwice == <<{d1, d2}, {d1}>>
TwoDevicesAtA == [d \in TwoDevices |-> 0]

(* One device that both requests name. *)
OneDevice == {d1}
SameDeviceTwice == <<{d1}, {d1}>>
OneDeviceAtA == [d \in OneDevice |-> 0]
==============================================================================
