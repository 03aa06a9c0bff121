-------------------------- MODULE MCTransferControl --------------------------
EXTENDS TransferControl

CONSTANTS d1, d2

(* A request that names two devices of the sink asks for two lists. *)
MCDevice == {d1, d2}
MCFirstPartition == [d \in MCDevice |-> 0]

(* Three updates one after the other, on a sink that has to delete files. *)
ThreeUpdates == <<{d1, d2}, {d1}, {d2, d1}>>
ThreeSizes == <<2, 3, 2>>

(* Two updates at once. *)
TwoUpdates == <<{d1, d2}, {d1}>>
TwoSizes == <<2, 2>>
==============================================================================
