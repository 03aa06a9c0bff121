SPECIFICATION Spec
CONSTANTS
  d1 = d1
  d2 = d2
  Device <- OneDevice
  MaxRequest = 2
  Wanted <- SameDeviceTwice
  Overlap = FALSE
  FirstPartition <- OneDeviceAtA
INVARIANT CompletedMeansApplied
CHECK_DEADLOCK FALSE
