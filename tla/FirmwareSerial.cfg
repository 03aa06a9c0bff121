SPECIFICATION Spec
CONSTANTS
  d1 = d1
  d2 = d2
  Device <- OneDevice
  MaxRequest = 3
  Wanted <- SameDeviceAgain
  Overlap = FALSE
  FirstPartition <- OneDeviceAtA
  Parts <- LastSmaller
  OldFiles = 0
  Capacity = 4
  MaxRejected = 0
  AckTimeouts = TRUE
INVARIANT TypeOK
 
INVARIANT OneUpgradeAtATime
 
CHECK_DEADLOCK FALSE
