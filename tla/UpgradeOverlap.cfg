SPECIFICATION FairSpec
CONSTANTS
  d1 = d1
  d2 = d2
  Device <- OneDevice
  MaxRequest = 2
  Wanted <- SameDeviceTwice
  Overlap = TRUE
  FirstPartition <- OneDeviceAtA
INVARIANT TypeOK
 
PROPERTY TasksEnd
PROPERTY RestartingEnds
CHECK_DEADLOCK FALSE
