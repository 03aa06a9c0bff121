SPECIFICATION Spec
CONSTANTS
  d1 = d1
  d2 = d2
  Device <- MCDevice
  MaxRequest = 2
  Wanted <- MCWanted
  Overlap = TRUE
  FirstPartition <- MCFirstPartition
  Parts <- MCParts
  OldFiles = 0
  Capacity = 4
  MaxRejected = 0
  AckTimeouts = TRUE
INVARIANT StartOnlyFinishedUpload
CHECK_DEADLOCK FALSE
