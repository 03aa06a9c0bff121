SPECIFICATION FairSpec
CONSTANTS
  d1 = d1
  d2 = d2
  Device <- MCDevice
  MaxRequest = 2
  Wanted <- TwoUpdates
  Overlap = TRUE
  FirstPartition <- MCFirstPartition
  Parts <- TwoSizes
  OldFiles = 2
  Capacity = 3
  MaxRejected = 1
  AckTimeouts = TRUE
INVARIANT StartedFileSent
PROPERTY SendersEnd
CHECK_DEADLOCK FALSE
