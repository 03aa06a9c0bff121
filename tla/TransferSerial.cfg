SPECIFICATION FairSpec
CONSTANTS
  d1 = d1
  d2 = d2
  Device <- MCDevice
  MaxRequest = 3
  Wanted <- ThreeUpdates
  Overlap = FALSE
  FirstPartition <- MCFirstPartition
  Parts <- ThreeSizes
  OldFiles = 2
  Capacity = 4
  MaxRejected = 2
  AckTimeouts = FALSE
INVARIANT NoNeedlessDelete
INVARIANT WholeWhenVerifying
PROPERTY EveryRequestStarts
CHECK_DEADLOCK FALSE
