SPECIFICATION FairSpec
CONSTANTS
  floorA = floorA
  floorB = floorB
  a1 = a1
  a2 = a2
  k1 = k1
  k2 = k2
  th1 = th1
  th2 = th2
  worn = worn
  spare = spare
  x1 = x1
  x2 = x2
  Nobody = Nobody
  Frontend <- MCFrontend
  NoFloor = NoFloor
  Absent = Absent
  Needed = 2
  Floor <- MCFloor
  Anchor <- MCAnchor
  Call <- MCCall
  Thread <- MCThread
  Tag <- MCTag
  InDatabase <- MCInDatabase
  Connected <- MCConnected
  First <- MCFirst
  Budgets <- MCBudgets
INVARIANT TypeOK
INVARIANT OneDraft
INVARIANT PlacedAsPublished
INVARIANT Fresh
INVARIANT EachSaved
INVARIANT EachSent
INVARIANT EachDelivered
INVARIANT OnlyAsked
PROPERTY Drained
CHECK_DEADLOCK FALSE
