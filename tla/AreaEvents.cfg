SPECIFICATION FairSpec
CONSTANTS
  t1 = t1
  t2 = t2
  hall = hall
  store = store
  nowhere = nowhere
  inStore = inStore
  inBoth = inBoth
  c1 = c1
  c2 = c2
  NoTag = NoTag
  Tag <- MCTag
  Area <- MCArea
  Thread <- MCThread
  Place <- MCPlace
  Distance <- MCDistance
  Configurations <- EnterFirstConfigurations
  MaxEdits <- HallEdited
INVARIANT TypeOK
 
 
PROPERTY OutdatedForgotten
CHECK_DEADLOCK FALSE
