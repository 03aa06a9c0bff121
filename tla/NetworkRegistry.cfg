SPECIFICATION FairSpec
CONSTANTS
  hall = hall
  store = store
  t1 = t1
  t2 = t2
  x1 = x1
  x2 = x2
  y1 = y1
  Sink <- MCSink
  Anchor <- MCAnchor
  Tag <- MCTag
  Session <- MCSession
  SinkOf <- MCSinkOf
  InDatabase <- MCInDatabase
  Telling <- MCTelling
  NoSession = NoSession
INVARIANT TypeOK
INVARIANT OneNetwork
INVARIANT SinkRegistered
INVARIANT LookupsAgree
PROPERTY KeepsMembership
PROPERTY SilenceNoticed
CHECK_DEADLOCK FALSE
