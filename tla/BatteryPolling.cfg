SPECIFICATION FairSpec
CONSTANTS
  anchor = anchor
  tag = tag
  client = client
  server = server
  Device <- MCDevice
  Thread <- MCThread
  Routed <- MCRouted
  MaxMessages = 4
INVARIANT TypeOK
PROPERTY MessagesEnd
 
 
CHECK_DEADLOCK FALSE
