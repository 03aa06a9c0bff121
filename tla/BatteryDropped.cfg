SPECIFICATION Spec
CONSTANTS
  anchor = anchor
  tag = tag
  client = client
  server = server
  Device <- MCDevice
  Thread <- MCThread
  Routed <- MCRouted
  MaxMessages = 4
PROPERTY AskedOrTold
CHECK_DEADLOCK FALSE
