SPECIFICATION FairSpec
CONSTANTS
  Connections = {k1, k2}
  MaxMessages = 2
PROPERTIES
  ClicksInTime
CHECK_DEADLOCK FALSE
