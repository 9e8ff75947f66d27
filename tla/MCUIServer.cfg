SPECIFICATION FairSpec
CONSTANTS
  Connections = {k1, k2}
  MaxMessages = 2
INVARIANTS
  InTurn
PROPERTIES
  EveryWaitEnds
  ShutdownEnds
CHECK_DEADLOCK FALSE
