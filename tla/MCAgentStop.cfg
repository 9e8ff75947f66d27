CONSTANTS
  Clients = {browser}
  Humans = {browser}
  Plans <- MCPlans
SPECIFICATION Spec
CHECK_DEADLOCK FALSE
INVARIANT NothingStartsAfterShutdown
