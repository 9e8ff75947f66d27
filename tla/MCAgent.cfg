CONSTANTS
  Clients = {browser, script}
  Humans = {browser}
  Plans <- MCPlans
SPECIFICATION FairSpec
CHECK_DEADLOCK FALSE
INVARIANTS
  OutcomesTrue
  PreparedBeforeRun
  WaitingServerKeepsWord
PROPERTIES
  EveryCommandEnds
  ShutdownEnds
