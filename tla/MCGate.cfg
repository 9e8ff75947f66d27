SPECIFICATION FairSpec
CONSTANTS
  p1 = p1
  p2 = p2
  p3 = p3
  Proposals = {p1, p2, p3}
  Workers = 2
  StdinEnds = TRUE
  NoOne = NoOne
INVARIANTS
  RunsOnlyIfApproved
  LogTruthful
  TerminalServed
PROPERTIES
  ImplementsContract
  EveryProposalDecided
  OnlyInputOrActionHoldsUp
CHECK_DEADLOCK FALSE
