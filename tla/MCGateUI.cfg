SPECIFICATION Spec
CONSTANTS
  p1 = p1
  p2 = p2
  p3 = p3
  Proposals = {p1, p2}
  Workers = 2
  StdinEnds = FALSE
  NoOne = NoOne
INVARIANT
  RejectedWasAsked
CHECK_DEADLOCK FALSE
