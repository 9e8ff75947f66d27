SPECIFICATION Spec
CONSTANTS
  Tools = {t1, t2, t3}
  MaxPerMinute = 3
  MaxPerSession = 5
  MinuteWindow = 2
  LoopWindow = 3
  LoopThreshold = 2
  MaxTime = 6
INVARIANTS
  RateBound
  SessionBound
  LoopBound
PROPERTY
  ImplementsBudget
