CONSTANTS
  MaxMarks = 3
  Scores = {0, 50, 51, 85, 86, 100}
  QueryLimit = 4
  RelevantLimit = 3
  PromptLimit = 2
  MaxRows = 5
  MaxPieces = 3
  MaxItems = 3
  Commands = {c1, c2}
  MaxRollbacks = 2
  Files = {f1, f2}
  MaxVersion = 3
  MaxCalls = 5
SPECIFICATION Spec
SYMMETRY Symmetry
CHECK_DEADLOCK FALSE
INVARIANTS
  MoreEvidenceNoLowerRisk
  RatedConfirmReachesUser
  DenialsBackedUp
  QuotesStayOut
  PreferencesComeBack
  PlansWholeOrStub
  LastNotOvertaken
  RollbackUndoes
  RestoreUndoable
