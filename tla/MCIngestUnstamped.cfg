SPECIFICATION Spec
CONSTANTS
  Ingesters = {w1}
  Values = {a, b}
  LastDay = 1
  MaxWindow = 1
  MaxTime = 4
  DayLength = 2
  StampForm = "none"
  RomeAhead <- PutForward
  Resume = FALSE
  MaxRevisions = 1
  MaxPulls = 1
SYMMETRY Symmetry
CHECK_DEADLOCK FALSE
INVARIANT NoLookahead
