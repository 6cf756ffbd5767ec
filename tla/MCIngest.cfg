SPECIFICATION Spec
CONSTANTS
  Ingesters = {w1, w2}
  Values = {a, b}
  LastDay = 2
  MaxWindow = 1
  MaxTime = 3
  DayLength = 2
  StampForm = "local"
  RomeAhead <- PutForward
  Resume = FALSE
  MaxRevisions = 2
  MaxPulls = 3
SYMMETRY Symmetry
CHECK_DEADLOCK FALSE
INVARIANTS
  StoredWasPublished
  NoHashTwice
  FinishedPullsStayVisible
  NoLookahead
  LatestViewIsSourceValue
PROPERTIES
  WholeFragmentsAreFinal
  ImplementsVintageStore
