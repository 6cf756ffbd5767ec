SPECIFICATION Spec
CONSTANTS
  LastDay = 4
  Midnights <- MCMidnights
  NormalLength = 4
  ShiftTick = 1
  Horizons = {"D-1", "MI2"}
  Offset <- MCOffset
  Areas = {1, 2}
  LagDays = {1, 2}
  min_train_days = 1
  test_days = 2
  min_train_rows = 8
  ValidPercent = 15
  PublicationTimes = {5, 9, 10, 12, 14}
  MaxPublications = 2
  MaxForecasts = 1
CHECK_DEADLOCK FALSE
INVARIANTS
  PeriodsAndInstantsCorrespond
  DecisionsSeeOnlyThePast
  ReplayMatchesLive
  EveryDayIsDecidedOnce
  ModelsTrainOnThePast
  SplitIsChronological
