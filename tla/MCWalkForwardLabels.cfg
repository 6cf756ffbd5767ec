SPECIFICATION Spec
CONSTANTS
  LastDay = 4
  Midnights <- MCMidnights
  NormalLength = 4
  ShiftTick = 1
  Horizons = {"D-1"}
  Offset <- MCOffset
  Areas = {1}
  LagDays = {1}
  min_train_days = 1
  test_days = 2
  min_train_rows = 4
  ValidPercent = 15
  PublicationTimes = {5, 9, 10, 12, 14}
  MaxPublications = 1
  MaxForecasts = 0
CHECK_DEADLOCK FALSE
INVARIANT LabelsWereKnown
