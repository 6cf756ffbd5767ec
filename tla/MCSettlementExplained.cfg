SPECIFICATION Spec
CONSTANTS
  NaN = NaN
  Fallback = 0
  Penalty = 0
  Multipliers <- MCMultipliers
  c1 = c1
  c2 = c2
  Callers = {c1, c2}
  Periods = {1, 2}
  DayOf <- MCDayOf
  AsOf <- MCAsOf
  Forecast <- MCForecast
  Features <- MCFeatures
  ChargeValues <- MCChargeValues
  MaxTime = 2
  MaxCharges = 2
  MaxParts = 2
SYMMETRY Symmetry
CHECK_DEADLOCK FALSE
INVARIANT DecisionsAreExplained
