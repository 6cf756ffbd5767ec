SPECIFICATION Spec
CONSTANTS
  None = None
  NaN = NaN
  Scale = 4
  Bins = 3
  Levels = {1, 5, 9}
  Years <- MCYears
  WalkedYears <- MCWalkedYears
  MaxWindow = 3
  MaxGroups = 3
  MaxSample = 4
  BookRows <- MCBookRows
  Loads <- MCLoads
  MaxBook = 3
  FrameRows <- MCFrameRows
  MaxFrame = 5
  HoursOfADay = 2
  LocalParts <- MCLocalParts
  ValidPercent = 20
  TestPercent = 40
  Fallback = 1
  Penalty = 0
  Multipliers <- MCMultipliers
CHECK_DEADLOCK FALSE
INVARIANTS
  EasterIsComputus
  WindowsWithinARegimeAreUniform
  PrintedNumbersAreReadBack
  AucIsPairwise
  CalibrationAccountsForAllRows
  QuantilesScoreBest
  DrawdownIsWorstStretch
  GoSurvivesLowerCharges
  AttributionAgreesWithReport
  
PROPERTIES
  HolidaysAreCountedDown
