SPECIFICATION Spec
CONSTANTS
  Trainers = {r1}
  Jobs = {j1}
  ApiThreads = {a1}
  MaxAge = 2
  Crashes = TRUE
  MaxBusy = 2
  MaxDay = 2
  MaxTrainings = 3
CHECK_DEADLOCK FALSE
INVARIANTS
  SettledRegistryIsOneTraining
  PairsMixOnlyWhenDisturbed
  MetadataIsNeverAhead
PROPERTIES
  ChecksKeepOnlyYoungModels
