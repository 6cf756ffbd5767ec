SPECIFICATION Spec
CONSTANTS
  Fans <- SmallFans
  Charges = {0, 1, 4}
  Loads = {0, 1, 6}
  Probs = {48, 60}
  Days = {1, 2}
  Eta = 1
  Aggr = 100
  Step = 2
  MinEdge = 1
  Doubt = 14
  Deadband = 5
  PctLoad = 1
  MtuCap = 3
  DailyCap = 4
  CvarLimit = 10
  MaxRows = 2
CHECK_DEADLOCK FALSE
INVARIANT MarginsAreNotOverstated
