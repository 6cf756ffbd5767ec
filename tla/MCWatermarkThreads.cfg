SPECIFICATION FairSpec
CONSTANTS
  Keys = {k1, k2}
  Processes = {1}
  t1 = t1
  t2 = t2
  Threads = {t1, t2}
  Home <- OneProcess
  LastDate = 2
  MaxCalls = 3
CHECK_DEADLOCK FALSE
INVARIANTS
  FinishedCallsAreRecorded
PROPERTIES
  EveryCallEnds
