SPECIFICATION FairSpec
CONSTANTS
  Threads = {t1, t2}
  Lifetimes = {3, 5}
  Margin = 2
  Timeout = 1
  MaxRetries = 2
  MaxTime = 6
  MaxCalls = 3
CHECK_DEADLOCK FALSE
INVARIANTS
  TokenOutlivesRequest
  OneRefreshAtATime
PROPERTIES
  EveryRequestEnds
