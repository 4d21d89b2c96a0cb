CONSTANTS
  MaxCalls = 3
  MethodsMayFail = TRUE
  MethodsMayNotify = TRUE
SPECIFICATION FairSpec
CHECK_DEADLOCK FALSE
INVARIANT ToldTrue
PROPERTY EachCallTold
