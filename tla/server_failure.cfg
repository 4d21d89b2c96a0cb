CONSTANTS
  MaxCalls = 3
  MethodsMayFail = TRUE
  MethodsMayNotify = FALSE
SPECIFICATION Spec
CHECK_DEADLOCK FALSE
INVARIANT FailureReachesClient
