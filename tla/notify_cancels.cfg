CONSTANTS
  MaxCalls = 3
  MethodsMayFail = FALSE
  MethodsMayNotify = TRUE
SPECIFICATION Spec
CHECK_DEADLOCK FALSE
INVARIANT CanceledByClient
