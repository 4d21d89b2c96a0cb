CONSTANTS
  c1 = c1
  c2 = c2
  Calls = {c1, c2}
  ThreadsMayFail = FALSE
  DispatchMayFail = FALSE
SPECIFICATION Spec
CHECK_DEADLOCK FALSE
INVARIANT NoEchoOnFreedBase
