CONSTANTS
  a1 = a1
  a2 = a2
  c1 = c1
  c2 = c2
  c3 = c3
  Callers = {a1}
  Loop = Loop
  AppCalls = {c1}
  LoopCalls = {}
  NULL = NULL
  MaxBev = 1
  MaxId = 1
  Expire = 1
SPECIFICATION FairSpec
CHECK_DEADLOCK FALSE
PROPERTY DoneCalled
