CONSTANTS
  a1 = a1
  a2 = a2
  c1 = c1
  c2 = c2
  c3 = c3
  Callers = {a1}
  Loop = Loop
  AppCalls = {c1, c2}
  LoopCalls = {c3}
  NULL = NULL
  MaxBev = 1
  MaxId = 2
  Expire = 1
SPECIFICATION Spec
CHECK_DEADLOCK FALSE
SYMMETRY CallSymmetry
INVARIANT DoneOnce
INVARIANT NoStaleEntry
INVARIANT SentOnce
INVARIANT OnlyLockCycle
PROPERTY NoCallbackDropped
PROPERTY NoWriteAfterDone
