CONSTANTS
  t1 = t1
  t2 = t2
  t3 = t3
  t4 = t4
  EchoThreads = {t1, t2, t3, t4}
  START = 1
  STEP = 1
  MICRO = 8
  MILLI = 4
  INT_HALF = 32
SPECIFICATION EchoSpec
CHECK_DEADLOCK FALSE
SYMMETRY ThreadSymmetry
INVARIANT OneStepAtLeast
INVARIANT NoOverflowBeforeMany
