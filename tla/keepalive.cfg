CONSTANTS
  HEARTBEAT = 2
  READ = 7
  DELAY = 1
  LAG = 1
SPECIFICATION Spec
CHECK_DEADLOCK FALSE
INVARIANT IdleStaysUp
INVARIANT SilenceDetected
