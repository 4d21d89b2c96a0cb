CONSTANTS
  MaxCalls = 3
  PERIOD = 2
  LIMIT = 3
  HALF = 6
  LAG = 1
  MaxSteps = 1
SPECIFICATION FairSpec
CHECK_DEADLOCK FALSE
INVARIANT InTime
PROPERTY NotEarly
PROPERTY OverInTheEnd
