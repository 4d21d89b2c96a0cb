CONSTANTS
  Bodies <- SomeBodies
  Noise <- SomeNoise
  MaxByte = 4
  MaxSegments = 3
SPECIFICATION Spec
CHECK_DEADLOCK FALSE
INVARIANT NothingInvented
INVARIANT NothingHeldBack
