SPECIFICATION Spec
CONSTANTS
  MaxPending = 2
  MaxLines = 2
  MaxNoise = 1
  PipeRoom = 1
CHECK_DEADLOCK FALSE
INVARIANT ExitedWithoutFinal
