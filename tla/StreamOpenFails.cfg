SPECIFICATION Spec
CONSTANTS
  BufferSize = 2
  Window = 2
  MaxOutput = 4
CHECK_DEADLOCK FALSE
INVARIANTS
  RunningJobOpens
