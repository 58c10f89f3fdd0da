SPECIFICATION FairJobSpec
CONSTANTS
  Balance = 2
  WallRate = 1
  Allowed = 3
  ClockMayStepBack = TRUE
  MaxLag = 2
  MaxTime = 12
  MaxUsage = 2
CHECK_DEADLOCK FALSE
INVARIANTS
  JobTypeOK
  RecordIsTrue
  GraceIsGranted
PROPERTIES
  AlwaysReturns
