SPECIFICATION FairSpec
CONSTANTS
  Window = 2
  MaxSamples = 3
CHECK_DEADLOCK FALSE
INVARIANTS
  TypeOK
  ReloadFindsRecord
PROPERTIES
  StopIsHeard
  EndIsSeen
