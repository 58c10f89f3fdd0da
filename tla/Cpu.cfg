SPECIFICATION Spec
CONSTANTS
  p1 = p1
  p2 = p2
  p3 = p3
  Pids = {p1, p2, p3}
  Child = p1
  InitPid = InitPid
  Strangers = {2}
  MaxForks = 4
  MaxCpu = 1
SYMMETRY MCSymmetry
CHECK_DEADLOCK FALSE
INVARIANTS
  TypeOK
  NeverOvercharged
  RoundFindsTheSteady
PROPERTIES
  CountedStaysCounted
