SPECIFICATION Spec
CONSTANTS
  ByteBits = 2
  PostfixLength = 2
  HashLength = 2
  Challenges = {"easy", "late", "hard"}
  Difficulty <- MCDifficulty
  Hash <- MCHash
  LoopAttempts = 3
  SigningSalt = "pandoc-proof-of-work"
  UnsigningSalt = "itsdangerous.Signer"
  MaxCommands = 3
INVARIANTS
  TypeOK
  ReportsAreTrue
PROPERTIES
  SearchEnds
  StopEnds
CHECK_DEADLOCK FALSE
