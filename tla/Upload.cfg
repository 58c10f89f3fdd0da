SPECIFICATION Spec
CONSTANTS
  Bytes <- MCBytes
  Continuation <- MCContinuation
  Slash = "/"
  Files = {"long", "short", "other"}
  Size <- MCSize
  Folders <- MCFolders
  NewNames <- MCNewNames
  MakefileName <- MCMakefile
  UploadMbFactor = 1
  UploadFileFactor = 1
  BalanceShown = 5
  MaxEdits = 3
  MaxPosts = 2
CHECK_DEADLOCK FALSE
INVARIANTS
  TypeOK
  FilesAreTheParts
  QuoteIsCharged
PROPERTIES
  DropKeepsCharacters
