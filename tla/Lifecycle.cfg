SPECIFICATION FairSpec
CONSTANTS
  o1 = o1
  o2 = o2
  u1 = u1
  Orders = {o1, o2}
  Users = {u1}
  Owner <- MCOwner
  Costs = {2}
  InitialBalance = 1
  ChannelCapacity = 2
  QueriedOrders = {o1}
  MaxQueuedPrunes = 1
  MaxSpawnedPrunes = 1
  MaxFaults = 2
  MaxExits = 1
INVARIANTS
  TypeOK
  StatusNullIffRunning
  LedgerBalanced
  EveryJobSupervised
  WorkerHasRow
  RowHasDirectory
PROPERTIES
  RecordIsFinal
  ImplementsLedger
  AnswerIsTrue
  AnsweredOrderSettles
