SPECIFICATION TransportSpec
CONSTANTS
  Clients = {1, 2, 3}
  MaxConnections = 2
  MaxInvalidates = 1
  PoolBudgets <- Budgets
  Requests = {1, 2, 3}
  Ceilings = {0, 2}
  MaxPieces = 2
  Attempts = 3
  BaseDelay = 4
  DelayCeiling = 6
  WaitBudget = 9
  StatedJitter = 1
  AbsorbsStated = 4
  StatedWaits = {0, 4, 5}
  LateStatuses = {"502", "503"}
INVARIANTS
  SocketsWithinCeiling BudgetBalances NobodyStranded SupersededNotReused FloorUnlessLowered
  WakeupsCoverLanes
  HandedOverFirst AppliedOnce NotReceivedIsUnapplied WaitsBounded
PROPERTIES AcquireAnswered RequestServed
CHECK_DEADLOCK FALSE
