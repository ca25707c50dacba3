SPECIFICATION SendSpec
CONSTANTS
  MaxPieces = 2
  Attempts = 3
  BaseDelay = 4
  DelayCeiling = 6
  WaitBudget = 9
  StatedJitter = 1
  AbsorbsStated = 4
  StatedWaits = {0, 4, 5}
  LateStatuses = {"502", "503"}
INVARIANT RefusedIsUnapplied
CHECK_DEADLOCK FALSE
