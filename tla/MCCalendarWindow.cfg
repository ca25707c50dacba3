SPECIFICATION CalSpec
CONSTANTS
  Events = {"e", "f"}
  Windows = {1, 2}
  CalWorkers = {"a", "b"}
  MaxCalChanges = 2
  MaxCalReclaims = 1
  MaxCalFaults = 0
INVARIANT RowsCoverWindow
