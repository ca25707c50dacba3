CONSTANTS
  Workers = {"a"}
  MaxUid = 3
  InitialMail = 2
  MaxModseq = 5
  MaxValidity = 1
  Date <- OneDate
  Floors = {0}
  Dialects = {"qresync"}
  FetchBatch = 1
  ChunkSize = 1
  MaxReclaims = 1
  MaxClears = 1
  MaxFaults = 1
SPECIFICATION Spec
INVARIANT ClearOrphansNothing
