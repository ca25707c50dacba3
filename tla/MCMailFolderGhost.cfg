CONSTANTS
  Workers = {"a"}
  MaxUid = 3
  InitialMail = 1
  MaxModseq = 6
  MaxValidity = 1
  Date <- OneDate
  Floors = {0}
  Dialects = {"qresync"}
  FetchBatch = 1
  ChunkSize = 1
  MaxReclaims = 1
  MaxClears = 0
  MaxFaults = 0
SPECIFICATION Spec
INVARIANT ReconciledIsReconciled
