CONSTANTS
  Workers = {"a", "b"}
  MaxUid = 3
  InitialMail = 2
  MaxModseq = 5
  MaxValidity = 2
  Date <- SecondOld
  Floors = {0, 1}
  Dialects = {"qresync", "xym", "plain"}
  FetchBatch = 1
  ChunkSize = 1
  MaxReclaims = 1
  MaxClears = 1
  MaxFaults = 1
SPECIFICATION Spec
CONSTRAINT OneAtATime
INVARIANTS TypeOK NothingSkipped NothingStale ClearRefetches
