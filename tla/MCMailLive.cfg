CONSTANTS
  Workers = {"a", "b"}
  MaxUid = 2
  InitialMail = 2
  MaxModseq = 4
  MaxValidity = 2
  Date <- OneDate
  Floors = {0}
  Dialects = {"xym", "plain"}
  FetchBatch = 1
  ChunkSize = 1
  MaxReclaims = 1
  MaxClears = 1
  MaxFaults = 1
SPECIFICATION LiveSpec
INVARIANTS ReconciledIsReconciled GmailCurrent
PROPERTIES FolderSettles GmailSettles
CONSTANTS
  MaxMail = 3
  FirstMail = 2
  MaxRecords = 4
  ListSize = 1
  HistorySize = 1
  MaxGmailFaults = 1
