SPECIFICATION DurableSpec
CONSTANTS
  Ops = {1, 2}
  Kind <- AllSends
  Resource <- OneDraft
  DependsOn <- Chained
  MaxAttempts = 2
  TruthfulHost = FALSE
  MaxFaults = 3
INVARIANTS
  DeliveredOnce
  DependenciesFirst
  WithdrawnUnsent
PROPERTIES
  PromisesSurvive
CHECK_DEADLOCK FALSE
