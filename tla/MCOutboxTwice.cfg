SPECIFICATION Spec
CONSTANTS
  Ops = {1}
  Kind <- TwoSends
  Resource <- OneResource
  DependsOn <- Independent
  MaxAttempts = 2
  TruthfulHost = TRUE
  MaxFaults = 2
INVARIANTS
  NeverDeliveredTwice
CHECK_DEADLOCK FALSE
