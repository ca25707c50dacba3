SPECIFICATION FairSpec
CONSTANTS
  Ops = {1, 2, 3}
  Kind <- EveryKind
  Resource <- OneResource
  DependsOn <- Independent
  MaxAttempts = 2
  TruthfulHost = FALSE
  MaxFaults = 2
INVARIANTS
  TypeOK
  DeliveredOnce
  WithdrawnUnsent
  SucceededIsDelivered
  ResourceExclusive
  WriteAttemptsBounded
PROPERTIES
  SettledStays
  EventuallyResolved
  Implements
CHECK_DEADLOCK FALSE
