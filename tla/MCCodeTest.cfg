SPECIFICATION FairSpec
CONSTANTS
  MaxRetry = 3
  Environments <- EveryEnvironment
  CodeBound = 2
  CrashBound = 2
  RetryBound = 3
CHECK_DEADLOCK FALSE
INVARIANTS
  TypeOK
  FixWithinLimit
  Apart
PROPERTIES
  ReviewedIsTested
  GateEnds
  GateImplemented
