SPECIFICATION FairSpec
CONSTANTS
  Issues = {1, 2}
  Options <- ThreeKinds
  Environments <- EveryEnvironment
  MaxCycles = 1
  MaxRetry = 2
  BatchBound = 2
  ResumeBound = 1
  CrashBound = 1
CHECK_DEADLOCK FALSE
INVARIANTS
  TypeOK
  ReviewedIsCommitted
  FreshBatch
  OneAgent
PROPERTIES
  ConsentForThisCode
  BatchEnds
  LifeImplemented
