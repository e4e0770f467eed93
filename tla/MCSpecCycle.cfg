SPECIFICATION FairSpec
CONSTANTS
  r1 = r1
  r2 = r2
  Reviewers = {r1, r2}
  Impl = impl
  MinValid = 2
  StartRevs = {1, 3}
  MaxCycles = 2
  Passes = 2
  MaxRetries = 1
  Options <- SomeOptions
  Environments <- EveryEnvironment
  RevBound = 3
  DraftBound = 2
  FaultBound = 2
  CmdBound = 1
CHECK_DEADLOCK FALSE
INVARIANTS
  TypeOK
  OnlyFailuresCount
PROPERTIES
  CheckedBeforeReview
  ApprovedOnEvidence
  SpecEnds
