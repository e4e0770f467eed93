SPECIFICATION Spec
CONSTANTS
  Issues = {1, 2}
  Options <- ThreeKinds
  Environments <- DirtyAndResumed
  MaxCycles = 1
  MaxRetry = 2
  BatchBound = 2
  ResumeBound = 1
  CrashBound = 1
CHECK_DEADLOCK FALSE
PROPERTIES
  ConsentAfterResume
