SPECIFICATION FairSpec
CONSTANTS
  Reviewers = {"r1", "r2"}
  TransitionBound = 4
  ForcedTo = {"REVISE"}
  FaultBound = 1
CHECK_DEADLOCK FALSE
PROPERTIES
  RecoveryKeepsNewer
  DeliveredInTheEnd
