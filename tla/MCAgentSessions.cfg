SPECIFICATION FairSpec
CONSTANTS
  Projects = {"A", "B"}
  Setups <- MCSetups
  LaunchBound = 8
  FaultBound = 1
CHECK_DEADLOCK FALSE
INVARIANTS
  OneWriter
PROPERTIES
  FreshAfterReset
  RequestServed
