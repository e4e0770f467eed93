SPECIFICATION FairSpec
CONSTANTS
  Projects = {"a", "b"}
  Entries = {"a1", "a2", "b1", "w"}
  Lane <- LaneOf
  Wait = "wait"
  QueueFiles <- TwoFiles
  Environments <- EveryEnvironment
  KickBound = 2
  CrashBound = 1
CHECK_DEADLOCK FALSE
INVARIANTS
  TypeOK
  NothingLost
  OneEntryABatch
  OptionsBeforeWork
PROPERTIES
  QueueDrains
  FifoImplemented
