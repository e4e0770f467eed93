SPECIFICATION FairSpec
CONSTANTS
  r1 = r1
  Issues = {i1}
  FirstIssue = i1
  Members = {r1, r2}
  MinReviews = 1
  NPass <- Twice
  P2Fix = TRUE
  Grace = TRUE
  MaxCycles = 2
  Commands = {"exclude"}
  RoundBound = 2
CHECK_DEADLOCK FALSE
INVARIANTS
  CycleBudget
PROPERTIES
  PhaseEnds
