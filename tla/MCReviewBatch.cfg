SPECIFICATION Spec
CONSTANTS
  r1 = r1
  Issues = {i1, i2}
  FirstIssue = i1
  Members = {r1, r2}
  MinReviews = 1
  NPass <- Once
  P2Fix = FALSE
  Grace = TRUE
  MaxCycles = 1
  Commands = {"resume"}
  RoundBound = 1
CHECK_DEADLOCK FALSE
SYMMETRY Reviewers
INVARIANTS
  CountedAreEffective
  ApprovedByQuorum
PROPERTIES
  ReviewersRemain
  PhaseImplemented
