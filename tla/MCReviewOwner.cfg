SPECIFICATION Spec
CONSTANTS
  r1 = r1
  Issues = {i1}
  FirstIssue = i1
  Members = {r1, r2}
  MinReviews = 1
  NPass <- FirstTwice
  P2Fix = TRUE
  Grace = TRUE
  MaxCycles = 1
  Commands = {"flag", "exclude", "resume"}
  RoundBound = 2
CHECK_DEADLOCK FALSE
INVARIANTS
  ApprovedClean
  NoLateVerdict
PROPERTIES
  SettledBeforeApproval
