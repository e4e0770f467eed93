SPECIFICATION Spec
CONSTANTS
  r1 = r1
  Issues = {i1}
  FirstIssue = i1
  Members = {r1}
  MinReviews = 1
  NPass <- FirstTwice
  P2Fix = TRUE
  Grace = TRUE
  MaxCycles = 1
  Commands = {"flag", "exclude", "resume", "force", "transition"}
  RoundBound = 1
CHECK_DEADLOCK FALSE
INVARIANTS
  TypeOK
PROPERTIES
  ApprovalsSurvive
