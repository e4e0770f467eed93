SPECIFICATION Spec
CONSTANTS
  MaxRetry = 2
  Environments <- CrashAndResume
  CodeBound = 2
  CrashBound = 1
  RetryBound = 2
CHECK_DEADLOCK FALSE
PROPERTIES
  TestedBeforeReview
