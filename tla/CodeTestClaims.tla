--------------------------- MODULE CodeTestClaims ---------------------------
(* What the README says of the test gate and the code does not do; checked  *)
(* by a run in which TLC finds the behaviour that contradicts it.           *)
EXTENDS CodeTest

(* README.md: CODE_TEST ensures tests pass before transitioning to          *)
(* CODE_REVIEW, after CODE_REVISE too.  A test left over from before a      *)
(* BLOCKED is polled in the CODE_TEST of the next version if the watchdog   *)
(* dies before it has started the new one.                                  *)
TestedBeforeReview ==
  [][state # "CODE_REVIEW" /\ state' = "CODE_REVIEW" => passed = code]_vars
=============================================================================
