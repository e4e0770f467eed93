----------------------------- MODULE MCCodeTest -----------------------------
(* Instances of CodeTest for TLC.                                          *)
EXTENDS CodeTestClaims

(* Nobody interferes but crashes; the owner also blocks; the owner resumes  *)
(* and resets; everything.                                                  *)
EveryEnvironment ==
  {{"crash"}, {"crash", "block"}, {"block", "resume", "reset"}, Disturbances}

CrashAndResume == {{"crash", "resume"}}
=============================================================================
