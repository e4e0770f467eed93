----------------------------- MODULE MCSpecCycle -----------------------------
(* Instances of SpecCycle for TLC.                                         *)
EXTENDS SpecCycle

CONSTANTS r1, r2

SomeOptions ==
  {{}, {"auto_continue"}, {"review_only"}, {"skip_review", "no_queue"}}
EveryEnvironment ==
  {{"fail", "busy"}, {"busy", "crash"}, {"owner", "fail"}, {"late"}}
=============================================================================
