---------------------------- MODULE MCTaskQueue -----------------------------
(* Instances of TaskQueue for TLC.                                         *)
EXTENDS TaskQueue

LaneOf(e) == CASE e \in {"a1", "a2"} -> "a" [] e = "b1" -> "b" [] OTHER -> "wait"

TwoFiles == {<<"a1", "w", "b1", "a2">>, <<"a1", "a2">>}

EveryEnvironment ==
  {{"closed", "discord"}, {"closed", "fail"}, {"fail", "discord", "block"},
   {"flaky", "fail"}, {"flaky", "discord"}, {"busy", "fail"},
   {"loop", "discord"}, {"qadd", "fail"}, {"edit", "qadd"},
   {"start", "closed"}, {"hand", "start"}, {"hand", "fail"}, {"hand", "loop"},
   {"crash", "fail"}}
(* Issues are seen to be closed only after the pop. *)
JustFlaky == {{"flaky"}}
=============================================================================
