-------------------------- MODULE MCAgentSessions --------------------------
(* Instances of AgentSessions for TLC: agents with and without a fallback, *)
(* shared by two projects.                                                 *)
EXTENDS AgentSessions

Agent(home, target, allowed, n) ==
  [home |-> home, target |-> target, allowed |-> allowed, asks |-> n]

MCSetups ==
  {Agent("cc", "none", {"hand", "persist"}, 2),
   Agent("cc", "none", {"spawn", "die", "stubborn"}, 3),
   Agent("codex", "none", {"hand"}, 2),
   Agent("codex", "none", {"hang", "die", "persist"}, 3),
   Agent("codex", "cc", {"expire"}, 2),
   Agent("agy", "none", {"hand", "stubborn"}, 3),
   Agent("agy", "kimi", {"hang", "persist"}, 2),
   Agent("gemini", "cc", {"expire"}, 2),
   Agent("kimi", "pi", {"die"}, 2),
   Agent("cci", "none", {"hang"}, 2),
   Agent("cc", "none", {"hand", "kill"}, 2),
   Agent("codex", "none", {"hand", "kill"}, 2),
   Agent("agy", "none", {"kill"}, 3),
   Agent("agy", "none", {"persist", "stubborn"}, 3),
   Agent("kimi", "none", {"kill"}, 2),
   Agent("codex", "pi", {"kill"}, 2)}
=============================================================================
