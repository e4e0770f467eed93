---------------------------- MODULE MCDevPipeline ----------------------------
(* Instances of DevPipeline for TLC.                                       *)
EXTENDS DevPipelineClaims

(* A whole batch, one with every short cut, one implemented by hand. *)
Whole  == [skipDesign |-> FALSE, skipAssess |-> FALSE, noCc |-> FALSE,
           exclude |-> "high", test |-> TRUE, automerge |-> FALSE]
Short  == [skipDesign |-> TRUE, skipAssess |-> TRUE, noCc |-> FALSE,
           exclude |-> "none", test |-> FALSE, automerge |-> TRUE]
ByHand == [skipDesign |-> TRUE, skipAssess |-> FALSE, noCc |-> TRUE,
           exclude |-> "any", test |-> FALSE, automerge |-> FALSE]
ThreeKinds == {Whole, Short, ByHand}

EveryEnvironment ==
  {{"crash"}, {"die", "post", "dirty", "block", "resume"}, {"post", "reset"},
   {"post", "summary"}}
(* A batch blocked over a dirty tree is resumed. *)
DirtyAndResumed == {{"dirty", "resume", "leftover"}}
=============================================================================
