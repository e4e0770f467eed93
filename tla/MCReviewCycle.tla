---------------------------- MODULE MCReviewCycle ----------------------------
(* Instances of ReviewCycle for TLC.                                       *)
EXTENDS ReviewCycle, TLC

CONSTANT r1

(* Pass targets: nobody, r1 or everybody owes a second pass. *)
Once == [r \in Members |-> 1]
FirstTwice == [r \in Members |-> IF r = r1 THEN 2 ELSE 1]
Twice == [r \in Members |-> 2]

(* Members with equal targets are interchangeable. *)
Reviewers == Permutations(Members)
=============================================================================
