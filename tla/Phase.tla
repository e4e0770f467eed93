------------------------------- MODULE Phase --------------------------------
(***************************************************************************)
(* What a review phase promises to the rest of the pipeline: it is approved *)
(* only while no reviewer objects, it asks for no more revisions than are   *)
(* left, and what was objected to is gone when a new round begins.          *)
(* ReviewCycle implements it; DevPipeline is built on it.                   *)
(***************************************************************************)
EXTENDS Integers

CONSTANT MaxCycles   \* revisions that a resume can grant

VARIABLES
  mode,      \* where the phase is; "OUT" when the batch is not in it
  objected,  \* some issue has a P0, P1 or REJECT
  left       \* revisions left

Open == {"REVIEW", "NPASS", "REVISE"}

Init == mode = "REVIEW" /\ objected = FALSE /\ left = MaxCycles

(* Reviewers speak, and take back what a dispute convinced them of. *)
Speak == mode \in Open /\ objected' \in BOOLEAN /\ UNCHANGED <<mode, left>>

EnterNpass ==
  /\ mode = "REVIEW"
  /\ mode' = "NPASS"
  /\ UNCHANGED <<objected, left>>

Approve ==
  /\ mode \in {"REVIEW", "NPASS"}
  /\ ~objected
  /\ mode' = "APPROVED"
  /\ UNCHANGED <<objected, left>>

AskRevision ==
  /\ mode \in {"REVIEW", "NPASS"}
  /\ left > 0
  /\ mode' = "REVISE"
  /\ left' = left - 1
  /\ UNCHANGED objected

Resubmit ==
  /\ mode = "REVISE"
  /\ mode' = "REVIEW"
  /\ objected' = FALSE
  /\ UNCHANGED left

(* No revision is left, or somebody took too long. *)
GiveUp ==
  /\ mode \in Open
  /\ mode' = "BLOCKED"
  /\ objected' \in {objected, FALSE}
  /\ UNCHANGED left

(* The owner resumes.  A review that was interrupted counts as a revision,  *)
(* and after anything but a timeout more revisions are granted.             *)
Reopen ==
  /\ mode = "BLOCKED"
  /\ mode' = "REVISE"
  /\ left' \in {left - 1, left, left + MaxCycles - 1, left + MaxCycles}
  /\ UNCHANGED objected

Decide == EnterNpass \/ Approve \/ AskRevision \/ GiveUp
Next == Speak \/ Decide \/ Resubmit \/ Reopen

Spec == Init /\ [][Next]_<<mode, objected, left>>
=============================================================================
