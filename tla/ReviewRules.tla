----------------------------- MODULE ReviewRules -----------------------------
(***************************************************************************)
(* The rules by which one review phase (design or code) of a batch is      *)
(* judged: who has to review, when there are enough reviews, what the      *)
(* verdicts lead to and what a finished revision wipes.  They are the pure *)
(* helpers of engine/reviewer.py and engine/fsm.py; ReviewCycle composes   *)
(* them into the phase's state machine.                                    *)
(***************************************************************************)
EXTENDS Integers, FiniteSets

CONSTANTS
  Issues,       \* issue numbers of the batch
  FirstIssue,   \* the issue the pipeline lists first
  Members,      \* phase_config["members"]
  MinReviews,   \* phase_config["min_reviews"], capped to the members
  NPass,        \* target_pass of every member (n_pass, 1 when not listed)
  P2Fix         \* the batch option p2_fix

ASSUME BatchAssumption ==
  /\ IsFiniteSet(Issues) /\ FirstIssue \in Issues
  /\ IsFiniteSet(Members)
  /\ MinReviews \in 1..Cardinality(Members)
  /\ NPass \in [Members -> Nat \ {0}]
  /\ P2Fix \in BOOLEAN

Verdicts == {"APPROVE", "P2", "P1", "P0", "REJECT"}
Blocking == {"P1", "P0", "REJECT"}

VERDICT_SEVERITY == [v \in Verdicts |-> CASE v = "APPROVE" -> 0
                                          [] v = "P2" -> 1
                                          [] v = "P1" -> 2
                                          [] OTHER -> 3]

(* A review entry.  pass is kept up to the reviewer's target, the only     *)
(* value it is compared with.  fresh: recorded since the N-pass state was  *)
(* entered.  late: written for a round that had already ended (history).   *)
Entry == [verdict : Verdicts \cup {"none"}, pass : Nat,
          fresh : BOOLEAN, late : BOOLEAN]

NoReview == [verdict |-> "none", pass |-> 0, fresh |-> FALSE, late |-> FALSE]

Least(m, n) == IF m <= n THEN m ELSE n

-----------------------------------------------------------------------------
(* Who has to review *)

Effective(excluded) == Members \ excluded

(* Mutant of MinRev: every excluded member lowers the quorum by one. *)
MutantMinRev(excluded, override) ==
  MinReviews - Cardinality(excluded)

(* The quorum of check_transition.  An override (0 when none is stored for *)
(* this phase, the value the code ignores too) only ever lowers it.        *)
MinRev(excluded, override) ==
  LET eff  == Cardinality(Effective(excluded))
      base == Least(MinReviews, eff)
  IN  CASE eff = 0                 -> MinReviews
        [] override \in 1..(base - 1) -> override
        [] OTHER                   -> base

(* The override that exclude and the reviewer reset store: clamp or none.  *)
ClampOverride(excluded) ==
  LET eff == Cardinality(Effective(excluded))
  IN  IF eff < MinReviews THEN eff ELSE 0

(* The override stored when silent reviewers are dropped, if any is left.  *)
SilentOverride(excluded, override) ==
  LET eff == Cardinality(Effective(excluded))
  IN  IF eff = 0 THEN override ELSE Least(MinReviews, eff)

-----------------------------------------------------------------------------
(* What has been said *)

Reviewed(rv, i) == {r \in Members : rv[i][r].verdict # "none"}

(* Mutant of CountAtLeast: the maximum over the issues. *)
MutantCountAtLeast(rv, n) == \E i \in Issues : Cardinality(Reviewed(rv, i)) >= n

(* count_reviews: the minimum over the issues is at least n. *)
CountAtLeast(rv, n) == \A i \in Issues : Cardinality(Reviewed(rv, i)) >= n

HasVerdict(rv, vs) == \E i \in Issues, r \in Members : rv[i][r].verdict \in vs

(* Reviewers that owe another pass on some issue. *)
Laggards(rv) ==
  {r \in Members : \E i \in Issues : /\ rv[i][r].verdict # "none"
                                     /\ rv[i][r].pass < NPass[r]}

Responded(rv) == UNION {Reviewed(rv, i) : i \in Issues}

(* filed[i][r] is the verdict under an open dispute ("none" if there is    *)
(* none); accepted holds the pairs whose dispute ended in a milder verdict *)
(* other than APPROVE.  An accepted dispute's reviewer is awaited while    *)
(* the review it removed has not been replaced.                            *)
AwaitingDispute(rv, filed, accepted, excluded) ==
  {r \in Effective(excluded) : \E i \in Issues :
      \/ filed[i][r] # "none"
      \/ <<i, r>> \in accepted /\ rv[i][r].verdict = "none"}

-----------------------------------------------------------------------------
(* What it leads to *)

(* Mutant of Outcome: one more cycle before BLOCKED. *)
MutantOutcome(blocking, p2, count, max) ==
  CASE blocking /\ count > max          -> "BLOCKED"
    [] blocking /\ count <= max         -> "REVISE"
    [] ~blocking /\ P2Fix /\ p2 /\ count < max -> "REVISE"
    [] OTHER                            -> "APPROVED"

Outcome(blocking, p2, count, max) ==
  CASE blocking /\ count >= max          -> "BLOCKED"
    [] blocking /\ count < max           -> "REVISE"
    [] ~blocking /\ P2Fix /\ p2 /\ count < max -> "REVISE"
    [] OTHER                             -> "APPROVED"

NeedsRevision(rv, flags, i) ==
  \/ \E r \in Members : rv[i][r].verdict \in
        IF P2Fix THEN Blocking \cup {"P2"} ELSE Blocking
  \/ i \in flags

(* clear_reviews keeps only approvals that completed all their passes. *)
Kept(e, r) == e.verdict = "APPROVE" /\ e.pass >= NPass[r]

(* Mutant of ClearReviews: a round starts from a clean table. *)
MutantClearReviews(rv) == [i \in Issues |-> [r \in Members |-> NoReview]]

ClearReviews(rv) ==
  [i \in Issues |-> [r \in Members |->
      IF Kept(rv[i][r], r) THEN rv[i][r] ELSE NoReview]]

(* What r's verdict v leaves in the pipeline; the pass counts on. *)
Recorded(e, r, v, fresh, late) ==
  [verdict |-> v, pass |-> Least(e.pass + 1, NPass[r]),
   fresh |-> fresh, late |-> late]

Stale(rv) ==
  [i \in Issues |-> [r \in Members |-> [rv[i][r] EXCEPT !.fresh = FALSE]]]

Put(rv, i, r, e) == [rv EXCEPT ![i] = [@ EXCEPT ![r] = e]]
=============================================================================
