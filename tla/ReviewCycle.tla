----------------------------- MODULE ReviewCycle -----------------------------
(***************************************************************************)
(* One review phase of a batch, from the moment DESIGN_REVIEW or           *)
(* CODE_REVIEW is entered until the phase is approved or the pipeline is   *)
(* BLOCKED.  The state is the part of the pipeline JSON the phase uses;    *)
(* every action is one update_pipeline transaction: a CLI command of a     *)
(* reviewer, the implementer or the owner, or the locked half of one       *)
(* watchdog tick, which re-evaluates check_transition on the locked data.  *)
(* The clock is the environment: a deadline passes at any moment.          *)
(***************************************************************************)
EXTENDS ReviewRules

CONSTANTS
  Grace,        \* grace_period_sec > 0
  MaxCycles,    \* MAX_REVISE_CYCLES
  Commands,     \* the owner's commands a behaviour may use
  RoundBound    \* bound: the owner's commands stop opening rounds and
                \* enlarging the budget here

OwnerCommands == {"flag", "exclude", "resume", "force", "transition"}

ASSUME CycleAssumption ==
  /\ Grace \in BOOLEAN
  /\ MaxCycles \in Nat \ {0}
  /\ Commands \subseteq OwnerCommands
  /\ RoundBound \in Nat

VARIABLES
  state,        \* state, without its DESIGN_/CODE_ prefix
  reviews,      \* design_reviews / code_reviews of every issue
  revised,      \* issues with design_revised / code_revised
  flags,        \* issues with an unresolved P0 flag of this phase
  filed,        \* verdict under a pending dispute, per issue and reviewer
  accepted,     \* disputes accepted with a verdict other than APPROVE
  excluded,     \* excluded_reviewers
  override,     \* min_reviews_override of this phase, 0 when absent
  reviseCount,  \* design_revise_count / code_revise_count
  maxCycles,    \* max_*_revise_cycles, MaxCycles when absent
  targets,      \* _npass_target_reviewers
  metAt,        \* *_min_reviews_met_at: absent, set, or set a grace ago
  overdue,      \* the state's timer (with extensions) has run out
  blocked,      \* history's origin of BLOCKED and blocked_reason
  prompted,     \* who holds a review command of the round in progress
  spent         \* history: who holds one of a round that is over

disputeVars == <<filed, accepted>>
quorumVars  == <<excluded, override>>
budgetVars  == <<reviseCount, maxCycles>>
historyVars == <<prompted, spent>>
vars == <<state, reviews, revised, flags, disputeVars, quorumVars, budgetVars,
          targets, metAt, overdue, blocked, historyVars>>

States == {"REVIEW", "NPASS", "REVISE", "APPROVED", "BLOCKED"}
NotBlocked == [from |-> "none", reason |-> "none"]

TypeOK ==
  /\ state \in States
  /\ reviews \in [Issues -> [Members -> Entry]]
  /\ revised \subseteq Issues
  /\ flags \subseteq Issues
  /\ filed \in [Issues -> [Members -> {"none", "P1", "P0"}]]
  /\ accepted \subseteq Issues \X Members
  /\ excluded \subseteq Members
  /\ override \in Nat
  /\ reviseCount \in Nat
  /\ maxCycles \in Nat
  /\ targets \subseteq Members
  /\ metAt \in {"absent", "running", "expired"}
  /\ overdue \in BOOLEAN
  /\ blocked \in [from : States \cup {"none"},
                  reason : {"none", "timeout", "other"}]
  /\ prompted \subseteq Members
  /\ spent \subseteq Members \X Nat

-----------------------------------------------------------------------------
(* get_current_round: the --round number of the prompts of this round. *)
CurrentRound == reviseCount + 1

Quorum == CountAtLeast(reviews, MinRev(excluded, override))
AllIn  == CountAtLeast(reviews, Cardinality(Effective(excluded)))
GraceApplies ==
  Grace /\ MinRev(excluded, override) < Cardinality(Effective(excluded))
Ready == Quorum /\ (AllIn \/ ~GraceApplies \/ metAt = "expired")
Awaiting == AwaitingDispute(reviews, filed, accepted, excluded)

(* The phase starts with the reviewers that failed the reset's ping left   *)
(* out and, perhaps, flags the owner raised earlier in the phase.          *)
Init ==
  /\ state = "REVIEW"
  /\ reviews = [i \in Issues |-> [r \in Members |-> NoReview]]
  /\ revised = {}
  /\ flags \in IF "flag" \in Commands THEN SUBSET Issues ELSE {{}}
  /\ filed = [i \in Issues |-> [r \in Members |-> "none"]]
  /\ accepted = {}
  /\ excluded \in SUBSET Members
  /\ override = ClampOverride(excluded)
  /\ reviseCount = 0
  /\ maxCycles = MaxCycles
  /\ targets = {}
  /\ metAt = "absent"
  /\ overdue = FALSE
  /\ blocked = NotBlocked
  /\ prompted = Effective(excluded)
  /\ spent = {}

-----------------------------------------------------------------------------
(* Reviewers: gokrax review *)

Resolve(i, r, v) ==
  /\ filed' = Put(filed, i, r, "none")
  /\ accepted' =
       IF v # "APPROVE" /\ VERDICT_SEVERITY[v] < VERDICT_SEVERITY[filed[i][r]]
       THEN accepted \cup {<<i, r>>} ELSE accepted

(* The review command of r for issue i arrives in a review state.  It may   *)
(* be late, given out in a round that is over; the round number rejects it   *)
(* unless it is the current one.  In REVIEW it also answers an open dispute. *)
ReviewArrives(r, i, v, late, force) ==
  /\ state \in {"REVIEW", "NPASS"}
  /\ IF late THEN <<r, CurrentRound>> \in spent ELSE r \in prompted
  /\ LET e == reviews[i][r]
         disputed == state = "REVIEW" /\ filed[i][r] # "none"
     IN  /\ \/ e.verdict = "none" \/ disputed
            \/ force \/ e.pass < NPass[r]
         /\ reviews' = Put(reviews, i, r,
                           Recorded(e, r, v, state = "NPASS", late))
         /\ IF disputed THEN Resolve(i, r, v) ELSE UNCHANGED disputeVars
  /\ UNCHANGED <<state, revised, flags, quorumVars, budgetVars, targets,
                 metAt, overdue, blocked, historyVars>>

(* r answers an open dispute during REVISE (review --force).  A milder     *)
(* verdict removes the review, so that the next round asks for a new one;  *)
(* any other verdict replaces it.                                          *)
DisputeAnswered(r, i, v) ==
  /\ state = "REVISE"
  /\ filed[i][r] # "none"
  /\ LET milder == VERDICT_SEVERITY[v] < VERDICT_SEVERITY[filed[i][r]]
     IN  reviews' = Put(reviews, i, r,
                        IF milder THEN NoReview
                        ELSE Recorded(reviews[i][r], r, v, FALSE, FALSE))
  /\ Resolve(i, r, v)
  /\ UNCHANGED <<state, revised, flags, quorumVars, budgetVars, targets,
                 metAt, overdue, blocked, historyVars>>

Review ==
  \E r \in Members, i \in Issues, v \in Verdicts :
    \/ \E late, force \in BOOLEAN : ReviewArrives(r, i, v, late, force)
    \/ DisputeAnswered(r, i, v)

-----------------------------------------------------------------------------
(* The implementer: gokrax dispute, gokrax design-revise / code-revise *)

(* Mutant of Dispute: a REJECT can be disputed as well. *)
MutantDispute(i, r) ==
  /\ state = "REVISE"
  /\ reviews[i][r].verdict \in Blocking
  /\ filed[i][r] = "none"
  /\ filed' = Put(filed, i, r, reviews[i][r].verdict)
  /\ UNCHANGED <<state, reviews, revised, flags, accepted, quorumVars,
                 budgetVars, targets, metAt, overdue, blocked, historyVars>>

Dispute(i, r) ==
  /\ state = "REVISE"
  /\ reviews[i][r].verdict \in {"P0", "P1"}
  /\ filed[i][r] = "none"
  /\ filed' = Put(filed, i, r, reviews[i][r].verdict)
  /\ UNCHANGED <<state, reviews, revised, flags, accepted, quorumVars,
                 budgetVars, targets, metAt, overdue, blocked, historyVars>>

Revise(i) ==
  /\ state = "REVISE"
  /\ revised' = revised \cup {i}
  /\ UNCHANGED <<state, reviews, flags, disputeVars, quorumVars, budgetVars,
                 targets, metAt, overdue, blocked, historyVars>>

Implementer == \E i \in Issues : Revise(i) \/ \E r \in Members : Dispute(i, r)

-----------------------------------------------------------------------------
(* The watchdog: the locked half of a tick *)

(* The round in progress is over. *)
EndRound ==
  /\ spent' = spent \cup (prompted \X {CurrentRound})
  /\ prompted' = {}

(* A review state ends in s.  Leaving it for REVISE opens a new round. *)
EndReview(s, reason) ==
  /\ state' = s
  /\ overdue' = FALSE
  /\ reviseCount' = IF s = "REVISE" THEN reviseCount + 1 ELSE reviseCount
  /\ EndRound
  /\ blocked' = IF s = "BLOCKED" THEN [from |-> state, reason |-> reason]
                ELSE NotBlocked
  /\ UNCHANGED <<revised, flags, disputeVars, maxCycles>>

(* Mutant of DropSilent: one missing review makes a reviewer silent. *)
MutantDropSilent ==
  LET silent == {r \in Effective(excluded) :
                   \E i \in Issues : reviews[i][r].verdict = "none"}
  IN  /\ excluded' = excluded \cup silent
      /\ override' = IF silent = {} THEN override
                     ELSE SilentOverride(excluded \cup silent, override)

(* REVIEW -> APPROVED/REVISE drops the members that did not answer at all. *)
DropSilent ==
  LET silent == Effective(excluded) \ Responded(reviews)
  IN  /\ excluded' = excluded \cup silent
      /\ override' = IF silent = {} THEN override
                     ELSE SilentOverride(excluded \cup silent, override)

(* An unresolved P0 flag ends the review at once. *)
FlagEndsReview ==
  /\ state = "REVIEW"
  /\ flags # {}
  /\ EndReview("REVISE", "none")
  /\ DropSilent
  /\ targets' = {}
  /\ UNCHANGED <<reviews, metAt>>

StartGrace ==
  /\ state = "REVIEW" /\ flags = {}
  /\ Quorum /\ ~Ready
  /\ metAt = "absent"
  /\ metAt' = "running"
  /\ UNCHANGED <<state, reviews, revised, flags, disputeVars, quorumVars,
                 budgetVars, targets, overdue, blocked, historyVars>>

Decidable == state = "REVIEW" /\ flags = {} /\ Ready /\ Awaiting = {}

(* Mutant of EnterNpass: in every round. *)
MutantEnterNpass ==
  /\ Decidable
  /\ Laggards(reviews) # {}
  /\ state' = "NPASS"
  /\ overdue' = FALSE
  /\ targets' = Laggards(reviews)
  /\ metAt' = "absent"
  /\ reviews' = Stale(reviews)
  /\ UNCHANGED <<revised, flags, disputeVars, quorumVars, budgetVars, blocked,
                 historyVars>>

(* In the first round a reviewer that owes another pass is asked for it. *)
EnterNpass ==
  /\ Decidable
  /\ reviseCount = 0 /\ Laggards(reviews) # {}
  /\ state' = "NPASS"
  /\ overdue' = FALSE
  /\ targets' = Laggards(reviews)
  /\ metAt' = "absent"
  /\ reviews' = Stale(reviews)
  /\ UNCHANGED <<revised, flags, disputeVars, quorumVars, budgetVars, blocked,
                 historyVars>>

Decide ==
  /\ Decidable
  /\ ~(reviseCount = 0 /\ Laggards(reviews) # {})
  /\ LET s == Outcome(HasVerdict(reviews, Blocking), HasVerdict(reviews, {"P2"}),
                      reviseCount, maxCycles)
     IN  /\ EndReview(s, "other")
         /\ IF s = "BLOCKED" THEN UNCHANGED quorumVars ELSE DropSilent
         /\ targets' = IF s = "REVISE" THEN {} ELSE targets
  /\ metAt' = "absent"
  /\ UNCHANGED reviews

(* Mutant of ReviewTimeout: a review held up by a dispute does not time out. *)
MutantReviewTimeout ==
  /\ state = "REVIEW" /\ flags = {}
  /\ overdue
  /\ ~Quorum
  /\ EndReview("BLOCKED", "timeout")
  /\ UNCHANGED <<reviews, quorumVars, targets, metAt>>

(* Too few reviews, or a disputed verdict nobody re-examined, in time. *)
ReviewTimeout ==
  /\ state = "REVIEW" /\ flags = {}
  /\ overdue
  /\ ~Quorum \/ (Ready /\ Awaiting # {})
  /\ EndReview("BLOCKED", "timeout")
  /\ UNCHANGED <<reviews, quorumVars, targets, metAt>>

(* While the review waits, whoever has not reviewed every issue is reminded, *)
(* with the command of this round.                                           *)
Nudge ==
  /\ state = "REVIEW" /\ flags = {}
  /\ ~overdue
  /\ ~Quorum \/ (Ready /\ Awaiting # {})
  /\ LET pending == {r \in Effective(excluded) :
                       \E i \in Issues : reviews[i][r].verdict = "none"}
     IN  /\ ~(pending \subseteq prompted)
         /\ prompted' = prompted \cup pending
  /\ UNCHANGED <<state, reviews, revised, flags, disputeVars, quorumVars,
                 budgetVars, targets, metAt, overdue, blocked, spent>>

(* N-pass: a target has submitted once every issue has a newer entry; the  *)
(* verdict that is looked at is the one on the batch's first issue.        *)
Submitted(r) == \A i \in Issues : reviews[i][r].fresh
Unfinished == {r \in targets : reviews[FirstIssue][r].pass < NPass[r]}
AllSubmitted == \A r \in targets : Submitted(r)
SubmittedBlocking ==
  \E r \in targets : Submitted(r) /\ reviews[FirstIssue][r].verdict \in Blocking

NextPass ==
  /\ state = "NPASS" /\ targets # {}
  /\ AllSubmitted /\ Unfinished # {}
  /\ overdue' = FALSE
  /\ targets' = Unfinished
  /\ reviews' = Stale(reviews)
  /\ UNCHANGED <<state, revised, flags, disputeVars, quorumVars, budgetVars,
                 metAt, blocked, historyVars>>

EndNpass(blocking, p2) ==
  LET s == Outcome(blocking, p2, reviseCount, maxCycles)
  IN  /\ EndReview(s, "other")
      /\ targets' = IF s = "BLOCKED" THEN targets ELSE {}
      /\ UNCHANGED <<reviews, quorumVars, metAt>>

(* Mutant of NpassDecide: the tally is over the pass's reviewers only. *)
MutantNpassDecide ==
  /\ state = "NPASS" /\ targets # {}
  /\ \/ AllSubmitted /\ Unfinished = {}
     \/ ~AllSubmitted /\ ~SubmittedBlocking /\ overdue
  /\ LET said(vs) == \E i \in Issues, r \in targets : reviews[i][r].verdict \in vs
     IN  EndNpass(said(Blocking), said({"P2"}))

NpassDecide ==
  /\ state = "NPASS" /\ targets # {}
  /\ \/ AllSubmitted /\ Unfinished = {}
     \/ ~AllSubmitted /\ ~SubmittedBlocking /\ overdue
  /\ EndNpass(HasVerdict(reviews, Blocking), HasVerdict(reviews, {"P2"}))

NpassEarly ==
  /\ state = "NPASS" /\ targets # {}
  /\ ~AllSubmitted /\ SubmittedBlocking
  /\ EndNpass(TRUE, FALSE)

(* Mutant of Wipe: the grace timer goes on. *)
MutantWipe ==
  /\ reviews' = ClearReviews(reviews)
  /\ revised' = {}
  /\ flags' = {}
  /\ UNCHANGED metAt

(* Leaving REVISE, by whatever road, wipes the verdicts that asked for it, *)
(* the revised marks, the phase's flags and the grace timer.               *)
Wipe ==
  /\ reviews' = ClearReviews(reviews)
  /\ revised' = {}
  /\ flags' = {}
  /\ metAt' = "absent"

AllRevised ==
  \A i \in Issues : NeedsRevision(reviews, flags, i) => i \in revised

ReReview ==
  /\ state = "REVISE"
  /\ AllRevised
  /\ state' = "REVIEW"
  /\ overdue' = FALSE
  /\ Wipe
  /\ prompted' = Effective(excluded)
  /\ UNCHANGED <<disputeVars, quorumVars, budgetVars, targets, blocked, spent>>

ReviseTimeout ==
  /\ state = "REVISE"
  /\ ~AllRevised /\ overdue
  /\ state' = "BLOCKED"
  /\ overdue' = FALSE
  /\ blocked' = [from |-> "REVISE", reason |-> "timeout"]
  /\ Wipe
  /\ UNCHANGED <<disputeVars, quorumVars, budgetVars, targets, historyVars>>

Watchdog ==
  \/ FlagEndsReview \/ StartGrace \/ EnterNpass \/ Decide \/ ReviewTimeout
  \/ Nudge \/ NextPass \/ NpassDecide \/ NpassEarly
  \/ ReReview \/ ReviseTimeout

(* Time passes. *)
TimerExpires ==
  /\ state \in {"REVIEW", "NPASS", "REVISE"} /\ ~overdue
  /\ overdue' = TRUE
  /\ UNCHANGED <<state, reviews, revised, flags, disputeVars, quorumVars,
                 budgetVars, targets, metAt, blocked, historyVars>>

GraceExpires ==
  /\ metAt = "running"
  /\ metAt' = "expired"
  /\ UNCHANGED <<state, reviews, revised, flags, disputeVars, quorumVars,
                 budgetVars, targets, overdue, blocked, historyVars>>

Clock == TimerExpires \/ GraceExpires


-----------------------------------------------------------------------------
(* The owner's commands *)

(* gokrax flag --verdict P0 *)
Flag(i) ==
  /\ "flag" \in Commands
  /\ state # "BLOCKED" /\ reviseCount < RoundBound
  /\ i \notin flags
  /\ flags' = flags \cup {i}
  /\ UNCHANGED <<state, reviews, revised, disputeVars, quorumVars, budgetVars,
                 targets, metAt, overdue, blocked, historyVars>>

(* gokrax exclude --add / --remove *)
Exclude(r) ==
  /\ "exclude" \in Commands
  /\ excluded' = IF r \in excluded THEN excluded \ {r} ELSE excluded \cup {r}
  /\ override' = ClampOverride(excluded')
  /\ UNCHANGED <<state, reviews, revised, flags, disputeVars, budgetVars,
                 targets, metAt, overdue, blocked, historyVars>>

(* Mutant of Resume: the interrupted round's number is used again. *)
MutantResume ==
  /\ "resume" \in Commands
  /\ state = "BLOCKED" /\ reviseCount < RoundBound /\ maxCycles <= RoundBound
  /\ state' = "REVISE"
  /\ overdue' = FALSE
  /\ maxCycles' = IF blocked.reason = "timeout" THEN maxCycles
                  ELSE maxCycles + MaxCycles
  /\ blocked' = NotBlocked
  /\ UNCHANGED <<reviews, revised, flags, disputeVars, quorumVars, reviseCount,
                 targets, metAt, historyVars>>

(* gokrax transition --resume: back to REVISE with the next round's number *)
(* if a review state was left, and a larger budget unless a timeout blocked. *)
Resume ==
  /\ "resume" \in Commands
  /\ state = "BLOCKED" /\ reviseCount < RoundBound /\ maxCycles <= RoundBound
  /\ state' = "REVISE"
  /\ overdue' = FALSE
  /\ reviseCount' = IF blocked.from \in {"REVIEW", "NPASS"}
                    THEN reviseCount + 1 ELSE reviseCount
  /\ maxCycles' = IF blocked.reason = "timeout" THEN maxCycles
                  ELSE maxCycles + MaxCycles
  /\ blocked' = NotBlocked
  /\ UNCHANGED <<reviews, revised, flags, disputeVars, quorumVars, targets,
                 metAt, historyVars>>

(* gokrax transition --force --to *_REVIEW restarts the cycle counter; the  *)
(* round in progress goes on if its number stays the same.                  *)
ForceReview ==
  /\ "force" \in Commands
  /\ state' = "REVIEW"
  /\ overdue' = FALSE
  /\ reviseCount' = 0
  /\ blocked' = NotBlocked
  /\ IF reviseCount = 0
     THEN /\ prompted' = prompted \cup Effective(excluded)
          /\ UNCHANGED spent
     ELSE /\ prompted' = Effective(excluded)
          /\ spent' = spent \cup (prompted \X {CurrentRound})
  /\ UNCHANGED <<reviews, revised, flags, disputeVars, quorumVars, maxCycles,
                 targets, metAt>>

(* gokrax transition along an edge of VALID_TRANSITIONS.  Only the cycle    *)
(* counter moves with the state: no targets, no wipe, nobody dropped.       *)
Edges == [REVIEW |-> {"APPROVED", "REVISE", "BLOCKED", "NPASS"},
          NPASS  |-> {"APPROVED", "REVISE", "NPASS"},
          REVISE |-> {"REVIEW"}]

Transition(t) ==
  /\ "transition" \in Commands
  /\ state \in DOMAIN Edges /\ t \in Edges[state]
  /\ reviseCount < RoundBound
  /\ state' = t
  /\ overdue' = FALSE
  /\ IF t = "REVISE" THEN reviseCount' = reviseCount + 1
     ELSE UNCHANGED reviseCount
  /\ blocked' = IF t = "BLOCKED" THEN [from |-> state, reason |-> "none"]
                ELSE blocked
  /\ IF t \in {"REVIEW", "NPASS"}
     THEN prompted' = prompted \cup Effective(excluded) /\ UNCHANGED spent
     ELSE EndRound
  /\ reviews' = IF t = "NPASS" THEN Stale(reviews) ELSE reviews
  /\ UNCHANGED <<revised, flags, disputeVars, quorumVars, maxCycles, targets,
                 metAt>>

Owner ==
  \/ \E i \in Issues : Flag(i)
  \/ \E r \in Members : Exclude(r)
  \/ Resume
  \/ ForceReview
  \/ \E t \in States : Transition(t)

-----------------------------------------------------------------------------
Next == Review \/ Implementer \/ Watchdog \/ Clock \/ Owner

Spec == Init /\ [][Next]_vars

(* The watchdog loop ticks for ever and time passes; nobody else has to act. *)
FairSpec == Spec /\ WF_vars(Watchdog) /\ WF_vars(Clock)

-----------------------------------------------------------------------------
(* Properties.  Each holds for the owner's commands its comment names; the  *)
(* runs and the theorems restrict Commands accordingly.                     *)

(* A phase is never approved over a P0, P1 or REJECT on any issue, nor,     *)
(* with p2_fix, over a P2 while revisions are left.  Any command but force  *)
(* and transition.  (_resolve_review_outcome from both review states.)      *)
ApprovedClean ==
  state = "APPROVED" =>
    /\ ~HasVerdict(reviews, Blocking)
    /\ P2Fix /\ HasVerdict(reviews, {"P2"}) => reviseCount >= maxCycles

(* Every issue of an approved phase carries the reviews of a whole quorum:  *)
(* the overrides stored by the reset and by dropping silent reviewers never *)
(* undercut min_reviews.  Commands: flag, resume.                           *)
ApprovedByQuorum ==
  state \in {"NPASS", "APPROVED"} =>
    \A i \in Issues :
      /\ Reviewed(reviews, i) # {}
      /\ Cardinality(Reviewed(reviews, i))
           >= Least(MinReviews, Cardinality(Effective(excluded)))

(* No verdict written for a round that has ended is counted in a later one, *)
(* through timeouts, BLOCKED and resumes.  Any command but force.           *)
NoLateVerdict == \A i \in Issues, r \in Members : ~reviews[i][r].late

(* Left to itself a phase never takes more than max revise cycles.          *)
(* Command: exclude.                                                        *)
CycleBudget == reviseCount <= maxCycles

(* What count_reviews counts comes from reviewers that are still wanted:    *)
(* nobody is dropped as silent, and no dispute or late answer readmitted,   *)
(* with a verdict on record.  Command: resume.                              *)
CountedAreEffective == Responded(reviews) \subseteq Effective(excluded)

(* Dropping silent reviewers always leaves a reviewer to ask.               *)
(* Command: resume.                                                         *)
ReviewersRemain ==
  [][Effective(excluded) # {} => Effective(excluded') # {}]_vars

(* No phase is approved while a dispute of an effective reviewer is open or *)
(* its accepted outcome not re-reviewed.  Any command but force and         *)
(* transition.                                                              *)
SettledBeforeApproval ==
  [][state # "APPROVED" /\ state' = "APPROVED" => Awaiting = {}]_vars

(* An approval that completed its passes outlives every change of state.    *)
(* Any command.                                                             *)
ApprovalsSurvive ==
  [][state' # state =>
       \A i \in Issues, r \in Members :
         Kept(reviews[i][r], r) => Kept(reviews'[i][r], r)]_vars

(* Every round starts its own grace period, whatever interrupted the one    *)
(* before.  Commands: flag, exclude, resume.                                *)
GraceStartsAfresh ==
  [][state # "REVIEW" /\ state' = "REVIEW" => metAt' = "absent"]_vars

(* The phase comes to an end: approved, or BLOCKED with the owner told.     *)
(* FairSpec; command: exclude.                                              *)
PhaseEnds == <>(state \in {"APPROVED", "BLOCKED"})

(* Whatever reviewers, the implementer, time and a resume do, and whoever   *)
(* is excluded, the phase is to the rest of the pipeline what Phase says.   *)
(* Commands: exclude, resume.                                               *)
Promise == INSTANCE Phase WITH mode <- state,
                               objected <- HasVerdict(reviews, Blocking),
                               left <- maxCycles - reviseCount
PhaseImplemented == Promise!Spec
=============================================================================
