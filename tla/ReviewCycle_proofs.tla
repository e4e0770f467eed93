------------------------- MODULE ReviewCycle_proofs -------------------------
(***************************************************************************)
(* What holds of a review phase for every batch, every set of reviewers,   *)
(* every review mode and every value of the batch's options.               *)
(***************************************************************************)
EXTENDS ReviewCycle, ReviewRules_proofs

-----------------------------------------------------------------------------
(* Type correctness *)

LEMMA InitType == Init => TypeOK
<1> SUFFICES ASSUME Init PROVE TypeOK  OBVIOUS
<1>1. reviews \in [Issues -> [Members -> Entry]]  BY NoReviewType DEF Init
<1>2. override \in Nat  BY OverrideType DEF Init
<1>3. maxCycles \in Nat  BY CycleAssumption DEF Init, CycleAssumption
<1>4. flags \subseteq Issues  BY DEF Init
<1>5. QED
  BY <1>1, <1>2, <1>3, <1>4 DEF Init, TypeOK, States, NotBlocked, Effective

(* Resolving a dispute keeps the types of the dispute variables. *)
LEMMA ResolveType ==
  ASSUME TypeOK, NEW i \in Issues, NEW r \in Members, NEW v \in Verdicts,
         Resolve(i, r, v)
  PROVE  /\ filed' \in [Issues -> [Members -> {"none", "P1", "P0"}]]
         /\ accepted' \subseteq Issues \X Members
<1>1. filed' = Put(filed, i, r, "none")  BY DEF Resolve
<1>2. filed' \in [Issues -> [Members -> {"none", "P1", "P0"}]]
  BY <1>1, PutType DEF TypeOK
<1>3. QED  BY <1>2 DEF Resolve, TypeOK

LEMMA ReviewType == TypeOK /\ Review => TypeOK'
<1> SUFFICES ASSUME TypeOK, NEW r \in Members, NEW i \in Issues,
                    NEW v \in Verdicts,
                    \/ \E late, force \in BOOLEAN :
                         ReviewArrives(r, i, v, late, force)
                    \/ DisputeAnswered(r, i, v)
             PROVE  TypeOK'
  BY DEF Review
<1>0. reviews[i][r] \in Entry  BY DEF TypeOK
<1>1. ASSUME NEW late \in BOOLEAN, NEW force \in BOOLEAN,
             ReviewArrives(r, i, v, late, force)
      PROVE  TypeOK'
  <2>1. (state = "NPASS") \in BOOLEAN  OBVIOUS
  <2>2. Recorded(reviews[i][r], r, v, state = "NPASS", late) \in Entry
    BY <1>0, <2>1, RecordedType
  <2>3. reviews' \in [Issues -> [Members -> Entry]]
    BY <1>1, <2>2, PutType DEF ReviewArrives, TypeOK
  <2>4. Resolve(i, r, v) \/ UNCHANGED disputeVars
    BY <1>1 DEF ReviewArrives
  <2>5. /\ filed' \in [Issues -> [Members -> {"none", "P1", "P0"}]]
        /\ accepted' \subseteq Issues \X Members
    BY <2>4, ResolveType DEF disputeVars, TypeOK
  <2>6. QED
    BY <1>1, <2>3, <2>5
    DEF ReviewArrives, TypeOK, quorumVars, budgetVars, historyVars
<1>2. ASSUME DisputeAnswered(r, i, v)
      PROVE  TypeOK'
  <2>1. Recorded(reviews[i][r], r, v, FALSE, FALSE) \in Entry
    BY <1>0, RecordedType
  <2>2. reviews' \in [Issues -> [Members -> Entry]]
    BY <1>2, <2>1, NoReviewType, PutType DEF DisputeAnswered, TypeOK
  <2>3. /\ filed' \in [Issues -> [Members -> {"none", "P1", "P0"}]]
        /\ accepted' \subseteq Issues \X Members
    BY <1>2, ResolveType DEF DisputeAnswered
  <2>4. QED
    BY <1>2, <2>2, <2>3
    DEF DisputeAnswered, TypeOK, quorumVars, budgetVars, historyVars
<1>3. QED  BY <1>1, <1>2

LEMMA ImplementerType == TypeOK /\ Implementer => TypeOK'
<1> SUFFICES ASSUME TypeOK, NEW i \in Issues,
                    Revise(i) \/ \E r \in Members : Dispute(i, r)
             PROVE  TypeOK'
  BY DEF Implementer
<1>1. CASE Revise(i)
  BY <1>1 DEF Revise, TypeOK, disputeVars, quorumVars, budgetVars, historyVars
<1>2. ASSUME NEW r \in Members, Dispute(i, r)
      PROVE  TypeOK'
  <2>1. reviews[i][r].verdict \in {"none", "P1", "P0"}
    BY <1>2 DEF Dispute
  <2>2. filed' \in [Issues -> [Members -> {"none", "P1", "P0"}]]
    BY <1>2, <2>1, PutType DEF Dispute, TypeOK
  <2>3. QED
    BY <1>2, <2>2 DEF Dispute, TypeOK, quorumVars, budgetVars, historyVars
<1>3. QED  BY <1>1, <1>2

(* What every way out of a review state sets. *)
LEMMA EndReviewType ==
  ASSUME TypeOK, NEW s \in States, NEW reason \in {"none", "timeout", "other"},
         EndReview(s, reason)
  PROVE  /\ state' \in States /\ overdue' \in BOOLEAN
         /\ reviseCount' \in Nat /\ maxCycles' \in Nat
         /\ spent' \subseteq Members \X Nat /\ prompted' \subseteq Members
         /\ blocked' \in [from : States \cup {"none"},
                          reason : {"none", "timeout", "other"}]
         /\ revised' \subseteq Issues /\ flags' \subseteq Issues
         /\ filed' \in [Issues -> [Members -> {"none", "P1", "P0"}]]
         /\ accepted' \subseteq Issues \X Members
<1>1. CurrentRound \in Nat  BY DEF CurrentRound, TypeOK
<1>2. spent' \subseteq Members \X Nat
  BY <1>1 DEF EndReview, EndRound, TypeOK
<1>3. reviseCount' \in Nat
  BY DEF EndReview, TypeOK
<1>4. blocked' \in [from : States \cup {"none"},
                    reason : {"none", "timeout", "other"}]
  BY DEF EndReview, NotBlocked, TypeOK
<1>5. QED
  BY <1>2, <1>3, <1>4 DEF EndReview, EndRound, TypeOK, disputeVars

LEMMA DropSilentType ==
  ASSUME TypeOK, DropSilent
  PROVE  excluded' \subseteq Members /\ override' \in Nat
<1>1. excluded' \subseteq Members  BY DEF DropSilent, TypeOK, Effective
<1>2. override' \in Nat  BY OverrideType DEF DropSilent, TypeOK
<1>3. QED  BY <1>1, <1>2

LEMMA OutcomeType ==
  ASSUME NEW blocking, NEW p2, NEW count \in Nat, NEW max \in Nat
  PROVE  Outcome(blocking, p2, count, max) \in {"BLOCKED", "REVISE", "APPROVED"}
BY DEF Outcome

LEMMA WatchdogType == TypeOK /\ Watchdog => TypeOK'
<1> SUFFICES ASSUME TypeOK, Watchdog PROVE TypeOK'  OBVIOUS
<1> USE DEF disputeVars, quorumVars, budgetVars, historyVars
<1>0. /\ Stale(reviews) \in [Issues -> [Members -> Entry]]
      /\ ClearReviews(reviews) \in [Issues -> [Members -> Entry]]
  BY StaleType, ClearType DEF TypeOK, Table
<1>1. CASE FlagEndsReview
  <2>1. "REVISE" \in States  BY DEF States
  <2>2. QED
    BY <1>1, <2>1, EndReviewType, DropSilentType DEF FlagEndsReview, TypeOK
<1>2. CASE StartGrace
  BY <1>2 DEF StartGrace, TypeOK
<1>3. CASE EnterNpass
  <2>1. Laggards(reviews) \subseteq Members  BY DEF Laggards
  <2>2. QED  BY <1>3, <1>0, <2>1 DEF EnterNpass, TypeOK, States
<1>4. CASE Decide
  <2> DEFINE s == Outcome(HasVerdict(reviews, Blocking),
                          HasVerdict(reviews, {"P2"}), reviseCount, maxCycles)
  <2>1. s \in States  BY OutcomeType DEF TypeOK, States
  <2>2. /\ EndReview(s, "other")
        /\ DropSilent \/ UNCHANGED quorumVars
        /\ targets' = {} \/ targets' = targets
        /\ metAt' = "absent"
        /\ UNCHANGED reviews
    BY <1>4 DEF Decide
  <2> HIDE DEF s
  <2>3. excluded' \subseteq Members /\ override' \in Nat
    BY <2>2, DropSilentType DEF TypeOK
  <2>4. QED  BY <2>1, <2>2, <2>3, EndReviewType DEF TypeOK
<1>5. CASE ReviewTimeout
  <2>1. "BLOCKED" \in States  BY DEF States
  <2>2. QED  BY <1>5, <2>1, EndReviewType DEF ReviewTimeout, TypeOK
<1>6. CASE Nudge
  BY <1>6 DEF Nudge, TypeOK, Effective
<1>7. CASE NextPass
  <2>1. Unfinished \subseteq Members  BY DEF Unfinished, TypeOK
  <2>2. QED  BY <1>7, <1>0, <2>1 DEF NextPass, TypeOK
<1>8. ASSUME NEW blocking, NEW p2, EndNpass(blocking, p2)
      PROVE  TypeOK'
  <2>1. Outcome(blocking, p2, reviseCount, maxCycles) \in States
    BY OutcomeType DEF TypeOK, States
  <2>2. QED  BY <1>8, <2>1, EndReviewType DEF EndNpass, TypeOK
<1>9. CASE ReReview
  BY <1>9, <1>0 DEF ReReview, Wipe, TypeOK, States, Effective
<1>10. CASE ReviseTimeout
  BY <1>10, <1>0 DEF ReviseTimeout, Wipe, TypeOK, States
<1>11. CASE NpassDecide  BY <1>8, <1>11 DEF NpassDecide
<1>12. CASE NpassEarly  BY <1>8, <1>12 DEF NpassEarly
<1>13. QED
  BY <1>1, <1>2, <1>3, <1>4, <1>5, <1>6, <1>7, <1>9, <1>10, <1>11, <1>12
  DEF Watchdog

LEMMA ClockType == TypeOK /\ Clock => TypeOK'
BY DEF Clock, TimerExpires, GraceExpires, TypeOK, disputeVars, quorumVars,
       budgetVars, historyVars

LEMMA OwnerType == TypeOK /\ Owner => TypeOK'
<1> SUFFICES ASSUME TypeOK, Owner PROVE TypeOK'  OBVIOUS
<1> USE DEF disputeVars, quorumVars, budgetVars, historyVars
<1>0. CurrentRound \in Nat  BY DEF CurrentRound, TypeOK
<1>1. ASSUME NEW i \in Issues, Flag(i) PROVE TypeOK'
  BY <1>1 DEF Flag, TypeOK
<1>2. ASSUME NEW r \in Members, Exclude(r) PROVE TypeOK'
  <2>1. excluded' \subseteq Members  BY <1>2 DEF Exclude, TypeOK
  <2>2. override' \in Nat  BY <1>2, OverrideType DEF Exclude, TypeOK
  <2>3. QED  BY <1>2, <2>1, <2>2 DEF Exclude, TypeOK
<1>3. CASE Resume
  <2>1. reviseCount' \in Nat /\ maxCycles' \in Nat
    BY <1>3, CycleAssumption DEF Resume, TypeOK, CycleAssumption
  <2>2. QED  BY <1>3, <2>1 DEF Resume, TypeOK, States, NotBlocked
<1>4. CASE ForceReview
  <2>1. spent' \subseteq Members \X Nat
    BY <1>4, <1>0 DEF ForceReview, TypeOK
  <2>2. prompted' \subseteq Members
    BY <1>4 DEF ForceReview, TypeOK, Effective
  <2>3. QED
    BY <1>4, <2>1, <2>2 DEF ForceReview, TypeOK, States, NotBlocked
<1>5. ASSUME NEW t \in States, Transition(t) PROVE TypeOK'
  <2>1. spent' \subseteq Members \X Nat
    BY <1>5, <1>0 DEF Transition, EndRound, TypeOK
  <2>2. prompted' \subseteq Members
    BY <1>5 DEF Transition, EndRound, TypeOK, Effective
  <2>3. reviews' \in [Issues -> [Members -> Entry]]
    BY <1>5, StaleType DEF Transition, TypeOK, Table
  <2>4. reviseCount' \in Nat  BY <1>5 DEF Transition, TypeOK
  <2>5. blocked' \in [from : States \cup {"none"},
                      reason : {"none", "timeout", "other"}]
    BY <1>5 DEF Transition, TypeOK
  <2>6. QED
    BY <1>5, <2>1, <2>2, <2>3, <2>4, <2>5 DEF Transition, TypeOK
<1>6. QED  BY <1>1, <1>2, <1>3, <1>4, <1>5 DEF Owner

LEMMA TypeStep == TypeOK /\ [Next]_vars => TypeOK'
<1>1. ASSUME TypeOK, UNCHANGED vars PROVE TypeOK'
  BY <1>1 DEF vars, TypeOK, disputeVars, quorumVars, budgetVars, historyVars
<1>2. QED
  BY <1>1, ReviewType, ImplementerType, WatchdogType, ClockType, OwnerType
  DEF Next

(* The pipeline data of a review phase keeps its shape under every command. *)
THEOREM TypeCorrect == Spec => []TypeOK
<1>1. TypeOK /\ [Next]_vars => TypeOK'  BY TypeStep
<1>2. QED  BY <1>1, InitType, PTL DEF Spec

-----------------------------------------------------------------------------
(* Late verdicts *)

(* A round whose number can still be current: it is being reviewed, or the  *)
(* revision that precedes it is under way or was interrupted.               *)
RoundOpen ==
  \/ state \in {"REVIEW", "NPASS", "REVISE"}
  \/ state = "BLOCKED" /\ blocked.from \notin {"REVIEW", "NPASS"}

(* Commands of rounds that are over carry smaller numbers than the open     *)
(* round, or at most the number of the one that has just ended.             *)
SpentAreOver ==
  \A p \in spent : p[2] <= IF RoundOpen THEN reviseCount ELSE CurrentRound

LateInv == TypeOK /\ SpentAreOver /\ NoLateVerdict

(* Leaving a review state keeps the numbers in order. *)
LEMMA EndReviewOver ==
  ASSUME LateInv, NEW s \in States, NEW reason,
         state \in {"REVIEW", "NPASS"}, s \in {"REVISE", "APPROVED", "BLOCKED"},
         EndReview(s, reason)
  PROVE  SpentAreOver'
<1>1. reviseCount \in Nat  BY DEF LateInv, TypeOK
<1>2. \A p \in spent : p[2] <= reviseCount
  BY DEF LateInv, SpentAreOver, RoundOpen
<1>3. \A p \in spent' : p \in spent \/ p[2] = reviseCount + 1
  BY DEF EndReview, EndRound, CurrentRound
<1>4. \A p \in spent' : p[2] <= reviseCount + 1
  <2>1. ASSUME NEW p \in spent, p[2] <= reviseCount
        PROVE  p[2] <= reviseCount + 1
    <3>1. p[2] \in Nat  BY DEF LateInv, TypeOK
    <3>2. QED  BY <2>1, <3>1, <1>1
  <2>2. QED  BY <1>1, <1>2, <1>3, <2>1
<1>5. CASE s = "REVISE"
  <2>1. reviseCount' = reviseCount + 1 /\ state' = "REVISE"
    BY <1>5 DEF EndReview
  <2>2. QED  BY <1>4, <2>1 DEF SpentAreOver, RoundOpen
<1>6. CASE s # "REVISE"
  <2>1. reviseCount' = reviseCount  BY <1>6 DEF EndReview
  <2>2. ~RoundOpen'
    BY <1>6 DEF EndReview, RoundOpen, NotBlocked
  <2>3. QED  BY <1>4, <2>1, <2>2 DEF SpentAreOver, CurrentRound
<1>7. QED  BY <1>5, <1>6

LEMMA LateReview == LateInv /\ Review => SpentAreOver' /\ NoLateVerdict'
<1> SUFFICES ASSUME LateInv, NEW r \in Members, NEW i \in Issues,
                    NEW v \in Verdicts,
                    \/ \E late, force \in BOOLEAN :
                         ReviewArrives(r, i, v, late, force)
                    \/ DisputeAnswered(r, i, v)
             PROVE  SpentAreOver' /\ NoLateVerdict'
  BY DEF Review
<1>1. /\ UNCHANGED <<state, spent, blocked, reviseCount>>
      /\ \E e : e.late = FALSE /\ reviews' = Put(reviews, i, r, e)
  <2>1. ASSUME NEW late \in BOOLEAN, NEW force \in BOOLEAN,
               ReviewArrives(r, i, v, late, force)
        PROVE  late = FALSE
    <3>1. SUFFICES ASSUME late = TRUE PROVE FALSE  OBVIOUS
    <3>2. <<r, CurrentRound>> \in spent /\ state \in {"REVIEW", "NPASS"}
      BY <2>1, <3>1 DEF ReviewArrives
    <3>3. CurrentRound <= reviseCount
      BY <3>2 DEF LateInv, SpentAreOver, RoundOpen
    <3>4. QED  BY <3>3 DEF LateInv, TypeOK, CurrentRound
  <2>2. ASSUME NEW late \in BOOLEAN, NEW force \in BOOLEAN,
               ReviewArrives(r, i, v, late, force)
        PROVE  \E e : e.late = FALSE /\ reviews' = Put(reviews, i, r, e)
    <3> DEFINE e == Recorded(reviews[i][r], r, v, state = "NPASS", late)
    <3>1. e.late = FALSE  BY <2>1, <2>2 DEF Recorded
    <3>2. reviews' = Put(reviews, i, r, e)  BY <2>2 DEF ReviewArrives
    <3>3. QED  BY <3>1, <3>2
  <2>3. ASSUME DisputeAnswered(r, i, v)
        PROVE  \E e : e.late = FALSE /\ reviews' = Put(reviews, i, r, e)
    BY <2>3 DEF DisputeAnswered, Recorded, NoReview
  <2>4. UNCHANGED <<state, spent, blocked, reviseCount>>
    BY DEF ReviewArrives, DisputeAnswered, historyVars, budgetVars
  <2>5. QED  BY <2>2, <2>3, <2>4
<1>2. NoLateVerdict'
  <2>1. PICK e : e.late = FALSE /\ reviews' = Put(reviews, i, r, e)  BY <1>1
  <2>2. ASSUME NEW j \in Issues, NEW q \in Members
        PROVE  ~reviews'[j][q].late
    <3>1. reviews \in [Issues -> [Members -> Entry]]  BY DEF LateInv, TypeOK
    <3>2. reviews'[j][q] = IF j = i /\ q = r THEN e ELSE reviews[j][q]
      BY <2>1, <3>1 DEF Put
    <3>3. ~reviews[j][q].late  BY DEF LateInv, NoLateVerdict
    <3>4. QED  BY <2>1, <3>2, <3>3
  <2>3. QED  BY <2>2 DEF NoLateVerdict
<1>3. SpentAreOver'
  BY <1>1 DEF LateInv, SpentAreOver, RoundOpen, CurrentRound
<1>4. QED  BY <1>2, <1>3

(* Steps that neither add a command nor write a verdict. *)
LEMMA QuietStep ==
  ASSUME LateInv, UNCHANGED <<reviews, state, spent, blocked, reviseCount>>
  PROVE  SpentAreOver' /\ NoLateVerdict'
BY DEF LateInv, SpentAreOver, NoLateVerdict, RoundOpen, CurrentRound

(* Wiping and staling write no verdict. *)
LEMMA KeepsLate ==
  ASSUME LateInv,
         reviews' \in {reviews, Stale(reviews), ClearReviews(reviews)}
  PROVE  NoLateVerdict'
<1>0. reviews \in Table  BY DEF LateInv, TypeOK, Table
<1>1. ASSUME NEW i \in Issues, NEW r \in Members
      PROVE  ~reviews'[i][r].late
  <2>1. ~reviews[i][r].late  BY DEF LateInv, NoLateVerdict
  <2>2. ~Stale(reviews)[i][r].late  BY <1>0, <2>1, StaleCells
  <2>3. ~ClearReviews(reviews)[i][r].late
    BY <2>1 DEF ClearReviews, NoReview
  <2>4. QED  BY <2>1, <2>2, <2>3
<1>2. QED  BY <1>1 DEF NoLateVerdict

LEMMA LateWatchdog == LateInv /\ Watchdog => SpentAreOver' /\ NoLateVerdict'
<1> SUFFICES ASSUME LateInv, Watchdog PROVE SpentAreOver' /\ NoLateVerdict'
  OBVIOUS
<1> USE DEF disputeVars, quorumVars, budgetVars, historyVars
<1>0. reviseCount \in Nat /\ maxCycles \in Nat  BY DEF LateInv, TypeOK
<1>1. CASE FlagEndsReview
  <2>1. EndReview("REVISE", "none") /\ state = "REVIEW" /\ reviews' = reviews
    BY <1>1 DEF FlagEndsReview
  <2>2. QED  BY <2>1, EndReviewOver, KeepsLate DEF States
<1>2. CASE StartGrace
  BY <1>2, QuietStep DEF StartGrace
<1>3. CASE EnterNpass
  <2>1. /\ state = "REVIEW" /\ state' = "NPASS"
        /\ UNCHANGED <<spent, reviseCount>>
        /\ reviews' = Stale(reviews)
    BY <1>3 DEF EnterNpass, Decidable
  <2>2. SpentAreOver'
    BY <2>1 DEF LateInv, SpentAreOver, RoundOpen
  <2>3. QED  BY <2>1, <2>2, KeepsLate
<1>4. CASE Decide
  <2> DEFINE s == Outcome(HasVerdict(reviews, Blocking),
                          HasVerdict(reviews, {"P2"}), reviseCount, maxCycles)
  <2>1. /\ EndReview(s, "other") /\ state = "REVIEW" /\ reviews' = reviews
        /\ s \in {"REVISE", "APPROVED", "BLOCKED"}
    BY <1>0, <1>4, OutcomeType DEF Decide, Decidable
  <2> HIDE DEF s
  <2>2. QED  BY <2>1, EndReviewOver, KeepsLate DEF States
<1>5. CASE ReviewTimeout
  <2>1. EndReview("BLOCKED", "timeout") /\ state = "REVIEW" /\ reviews' = reviews
    BY <1>5 DEF ReviewTimeout
  <2>2. QED  BY <2>1, EndReviewOver, KeepsLate DEF States
<1>6. CASE Nudge
  BY <1>6, QuietStep DEF Nudge
<1>7. CASE NextPass
  <2>1. /\ UNCHANGED <<state, spent, reviseCount, blocked>>
        /\ reviews' = Stale(reviews)
    BY <1>7 DEF NextPass
  <2>2. SpentAreOver'
    BY <2>1 DEF LateInv, SpentAreOver, RoundOpen, CurrentRound
  <2>3. QED  BY <2>1, <2>2, KeepsLate
<1>8. ASSUME NEW blocking, NEW p2, EndNpass(blocking, p2), state = "NPASS"
      PROVE  SpentAreOver' /\ NoLateVerdict'
  <2> DEFINE s == Outcome(blocking, p2, reviseCount, maxCycles)
  <2>1. /\ EndReview(s, "other") /\ reviews' = reviews
        /\ s \in {"REVISE", "APPROVED", "BLOCKED"}
    BY <1>0, <1>8, OutcomeType DEF EndNpass
  <2> HIDE DEF s
  <2>2. QED  BY <1>8, <2>1, EndReviewOver, KeepsLate DEF States
<1>9. CASE ReReview
  <2>1. /\ state = "REVISE" /\ state' = "REVIEW"
        /\ UNCHANGED <<spent, reviseCount>>
        /\ reviews' = ClearReviews(reviews)
    BY <1>9 DEF ReReview, Wipe
  <2>2. SpentAreOver'
    BY <2>1 DEF LateInv, SpentAreOver, RoundOpen
  <2>3. QED  BY <2>1, <2>2, KeepsLate
<1>10. CASE ReviseTimeout
  <2>1. /\ state = "REVISE" /\ state' = "BLOCKED"
        /\ blocked'.from = "REVISE"
        /\ UNCHANGED <<spent, reviseCount>>
        /\ reviews' = ClearReviews(reviews)
    BY <1>10 DEF ReviseTimeout, Wipe
  <2>2. SpentAreOver'
    BY <2>1 DEF LateInv, SpentAreOver, RoundOpen
  <2>3. QED  BY <2>1, <2>2, KeepsLate
<1>11. CASE NpassDecide  BY <1>8, <1>11 DEF NpassDecide
<1>12. CASE NpassEarly  BY <1>8, <1>12 DEF NpassEarly
<1>13. QED
  BY <1>1, <1>2, <1>3, <1>4, <1>5, <1>6, <1>7, <1>9, <1>10, <1>11, <1>12
  DEF Watchdog

LEMMA LateOwner ==
  ASSUME "force" \notin Commands
  PROVE  LateInv /\ Owner => SpentAreOver' /\ NoLateVerdict'
<1> SUFFICES ASSUME LateInv, Owner PROVE SpentAreOver' /\ NoLateVerdict'
  OBVIOUS
<1> USE DEF disputeVars, quorumVars, budgetVars, historyVars
<1>0. reviseCount \in Nat  BY DEF LateInv, TypeOK
<1>1. ASSUME NEW i \in Issues, Flag(i)
      PROVE  SpentAreOver' /\ NoLateVerdict'
  BY <1>1, QuietStep DEF Flag
<1>2. ASSUME NEW r \in Members, Exclude(r)
      PROVE  SpentAreOver' /\ NoLateVerdict'
  BY <1>2, QuietStep DEF Exclude
<1>3. CASE Resume
  <2>1. /\ state = "BLOCKED" /\ state' = "REVISE"
        /\ reviseCount' = IF blocked.from \in {"REVIEW", "NPASS"}
                          THEN reviseCount + 1 ELSE reviseCount
        /\ UNCHANGED <<spent, reviews>>
    BY <1>3 DEF Resume
  <2>2. SpentAreOver'
    BY <2>1 DEF LateInv, SpentAreOver, RoundOpen, CurrentRound
  <2>3. QED  BY <2>1, <2>2, KeepsLate
<1>4. ASSUME NEW t \in States, Transition(t)
      PROVE  SpentAreOver' /\ NoLateVerdict'
  <2>1. /\ state \in {"REVIEW", "NPASS", "REVISE"}
        /\ t \in {"APPROVED", "REVISE", "BLOCKED", "NPASS", "REVIEW"}
        /\ t = "REVISE" => state \in {"REVIEW", "NPASS"}
        /\ t = "BLOCKED" => state \in {"REVIEW", "NPASS"}
    BY <1>4 DEF Transition, Edges
  <2>2. NoLateVerdict'  BY <1>4, KeepsLate DEF Transition
  <2>3. CASE t \in {"REVIEW", "NPASS"}
    <3>1. UNCHANGED <<spent, reviseCount>> /\ state' = t
      BY <1>4, <2>3 DEF Transition
    <3>2. QED  BY <2>1, <2>2, <2>3, <3>1 DEF LateInv, SpentAreOver, RoundOpen
  <2>4. CASE t \in {"APPROVED", "REVISE", "BLOCKED"}
    <3>1. \A p \in spent' : p \in spent \/ p[2] = reviseCount + 1
      BY <1>4, <2>4 DEF Transition, EndRound, CurrentRound
    <3>2. \A p \in spent : p[2] \in Nat /\ p[2] <= reviseCount
      BY <2>1 DEF LateInv, TypeOK, SpentAreOver, RoundOpen
    <3>3. \A p \in spent' : p[2] <= reviseCount + 1
      BY <1>0, <3>1, <3>2
    <3>4. CASE t = "REVISE"
      <4>1. state' = "REVISE" /\ reviseCount' = reviseCount + 1
        BY <1>4, <3>4 DEF Transition
      <4>2. QED  BY <2>2, <3>3, <4>1 DEF SpentAreOver, RoundOpen
    <3>5. CASE t \in {"APPROVED", "BLOCKED"}
      <4>1. state' = t /\ reviseCount' = reviseCount
        BY <1>4, <3>5 DEF Transition
      <4>2. ~RoundOpen'
        BY <1>4, <2>1, <3>5 DEF Transition, RoundOpen
      <4>3. QED  BY <2>2, <3>3, <4>1, <4>2 DEF SpentAreOver, CurrentRound
    <3>6. QED  BY <2>4, <3>4, <3>5
  <2>5. QED  BY <2>1, <2>3, <2>4
<1>5. ~ForceReview  BY DEF ForceReview
<1>6. QED  BY <1>1, <1>2, <1>3, <1>4, <1>5 DEF Owner

LEMMA LateStep ==
  ASSUME LateInv, [Next]_vars, "force" \notin Commands
  PROVE  LateInv'
<1>1. TypeOK'  BY TypeStep DEF LateInv
<1>2. CASE Review  BY <1>1, <1>2, LateReview DEF LateInv
<1>3. CASE Implementer \/ Clock \/ UNCHANGED vars
  <2>1. UNCHANGED <<state, spent, blocked, reviseCount, reviews>>
    BY <1>3 DEF Implementer, Revise, Dispute, Clock, TimerExpires,
                GraceExpires, vars, historyVars, budgetVars
  <2>2. QED  BY <1>1, <2>1, QuietStep DEF LateInv
<1>4. CASE Watchdog  BY <1>1, <1>4, LateWatchdog DEF LateInv
<1>5. CASE Owner  BY <1>1, <1>5, LateOwner DEF LateInv
<1>6. QED  BY <1>2, <1>3, <1>4, <1>5 DEF Next

LEMMA LateInit == Init => LateInv
<1> SUFFICES ASSUME Init PROVE LateInv  OBVIOUS
<1>1. SpentAreOver  BY DEF Init, SpentAreOver
<1>2. NoLateVerdict  BY DEF Init, NoLateVerdict, NoReview
<1>3. QED  BY <1>1, <1>2, InitType DEF LateInv

(* Unless the owner forces a phase back to REVIEW, which restarts the round *)
(* numbers, no verdict of a round that is over is ever counted in another:  *)
(* the --round check of cmd_review holds whatever blocks, times out, is     *)
(* resumed or moved by hand.                                                *)
THEOREM NoLateVerdicts ==
  ASSUME "force" \notin Commands
  PROVE  Spec => []NoLateVerdict
<1>1. LateInv /\ [Next]_vars => LateInv'  BY LateStep
<1>2. LateInv => NoLateVerdict  BY DEF LateInv
<1>3. QED  BY LateInit, <1>1, <1>2, PTL DEF Spec

-----------------------------------------------------------------------------
(* Approval *)

(* Neither force nor transition: only the watchdog ends a review state. *)
Unforced == Commands \cap {"force", "transition"} = {}

(* A review moves nothing but reviews and disputes. *)
LEMMA ReviewMoves ==
  ASSUME Review
  PROVE  /\ UNCHANGED <<state, revised, flags, targets, metAt, overdue, blocked>>
         /\ UNCHANGED <<quorumVars, budgetVars, historyVars>>
         /\ state \in {"REVIEW", "NPASS", "REVISE"}
<1>1. PICK r \in Members, i \in Issues, v \in Verdicts :
        \/ \E late, force \in BOOLEAN : ReviewArrives(r, i, v, late, force)
        \/ DisputeAnswered(r, i, v)
  BY DEF Review
<1>2. ASSUME NEW late, NEW force, ReviewArrives(r, i, v, late, force)
      PROVE  /\ UNCHANGED <<state, revised, flags, targets, metAt, overdue, blocked>>
             /\ UNCHANGED <<quorumVars, budgetVars, historyVars>>
             /\ state \in {"REVIEW", "NPASS", "REVISE"}
  BY <1>2 DEF ReviewArrives
<1>3. ASSUME DisputeAnswered(r, i, v)
      PROVE  /\ UNCHANGED <<state, revised, flags, targets, metAt, overdue, blocked>>
             /\ UNCHANGED <<quorumVars, budgetVars, historyVars>>
             /\ state \in {"REVIEW", "NPASS", "REVISE"}
  BY <1>3 DEF DisputeAnswered
<1>4. QED  BY <1>1, <1>2, <1>3

(* The three ways in which the watchdog approves a phase. *)
LEMMA ApprovalStep ==
  ASSUME Unforced, TypeOK, Next, state # "APPROVED", state' = "APPROVED"
  PROVE  /\ reviews' = reviews /\ reviseCount' = reviseCount
         /\ maxCycles' = maxCycles
         /\ ~HasVerdict(reviews, Blocking)
         /\ P2Fix /\ HasVerdict(reviews, {"P2"}) => reviseCount >= maxCycles
         /\ Decidable \/ state = "NPASS"
<1> USE DEF disputeVars, quorumVars, budgetVars, historyVars
<1>0. /\ reviseCount \in Nat /\ maxCycles \in Nat /\ P2Fix \in BOOLEAN
  BY BatchAssumption DEF TypeOK, BatchAssumption
<1>1. Watchdog
  <2>1. ~Review  BY ReviewMoves
  <2>2. ~Implementer  BY DEF Implementer, Revise, Dispute
  <2>3. ~Clock  BY DEF Clock, TimerExpires, GraceExpires
  <2>4. ~Owner
    <3>1. \A i \in Issues : ~Flag(i)  BY DEF Flag
    <3>2. \A r \in Members : ~Exclude(r)  BY DEF Exclude
    <3>3. ~Resume  BY DEF Resume
    <3>4. ~ForceReview  BY DEF ForceReview
    <3>5. \A t \in States : ~Transition(t)  BY DEF Transition, Unforced
    <3>6. QED  BY <3>1, <3>2, <3>3, <3>4, <3>5 DEF Owner
  <2>5. QED  BY <2>1, <2>2, <2>3, <2>4 DEF Next
<1>2. Decide \/ NpassDecide \/ NpassEarly
  BY <1>1 DEF Watchdog, FlagEndsReview, EndReview, StartGrace, EnterNpass,
              ReviewTimeout, Nudge, NextPass, ReReview, ReviseTimeout
<1>3. ASSUME NEW blocking \in BOOLEAN, NEW p2 \in BOOLEAN,
             Outcome(blocking, p2, reviseCount, maxCycles) = "APPROVED"
      PROVE  ~blocking /\ (P2Fix /\ p2 => reviseCount >= maxCycles)
  BY <1>0, <1>3 DEF Outcome
<1>4. /\ HasVerdict(reviews, Blocking) \in BOOLEAN
      /\ HasVerdict(reviews, {"P2"}) \in BOOLEAN
  BY DEF HasVerdict
<1>5. CASE Decide
  <2> DEFINE s == Outcome(HasVerdict(reviews, Blocking),
                          HasVerdict(reviews, {"P2"}), reviseCount, maxCycles)
  <2>1. EndReview(s, "other") /\ reviews' = reviews /\ Decidable
    BY <1>5 DEF Decide
  <2> HIDE DEF s
  <2>2. /\ s = "APPROVED" /\ reviseCount' = reviseCount
        /\ maxCycles' = maxCycles
    BY <2>1 DEF EndReview
  <2>3. QED  BY <1>3, <1>4, <2>1, <2>2 DEF s
<1>6. ASSUME NEW blocking \in BOOLEAN, NEW p2 \in BOOLEAN,
             EndNpass(blocking, p2)
      PROVE  /\ reviews' = reviews /\ reviseCount' = reviseCount
             /\ maxCycles' = maxCycles
             /\ ~blocking /\ (P2Fix /\ p2 => reviseCount >= maxCycles)
  <2> DEFINE s == Outcome(blocking, p2, reviseCount, maxCycles)
  <2>1. EndReview(s, "other") /\ reviews' = reviews
    BY <1>6 DEF EndNpass
  <2> HIDE DEF s
  <2>2. /\ s = "APPROVED" /\ reviseCount' = reviseCount
        /\ maxCycles' = maxCycles
    BY <2>1 DEF EndReview
  <2>3. QED  BY <1>3, <2>1, <2>2 DEF s
<1>7. ~NpassEarly  BY <1>6 DEF NpassEarly
<1>8. CASE NpassDecide  BY <1>4, <1>6, <1>8 DEF NpassDecide
<1>9. QED  BY <1>2, <1>5, <1>7, <1>8

(* What an approved phase shows does not change while it is approved. *)
LEMMA ApprovedStays ==
  ASSUME Unforced, [Next]_vars, state = "APPROVED"
  PROVE  UNCHANGED <<reviews, reviseCount, maxCycles>>
<1> USE DEF disputeVars, quorumVars, budgetVars, historyVars
<1>1. ~Review  BY ReviewMoves
<1>2. ~Implementer  BY DEF Implementer, Revise, Dispute
<1>3. ~Watchdog
  BY DEF Watchdog, FlagEndsReview, StartGrace, EnterNpass, Decide, Decidable,
         ReviewTimeout, Nudge, NextPass, NpassDecide, NpassEarly, ReReview,
         ReviseTimeout
<1>4. CASE Clock  BY <1>4 DEF Clock, TimerExpires, GraceExpires
<1>5. CASE Owner
  <2>1. ASSUME NEW i \in Issues, Flag(i)
        PROVE  UNCHANGED <<reviews, reviseCount, maxCycles>>
    BY <2>1 DEF Flag
  <2>2. ASSUME NEW r \in Members, Exclude(r)
        PROVE  UNCHANGED <<reviews, reviseCount, maxCycles>>
    BY <2>2 DEF Exclude
  <2>3. ~Resume  BY DEF Resume
  <2>4. ~ForceReview  BY DEF ForceReview, Unforced
  <2>5. \A t \in States : ~Transition(t)  BY DEF Transition, Unforced
  <2>6. QED  BY <1>5, <2>1, <2>2, <2>3, <2>4, <2>5 DEF Owner
<1>6. CASE UNCHANGED vars  BY <1>6 DEF vars
<1>7. QED  BY <1>1, <1>2, <1>3, <1>4, <1>5, <1>6 DEF Next

(* A phase that the watchdog approved has no P0, P1 or REJECT on record,    *)
(* whichever of the review states it was approved from.                     *)
THEOREM ApprovalIsClean ==
  ASSUME Unforced
  PROVE  Spec => []ApprovedClean
<1>1. Init => ApprovedClean  BY DEF Init, ApprovedClean
<1>2. TypeOK /\ ApprovedClean /\ [Next]_vars => ApprovedClean'
  <2> SUFFICES ASSUME TypeOK, ApprovedClean, [Next]_vars, state' = "APPROVED"
               PROVE  ApprovedClean'
    BY DEF ApprovedClean
  <2>1. CASE state = "APPROVED"
    BY <2>1, ApprovedStays DEF ApprovedClean, HasVerdict
  <2>2. CASE state # "APPROVED"
    <3>1. Next  BY <2>2 DEF vars
    <3>2. QED  BY <2>2, <3>1, ApprovalStep DEF ApprovedClean, HasVerdict
  <2>3. QED  BY <2>1, <2>2
<1>3. QED  BY <1>1, <1>2, TypeCorrect, PTL DEF Spec

-----------------------------------------------------------------------------
(* Disputes *)

(* Disputes are filed during a revision only, and a revision follows a      *)
(* counted round, so that the first round, and with it N-pass, has none.    *)
FirstRoundQuiet ==
  /\ reviseCount = 0 =>
       /\ accepted = {}
       /\ \A i \in Issues, r \in Members : filed[i][r] = "none"
  /\ state = "NPASS" => reviseCount = 0
  /\ state = "REVISE" => reviseCount > 0
  /\ state = "BLOCKED" =>
       blocked.from \in {"REVIEW", "NPASS"} \/ reviseCount > 0

DisputeInv == TypeOK /\ FirstRoundQuiet

LEMMA QuietReview ==
  ASSUME DisputeInv, Review
  PROVE  FirstRoundQuiet'
<1>1. /\ UNCHANGED <<state, reviseCount, blocked>>
      /\ state \in {"REVIEW", "NPASS", "REVISE"}
  BY ReviewMoves DEF budgetVars
<1>2. CASE reviseCount # 0
  BY <1>1, <1>2 DEF DisputeInv, FirstRoundQuiet
<1>3. CASE reviseCount = 0
  <2>1. \A i \in Issues, r \in Members : filed[i][r] = "none"
    BY <1>3 DEF DisputeInv, FirstRoundQuiet
  <2>2. UNCHANGED disputeVars
    <3>1. PICK r \in Members, i \in Issues, v \in Verdicts :
            \/ \E late, force \in BOOLEAN : ReviewArrives(r, i, v, late, force)
            \/ DisputeAnswered(r, i, v)
      BY DEF Review
    <3>2. ~DisputeAnswered(r, i, v)  BY <2>1 DEF DisputeAnswered
    <3>3. ASSUME NEW late, NEW force, ReviewArrives(r, i, v, late, force)
          PROVE  UNCHANGED disputeVars
      BY <2>1, <3>3 DEF ReviewArrives
    <3>4. QED  BY <3>1, <3>2, <3>3
  <2>3. QED  BY <1>1, <2>2 DEF DisputeInv, FirstRoundQuiet, disputeVars
<1>4. QED  BY <1>2, <1>3

LEMMA QuietEnd ==
  ASSUME DisputeInv, NEW s \in {"REVISE", "APPROVED", "BLOCKED"}, NEW reason,
         state \in {"REVIEW", "NPASS"}, EndReview(s, reason)
  PROVE  FirstRoundQuiet'
<1>0. reviseCount \in Nat  BY DEF DisputeInv, TypeOK
<1>1. UNCHANGED <<filed, accepted>>  BY DEF EndReview, disputeVars
<1>2. CASE s = "REVISE"
  <2>1. state' = "REVISE" /\ reviseCount' = reviseCount + 1
    BY <1>2 DEF EndReview
  <2>2. reviseCount' > 0 /\ reviseCount' # 0  BY <1>0, <2>1
  <2>3. QED  BY <2>1, <2>2 DEF FirstRoundQuiet
<1>3. CASE s # "REVISE"
  <2>1. state' = s /\ reviseCount' = reviseCount  BY <1>3 DEF EndReview
  <2>2. s = "BLOCKED" => blocked'.from = state  BY DEF EndReview
  <2>3. QED  BY <1>1, <1>3, <2>1, <2>2 DEF DisputeInv, FirstRoundQuiet
<1>4. QED  BY <1>2, <1>3

LEMMA QuietWatchdog ==
  ASSUME DisputeInv, Watchdog
  PROVE  FirstRoundQuiet'
<1> USE DEF quorumVars, budgetVars, historyVars, disputeVars
<1>0. reviseCount \in Nat /\ maxCycles \in Nat  BY DEF DisputeInv, TypeOK
<1>1. CASE FlagEndsReview  BY <1>1, QuietEnd DEF FlagEndsReview
<1>2. CASE StartGrace \/ Nudge \/ NextPass
  BY <1>2 DEF StartGrace, Nudge, NextPass, DisputeInv, FirstRoundQuiet
<1>3. CASE EnterNpass
  BY <1>3 DEF EnterNpass, Decidable, DisputeInv, FirstRoundQuiet
<1>4. CASE Decide
  <2> DEFINE s == Outcome(HasVerdict(reviews, Blocking),
                          HasVerdict(reviews, {"P2"}), reviseCount, maxCycles)
  <2>1. EndReview(s, "other") /\ state = "REVIEW"
    BY <1>4 DEF Decide, Decidable
  <2>2. s \in {"REVISE", "APPROVED", "BLOCKED"}  BY <1>0, OutcomeType
  <2> HIDE DEF s
  <2>3. QED  BY <2>1, <2>2, QuietEnd
<1>5. CASE ReviewTimeout  BY <1>5, QuietEnd DEF ReviewTimeout
<1>6. ASSUME NEW blocking, NEW p2, EndNpass(blocking, p2), state = "NPASS"
      PROVE  FirstRoundQuiet'
  <2> DEFINE s == Outcome(blocking, p2, reviseCount, maxCycles)
  <2>1. EndReview(s, "other")  BY <1>6 DEF EndNpass
  <2>2. s \in {"REVISE", "APPROVED", "BLOCKED"}  BY <1>0, OutcomeType
  <2> HIDE DEF s
  <2>3. QED  BY <1>6, <2>1, <2>2, QuietEnd
<1>7. CASE NpassDecide  BY <1>6, <1>7 DEF NpassDecide
<1>8. CASE NpassEarly  BY <1>6, <1>8 DEF NpassEarly
<1>9. CASE ReReview
  BY <1>0, <1>9 DEF ReReview, DisputeInv, FirstRoundQuiet
<1>10. CASE ReviseTimeout
  BY <1>0, <1>10 DEF ReviseTimeout, DisputeInv, FirstRoundQuiet
<1>11. QED
  BY <1>1, <1>2, <1>3, <1>4, <1>5, <1>7, <1>8, <1>9, <1>10 DEF Watchdog

LEMMA QuietOthers ==
  ASSUME Unforced, DisputeInv, Implementer \/ Clock \/ Owner \/ UNCHANGED vars
  PROVE  FirstRoundQuiet'
<1> USE DEF quorumVars, budgetVars, historyVars, disputeVars, DisputeInv
<1>0. reviseCount \in Nat  BY DEF TypeOK
<1>1. ASSUME NEW i \in Issues, NEW r \in Members, Dispute(i, r)
      PROVE  FirstRoundQuiet'
  <2>1. state = "REVISE" /\ UNCHANGED <<state, reviseCount, accepted>>
    BY <1>1 DEF Dispute
  <2>2. reviseCount > 0  BY <2>1 DEF FirstRoundQuiet
  <2>3. QED  BY <1>0, <2>1, <2>2 DEF FirstRoundQuiet
<1>2. ASSUME NEW i \in Issues, Revise(i) PROVE FirstRoundQuiet'
  BY <1>2 DEF Revise, FirstRoundQuiet
<1>3. CASE Clock
  BY <1>3 DEF Clock, TimerExpires, GraceExpires, FirstRoundQuiet
<1>4. CASE Owner
  <2>1. ASSUME NEW i \in Issues, Flag(i) PROVE FirstRoundQuiet'
    BY <2>1 DEF Flag, FirstRoundQuiet
  <2>2. ASSUME NEW r \in Members, Exclude(r) PROVE FirstRoundQuiet'
    BY <2>2 DEF Exclude, FirstRoundQuiet
  <2>3. CASE Resume
    <3>1. /\ state' = "REVISE" /\ UNCHANGED <<filed, accepted>>
          /\ reviseCount' \in Nat /\ reviseCount' > 0
      BY <1>0, <2>3 DEF Resume, FirstRoundQuiet
    <3>2. QED  BY <3>1 DEF FirstRoundQuiet
  <2>4. ~ForceReview  BY DEF ForceReview, Unforced
  <2>5. \A t \in States : ~Transition(t)  BY DEF Transition, Unforced
  <2>6. QED  BY <1>4, <2>1, <2>2, <2>3, <2>4, <2>5 DEF Owner
<1>5. CASE UNCHANGED vars  BY <1>5 DEF vars, FirstRoundQuiet
<1>6. QED  BY <1>1, <1>2, <1>3, <1>4, <1>5 DEF Implementer

(* No phase is approved while an effective reviewer has a dispute to answer *)
(* or an accepted one to follow up: directly, because check_transition      *)
(* waits for it; through N-pass, because there cannot be one.               *)
THEOREM DisputesSettled ==
  ASSUME Unforced
  PROVE  Spec => SettledBeforeApproval
<1>1. Init => DisputeInv
  <2>1. Init => FirstRoundQuiet  BY DEF Init, FirstRoundQuiet
  <2>2. QED  BY <2>1, InitType DEF DisputeInv
<1>2. DisputeInv /\ [Next]_vars => DisputeInv'
  <2> SUFFICES ASSUME DisputeInv, [Next]_vars PROVE DisputeInv'  OBVIOUS
  <2>1. TypeOK'  BY TypeStep DEF DisputeInv
  <2>2. FirstRoundQuiet'
    BY QuietReview, QuietWatchdog, QuietOthers DEF Next
  <2>3. QED  BY <2>1, <2>2 DEF DisputeInv
<1>3. DisputeInv /\ [Next]_vars =>
        [state # "APPROVED" /\ state' = "APPROVED" => Awaiting = {}]_vars
  <2> SUFFICES ASSUME DisputeInv, Next, state # "APPROVED", state' = "APPROVED"
               PROVE  Awaiting = {}
    OBVIOUS
  <2>1. Decidable \/ state = "NPASS"  BY ApprovalStep DEF DisputeInv
  <2>2. CASE Decidable  BY <2>2 DEF Decidable
  <2>3. CASE state = "NPASS"
    BY <2>3 DEF DisputeInv, FirstRoundQuiet, Awaiting, AwaitingDispute, Effective
  <2>4. QED  BY <2>1, <2>2, <2>3
<1>4. QED  BY <1>1, <1>2, <1>3, PTL DEF Spec, SettledBeforeApproval

-----------------------------------------------------------------------------
(* Rounds *)

(* Nothing but a review changes the table of reviews other than by staling  *)
(* or clearing it.                                                          *)
LEMMA TableSteps ==
  ASSUME Implementer \/ Watchdog \/ Clock \/ Owner
  PROVE  reviews' \in {reviews, Stale(reviews), ClearReviews(reviews)}
<1>1. CASE Implementer  BY <1>1 DEF Implementer, Revise, Dispute
<1>2. CASE Clock  BY <1>2 DEF Clock, TimerExpires, GraceExpires
<1>3. CASE Watchdog
  BY <1>3 DEF Watchdog, FlagEndsReview, StartGrace, EnterNpass, Decide,
              ReviewTimeout, Nudge, NextPass, NpassDecide, NpassEarly, EndNpass,
              ReReview, ReviseTimeout, Wipe
<1>4. CASE Owner
  BY <1>4 DEF Owner, Flag, Exclude, Resume, ForceReview, Transition
<1>5. QED  BY <1>1, <1>2, <1>3, <1>4

(* An approval that completed its passes is kept by every change of state,  *)
(* by the watchdog's as by the owner's: nobody has to approve twice.        *)
THEOREM ApprovalsKept == Spec => ApprovalsSurvive
<1> DEFINE Survive ==
      state' # state =>
        \A i \in Issues, r \in Members :
          Kept(reviews[i][r], r) => Kept(reviews'[i][r], r)
<1>1. TypeOK /\ [Next]_vars => [Survive]_vars
  <2> SUFFICES ASSUME TypeOK, Next, state' # state,
                      NEW i \in Issues, NEW r \in Members,
                      Kept(reviews[i][r], r)
               PROVE  Kept(reviews'[i][r], r)
    OBVIOUS
  <2>0. reviews \in Table  BY DEF TypeOK, Table
  <2>1. ~Review  BY ReviewMoves
  <2>2. reviews' \in {reviews, Stale(reviews), ClearReviews(reviews)}
    BY <2>1, TableSteps DEF Next
  <2>3. Kept(Stale(reviews)[i][r], r)  BY <2>0, StaleCells DEF Kept
  <2>4. Kept(ClearReviews(reviews)[i][r], r)  BY DEF ClearReviews
  <2>5. QED  BY <2>2, <2>3, <2>4
<1>2. QED  BY <1>1, TypeCorrect, PTL DEF Spec, ApprovalsSurvive

(* Unforced, a phase re-enters REVIEW from a finished revision alone, and   *)
(* with no grace period running.                                            *)
THEOREM GraceIsFresh ==
  ASSUME Unforced
  PROVE  Spec => GraceStartsAfresh
<1>1. [Next]_vars =>
        [state # "REVIEW" /\ state' = "REVIEW" => metAt' = "absent"]_vars
  <2> SUFFICES ASSUME Next, state # "REVIEW", state' = "REVIEW"
               PROVE  metAt' = "absent"
    OBVIOUS
  <2>1. ~Review  BY ReviewMoves
  <2>2. ~Implementer  BY DEF Implementer, Revise, Dispute
  <2>3. ~Clock  BY DEF Clock, TimerExpires, GraceExpires
  <2>4. ~Owner
    <3>1. \A i \in Issues : ~Flag(i)  BY DEF Flag
    <3>2. \A r \in Members : ~Exclude(r)  BY DEF Exclude
    <3>3. ~Resume  BY DEF Resume
    <3>4. ~ForceReview  BY DEF ForceReview, Unforced
    <3>5. \A t \in States : ~Transition(t)  BY DEF Transition, Unforced
    <3>6. QED  BY <3>1, <3>2, <3>3, <3>4, <3>5 DEF Owner
  <2>5. ASSUME NEW blocking, NEW p2, EndNpass(blocking, p2), state = "NPASS"
        PROVE  FALSE
    BY <2>5 DEF EndNpass, EndReview, Outcome
  <2>6. ReReview
    BY <2>1, <2>2, <2>3, <2>4, <2>5
    DEF Next, Watchdog, FlagEndsReview, StartGrace, EnterNpass, Decide,
        Decidable, ReviewTimeout, Nudge, NextPass, NpassDecide, NpassEarly,
        ReviseTimeout
  <2>7. QED  BY <2>6 DEF ReReview, Wipe
<1>2. QED  BY <1>1, PTL DEF Spec, GraceStartsAfresh

BudgetInv == TypeOK /\ flags = {} /\ CycleBudget

(* A review state is left for REVISE with cycles to spare only. *)
LEMMA OutcomeBudget ==
  ASSUME NEW blocking, NEW p2, NEW count \in Nat, NEW max \in Nat,
         Outcome(blocking, p2, count, max) = "REVISE"
  PROVE  count < max
BY BatchAssumption DEF Outcome, BatchAssumption

LEMMA BudgetEnd ==
  ASSUME BudgetInv, NEW blocking, NEW p2, NEW reason,
         EndReview(Outcome(blocking, p2, reviseCount, maxCycles), reason)
  PROVE  flags' = {} /\ CycleBudget'
<1> DEFINE s == Outcome(blocking, p2, reviseCount, maxCycles)
<1>0. reviseCount \in Nat /\ maxCycles \in Nat  BY DEF BudgetInv, TypeOK
<1>1. s = "REVISE" => reviseCount < maxCycles  BY <1>0, OutcomeBudget
<1>2. /\ reviseCount' = IF s = "REVISE" THEN reviseCount + 1 ELSE reviseCount
      /\ maxCycles' = maxCycles /\ flags' = flags
  BY DEF EndReview
<1> HIDE DEF s
<1>3. QED  BY <1>0, <1>1, <1>2 DEF BudgetInv, CycleBudget

(* Without flags, resumes and moves by hand a phase takes no more revision  *)
(* cycles than its budget, through N-pass and p2_fix as well.               *)
THEOREM BudgetKept ==
  ASSUME Commands \subseteq {"exclude"}
  PROVE  Spec => []CycleBudget
<1>1. Init => BudgetInv
  <2> SUFFICES ASSUME Init PROVE BudgetInv  OBVIOUS
  <2>1. flags = {}  BY DEF Init
  <2>2. CycleBudget  BY CycleAssumption DEF Init, CycleBudget, CycleAssumption
  <2>3. QED  BY <2>1, <2>2, InitType DEF BudgetInv
<1>2. BudgetInv /\ [Next]_vars => BudgetInv'
  <2> SUFFICES ASSUME BudgetInv, [Next]_vars PROVE BudgetInv'  OBVIOUS
  <2> USE DEF quorumVars, budgetVars, historyVars, disputeVars
  <2>0. TypeOK' /\ reviseCount \in Nat /\ maxCycles \in Nat
    BY TypeStep DEF BudgetInv, TypeOK
  <2>1. CASE UNCHANGED <<flags, reviseCount, maxCycles>>
    BY <2>0, <2>1 DEF BudgetInv, CycleBudget
  <2>2. CASE Review  BY <2>1, <2>2, ReviewMoves
  <2>3. CASE Implementer \/ Clock \/ UNCHANGED vars
    BY <2>1, <2>3 DEF Implementer, Revise, Dispute, Clock, TimerExpires,
                      GraceExpires, vars
  <2>4. CASE Watchdog
    <3>1. ~FlagEndsReview  BY DEF FlagEndsReview, BudgetInv
    <3>2. CASE StartGrace \/ EnterNpass \/ Nudge \/ NextPass
      BY <2>1, <3>2 DEF StartGrace, EnterNpass, Nudge, NextPass
    <3>3. CASE Decide  BY <2>0, <3>3, BudgetEnd DEF Decide, BudgetInv
    <3>4. CASE ReviewTimeout
      BY <2>1, <3>4 DEF ReviewTimeout, EndReview
    <3>5. CASE NpassDecide \/ NpassEarly
      BY <2>0, <3>5, BudgetEnd DEF NpassDecide, NpassEarly, EndNpass, BudgetInv
    <3>6. CASE ReReview \/ ReviseTimeout
      <4>1. flags' = {} /\ UNCHANGED <<reviseCount, maxCycles>>
        BY <3>6 DEF ReReview, ReviseTimeout, Wipe
      <4>2. QED  BY <2>0, <4>1 DEF BudgetInv, CycleBudget
    <3>7. QED
      BY <2>4, <3>1, <3>2, <3>3, <3>4, <3>5, <3>6 DEF Watchdog
  <2>5. CASE Owner
    <3>1. \A i \in Issues : ~Flag(i)  BY DEF Flag
    <3>2. ~Resume  BY DEF Resume
    <3>3. ~ForceReview  BY DEF ForceReview
    <3>4. \A t \in States : ~Transition(t)  BY DEF Transition
    <3>5. \E r \in Members : Exclude(r)
      BY <2>5, <3>1, <3>2, <3>3, <3>4 DEF Owner
    <3>6. QED  BY <2>1, <3>5 DEF Exclude
  <2>6. QED  BY <2>2, <2>3, <2>4, <2>5 DEF Next
<1>3. BudgetInv => CycleBudget  BY DEF BudgetInv
<1>4. QED  BY <1>1, <1>2, <1>3, PTL DEF Spec

-----------------------------------------------------------------------------
(* Quorum *)

(* Neither exclude nor a move by hand: only silence makes a reviewer        *)
(* ineffective, and only the watchdog approves.                             *)
QuorumKept ==
  /\ Harmless(excluded, override)
  /\ ApprovedByQuorum

QuorumInv == TypeOK /\ QuorumKept

(* A step that takes no review away and drops nobody. *)
LEMMA QuorumStutter ==
  ASSUME QuorumInv, state' = state, UNCHANGED quorumVars,
         \A i \in Issues : Reviewed(reviews, i) \subseteq Reviewed(reviews', i)
  PROVE  QuorumKept'
<1>1. Harmless(excluded, override)'
  BY DEF QuorumInv, QuorumKept, quorumVars, Harmless, Effective
<1>2. ASSUME state' \in {"NPASS", "APPROVED"}, NEW i \in Issues
      PROVE  /\ Reviewed(reviews', i) # {}
             /\ Cardinality(Reviewed(reviews', i))
                  >= Least(MinReviews, Cardinality(Effective(excluded)))
  <2>1. /\ Reviewed(reviews, i) # {}
        /\ Cardinality(Reviewed(reviews, i))
             >= Least(MinReviews, Cardinality(Effective(excluded)))
    BY <1>2 DEF QuorumInv, QuorumKept, ApprovedByQuorum
  <2>2. Cardinality(Reviewed(reviews, i)) <= Cardinality(Reviewed(reviews', i))
    BY ReviewedCount, FS_Subset
  <2>3. /\ Cardinality(Reviewed(reviews, i)) \in Nat
        /\ Cardinality(Reviewed(reviews', i)) \in Nat
        /\ Least(MinReviews, Cardinality(Effective(excluded))) \in Int
    BY ReviewedCount, EffectiveCount, BatchAssumption, FS_CardinalityType
       DEF Least, BatchAssumption
  <2>4. QED  BY <2>1, <2>2, <2>3
<1>3. excluded' = excluded  BY DEF quorumVars
<1>4. QED  BY <1>1, <1>2, <1>3 DEF QuorumKept, ApprovedByQuorum

(* A decision of REVIEW is taken on a quorum, and dropping silent reviewers *)
(* lowers what the quorum has to be.                                        *)
LEMMA QuorumDecision ==
  ASSUME QuorumInv, Decidable, reviews' \in {reviews, Stale(reviews)},
         DropSilent \/ UNCHANGED quorumVars
  PROVE  QuorumKept'
<1> DEFINE min == MinRev(excluded, override)
           need == Least(MinReviews, Cardinality(Effective(excluded)))
           need1 == Least(MinReviews, Cardinality(Effective(excluded')))
<1>1. override \in Nat /\ Harmless(excluded, override)
  BY DEF QuorumInv, QuorumKept, TypeOK
<1>2. min \in Nat \ {0} /\ min >= need
  BY <1>1, MinRevPositive, MinRevBound
<1>3. CountAtLeast(reviews, min)  BY DEF Decidable, Ready, Quorum
<1>4. Harmless(excluded, override)' /\ need1 <= need
  <2>1. CASE DropSilent
    <3> DEFINE silent == Effective(excluded) \ Responded(reviews)
    <3>1. /\ excluded' = excluded \cup silent
          /\ override' \in {override,
                            SilentOverride(excluded \cup silent, override)}
      BY <2>1 DEF DropSilent
    <3>2. silent = {} => override' = override /\ excluded' = excluded
      BY <2>1, <3>1 DEF DropSilent
    <3>3. silent # {} => override' = SilentOverride(excluded \cup silent, override)
      BY <2>1 DEF DropSilent
    <3> HIDE DEF silent
    <3>4. /\ Harmless(excluded \cup silent,
                      SilentOverride(excluded \cup silent, override))
          /\ need1 <= need
      BY <1>1, <3>1, OverrideHarmless
    <3>5. QED  BY <1>1, <3>1, <3>2, <3>3, <3>4 DEF Harmless, Effective
  <2>2. CASE UNCHANGED quorumVars
    <3>1. need \in Int
      BY EffectiveCount, BatchAssumption, FS_CardinalityType
         DEF Least, BatchAssumption
    <3>2. QED  BY <1>1, <2>2, <3>1 DEF quorumVars, Harmless, Effective
  <2>3. QED  BY <2>1, <2>2
<1>5. \A i \in Issues : Reviewed(reviews', i) = Reviewed(reviews, i)
  <2>1. reviews \in Table  BY DEF QuorumInv, TypeOK, Table
  <2>2. QED  BY <2>1, StaleCells DEF Reviewed
<1>6. ASSUME NEW i \in Issues
      PROVE  /\ Reviewed(reviews', i) # {}
             /\ Cardinality(Reviewed(reviews', i)) >= need1
  <2>1. Reviewed(reviews, i) # {}  BY <1>2, <1>3, QuorumReviewed
  <2>2. Cardinality(Reviewed(reviews, i)) >= min  BY <1>3 DEF CountAtLeast
  <2>3. /\ Cardinality(Reviewed(reviews, i)) \in Nat
        /\ need \in Int /\ need1 \in Int
    BY ReviewedCount, EffectiveCount, BatchAssumption, FS_CardinalityType
       DEF Least, BatchAssumption
  <2> HIDE DEF min, need, need1
  <2>4. QED  BY <1>2, <1>4, <1>5, <2>1, <2>2, <2>3
<1>7. QED  BY <1>4, <1>6 DEF QuorumKept, ApprovedByQuorum

(* A step into a state that needs no quorum. *)
LEMMA QuorumOutside ==
  ASSUME QuorumInv, state' \notin {"NPASS", "APPROVED"},
         DropSilent \/ UNCHANGED quorumVars
  PROVE  QuorumKept'
<1>1. override \in Nat /\ Harmless(excluded, override)
  BY DEF QuorumInv, QuorumKept, TypeOK
<1>2. CASE DropSilent
  <2> DEFINE silent == Effective(excluded) \ Responded(reviews)
  <2>1. /\ excluded' = excluded \cup silent
        /\ IF silent = {} THEN override' = override
           ELSE override' = SilentOverride(excluded \cup silent, override)
    BY <1>2 DEF DropSilent
  <2> HIDE DEF silent
  <2>2. Harmless(excluded \cup silent,
                 SilentOverride(excluded \cup silent, override))
    BY <1>1, OverrideHarmless
  <2>3. silent = {} => excluded' = excluded  BY <2>1
  <2>4. QED  BY <1>1, <2>1, <2>2, <2>3 DEF QuorumKept, ApprovedByQuorum, Harmless, Effective
<1>3. CASE UNCHANGED quorumVars
  BY <1>1, <1>3 DEF quorumVars, QuorumKept, ApprovedByQuorum, Harmless, Effective
<1>4. QED  BY <1>2, <1>3

LEMMA QuorumReview ==
  ASSUME QuorumInv, Review
  PROVE  QuorumKept'
<1>1. /\ state' = state /\ UNCHANGED quorumVars
      /\ state \in {"REVIEW", "NPASS", "REVISE"}
  BY ReviewMoves
<1>2. CASE state # "NPASS"  BY <1>1, <1>2, QuorumOutside
<1>3. CASE state = "NPASS"
  <2>1. PICK r \in Members, i \in Issues, v \in Verdicts :
          \/ \E late, force \in BOOLEAN : ReviewArrives(r, i, v, late, force)
          \/ DisputeAnswered(r, i, v)
    BY DEF Review
  <2>2. ~DisputeAnswered(r, i, v)  BY <1>3 DEF DisputeAnswered
  <2>3. \E e : e.verdict \in Verdicts /\ reviews' = Put(reviews, i, r, e)
    <3>1. ASSUME NEW late, NEW force, ReviewArrives(r, i, v, late, force)
          PROVE  \E e : e.verdict \in Verdicts /\ reviews' = Put(reviews, i, r, e)
      <4> DEFINE e == Recorded(reviews[i][r], r, v, state = "NPASS", late)
      <4>1. e.verdict \in Verdicts  BY DEF Recorded
      <4>2. reviews' = Put(reviews, i, r, e)  BY <3>1 DEF ReviewArrives
      <4>3. QED  BY <4>1, <4>2
    <3>2. QED  BY <2>1, <2>2, <3>1
  <2>4. \A j \in Issues : Reviewed(reviews, j) \subseteq Reviewed(reviews', j)
    <3>1. PICK e : e.verdict \in Verdicts /\ reviews' = Put(reviews, i, r, e)
      BY <2>3
    <3>2. e.verdict # "none"  BY <3>1 DEF Verdicts
    <3>3. reviews \in [Issues -> [Members -> Entry]]  BY DEF QuorumInv, TypeOK
    <3>4. ASSUME NEW j \in Issues, NEW q \in Members
          PROVE  reviews'[j][q] = IF j = i /\ q = r THEN e ELSE reviews[j][q]
      BY <3>1, <3>3 DEF Put
    <3>5. QED  BY <3>2, <3>4 DEF Reviewed
  <2>5. QED  BY <1>1, <2>4, QuorumStutter
<1>4. QED  BY <1>2, <1>3

LEMMA QuorumWatchdog ==
  ASSUME QuorumInv, Watchdog
  PROVE  QuorumKept'
<1> USE DEF budgetVars, historyVars, disputeVars
<1>0. reviews \in Table  BY DEF QuorumInv, TypeOK, Table
<1>1. CASE FlagEndsReview
  <2>1. DropSilent /\ state' = "REVISE"
    BY <1>1 DEF FlagEndsReview, EndReview
  <2>2. QED  BY <2>1, QuorumOutside
<1>2. CASE StartGrace \/ Nudge
  <2>1. state' = state /\ UNCHANGED <<quorumVars, reviews>>
    BY <1>2 DEF StartGrace, Nudge
  <2>2. QED  BY <2>1, QuorumStutter
<1>3. CASE EnterNpass
  BY <1>3, QuorumDecision DEF EnterNpass
<1>4. CASE Decide
  <2>1. Decidable /\ reviews' = reviews /\ (DropSilent \/ UNCHANGED quorumVars)
    BY <1>4 DEF Decide
  <2>2. QED  BY <2>1, QuorumDecision
<1>5. CASE ReviewTimeout
  <2>1. UNCHANGED quorumVars /\ state' = "BLOCKED"
    BY <1>5 DEF ReviewTimeout, EndReview
  <2>2. QED  BY <2>1, QuorumOutside
<1>6. CASE NextPass
  <2>1. /\ state' = state /\ UNCHANGED quorumVars
        /\ reviews' = Stale(reviews)
    BY <1>6 DEF NextPass
  <2>2. \A i \in Issues : Reviewed(reviews, i) \subseteq Reviewed(reviews', i)
    BY <1>0, <2>1, StaleCells DEF Reviewed
  <2>3. QED  BY <2>1, <2>2, QuorumStutter
<1>7. ASSUME NEW blocking, NEW p2, EndNpass(blocking, p2), state = "NPASS"
      PROVE  QuorumKept'
  <2>1. UNCHANGED <<quorumVars, reviews>>  BY <1>7 DEF EndNpass
  <2>2. QED
    BY <1>7, <2>1
    DEF QuorumInv, QuorumKept, ApprovedByQuorum, quorumVars, Harmless, Effective,
        Reviewed
<1>8. CASE NpassDecide  BY <1>7, <1>8 DEF NpassDecide
<1>9. CASE NpassEarly  BY <1>7, <1>9 DEF NpassEarly
<1>10. CASE ReReview \/ ReviseTimeout
  <2>1. UNCHANGED quorumVars /\ state' \in {"REVIEW", "BLOCKED"}
    BY <1>10 DEF ReReview, ReviseTimeout
  <2>2. QED  BY <2>1, QuorumOutside
<1>11. QED
  BY <1>1, <1>2, <1>3, <1>4, <1>5, <1>6, <1>8, <1>9, <1>10 DEF Watchdog

(* Whatever reviewers are dropped as silent on the way, every issue of an   *)
(* approved phase was reviewed by min_reviews reviewers, or by as many as   *)
(* are still effective.                                                     *)
THEOREM QuorumReached ==
  ASSUME Commands \subseteq {"flag", "resume"}
  PROVE  Spec => []ApprovedByQuorum
<1>1. Init => QuorumInv
  <2> SUFFICES ASSUME Init PROVE QuorumInv  OBVIOUS
  <2>1. Harmless(excluded, 0)  BY DEF Harmless
  <2>2. Harmless(excluded, override)  BY <2>1, OverrideHarmless DEF Init
  <2>3. ApprovedByQuorum  BY DEF Init, ApprovedByQuorum
  <2>4. QED  BY <2>2, <2>3, InitType DEF QuorumInv, QuorumKept
<1>2. QuorumInv /\ [Next]_vars => QuorumInv'
  <2> SUFFICES ASSUME QuorumInv, [Next]_vars PROVE QuorumInv'  OBVIOUS
  <2> USE DEF budgetVars, historyVars, disputeVars
  <2>0. TypeOK'  BY TypeStep DEF QuorumInv
  <2>1. CASE Review  BY <2>1, QuorumReview, <2>0 DEF QuorumInv
  <2>2. CASE Watchdog  BY <2>2, QuorumWatchdog, <2>0 DEF QuorumInv
  <2>3. CASE Implementer \/ Clock \/ UNCHANGED vars
    <3>1. state' = state /\ UNCHANGED <<quorumVars, reviews>>
      BY <2>3 DEF Implementer, Revise, Dispute, Clock, TimerExpires,
                  GraceExpires, vars
    <3>2. QED  BY <3>1, <2>0, QuorumStutter DEF QuorumInv
  <2>4. CASE Owner
    <3>1. ASSUME NEW i \in Issues, Flag(i) PROVE QuorumKept'
      <4>1. state' = state /\ UNCHANGED <<quorumVars, reviews>>
        BY <3>1 DEF Flag
      <4>2. QED  BY <4>1, QuorumStutter
    <3>2. CASE Resume
      <4>1. UNCHANGED quorumVars /\ state' = "REVISE"  BY <3>2 DEF Resume
      <4>2. QED  BY <4>1, QuorumOutside, <2>0 DEF QuorumInv
    <3>3. \A r \in Members : ~Exclude(r)  BY DEF Exclude
    <3>4. ~ForceReview  BY DEF ForceReview
    <3>5. \A t \in States : ~Transition(t)  BY DEF Transition
    <3>6. QED
      BY <2>0, <2>4, <3>1, <3>2, <3>3, <3>4, <3>5 DEF Owner, QuorumInv
  <2>5. QED  BY <2>1, <2>2, <2>3, <2>4 DEF Next
<1>3. QuorumInv => ApprovedByQuorum  BY DEF QuorumInv, QuorumKept
<1>4. QED  BY <1>1, <1>2, <1>3, PTL DEF Spec
-----------------------------------------------------------------------------
(* Effective reviewers *)

(* Whoever has a verdict on record, an open dispute or a command of the     *)
(* round is effective.  A silent member has none of them: a phase is only   *)
(* decided with no dispute awaited.                                         *)
DisputersAreEffective ==
  \A i \in Issues, r \in Members :
    filed[i][r] # "none" => r \in Effective(excluded)

EffKept ==
  /\ CountedAreEffective
  /\ DisputersAreEffective
  /\ prompted \subseteq Effective(excluded)
  /\ flags = {}

EffInv == LateInv /\ EffKept

(* A step that adds no verdict, dispute or command. *)
LEMMA EffShrink ==
  ASSUME EffInv, UNCHANGED <<excluded, filed, flags>>,
         reviews' \in {reviews, Stale(reviews), ClearReviews(reviews)},
         prompted' \subseteq Effective(excluded)
  PROVE  EffKept'
<1>1. Responded(reviews') \subseteq Responded(reviews)
  <2>1. reviews \in Table  BY DEF EffInv, LateInv, TypeOK, Table
  <2>2. ASSUME NEW i \in Issues, NEW r \in Members,
               reviews'[i][r].verdict # "none"
        PROVE  reviews[i][r].verdict # "none"
    <3>1. CASE reviews' = ClearReviews(reviews)
      BY <2>2, <3>1 DEF ClearReviews, NoReview
    <3>2. QED  BY <2>1, <2>2, <3>1, StaleCells
  <2>3. QED  BY <2>2 DEF Responded, Reviewed
<1>2. QED
  BY <1>1 DEF EffInv, EffKept, CountedAreEffective, DisputersAreEffective,
              Effective

LEMMA EffReview ==
  ASSUME EffInv, Review
  PROVE  EffKept'
<1>1. PICK r \in Members, i \in Issues, v \in Verdicts :
        \/ \E late, force \in BOOLEAN : ReviewArrives(r, i, v, late, force)
        \/ DisputeAnswered(r, i, v)
  BY DEF Review
<1>2. r \in Effective(excluded)
  <2>1. ASSUME NEW late \in BOOLEAN, NEW force \in BOOLEAN,
               ReviewArrives(r, i, v, late, force)
        PROVE  r \in prompted
    <3>1. CASE late
      <4>1. <<r, CurrentRound>> \in spent /\ state \in {"REVIEW", "NPASS"}
        BY <2>1, <3>1 DEF ReviewArrives
      <4>2. CurrentRound <= reviseCount
        BY <4>1 DEF EffInv, LateInv, SpentAreOver, RoundOpen
      <4>3. QED  BY <4>2 DEF EffInv, LateInv, TypeOK, CurrentRound
    <3>2. QED  BY <2>1, <3>1 DEF ReviewArrives
  <2>2. DisputeAnswered(r, i, v) => filed[i][r] # "none"
    BY DEF DisputeAnswered
  <2>3. QED
    BY <1>1, <2>1, <2>2 DEF EffInv, EffKept, DisputersAreEffective
<1>3. /\ \E e : reviews' = Put(reviews, i, r, e)
      /\ filed' \in {filed, Put(filed, i, r, "none")}
      /\ UNCHANGED <<excluded, prompted, flags>>
  BY <1>1 DEF ReviewArrives, DisputeAnswered, Resolve, disputeVars, quorumVars,
              historyVars
<1>4. Responded(reviews') \subseteq Responded(reviews) \cup {r}
  <2>1. PICK e : reviews' = Put(reviews, i, r, e)  BY <1>3
  <2>2. ASSUME NEW j \in Issues, NEW q \in Members, q # r
        PROVE  reviews'[j][q] = reviews[j][q]
    <3>1. reviews \in [Issues -> [Members -> Entry]]
      BY DEF EffInv, LateInv, TypeOK
    <3>2. QED  BY <2>1, <2>2, <3>1 DEF Put
  <2>3. QED  BY <2>2 DEF Responded, Reviewed
<1>5. \A j \in Issues, q \in Members :
        filed'[j][q] # "none" => filed[j][q] # "none"
  <2>1. filed \in [Issues -> [Members -> {"none", "P1", "P0"}]]
    BY DEF EffInv, LateInv, TypeOK
  <2>2. QED  BY <1>3, <2>1 DEF Put
<1>6. QED
  BY <1>2, <1>3, <1>4, <1>5
  DEF EffInv, EffKept, CountedAreEffective, DisputersAreEffective, Effective

(* Whoever is dropped when a phase is decided has said nothing at all. *)
LEMMA EffDecide ==
  ASSUME EffInv, Decide
  PROVE  EffKept'
<1> USE DEF disputeVars, quorumVars
<1>1. /\ excluded' \subseteq excluded
            \cup (Effective(excluded) \ Responded(reviews))
      /\ prompted' = {}
      /\ UNCHANGED <<reviews, filed, flags>>
  BY DEF Decide, EndReview, EndRound, DropSilent
<1>2. CountedAreEffective'
  BY <1>1 DEF EffInv, EffKept, CountedAreEffective, Effective
<1>3. \A i \in Issues, r \in Effective(excluded) : filed[i][r] = "none"
  <2>1. Awaiting = {}  BY DEF Decide, Decidable
  <2>2. QED  BY <2>1 DEF Awaiting, AwaitingDispute, Effective
<1>4. \A i \in Issues, r \in Members : filed[i][r] = "none"
  BY <1>3 DEF EffInv, EffKept, DisputersAreEffective
<1>5. QED
  BY <1>1, <1>2, <1>4 DEF EffInv, EffKept, DisputersAreEffective, Effective

LEMMA EffWatchdog ==
  ASSUME EffInv, Watchdog
  PROVE  EffKept'
<1> USE DEF disputeVars, quorumVars, budgetVars, historyVars
<1>0. ~FlagEndsReview  BY DEF FlagEndsReview, EffInv, EffKept
<1>1. CASE StartGrace \/ Nudge
  BY <1>1, EffShrink DEF StartGrace, Nudge, EffInv, EffKept, Effective
<1>2. CASE EnterNpass
  BY <1>2, EffShrink DEF EnterNpass, EffInv, EffKept
<1>3. CASE Decide  BY <1>3, EffDecide
<1>4. CASE ReviewTimeout
  BY <1>4, EffShrink DEF ReviewTimeout, EndReview, EndRound
<1>5. CASE NextPass  BY <1>5, EffShrink DEF NextPass, EffInv, EffKept
<1>6. ASSUME NEW blocking, NEW p2, EndNpass(blocking, p2)
      PROVE  EffKept'
  BY <1>6, EffShrink DEF EndNpass, EndReview, EndRound
<1>7. CASE NpassDecide \/ NpassEarly  BY <1>6, <1>7 DEF NpassDecide, NpassEarly
<1>8. CASE ReReview \/ ReviseTimeout
  <2>1. /\ flags' = {} /\ reviews' = ClearReviews(reviews)
        /\ UNCHANGED <<excluded, filed>>
        /\ prompted' \in {prompted, Effective(excluded)}
    BY <1>8 DEF ReReview, ReviseTimeout, Wipe
  <2>2. UNCHANGED flags  BY <2>1 DEF EffInv, EffKept
  <2>3. prompted' \subseteq Effective(excluded)
    BY <2>1 DEF EffInv, EffKept
  <2>4. QED  BY <2>1, <2>2, <2>3, EffShrink
<1>9. QED
  BY <1>0, <1>1, <1>2, <1>3, <1>4, <1>5, <1>7, <1>8 DEF Watchdog

LEMMA EffImplementer ==
  ASSUME EffInv, Implementer
  PROVE  EffKept'
<1> USE DEF disputeVars, quorumVars, budgetVars, historyVars
<1>1. PICK i \in Issues : Revise(i) \/ \E r \in Members : Dispute(i, r)
  BY DEF Implementer
<1>2. CASE Revise(i)  BY <1>2, EffShrink DEF Revise, EffInv, EffKept
<1>3. ASSUME NEW r \in Members, Dispute(i, r)
      PROVE  EffKept'
  <2>1. r \in Effective(excluded)
    <3>1. reviews[i][r].verdict # "none"  BY <1>3 DEF Dispute
    <3>2. QED
      BY <3>1 DEF EffInv, EffKept, CountedAreEffective, Responded, Reviewed
  <2>2. \A j \in Issues, q \in Members :
          q = r \/ filed'[j][q] = filed[j][q]
    BY <1>3 DEF Dispute, Put, EffInv, LateInv, TypeOK
  <2>3. UNCHANGED <<reviews, excluded, prompted, flags>>
    BY <1>3 DEF Dispute
  <2>4. QED
    BY <2>1, <2>2, <2>3
    DEF EffInv, EffKept, CountedAreEffective, DisputersAreEffective, Effective
<1>4. QED  BY <1>1, <1>2, <1>3

LEMMA EffStep ==
  ASSUME EffInv, [Next]_vars, Commands \subseteq {"resume"}
  PROVE  EffInv'
<1> USE DEF disputeVars, quorumVars, budgetVars, historyVars
<1>1. LateInv'  BY LateStep DEF EffInv
<1>2. CASE Review  BY <1>1, <1>2, EffReview DEF EffInv
<1>3. CASE Implementer  BY <1>1, <1>3, EffImplementer DEF EffInv
<1>4. CASE Watchdog  BY <1>1, <1>4, EffWatchdog DEF EffInv
<1>5. CASE Clock \/ UNCHANGED vars
  <2>1. UNCHANGED <<reviews, excluded, filed, flags, prompted>>
    BY <1>5 DEF Clock, TimerExpires, GraceExpires, vars
  <2>2. QED  BY <1>1, <2>1, EffShrink DEF EffInv, EffKept
<1>6. CASE Owner
  <2>1. \A i \in Issues : ~Flag(i)  BY DEF Flag
  <2>2. \A r \in Members : ~Exclude(r)  BY DEF Exclude
  <2>3. ~ForceReview  BY DEF ForceReview
  <2>4. \A t \in States : ~Transition(t)  BY DEF Transition
  <2>5. Resume  BY <1>6, <2>1, <2>2, <2>3, <2>4 DEF Owner
  <2>6. UNCHANGED <<reviews, excluded, filed, flags, prompted>>
    BY <2>5 DEF Resume
  <2>7. QED  BY <1>1, <2>6, EffShrink DEF EffInv, EffKept
<1>7. QED  BY <1>2, <1>3, <1>4, <1>5, <1>6 DEF Next

LEMMA EffInit ==
  ASSUME Init, Commands \subseteq {"resume"}
  PROVE  EffInv
<1>1. Responded(reviews) = {}
  BY DEF Init, Responded, Reviewed, NoReview
<1>2. DisputersAreEffective  BY DEF Init, DisputersAreEffective
<1>3. flags = {} /\ prompted = Effective(excluded)  BY DEF Init
<1>4. QED
  BY <1>1, <1>2, <1>3, LateInit DEF EffInv, EffKept, CountedAreEffective

(* With no flags, exclusions or moves by hand every verdict that is counted *)
(* is one of a reviewer still wanted: dropping the silent ones, readmitting *)
(* none of their late answers, never leaves a counted review behind.        *)
THEOREM CountedStayEffective ==
  ASSUME Commands \subseteq {"resume"}
  PROVE  Spec => []CountedAreEffective
<1>1. Init => EffInv  BY EffInit
<1>2. EffInv /\ [Next]_vars => EffInv'  BY EffStep
<1>3. EffInv => CountedAreEffective  BY DEF EffInv, EffKept
<1>4. QED  BY <1>1, <1>2, <1>3, PTL DEF Spec

(* And somebody is always left to review: a phase is decided on a positive  *)
(* quorum, so somebody effective has answered and is not dropped.           *)
THEOREM ReviewersStay ==
  ASSUME Commands \subseteq {"resume"}
  PROVE  Spec => ReviewersRemain
<1>1. EffInv /\ [Next]_vars =>
        [Effective(excluded) # {} => Effective(excluded') # {}]_vars
  <2> SUFFICES ASSUME EffInv, Next, Effective(excluded) # {}
               PROVE  Effective(excluded') # {}
    OBVIOUS
  <2> USE DEF quorumVars
  <2>1. CASE UNCHANGED excluded  BY <2>1
  <2>2. CASE Decide
    <3>1. MinRev(excluded, override) \in Nat \ {0}
      BY MinRevPositive DEF EffInv, LateInv, TypeOK
    <3>2. FirstIssue \in Issues  BY BatchAssumption DEF BatchAssumption
    <3>3. Reviewed(reviews, FirstIssue) # {}
      BY <2>2, <3>1, <3>2, QuorumReviewed DEF Decide, Decidable, Ready, Quorum
    <3>4. PICK r \in Members : r \in Responded(reviews)
      BY <3>2, <3>3 DEF Responded, Reviewed
    <3>5. r \in Effective(excluded)
      BY <3>4 DEF EffInv, EffKept, CountedAreEffective
    <3>6. r \in Effective(excluded')
      BY <2>2, <3>4, <3>5 DEF Decide, DropSilent, Effective
    <3>7. QED  BY <3>6
  <2>3. CASE Review  BY <2>1, <2>3, ReviewMoves
  <2>4. CASE Implementer \/ Clock
    BY <2>1, <2>4 DEF Implementer, Revise, Dispute, Clock, TimerExpires,
                      GraceExpires
  <2>5. CASE Watchdog /\ ~Decide
    <3>1. ~FlagEndsReview  BY DEF FlagEndsReview, EffInv, EffKept
    <3>2. QED
      BY <2>1, <2>5, <3>1
      DEF Watchdog, StartGrace, EnterNpass, ReviewTimeout, Nudge, NextPass,
          NpassDecide, NpassEarly, EndNpass, ReReview, ReviseTimeout
  <2>6. CASE Owner
    <3>1. \A r \in Members : ~Exclude(r)  BY DEF Exclude
    <3>2. QED
      BY <2>1, <2>6, <3>1 DEF Owner, Flag, Resume, ForceReview, Transition
  <2>7. QED  BY <2>2, <2>3, <2>4, <2>5, <2>6 DEF Next
<1>2. Init => EffInv  BY EffInit
<1>3. EffInv /\ [Next]_vars => EffInv'  BY EffStep
<1>4. QED  BY <1>1, <1>2, <1>3, PTL DEF Spec, ReviewersRemain
-----------------------------------------------------------------------------
(* The phase as the rest of the pipeline sees it *)

Objected == HasVerdict(reviews, Blocking)
PhaseNext == [Promise!Next]_<<state, Objected, maxCycles - reviseCount>>

(* Where nobody can raise a flag there is none. *)
PromiseInv == TypeOK /\ flags = {}

LEMMA FlagsStayEmpty ==
  ASSUME "flag" \notin Commands, PromiseInv, [Next]_vars
  PROVE  PromiseInv'
<1>1. TypeOK'  BY TypeStep DEF PromiseInv
<1>2. CASE Review  BY <1>1, <1>2, ReviewMoves DEF PromiseInv
<1>3. CASE Implementer \/ Clock \/ UNCHANGED vars
  BY <1>1, <1>3
  DEF PromiseInv, Implementer, Revise, Dispute, Clock, TimerExpires, GraceExpires, vars
<1>4. CASE Watchdog
  BY <1>1, <1>4
  DEF PromiseInv, Watchdog, FlagEndsReview, StartGrace, EnterNpass, Decide, EndReview,
      ReviewTimeout, Nudge, NextPass, NpassDecide, NpassEarly, EndNpass, ReReview,
      ReviseTimeout, Wipe
<1>5. CASE Owner
  BY <1>1, <1>5
  DEF PromiseInv, Owner, Flag, Exclude, Resume, ForceReview, Transition
<1>6. QED  BY <1>1, <1>2, <1>3, <1>4, <1>5 DEF Next

(* Staling the reviews for another pass takes no objection back; wiping     *)
(* them takes all.                                                         *)
LEMMA StaleObjects ==
  ASSUME TypeOK, reviews' = Stale(reviews)
  PROVE  Objected' = Objected
<1>1. reviews \in Table  BY DEF TypeOK, Table
<1>2. \A i \in Issues, r \in Members : reviews'[i][r].verdict = reviews[i][r].verdict
  BY <1>1, StaleCells
<1>3. QED  BY <1>2 DEF Objected, HasVerdict

LEMMA WipeObjects ==
  ASSUME Wipe
  PROVE  Objected' = FALSE
BY DEF Wipe, ClearReviews, Kept, NoReview, Blocking, Objected, HasVerdict

LEMMA PhaseStutters ==
  ASSUME UNCHANGED <<state, Objected, budgetVars>>
  PROVE  PhaseNext
BY DEF PhaseNext, budgetVars

(* The end of a review state: approved without an objection, back to the    *)
(* implementer while revisions are left, or BLOCKED.                        *)
LEMMA PhaseEndsReview ==
  ASSUME TypeOK, state \in {"REVIEW", "NPASS"}, NEW s, NEW reason, EndReview(s, reason),
         s \in {"REVISE", "APPROVED", "BLOCKED"}, reviews' = reviews,
         s = "APPROVED" => ~Objected, s = "REVISE" => reviseCount < maxCycles
  PROVE  PhaseNext
<1>1. reviseCount \in Nat /\ maxCycles \in Nat  BY DEF TypeOK
<1>2. Objected' = Objected  BY DEF Objected
<1>3. CASE s = "APPROVED"
  <2>1. state' = "APPROVED" /\ UNCHANGED <<reviseCount, maxCycles>>
    BY <1>3 DEF EndReview
  <2>2. Promise!Approve  BY <1>2, <1>3, <2>1 DEF Promise!Approve, Objected
  <2>3. QED  BY <2>2 DEF PhaseNext, Promise!Next, Promise!Decide
<1>4. CASE s = "REVISE"
  <2>1. state' = "REVISE" /\ reviseCount' = reviseCount + 1 /\ maxCycles' = maxCycles
    BY <1>4 DEF EndReview
  <2>2. Promise!AskRevision
    BY <1>1, <1>2, <1>4, <2>1 DEF Promise!AskRevision, Objected
  <2>3. QED  BY <2>2 DEF PhaseNext, Promise!Next, Promise!Decide
<1>5. CASE s = "BLOCKED"
  <2>1. state' = "BLOCKED" /\ UNCHANGED <<reviseCount, maxCycles>>
    BY <1>5 DEF EndReview
  <2>2. Promise!GiveUp
    BY <1>2, <2>1 DEF Promise!GiveUp, Promise!Open, Objected
  <2>3. QED  BY <2>2 DEF PhaseNext, Promise!Next, Promise!Decide
<1>6. QED  BY <1>3, <1>4, <1>5

LEMMA OutcomeAllows ==
  ASSUME NEW blocking \in BOOLEAN, NEW p2 \in BOOLEAN, NEW count \in Nat, NEW max \in Nat
  PROVE  /\ Outcome(blocking, p2, count, max) = "APPROVED" => ~blocking
         /\ Outcome(blocking, p2, count, max) = "REVISE" => count < max
BY BatchAssumption DEF Outcome, BatchAssumption

LEMMA PhaseTicks ==
  ASSUME PromiseInv, Watchdog
  PROVE  PhaseNext
<1> USE DEF quorumVars, budgetVars, historyVars, disputeVars
<1>0. TypeOK /\ flags = {} /\ reviseCount \in Nat /\ maxCycles \in Nat
  BY DEF PromiseInv, TypeOK
<1>1. /\ Objected \in BOOLEAN /\ HasVerdict(reviews, {"P2"}) \in BOOLEAN
  BY DEF Objected, HasVerdict
<1>2. ~FlagEndsReview  BY <1>0 DEF FlagEndsReview
<1>3. CASE StartGrace \/ Nudge
  <2>1. UNCHANGED <<state, reviews, budgetVars>>  BY <1>3 DEF StartGrace, Nudge
  <2>2. QED  BY <2>1, PhaseStutters DEF Objected
<1>4. CASE EnterNpass
  <2>1. /\ state = "REVIEW" /\ state' = "NPASS" /\ UNCHANGED budgetVars
        /\ reviews' = Stale(reviews)
    BY <1>4 DEF EnterNpass, Decidable
  <2>2. Promise!EnterNpass
    BY <1>0, <2>1, StaleObjects DEF Promise!EnterNpass, Objected
  <2>3. QED  BY <2>2 DEF PhaseNext, Promise!Next, Promise!Decide
<1>5. CASE NextPass
  <2>1. reviews' = Stale(reviews) /\ UNCHANGED <<state, budgetVars>>
    BY <1>5 DEF NextPass
  <2>2. QED  BY <1>0, <2>1, StaleObjects, PhaseStutters
<1>6. CASE Decide
  <2>1. PICK s : /\ s = Outcome(Objected, HasVerdict(reviews, {"P2"}), reviseCount,
                                maxCycles)
                 /\ EndReview(s, "other")
    BY <1>6 DEF Decide, Objected
  <2>2. state = "REVIEW" /\ reviews' = reviews  BY <1>6 DEF Decide, Decidable
  <2>3. s \in {"REVISE", "APPROVED", "BLOCKED"}  BY <1>0, <2>1, OutcomeType
  <2>4. QED  BY <1>0, <1>1, <2>1, <2>2, <2>3, OutcomeAllows, PhaseEndsReview
<1>7. ASSUME NEW blocking \in BOOLEAN, NEW p2 \in BOOLEAN, Objected => blocking,
             state = "NPASS", EndNpass(blocking, p2)
      PROVE  PhaseNext
  <2>1. PICK s : /\ s = Outcome(blocking, p2, reviseCount, maxCycles)
                 /\ EndReview(s, "other")
    BY <1>7 DEF EndNpass
  <2>2. reviews' = reviews  BY <1>7 DEF EndNpass
  <2>3. s \in {"REVISE", "APPROVED", "BLOCKED"}  BY <1>0, <2>1, OutcomeType
  <2>4. QED  BY <1>0, <1>7, <2>1, <2>2, <2>3, OutcomeAllows, PhaseEndsReview
<1>8. CASE NpassDecide  BY <1>1, <1>7, <1>8 DEF NpassDecide, Objected
<1>9. CASE NpassEarly  BY <1>7, <1>9 DEF NpassEarly
<1>10. CASE ReviewTimeout
  BY <1>0, <1>10, PhaseEndsReview DEF ReviewTimeout
<1>11. CASE ReReview
  <2>1. state = "REVISE" /\ state' = "REVIEW" /\ Wipe /\ UNCHANGED budgetVars
    BY <1>11 DEF ReReview
  <2>2. Promise!Resubmit  BY <2>1, WipeObjects DEF Promise!Resubmit, Objected
  <2>3. QED  BY <2>2 DEF PhaseNext, Promise!Next
<1>12. CASE ReviseTimeout
  <2>1. state = "REVISE" /\ state' = "BLOCKED" /\ Wipe /\ UNCHANGED budgetVars
    BY <1>12 DEF ReviseTimeout
  <2>2. Promise!GiveUp
    BY <2>1, WipeObjects DEF Promise!GiveUp, Promise!Open, Objected
  <2>3. QED  BY <2>2 DEF PhaseNext, Promise!Next, Promise!Decide
<1>13. QED
  BY <1>2, <1>3, <1>4, <1>5, <1>6, <1>8, <1>9, <1>10, <1>11, <1>12 DEF Watchdog

LEMMA LeftAfter ==
  ASSUME NEW count \in Nat, NEW max \in Nat, NEW more \in Nat,
         NEW c \in {count, count + 1}, NEW m \in {max, max + more}
  PROVE  m - c \in {(max - count) - 1, max - count, (max - count) + more - 1,
                    (max - count) + more}
OBVIOUS

LEMMA PhaseResumes ==
  ASSUME TypeOK, Resume
  PROVE  PhaseNext
<1>1. /\ reviseCount \in Nat /\ maxCycles \in Nat /\ MaxCycles \in Nat
  BY CycleAssumption DEF CycleAssumption, TypeOK
<1>2. state = "BLOCKED" /\ state' = "REVISE" /\ reviews' = reviews  BY DEF Resume
<1>3. /\ reviseCount' \in {reviseCount, reviseCount + 1}
      /\ maxCycles' \in {maxCycles, maxCycles + MaxCycles}
  BY DEF Resume
<1>4. maxCycles' - reviseCount' \in
        {(maxCycles - reviseCount) - 1, maxCycles - reviseCount,
         (maxCycles - reviseCount) + MaxCycles - 1, (maxCycles - reviseCount) + MaxCycles}
  BY <1>1, <1>3, LeftAfter
<1>5. Promise!Reopen  BY <1>2, <1>4 DEF Promise!Reopen, HasVerdict
<1>6. QED  BY <1>5 DEF PhaseNext, Promise!Next

LEMMA PhaseStep ==
  ASSUME Commands \subseteq {"exclude", "resume"}, PromiseInv, [Next]_vars
  PROVE  PhaseNext
<1> USE DEF quorumVars, budgetVars, historyVars, disputeVars
<1>1. CASE Review
  <2>1. UNCHANGED <<state, budgetVars>> /\ state \in {"REVIEW", "NPASS", "REVISE"}
    BY <1>1, ReviewMoves
  <2>2. Objected' \in BOOLEAN  BY DEF Objected, HasVerdict
  <2>3. Promise!Speak  BY <2>1, <2>2 DEF Promise!Speak, Promise!Open, Objected
  <2>4. QED  BY <2>3 DEF PhaseNext, Promise!Next
<1>2. CASE Implementer \/ Clock \/ UNCHANGED vars
  <2>1. UNCHANGED <<state, reviews, budgetVars>>
    BY <1>2 DEF Implementer, Revise, Dispute, Clock, TimerExpires, GraceExpires, vars
  <2>2. QED  BY <2>1, PhaseStutters DEF Objected
<1>3. CASE Watchdog  BY <1>3, PhaseTicks
<1>4. CASE Owner
  <2>1. Resume \/ \E r \in Members : Exclude(r)
    BY <1>4 DEF Owner, Flag, ForceReview, Transition
  <2>2. CASE Resume  BY <2>2, PhaseResumes DEF PromiseInv
  <2>3. CASE \E r \in Members : Exclude(r)
    <3>1. UNCHANGED <<state, reviews, budgetVars>>  BY <2>3 DEF Exclude
    <3>2. QED  BY <3>1, PhaseStutters DEF Objected
  <2>4. QED  BY <2>1, <2>2, <2>3
<1>5. QED  BY <1>1, <1>2, <1>3, <1>4 DEF Next

(* A review phase implements Phase, which the development pipeline is built *)
(* on; by hand the owner may exclude reviewers and resume.                  *)
THEOREM PhaseAsPromised ==
  ASSUME Commands \subseteq {"exclude", "resume"}
  PROVE  Spec => PhaseImplemented
<1>1. Init => PromiseInv
  BY InitType DEF Init, PromiseInv
<1>2. Init => Promise!Init
  BY CycleAssumption
  DEF Init, Promise!Init, HasVerdict, NoReview, Blocking, CycleAssumption
<1>3. PromiseInv /\ [Next]_vars => PromiseInv'  BY FlagsStayEmpty
<1>4. PromiseInv /\ [Next]_vars => PhaseNext  BY PhaseStep
<1>5. QED
  BY <1>1, <1>2, <1>3, <1>4, PTL
  DEF Spec, PhaseImplemented, Promise!Spec, PhaseNext, Objected
=============================================================================
