------------------------- MODULE ReviewRules_proofs -------------------------
(***************************************************************************)
(* Facts about the operators of ReviewRules: what they return and bound.   *)
(* ReviewCycle_proofs cites them by name.                                  *)
(***************************************************************************)
EXTENDS ReviewRules, FiniteSetTheorems, TLAPS

Table == [Issues -> [Members -> Entry]]

(* Replacing one cell of an issue x member table keeps the table's type and *)
(* every other cell.                                                        *)
LEMMA PutType ==
  ASSUME NEW S, NEW f \in [Issues -> [Members -> S]],
         NEW i \in Issues, NEW r \in Members, NEW e \in S
  PROVE  Put(f, i, r, e) \in [Issues -> [Members -> S]]
BY DEF Put

LEMMA PutCells ==
  ASSUME NEW S, NEW f \in [Issues -> [Members -> S]],
         NEW i \in Issues, NEW r \in Members, NEW e,
         NEW j \in Issues, NEW q \in Members
  PROVE  Put(f, i, r, e)[j][q] = IF j = i /\ q = r THEN e ELSE f[j][q]
BY DEF Put

(* A recorded review is an entry with the verdict that was sent. *)
LEMMA RecordedType ==
  ASSUME NEW e \in Entry, NEW r \in Members, NEW v \in Verdicts,
         NEW fresh \in BOOLEAN, NEW late \in BOOLEAN
  PROVE  Recorded(e, r, v, fresh, late) \in Entry
BY BatchAssumption DEF Entry, Recorded, Least, BatchAssumption

LEMMA NoReviewType == NoReview \in Entry
BY DEF NoReview, Entry

(* The tables a finished revision and the entry into NPASS leave behind. *)
LEMMA ClearType ==
  ASSUME NEW rv \in Table
  PROVE  ClearReviews(rv) \in Table
BY NoReviewType DEF ClearReviews, Table

LEMMA StaleType ==
  ASSUME NEW rv \in Table
  PROVE  Stale(rv) \in Table
<1>1. ASSUME NEW i \in Issues, NEW r \in Members
      PROVE  [rv[i][r] EXCEPT !.fresh = FALSE] \in Entry
  <2>1. ASSUME NEW e \in Entry
        PROVE  [e EXCEPT !.fresh = FALSE] \in Entry
    BY DEF Entry
  <2>2. rv[i][r] \in Entry  BY DEF Table
  <2>3. QED  BY <2>1, <2>2
<1>2. QED  BY <1>1 DEF Stale, Table

LEMMA StaleCells ==
  ASSUME NEW rv \in Table, NEW i \in Issues, NEW r \in Members
  PROVE  /\ Stale(rv)[i][r].verdict = rv[i][r].verdict
         /\ Stale(rv)[i][r].pass = rv[i][r].pass
         /\ Stale(rv)[i][r].late = rv[i][r].late
<1>1. rv[i][r] \in Entry  BY DEF Table
<1>2. Stale(rv)[i][r] = [rv[i][r] EXCEPT !.fresh = FALSE]  BY DEF Stale
<1>3. QED  BY <1>1, <1>2 DEF Entry

(* The number of effective reviewers is a number, and so are the overrides. *)
LEMMA EffectiveCount ==
  ASSUME NEW excluded
  PROVE  /\ IsFiniteSet(Effective(excluded))
         /\ Cardinality(Effective(excluded)) \in Nat
         /\ Cardinality(Effective(excluded)) <= Cardinality(Members)
BY BatchAssumption, FS_Subset, FS_CardinalityType DEF Effective, BatchAssumption

LEMMA OverrideType ==
  ASSUME NEW excluded, NEW override \in Nat
  PROVE  /\ ClampOverride(excluded) \in Nat
         /\ SilentOverride(excluded, override) \in Nat
BY BatchAssumption, FS_CardinalityType, EffectiveCount
   DEF ClampOverride, SilentOverride, Least, BatchAssumption

(* The quorum is never zero, and an override that is no smaller than        *)
(* min_reviews or the effective reviewers does not lower it.                *)
Harmless(excluded, override) ==
  \/ override = 0
  \/ override >= Least(MinReviews, Cardinality(Effective(excluded)))

LEMMA MinRevPositive ==
  ASSUME NEW excluded, NEW override \in Nat
  PROVE  MinRev(excluded, override) \in Nat \ {0}
<1> DEFINE eff == Cardinality(Effective(excluded))
<1>1. eff \in Nat  BY EffectiveCount
<1>2. Cardinality(Members) \in Nat
  BY BatchAssumption, FS_CardinalityType DEF BatchAssumption
<1>3. MinReviews \in Nat \ {0}  BY <1>2, BatchAssumption DEF BatchAssumption
<1> HIDE DEF eff
<1>4. QED  BY <1>1, <1>3 DEF MinRev, Least, eff

LEMMA MinRevBound ==
  ASSUME NEW excluded, NEW override \in Nat, Harmless(excluded, override)
  PROVE  MinRev(excluded, override)
           >= Least(MinReviews, Cardinality(Effective(excluded)))
<1> DEFINE eff == Cardinality(Effective(excluded))
<1>1. eff \in Nat  BY EffectiveCount
<1>2. Cardinality(Members) \in Nat
  BY BatchAssumption, FS_CardinalityType DEF BatchAssumption
<1>3. MinReviews \in Nat \ {0}  BY <1>2, BatchAssumption DEF BatchAssumption
<1> HIDE DEF eff
<1>4. QED  BY <1>1, <1>3 DEF MinRev, Least, Harmless, eff

(* Both ways in which the code stores an override keep it harmless.         *)
LEMMA OverrideHarmless ==
  ASSUME NEW excluded, NEW more, NEW override \in Nat,
         Harmless(excluded, override)
  PROVE  /\ Harmless(excluded, ClampOverride(excluded))
         /\ Harmless(excluded \cup more, SilentOverride(excluded \cup more, override))
         /\ Least(MinReviews, Cardinality(Effective(excluded \cup more)))
              <= Least(MinReviews, Cardinality(Effective(excluded)))
<1> DEFINE eff  == Cardinality(Effective(excluded))
           left == Cardinality(Effective(excluded \cup more))
<1>1. eff \in Nat /\ left \in Nat  BY EffectiveCount
<1>2. left <= eff
  <2>1. Effective(excluded \cup more) \subseteq Effective(excluded)
    BY DEF Effective
  <2>2. QED  BY <2>1, EffectiveCount, FS_Subset
<1>3. Cardinality(Members) \in Nat
  BY BatchAssumption, FS_CardinalityType DEF BatchAssumption
<1>4. MinReviews \in Nat \ {0}  BY <1>3, BatchAssumption DEF BatchAssumption
<1> HIDE DEF eff, left
<1>5. Harmless(excluded, ClampOverride(excluded))
  BY <1>1, <1>4 DEF Harmless, ClampOverride, Least, eff
<1>6. Harmless(excluded \cup more, SilentOverride(excluded \cup more, override))
  BY <1>1, <1>2, <1>4 DEF Harmless, SilentOverride, Least, eff, left
<1>7. Least(MinReviews, left) <= Least(MinReviews, eff)
  BY <1>1, <1>2, <1>4 DEF Least
<1>8. QED  BY <1>5, <1>6, <1>7 DEF eff, left

(* The reviewers of an issue are finitely many; a quorum has at least one.  *)
LEMMA ReviewedCount ==
  ASSUME NEW rv, NEW i
  PROVE  /\ IsFiniteSet(Reviewed(rv, i))
         /\ Cardinality(Reviewed(rv, i)) \in Nat
BY BatchAssumption, FS_Subset, FS_CardinalityType DEF Reviewed, BatchAssumption

LEMMA QuorumReviewed ==
  ASSUME NEW rv, NEW n \in Nat \ {0}, CountAtLeast(rv, n)
  PROVE  \A i \in Issues : Reviewed(rv, i) # {}
BY FS_EmptySet DEF CountAtLeast
=============================================================================
