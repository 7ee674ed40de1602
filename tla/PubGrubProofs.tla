---------------------------- MODULE PubGrubProofs ----------------------------
(***************************************************************************)
(* The solver's answers are sound for every package universe: PG_SOLVER_OK *)
(* is reported only with versions that satisfy every dependency.  That     *)
(* rests on facts about ranges, for version components of any width, and   *)
(* on the inductive invariant Inv of PubGrub.                              *)
(***************************************************************************)
EXTENDS PubGrub, SequenceTheorems, FiniteSetTheorems, WellFoundedInduction, TLAPS

-----------------------------------------------------------------------------
(* Ranges *)

\* The order of pg_version_cmp_internal is irreflexive.
LEMMA LtIrreflexive == ASSUME NEW a \in Version PROVE ~VersionLt(a, a)
  BY U16Assumption DEF VersionLt, Version, Component

\* The order of pg_version_cmp_internal is transitive.
LEMMA LtTransitive ==
  ASSUME NEW a \in Version, NEW b \in Version, NEW c \in Version,
         VersionLt(a, b), VersionLt(b, c)
  PROVE  VersionLt(a, c)
  BY U16Assumption DEF VersionLt, Version, Component

\* Two versions that neither precedes are the same triple.
LEMMA LtTotal ==
  ASSUME NEW a \in Version, NEW b \in Version
  PROVE  VersionLt(a, b) \/ VersionLt(b, a) \/ a = b
  BY U16Assumption DEF VersionLt, Version, Component

\* The version behind an unbounded bound is a version.
LEMMA ZeroVersionType == ZeroVersion \in Version
  BY U16Assumption DEF ZeroVersion, Version, Component

\* pg_range_exact builds a well-formed range.
LEMMA ExactType ==
  ASSUME NEW v \in Version PROVE pg_range_exact(v) \in PgVersionRange
  BY DEF pg_range_exact, Inclusive, PgVersionRange, Bound

\* pg_range_any is a well-formed range.
LEMMA AnyType == pg_range_any \in PgVersionRange
  BY ZeroVersionType DEF pg_range_any, pg_unbounded_bound, PgVersionRange, Bound

\* The lower bound pg_range_intersect picks is a bound.
LEMMA MaxLowerType ==
  ASSUME NEW a \in Bound, NEW b \in Bound PROVE MaxLower(a, b) \in Bound
  BY DEF MaxLower, Bound

\* The upper bound pg_range_intersect picks is a bound.
LEMMA MinUpperType ==
  ASSUME NEW a \in Bound, NEW b \in Bound PROVE MinUpper(a, b) \in Bound
  BY DEF MinUpper, Bound

\* pg_range_intersect returns a well-formed range.
LEMMA IntersectType ==
  ASSUME NEW a \in PgVersionRange, NEW b \in PgVersionRange
  PROVE  pg_range_intersect(a, b) \in PgVersionRange
<1>1. CASE a.is_empty \/ b.is_empty
  BY <1>1, ZeroVersionType
     DEF pg_range_intersect, pg_unbounded_bound, PgVersionRange, Bound
<1>2. CASE ~(a.is_empty \/ b.is_empty)
  <2>1. /\ MaxLower(a.lower, b.lower) \in Bound
        /\ MinUpper(a.upper, b.upper) \in Bound
    BY MaxLowerType, MinUpperType DEF PgVersionRange
  <2>2. BoundsCross(MaxLower(a.lower, b.lower), MinUpper(a.upper, b.upper))
          \in BOOLEAN
    BY DEF BoundsCross
  <2>. QED  BY <1>2, <2>1, <2>2 DEF pg_range_intersect, PgVersionRange
<1>. QED  BY <1>1, <1>2

\* The tighter lower bound admits a version exactly when both bounds do.
LEMMA MaxLowerMeaning ==
  ASSUME NEW a \in Bound, NEW b \in Bound, NEW v \in Version
  PROVE  AboveLower(MaxLower(a, b), v) <=> AboveLower(a, v) /\ AboveLower(b, v)
<1>1. a.v \in Version /\ b.v \in Version
  BY DEF Bound
<1>2. /\ VersionLt(a.v, b.v) /\ VersionLt(b.v, v) => VersionLt(a.v, v)
      /\ VersionLt(b.v, a.v) /\ VersionLt(a.v, v) => VersionLt(b.v, v)
      /\ ~(VersionLt(a.v, b.v) /\ VersionLt(b.v, a.v))
      /\ VersionLt(a.v, b.v) \/ VersionLt(b.v, a.v) \/ a.v = b.v
  BY <1>1, LtTransitive, LtIrreflexive, LtTotal
<1>. QED  BY <1>1, <1>2 DEF MaxLower, AboveLower, Bound

\* The tighter upper bound admits a version exactly when both bounds do.
LEMMA MinUpperMeaning ==
  ASSUME NEW a \in Bound, NEW b \in Bound, NEW v \in Version
  PROVE  BelowUpper(MinUpper(a, b), v) <=> BelowUpper(a, v) /\ BelowUpper(b, v)
<1>1. a.v \in Version /\ b.v \in Version
  BY DEF Bound
<1>2. /\ VersionLt(b.v, a.v) /\ VersionLt(v, b.v) => VersionLt(v, a.v)
      /\ VersionLt(a.v, b.v) /\ VersionLt(v, a.v) => VersionLt(v, b.v)
      /\ ~(VersionLt(a.v, b.v) /\ VersionLt(b.v, a.v))
      /\ VersionLt(a.v, b.v) \/ VersionLt(b.v, a.v) \/ a.v = b.v
  BY <1>1, LtTransitive, LtIrreflexive, LtTotal
<1>. QED  BY <1>1, <1>2 DEF MinUpper, BelowUpper, Bound

\* Crossing bounds admit nothing: the emptiness test is sound.
LEMMA CrossMeaning ==
  ASSUME NEW lo \in Bound, NEW hi \in Bound, NEW v \in Version,
         AboveLower(lo, v), BelowUpper(hi, v)
  PROVE  ~BoundsCross(lo, hi)
<1>1. lo.v \in Version /\ hi.v \in Version
  BY DEF Bound
<1>2. /\ ~(VersionLt(hi.v, lo.v) /\ VersionLt(lo.v, v) /\ VersionLt(v, hi.v))
      /\ VersionLt(hi.v, lo.v) => ~VersionLt(lo.v, hi.v)
      /\ VersionLt(lo.v, v) /\ VersionLt(v, hi.v) => VersionLt(lo.v, hi.v)
      /\ ~VersionLt(lo.v, lo.v) /\ ~VersionLt(v, v)
  BY <1>1, LtTransitive, LtIrreflexive
<1>. QED  BY <1>1, <1>2 DEF BoundsCross, AboveLower, BelowUpper, Bound

\* pg_range_intersect contains exactly the versions both ranges contain.
THEOREM IntersectIsMeet ==
  ASSUME NEW a \in PgVersionRange, NEW b \in PgVersionRange, NEW v \in Version
  PROVE  pg_range_contains(pg_range_intersect(a, b), v)
           <=> pg_range_contains(a, v) /\ pg_range_contains(b, v)
<1>1. CASE a.is_empty \/ b.is_empty
  BY <1>1 DEF pg_range_intersect, pg_range_contains, pg_range_any
<1>2. CASE ~(a.is_empty \/ b.is_empty)
  <2> DEFINE lo == MaxLower(a.lower, b.lower)
             hi == MinUpper(a.upper, b.upper)
  <2>1. /\ a.lower \in Bound /\ a.upper \in Bound
        /\ b.lower \in Bound /\ b.upper \in Bound
    BY DEF PgVersionRange
  <2>2. lo \in Bound /\ hi \in Bound
    BY <2>1, MaxLowerType, MinUpperType
  <2>3. AboveLower(lo, v) <=> AboveLower(a.lower, v) /\ AboveLower(b.lower, v)
    BY <2>1, MaxLowerMeaning
  <2>4. BelowUpper(hi, v) <=> BelowUpper(a.upper, v) /\ BelowUpper(b.upper, v)
    BY <2>1, MinUpperMeaning
  <2>5. AboveLower(lo, v) /\ BelowUpper(hi, v) => ~BoundsCross(lo, hi)
    BY <2>2, CrossMeaning
  <2>. QED
    BY <1>2, <2>3, <2>4, <2>5 DEF pg_range_intersect, pg_range_contains
<1>. QED  BY <1>1, <1>2

-----------------------------------------------------------------------------
\* pg_range_exact(v) contains v and nothing else.
LEMMA ExactContains ==
  ASSUME NEW v \in Version, NEW w \in Version
  PROVE  pg_range_contains(pg_range_exact(v), w) <=> w = v
<1>1. ~(VersionLt(v, w) /\ VersionLt(w, v)) /\ ~VersionLt(v, v)
  BY LtTransitive, LtIrreflexive
<1>. QED
  BY <1>1 DEF pg_range_contains, pg_range_exact, Inclusive, AboveLower, BelowUpper

\* Intersecting a range with a version it contains leaves that very version.
LEMMA ExactAbsorbs ==
  ASSUME NEW a \in PgVersionRange, NEW v \in Version, pg_range_contains(a, v)
  PROVE  pg_range_intersect(a, pg_range_exact(v)) = pg_range_exact(v)
<1>1. /\ a.lower \in Bound /\ a.upper \in Bound
      /\ a.lower.v \in Version /\ a.upper.v \in Version /\ ~a.is_empty
  BY DEF PgVersionRange, Bound, pg_range_contains
<1>2. MaxLower(a.lower, Inclusive(v)) = Inclusive(v)
  <2>1. /\ ~VersionLt(v, v)
        /\ ~(VersionLt(a.lower.v, v) /\ VersionLt(v, a.lower.v))
    BY <1>1, LtTransitive, LtIrreflexive
  <2>. QED  BY <1>1, <2>1 DEF MaxLower, Inclusive, pg_range_contains, AboveLower, Bound
<1>3. MinUpper(a.upper, Inclusive(v)) = Inclusive(v)
  <2>1. /\ ~VersionLt(v, v)
        /\ ~(VersionLt(a.upper.v, v) /\ VersionLt(v, a.upper.v))
    BY <1>1, LtTransitive, LtIrreflexive
  <2>. QED  BY <1>1, <2>1 DEF MinUpper, Inclusive, pg_range_contains, BelowUpper, Bound
<1>4. BoundsCross(Inclusive(v), Inclusive(v)) = FALSE
  BY LtIrreflexive DEF BoundsCross, Inclusive
<1>. QED
  BY <1>1, <1>2, <1>3, <1>4 DEF pg_range_intersect, pg_range_exact

\* Against an exact range no comparison of pg_term_state is inconclusive.
THEOREM ExactIsDecisive ==
  ASSUME NEW v \in Version, NEW r \in PgVersionRange
  PROVE  \/ pg_range_subset(pg_range_exact(v), r)
         \/ pg_range_intersect(pg_range_exact(v), r).is_empty
<1> DEFINE e == Inclusive(v)
<1>1. /\ r.lower \in Bound /\ r.upper \in Bound
      /\ r.lower.v \in Version /\ r.upper.v \in Version
      /\ r.is_empty \in BOOLEAN
  BY DEF PgVersionRange, Bound
<1>2. /\ VersionLt(r.lower.v, v) \/ VersionLt(v, r.lower.v) \/ v = r.lower.v
      /\ VersionLt(r.upper.v, v) \/ VersionLt(v, r.upper.v) \/ v = r.upper.v
      /\ ~VersionLt(v, v)
      /\ ~(VersionLt(r.lower.v, v) /\ VersionLt(v, r.lower.v))
      /\ ~(VersionLt(r.upper.v, v) /\ VersionLt(v, r.upper.v))
      /\ VersionLt(r.upper.v, v) /\ VersionLt(v, r.lower.v)
           => VersionLt(r.upper.v, r.lower.v)
  BY <1>1, LtTransitive, LtIrreflexive, LtTotal
<1>3. CASE r.is_empty
  BY <1>3 DEF pg_range_intersect
<1>4. CASE ~pg_lower_bound_ge(e, r.lower) /\ ~r.is_empty
  <2>1. MaxLower(e, r.lower) =
          IF v = r.lower.v THEN Exclusive(v) ELSE r.lower
    BY <1>1, <1>2, <1>4 DEF pg_lower_bound_ge, MaxLower, Inclusive, Exclusive, Bound
  <2>2. BoundsCross(MaxLower(e, r.lower), MinUpper(e, r.upper))
    BY <1>1, <1>2, <1>4, <2>1
       DEF pg_lower_bound_ge, MinUpper, BoundsCross, Inclusive, Exclusive, Bound
  <2>. QED  BY <1>4, <2>2 DEF pg_range_intersect, pg_range_exact
<1>5. CASE ~pg_upper_bound_le(e, r.upper) /\ ~r.is_empty
  <2>1. MinUpper(e, r.upper) =
          IF v = r.upper.v THEN Exclusive(v) ELSE r.upper
    BY <1>1, <1>2, <1>5 DEF pg_upper_bound_le, MinUpper, Inclusive, Exclusive, Bound
  <2>2. BoundsCross(MaxLower(e, r.lower), MinUpper(e, r.upper))
    BY <1>1, <1>2, <1>5, <2>1
       DEF pg_upper_bound_le, MaxLower, BoundsCross, Inclusive, Exclusive, Bound
  <2>. QED  BY <1>5, <2>2 DEF pg_range_intersect, pg_range_exact
<1>6. CASE pg_lower_bound_ge(e, r.lower) /\ pg_upper_bound_le(e, r.upper)
  BY <1>6 DEF pg_range_subset, pg_range_exact
<1>. QED  BY <1>3, <1>4, <1>5, <1>6

\* A range found inside another (one not flagged empty) holds no other version.
THEOREM SubsetIsSound ==
  ASSUME NEW a \in PgVersionRange, NEW b \in PgVersionRange, NEW v \in Version,
         pg_range_subset(a, b), ~b.is_empty, pg_range_contains(a, v)
  PROVE  pg_range_contains(b, v)
<1>1. /\ a.lower.v \in Version /\ a.upper.v \in Version
      /\ b.lower.v \in Version /\ b.upper.v \in Version
      /\ a.lower \in Bound /\ a.upper \in Bound
      /\ b.lower \in Bound /\ b.upper \in Bound
  BY DEF PgVersionRange, Bound
<1>2. AboveLower(b.lower, v)
  <2>1. VersionLt(b.lower.v, a.lower.v) /\ VersionLt(a.lower.v, v)
          => VersionLt(b.lower.v, v)
    BY <1>1, LtTransitive
  <2>. QED
    BY <1>1, <2>1 DEF pg_range_subset, pg_range_contains, pg_lower_bound_ge,
                      AboveLower, Bound
<1>3. BelowUpper(b.upper, v)
  <2>1. VersionLt(v, a.upper.v) /\ VersionLt(a.upper.v, b.upper.v)
          => VersionLt(v, b.upper.v)
    BY <1>1, LtTransitive
  <2>. QED
    BY <1>1, <2>1 DEF pg_range_subset, pg_range_contains, pg_upper_bound_le,
                      BelowUpper, Bound
<1>. QED  BY <1>2, <1>3 DEF pg_range_contains

\* An exact range that contains a version names that version.
LEMMA ExactRangeNames ==
  ASSUME NEW r \in PgVersionRange, NEW v \in Version,
         pg_range_is_exact(r), pg_range_contains(r, v)
  PROVE  r.lower.v = v
<1>1. r.lower.v \in Version /\ r.upper.v = r.lower.v
  BY DEF PgVersionRange, Bound, pg_range_is_exact
<1>2. ~(VersionLt(r.lower.v, v) /\ VersionLt(v, r.lower.v))
  BY <1>1, LtTransitive, LtIrreflexive
<1>. QED
  BY <1>1, <1>2 DEF pg_range_is_exact, pg_range_contains, AboveLower, BelowUpper

\* The commands and the solver agree which versions a range holds: the two
\* tests, version_in_range of package_common.c and pg_range_contains of
\* pg_core.c, are written apart and are one.
THEOREM OneMeaningOfRanges ==
  ASSUME NEW range \in PgVersionRange, NEW v \in Version
  PROVE  version_in_range(v, range) <=> pg_range_contains(range, v)
<1>1. /\ range.lower \in Bound /\ range.upper \in Bound
      /\ range.lower.v \in Version /\ range.upper.v \in Version
  BY DEF PgVersionRange, Bound
<1>2. ASSUME NEW w \in Version
      PROVE  ~VersionLt(v, w) <=> VersionLt(w, v) \/ w = v
  <2>1. ~(VersionLt(v, w) /\ VersionLt(w, v))
    BY LtTransitive, LtIrreflexive
  <2>2. w = v => ~VersionLt(v, w)
    BY LtIrreflexive
  <2>. QED  BY <2>1, <2>2, LtTotal
<1>3. ASSUME NEW w \in Version
      PROVE  ~VersionLt(w, v) <=> VersionLt(v, w) \/ w = v
  <2>1. ~(VersionLt(v, w) /\ VersionLt(w, v))
    BY LtTransitive, LtIrreflexive
  <2>2. w = v => ~VersionLt(w, v)
    BY LtIrreflexive
  <2>. QED  BY <2>1, <2>2, LtTotal
<1>4. (~range.lower.unbounded =>
         IF range.lower.inclusive THEN ~VersionLt(v, range.lower.v) ELSE VersionLt(range.lower.v, v))
      <=> AboveLower(range.lower, v)
  BY <1>1, <1>2 DEF AboveLower, Bound
<1>5. (~range.upper.unbounded =>
         IF range.upper.inclusive THEN ~VersionLt(range.upper.v, v) ELSE VersionLt(v, range.upper.v))
      <=> BelowUpper(range.upper, v)
  BY <1>1, <1>3 DEF BelowUpper, Bound
<1>. QED  BY <1>4, <1>5 DEF version_in_range, pg_range_contains

\* "Until the next major version" means what it says up to the last but one
\* value of a component; the bound of the last one wraps to 0 and the range
\* holds nothing (pg_range_until_next_major of pg_core.c).
THEOREM CaretIsMajor ==
  ASSUME NEW v \in Version, NEW w \in Version
  PROVE  /\ v.major + 1 < U16 =>
              (pg_range_contains(pg_range_until_next_major(v), w)
                 <=> w.major = v.major /\ ~VersionLt(w, v))
         /\ v.major + 1 = U16 => ~pg_range_contains(pg_range_until_next_major(v), w)
<1> DEFINE next == [major |-> Cast(v.major + 1), minor |-> 0, patch |-> 0]
<1>1. pg_range_contains(pg_range_until_next_major(v), w)
        <=> (VersionLt(v, w) \/ v = w) /\ VersionLt(w, next)
  BY DEF pg_range_contains, pg_range_until_next_major, AboveLower, BelowUpper, Inclusive, Exclusive
<1>2. /\ v.major \in 0 .. (U16 - 1) /\ v.minor \in 0 .. (U16 - 1) /\ v.patch \in 0 .. (U16 - 1)
      /\ w.major \in 0 .. (U16 - 1) /\ w.minor \in 0 .. (U16 - 1) /\ w.patch \in 0 .. (U16 - 1)
  BY DEF Version, Component
<1>3. (VersionLt(v, w) \/ v = w) <=> ~VersionLt(w, v)
  BY LtTotal, LtTransitive, LtIrreflexive
<1>4. CASE v.major + 1 < U16
  <2>1. next.major = v.major + 1
    BY <1>2, <1>4, U16Assumption DEF Cast
  <2>2. VersionLt(w, next) <=> w.major < v.major + 1
    BY <1>2, <2>1, U16Assumption DEF VersionLt
  <2>3. ~VersionLt(w, v) => w.major >= v.major
    BY <1>2, U16Assumption DEF VersionLt
  <2>4. w.major < v.major + 1 /\ w.major >= v.major => w.major = v.major
    BY <1>2, U16Assumption
  <2>5. w.major = v.major => w.major < v.major + 1
    BY <1>2, U16Assumption
  <2>6. v.major + 1 # U16
    BY <1>2, <1>4, U16Assumption
  <2>. QED  BY <1>1, <1>3, <2>2, <2>3, <2>4, <2>5, <2>6
<1>5. CASE v.major + 1 = U16
  <2>1. next.major = 0
    BY <1>2, <1>5, U16Assumption DEF Cast
  <2>2. ~VersionLt(w, next)
    BY <1>2, <2>1, U16Assumption DEF VersionLt
  <2>3. ~(v.major + 1 < U16)
    BY <1>2, <1>5, U16Assumption
  <2>. QED  BY <1>1, <2>2, <2>3, <1>5
<1>6. v.major + 1 < U16 \/ v.major + 1 = U16
  BY <1>2, U16Assumption
<1>. QED  BY <1>4, <1>5, <1>6

-----------------------------------------------------------------------------
(* Extremal elements of finite sets of naturals *)

\* A non-empty set of naturals has the minimum that Min names.
LEMMA MinOfNaturals ==
  ASSUME NEW S \in SUBSET Nat, S # {}
  PROVE  Min(S) \in S /\ \A y \in S : Min(S) <= y
<1> DEFINE Less == {ss \in Nat \X Nat : ss[1] < ss[2]}
<1>1. IsWellFoundedOn(Less, Nat)
  BY NatLessThanWellFounded, Zenon DEF OpToRel
<1> HIDE DEF Less
<1>2. PICK x \in S : \A y \in S : ~(<<y, x>> \in Less)
  BY <1>1, WFMin
<1>3. ASSUME NEW y \in S PROVE x <= y
  <2>1. x \in Nat /\ y \in Nat
    OBVIOUS
  <2>2. <<y, x>> \in Nat \X Nat /\ <<y, x>>[1] = y /\ <<y, x>>[2] = x
    BY <2>1
  <2>3. y < x => <<y, x>> \in Less
    BY <2>2 DEF Less
  <2>. QED  BY <1>2, <2>1, <2>3
<1>. QED  BY <1>3 DEF Min

\* A non-empty bounded set of naturals has the maximum that Max names.
LEMMA MaxOfBounded ==
  ASSUME NEW n \in Nat, NEW S \in SUBSET (0 .. n), S # {}
  PROVE  Max(S) \in S /\ \A y \in S : y <= Max(S)
<1> DEFINE T == {m \in 0 .. n : n - m \in S}
<1>1. T \in SUBSET Nat /\ T # {}
  <2>1. PICK y \in S : TRUE
    OBVIOUS
  <2>2. n - y \in T
    BY <2>1
  <2>3. T \subseteq Nat
    OBVIOUS
  <2>. QED  BY <2>2, <2>3
<1>2. Min(T) \in T /\ \A y \in T : Min(T) <= y
  BY <1>1, MinOfNaturals
<1>3. \A y \in S : n - y \in T /\ y \in 0 .. n
  OBVIOUS
<1> HIDE DEF T
<1>4. n - Min(T) \in S /\ Min(T) \in 0 .. n
  BY <1>2 DEF T
<1>5. \A y \in S : n - Min(T) >= y
  BY <1>2, <1>3, <1>4
<1>. QED  BY <1>4, <1>5 DEF Max
-----------------------------------------------------------------------------
(* Types of the helpers *)

\* The latest positive assignment of a package that has one is on the trail.
LEMMA PositivesMax ==
  ASSUME NEW tr \in Seq(Assignment), NEW p, HasPositive(tr, p)
  PROVE  /\ Max(Positives(tr, p)) \in Positives(tr, p)
         /\ \A i \in Positives(tr, p) : i <= Max(Positives(tr, p))
<1>1. Len(tr) \in Nat /\ Positives(tr, p) \in SUBSET (0 .. Len(tr))
  BY DEF Positives
<1>2. Positives(tr, p) # {}
  BY DEF HasPositive
<1>. QED  BY <1>1, <1>2, MaxOfBounded

\* compute_positive_range returns a well-formed range.
LEMMA PositiveRangeType ==
  ASSUME NEW tr \in Seq(Assignment), NEW p, HasPositive(tr, p)
  PROVE  PositiveRange(tr, p) \in PgVersionRange
<1>1. Max(Positives(tr, p)) \in Positives(tr, p)
  BY PositivesMax
<1>2. Max(Positives(tr, p)) \in DOMAIN tr
  BY <1>1 DEF Positives
<1>3. tr[Max(Positives(tr, p))] \in Assignment
  BY <1>2
<1>. QED  BY <1>3 DEF PositiveRange, Assignment

\* Requiring one more range leaves a well-formed range.
LEMMA AccumulateType ==
  ASSUME NEW tr \in Seq(Assignment), NEW p, NEW r \in PgVersionRange
  PROVE  Accumulate(tr, p, r) \in PgVersionRange
  BY PositiveRangeType, IntersectType DEF Accumulate

\* pg_solver_push_assignment builds a well-formed assignment.
LEMMA AssignmentType ==
  ASSUME NEW tr \in Seq(Assignment), NEW p \in Packages,
         NEW r \in PgVersionRange, NEW positive \in BOOLEAN,
         NEW decided \in BOOLEAN, NEW lvl \in Nat, NEW cause \in Nat
  PROVE  assignment(tr, p, r, positive, decided, lvl, cause) \in Assignment
<1>1. (IF positive THEN Accumulate(tr, p, r) ELSE r) \in PgVersionRange
  BY AccumulateType
<1>. QED  BY <1>1 DEF assignment, Assignment

\* The terms of a tracked incompatibility are terms.
LEMMA TermOf ==
  ASSUME NEW terms \in Seq(Term), NEW k \in DOMAIN terms
  PROVE  /\ terms[k] \in Term /\ terms[k].pkg \in Packages
         /\ terms[k].range \in PgVersionRange /\ terms[k].positive \in BOOLEAN
<1>1. terms[k] \in Term
  OBVIOUS
<1>. QED  BY <1>1 DEF Term

\* The packages of a clause form a sequence of packages.
LEMMA PkgsOfType ==
  ASSUME NEW terms \in Seq(Term)
  PROVE  /\ PkgsOf(terms) \in Seq(Packages)
         /\ Len(PkgsOf(terms)) = Len(terms)
         /\ \A k \in DOMAIN terms : PkgsOf(terms)[k] = terms[k].pkg
<1>1. \A k \in 1 .. Len(terms) : terms[k].pkg \in Packages
  BY TermOf
<1>2. DOMAIN terms = 1 .. Len(terms) /\ Len(terms) \in Nat
  OBVIOUS
<1>. QED  BY <1>1, <1>2 DEF PkgsOf

\* How often a clause is appended to the list of a package.
LEMMA TermCount ==
  ASSUME NEW terms \in Seq(Term), NEW p
  PROVE  /\ Cardinality({k \in DOMAIN terms : terms[k].pkg = p}) \in Nat
         /\ {k \in DOMAIN terms : terms[k].pkg = p} # {} =>
              Cardinality({k \in DOMAIN terms : terms[k].pkg = p}) > 0
<1> DEFINE K == {k \in DOMAIN terms : terms[k].pkg = p}
<1>1. IsFiniteSet(1 .. Len(terms)) /\ K \in SUBSET (1 .. Len(terms))
  BY FS_Interval
<1>2. IsFiniteSet(K)
  BY <1>1, FS_Subset
<1> HIDE DEF K
<1>3. Cardinality(K) \in Nat /\ (Cardinality(K) = 0 <=> K = {})
  BY <1>2, FS_CardinalityType, FS_EmptySet
<1>. QED  BY <1>3 DEF K

\* Attaching a clause keeps every list a sequence of existing clauses.
LEMMA AttachedListsType ==
  ASSUME NEW S, NEW id \in S,
         NEW ls \in [Packages -> Seq(S)], NEW terms \in Seq(Term)
  PROVE  AttachedLists(ls, id, terms) \in [Packages -> Seq(S)]
<1> DEFINE count(p) == Cardinality({k \in DOMAIN terms : terms[k].pkg = p})
           ext(p) == [j \in 1 .. count(p) |-> id]
<1>1. AttachedLists(ls, id, terms) = [p \in Packages |-> ls[p] \o ext(p)]
  BY DEF AttachedLists
<1>2. ASSUME NEW p \in Packages PROVE ls[p] \o ext(p) \in Seq(S)
  <2>1. count(p) \in Nat
    BY TermCount
  <2> HIDE DEF count
  <2>2. ext(p) \in Seq(S) /\ ls[p] \in Seq(S)
    BY <2>1
  <2> HIDE DEF ext
  <2>. QED  BY <2>2, ConcatProperties
<1> HIDE DEF ext
<1>. QED  BY <1>1, <1>2

\* Attaching a clause appends it to the list of every package it mentions and
\* keeps what the lists hold.
LEMMA AttachedListsKeep ==
  ASSUME NEW id \in Nat, NEW ls \in [Packages -> Seq(Nat)], NEW terms \in Seq(Term)
  PROVE  /\ \A p \in Packages : \A j \in DOMAIN ls[p] :
              /\ j \in DOMAIN AttachedLists(ls, id, terms)[p]
              /\ AttachedLists(ls, id, terms)[p][j] = ls[p][j]
         /\ \A k \in DOMAIN terms :
              \E j \in DOMAIN AttachedLists(ls, id, terms)[terms[k].pkg] :
                AttachedLists(ls, id, terms)[terms[k].pkg][j] = id
<1> DEFINE count(p) == Cardinality({k \in DOMAIN terms : terms[k].pkg = p})
           ext(p) == [j \in 1 .. count(p) |-> id]
<1>1. AttachedLists(ls, id, terms) = [p \in Packages |-> ls[p] \o ext(p)]
  BY DEF AttachedLists
<1>2. ASSUME NEW p \in Packages
      PROVE  /\ ls[p] \in Seq(Nat) /\ ext(p) \in Seq(Nat)
             /\ count(p) \in Nat /\ Len(ext(p)) = count(p)
             /\ count(p) > 0 => ext(p)[1] = id
  <2>1. count(p) \in Nat
    BY TermCount
  <2> HIDE DEF count
  <2>. QED  BY <2>1
<1>3. ASSUME NEW k \in DOMAIN terms PROVE terms[k].pkg \in Packages /\ count(terms[k].pkg) > 0
  <2>1. terms[k].pkg \in Packages
    BY TermOf
  <2>2. {j \in DOMAIN terms : terms[j].pkg = terms[k].pkg} # {}
    OBVIOUS
  <2>. QED  BY <2>1, <2>2, TermCount
<1> HIDE DEF ext, count
<1>4. ASSUME NEW p \in Packages, NEW j \in DOMAIN ls[p]
      PROVE  /\ j \in DOMAIN AttachedLists(ls, id, terms)[p]
             /\ AttachedLists(ls, id, terms)[p][j] = ls[p][j]
  <2>1. AttachedLists(ls, id, terms)[p] = ls[p] \o ext(p)
    BY <1>1
  <2>2. ls[p] \in Seq(Nat) /\ ext(p) \in Seq(Nat)
    BY <1>2
  <2>. QED  BY <2>1, <2>2
<1>5. ASSUME NEW k \in DOMAIN terms
      PROVE  \E j \in DOMAIN AttachedLists(ls, id, terms)[terms[k].pkg] :
               AttachedLists(ls, id, terms)[terms[k].pkg][j] = id
  <2> DEFINE p == terms[k].pkg
  <2>1. p \in Packages /\ count(p) > 0
    BY <1>3
  <2>2. AttachedLists(ls, id, terms)[p] = ls[p] \o ext(p)
    BY <1>1, <2>1
  <2> HIDE DEF p
  <2>3. /\ ls[p] \in Seq(Nat) /\ ext(p) \in Seq(Nat) /\ count(p) \in Nat
        /\ Len(ext(p)) = count(p) /\ ext(p)[1] = id
    BY <1>2, <2>1
  <2>4. /\ Len(ls[p]) + 1 \in DOMAIN (ls[p] \o ext(p))
        /\ (ls[p] \o ext(p))[Len(ls[p]) + 1] = id
    <3>1. Len(ls[p]) \in Nat /\ Len(ext(p)) \in Nat /\ Len(ext(p)) > 0
      BY <2>1, <2>3
    <3>2. /\ Len(ls[p]) + 1 \in 1 .. Len(ls[p]) + Len(ext(p))
          /\ Len(ls[p]) + 1 - Len(ls[p]) = 1
      BY <3>1
    <3>. QED  BY <2>3, <3>1, <3>2, ConcatProperties
  <2>. QED  BY <2>2, <2>4 DEF p
<1>. QED  BY <1>4, <1>5

\* Attaching a clause lists it for every package it mentions.
LEMMA AttachedListsMention ==
  ASSUME NEW id \in Nat, NEW ls \in [Packages -> Seq(Nat)], NEW terms \in Seq(Term)
  PROVE  \A k \in DOMAIN terms :
           \E j \in DOMAIN AttachedLists(ls, id, terms)[terms[k].pkg] :
             AttachedLists(ls, id, terms)[terms[k].pkg][j] = id
  BY AttachedListsKeep

\* A sequence over a set is a sequence over a larger one.
LEMMA SeqMonotone ==
  ASSUME NEW S, NEW T, S \subseteq T, NEW s \in Seq(S)
  PROVE  s \in Seq(T)
  OBVIOUS

\* Tracking more clauses keeps the lists well formed.
LEMMA ListsMonotone ==
  ASSUME NEW S, NEW T, S \subseteq T, NEW ls \in [Packages -> Seq(S)]
  PROVE  ls \in [Packages -> Seq(T)]
<1>1. \A p \in Packages : ls[p] \in Seq(T)
  BY SeqMonotone
<1>. QED  BY <1>1

\* Tracking more clauses keeps every pointer to a clause valid.
LEMMA PointersMonotone ==
  ASSUME TypeOK, NEW n \in Nat, Len(incs) <= n
  PROVE  /\ \A i \in DOMAIN trail : trail[i].cause \in 0 .. n
         /\ conflict \in 0 .. n
<1>1. Len(incs) \in Nat /\ 0 .. Len(incs) \subseteq 0 .. n
  BY DEF TypeOK
<1>2. /\ \A i \in DOMAIN trail : trail[i].cause \in 0 .. Len(incs)
      /\ conflict \in 0 .. Len(incs)
  BY DEF TypeOK
<1>. QED  BY <1>1, <1>2

\* Cutting a provider's answer to its buffer keeps its type.
LEMMA TruncateType ==
  ASSUME NEW S, NEW s \in Seq(S), NEW n \in Nat
  PROVE  /\ Truncate(s, n) \in Seq(S)
         /\ Len(Truncate(s, n)) <= Len(s)
         /\ Len(s) <= n => Truncate(s, n) = s
  BY DEF Truncate

-----------------------------------------------------------------------------
(* Type correctness *)

\* A new solver is well typed.
LEMMA TypeInit == Init => TypeOK
  BY PubGrubAssumption
     DEF Init, TypeOK, NoMerge, NoIncompatibility, Incompatibility, Reason

\* Appending an assignment keeps the trail well typed.
LEMMA PushType ==
  ASSUME TypeOK, NEW a \in Assignment, a.cause \in 0 .. Len(incs)
  PROVE  /\ Append(trail, a) \in Seq(Assignment)
         /\ \A i \in DOMAIN Append(trail, a) :
              Append(trail, a)[i].cause \in 0 .. Len(incs)
<1>1. trail \in Seq(Assignment)
  BY DEF TypeOK
<1>2. \A i \in DOMAIN trail : trail[i].cause \in 0 .. Len(incs)
  BY DEF TypeOK
<1>. QED  BY <1>1, <1>2, AppendProperties

\* What the provider answers for a version fits the dependency loop.
LEMMA ProviderType ==
  ASSUME NEW r \in Registries, NEW p \in Packages, NEW v \in Version,
         get_dependencies(r, p, v) # ProviderError
  PROVE  /\ get_dependencies(r, p, v) \in Seq(Dependency)
         /\ Truncate(get_dependencies(r, p, v), DependencyBuffer) \in Seq(Dependency)
<1>1. get_dependencies(r, p, v) \in Seq(Dependency)
  BY ProviderAssumption
<1>. QED  BY <1>1, TruncateType, PubGrubAssumption

\* Pushing a decision keeps the trail, the stack and the queue of
\* dependencies well typed.
LEMMA PushDecisionType ==
  ASSUME TypeOK, NEW p \in Packages, NEW v \in Version, NEW lvl \in Nat,
         PushDecision(p, v, lvl)
  PROVE  /\ trail' \in Seq(Assignment)
         /\ \A i \in DOMAIN trail' : trail'[i].cause \in 0 .. Len(incs)
         /\ changed' \in Seq(Packages)
         /\ todo' \in Seq(Dependency)
         /\ pc' \in {"register", "done"}
         /\ status' \in {status, "INTERNAL_ERROR"}
<1> DEFINE a == assignment(trail, p, pg_range_exact(v), TRUE, TRUE, lvl, 0)
<1>1. trail \in Seq(Assignment) /\ pg_range_exact(v) \in PgVersionRange
  BY ExactType DEF TypeOK
<1>2. a \in Assignment /\ a.cause = 0
  <2>1. a \in Assignment
    BY <1>1, AssignmentType
  <2>. QED  BY <2>1 DEF assignment
<1> HIDE DEF a
<1>3. Len(incs) \in Nat
  BY DEF TypeOK
<1>4. /\ Append(trail, a) \in Seq(Assignment)
      /\ \A i \in DOMAIN Append(trail, a) :
           Append(trail, a)[i].cause \in 0 .. Len(incs)
  BY <1>2, <1>3, PushType
<1>5. trail' = Append(trail, a)
  BY DEF PushDecision, a
<1>6. changed' \in Seq(Packages)
  BY DEF PushDecision, TypeOK
<1>7. CASE get_dependencies(reg, p, v) = ProviderError
  BY <1>4, <1>5, <1>6, <1>7 DEF PushDecision, Stop, TypeOK
<1>8. CASE get_dependencies(reg, p, v) # ProviderError
  <2>1. Truncate(get_dependencies(reg, p, v), DependencyBuffer) \in Seq(Dependency)
    BY <1>8, ProviderType DEF TypeOK
  <2>. QED  BY <1>4, <1>5, <1>6, <1>8, <2>1 DEF PushDecision
<1>. QED  BY <1>7, <1>8

\* Adding a clause keeps the clauses and their lists well typed.
LEMMA AddIncompatibilityType ==
  ASSUME TypeOK, NEW terms \in Seq(Term), NEW reason \in Reason,
         pg_solver_add_incompatibility(terms, reason)
  PROVE  /\ incs' \in Seq(Incompatibility)
         /\ Len(incs') = Len(incs) + 1
         /\ lists' \in [Packages -> Seq(1 .. Len(incs'))]
         /\ \A p \in Packages : Len(lists[p]) <= Len(lists'[p])
         /\ incs'[Len(incs) + 1].terms = terms
         /\ \A c \in 1 .. Len(incs) : incs'[c] = incs[c]
<1> DEFINE inc == [terms |-> terms, reason |-> reason,
                   causes |-> << >>, attached |-> TRUE]
<1>1. inc \in Incompatibility
  BY DEF Incompatibility
<1>2. incs \in Seq(Incompatibility) /\ Len(incs) \in Nat
  BY DEF TypeOK
<1>3. incs' = Append(incs, inc) /\ lists' = AttachedLists(lists, Len(incs) + 1, terms)
  BY DEF pg_solver_add_incompatibility
<1>4. inc.terms = terms
  OBVIOUS
<1> HIDE DEF inc
<1>5. /\ incs' \in Seq(Incompatibility) /\ Len(incs') = Len(incs) + 1
      /\ incs'[Len(incs) + 1] = inc
      /\ \A c \in 1 .. Len(incs) : incs'[c] = incs[c]
  BY <1>1, <1>2, <1>3, AppendProperties
<1>6. lists \in [Packages -> Seq(1 .. Len(incs))]
  BY DEF TypeOK
<1>7. /\ Len(incs) + 1 \in Nat /\ Len(incs) <= Len(incs) + 1
      /\ Len(incs) + 1 \in 1 .. Len(incs) + 1
  BY <1>2
<1>8. /\ lists' \in [Packages -> Seq(1 .. Len(incs) + 1)]
      /\ \A p \in Packages : \A j \in DOMAIN lists[p] : j \in DOMAIN lists'[p]
  <2>1. 1 .. Len(incs) \subseteq 1 .. Len(incs) + 1
    BY <1>2
  <2>2. lists \in [Packages -> Seq(1 .. Len(incs) + 1)]
    BY <1>6, <2>1, ListsMonotone
  <2>3. lists' \in [Packages -> Seq(1 .. Len(incs) + 1)]
    BY <1>3, <1>7, <2>2, AttachedListsType
  <2>4. 1 .. Len(incs) \subseteq Nat /\ Len(incs) + 1 \in Nat
    BY <1>2
  <2>5. lists \in [Packages -> Seq(Nat)]
    BY <1>6, <2>4, ListsMonotone
  <2>6. \A p \in Packages : \A j \in DOMAIN lists[p] :
          j \in DOMAIN AttachedLists(lists, Len(incs) + 1, terms)[p]
    BY <2>4, <2>5, AttachedListsKeep
  <2>. QED  BY <1>3, <2>3, <2>6
<1>9. ASSUME NEW p \in Packages PROVE Len(lists[p]) <= Len(lists'[p])
  <2>1. /\ DOMAIN lists[p] = 1 .. Len(lists[p]) /\ Len(lists[p]) \in Nat
        /\ DOMAIN lists'[p] = 1 .. Len(lists'[p]) /\ Len(lists'[p]) \in Nat
    BY <1>6, <1>8
  <2>2. CASE Len(lists[p]) = 0
    BY <2>1, <2>2
  <2>3. CASE Len(lists[p]) # 0
    <3>1. Len(lists[p]) \in DOMAIN lists[p]
      BY <2>1, <2>3
    <3>2. Len(lists[p]) \in DOMAIN lists'[p]
      BY <1>8, <3>1
    <3>. QED  BY <2>1, <3>2
  <2>. QED  BY <2>2, <2>3
<1>. QED  BY <1>4, <1>5, <1>8, <1>9

\* The clause under the scan exists.
LEMMA ScannedType ==
  ASSUME TypeOK, scan.idx > 0
  PROVE  /\ ScannedInc \in 1 .. Len(incs) /\ ScannedInc \in DOMAIN incs
         /\ incs[ScannedInc] \in Incompatibility
         /\ incs[ScannedInc].terms \in Seq(Term)
<1>1. /\ lists[scan.pkg] \in Seq(1 .. Len(incs)) /\ scan.idx \in Nat
      /\ scan.idx <= Len(lists[scan.pkg])
      /\ incs \in Seq(Incompatibility)
  BY DEF TypeOK
<1>2. scan.idx \in 1 .. Len(lists[scan.pkg])
  BY <1>1
<1>3. ScannedInc \in 1 .. Len(incs)
  BY <1>1, <1>2 DEF ScannedInc
<1>4. ScannedInc \in DOMAIN incs /\ incs[ScannedInc] \in Incompatibility
  BY <1>1, <1>3
<1>. QED  BY <1>3, <1>4 DEF Incompatibility

\* The clause being resolved exists while a conflict is resolved.
LEMMA CurrentType ==
  ASSUME TypeOK, conflict # 0
  PROVE  /\ conflict \in 1 .. Len(incs) /\ conflict \in DOMAIN incs
         /\ Current \in Incompatibility /\ Current.terms \in Seq(Term)
<1>1. conflict \in 1 .. Len(incs) /\ incs \in Seq(Incompatibility)
  BY DEF TypeOK
<1>2. conflict \in DOMAIN incs /\ incs[conflict] \in Incompatibility
  BY <1>1
<1>. QED  BY <1>1, <1>2 DEF Current, Incompatibility

\* The length of the trail that backtracking keeps.
LEMMA KeptProperties ==
  ASSUME NEW tr \in Seq(Assignment), NEW lvl \in Nat
  PROVE  /\ Kept(tr, lvl) \in Seq(Assignment)
         /\ Len(Kept(tr, lvl)) \in 0 .. Len(tr)
         /\ \A i \in DOMAIN Kept(tr, lvl) : i \in DOMAIN tr /\ Kept(tr, lvl)[i] = tr[i]
         /\ \A i \in DOMAIN tr : tr[i].level <= lvl => i \in DOMAIN Kept(tr, lvl)
         /\ Len(Kept(tr, lvl)) > 0 => tr[Len(Kept(tr, lvl))].level <= lvl
<1> DEFINE S == {0} \cup {i \in DOMAIN tr : tr[i].level <= lvl}
<1>1. Len(tr) \in Nat /\ S \in SUBSET (0 .. Len(tr)) /\ S # {}
  OBVIOUS
<1>2. Max(S) \in S /\ \A y \in S : y <= Max(S)
  BY <1>1, MaxOfBounded
<1>3. Kept(tr, lvl) = SubSeq(tr, 1, Max(S))
  BY DEF Kept
<1>4. \A i \in DOMAIN tr : tr[i].level <= lvl => i \in S
  OBVIOUS
<1>5. \A i \in S : i > 0 => tr[i].level <= lvl
  OBVIOUS
<1> HIDE DEF S
<1>6. Max(S) \in 0 .. Len(tr)
  BY <1>1, <1>2
<1>7. /\ SubSeq(tr, 1, Max(S)) \in Seq(Assignment)
      /\ Len(SubSeq(tr, 1, Max(S))) = Max(S)
      /\ \A i \in 1 .. Max(S) : SubSeq(tr, 1, Max(S))[i] = tr[i]
  BY <1>1, <1>6
<1>8. DOMAIN SubSeq(tr, 1, Max(S)) = 1 .. Max(S)
  BY <1>7
<1>. QED  BY <1>1, <1>2, <1>3, <1>4, <1>5, <1>6, <1>7, <1>8

\* Backtracking leaves everything up to the target level where it is.
LEMMA KeptLevels ==
  ASSUME NEW tr \in Seq(Assignment), NEW lvl \in Nat
  PROVE  \A i \in DOMAIN tr : tr[i].level <= lvl =>
           i \in DOMAIN Kept(tr, lvl) /\ Kept(tr, lvl)[i] = tr[i]
  BY KeptProperties

\* The packages of a trail form a sequence of packages.
LEMMA TrailPkgsType ==
  ASSUME NEW tr \in Seq(Assignment)
  PROVE  /\ PkgsOf(tr) \in Seq(Packages)
         /\ DOMAIN PkgsOf(tr) = DOMAIN tr
         /\ \A k \in DOMAIN tr : PkgsOf(tr)[k] = tr[k].pkg
<1>1. ASSUME NEW k \in DOMAIN tr PROVE tr[k].pkg \in Packages
  <2>1. tr[k] \in Assignment
    OBVIOUS
  <2>. QED  BY <2>1 DEF Assignment
<1>2. DOMAIN tr = 1 .. Len(tr) /\ Len(tr) \in Nat
  OBVIOUS
<1>. QED  BY <1>1, <1>2 DEF PkgsOf

\* A satisfier is an assignment of the trail.
LEMMA BackjumpLevelType ==
  ASSUME TypeOK, LevelsMonotone, status = "RUNNING"
  PROVE  BackjumpLevel \in 0 .. level
<1> DEFINE terms == Current.terms
           skip == Satisfier.pkg
           K == {j \in DOMAIN terms : /\ terms[j].pkg # skip
                                     /\ SatisfiersOf(terms[j]) # {}}
           S == {0} \cup {trail[Max(SatisfiersOf(terms[k]))].level : k \in K}
<1>1. level \in Nat /\ trail \in Seq(Assignment) /\ Len(trail) \in Nat
  BY DEF TypeOK
<1>2. ASSUME NEW k \in K
      PROVE  trail[Max(SatisfiersOf(terms[k]))].level \in 0 .. level
  <2> DEFINE Q == SatisfiersOf(terms[k])
  <2>1. Q \in SUBSET (0 .. Len(trail)) /\ Q \subseteq DOMAIN trail /\ Q # {}
    BY <1>1 DEF SatisfiersOf
  <2>2. Max(Q) \in Q
    BY <1>1, <2>1, MaxOfBounded
  <2> HIDE DEF Q
  <2>3. Max(Q) \in DOMAIN trail
    BY <2>1, <2>2
  <2>4. trail[Max(Q)] \in Assignment /\ trail[Max(Q)].level <= level
    BY <1>1, <2>3 DEF LevelsMonotone, Sound
  <2>. QED  BY <1>1, <2>4 DEF Assignment, Q
<1>3. S \in SUBSET (0 .. level) /\ S # {}
  <2>1. \A k \in K : trail[Max(SatisfiersOf(terms[k]))].level \in 0 .. level
    BY <1>2
  <2> HIDE DEF K
  <2>2. 0 \in 0 .. level
    BY <1>1
  <2>. QED  BY <2>1, <2>2
<1>4. BackjumpLevel = Max(S)
  BY DEF BackjumpLevel, PreviousLevel
<1> HIDE DEF S
<1>. QED  BY <1>1, <1>3, <1>4, MaxOfBounded

\* The satisfier that pg_resolve_conflict finds is on the trail.
LEMMA SatisfierType ==
  ASSUME TypeOK, conflict # 0, HasSatisfier(Current.terms),
         ~is_root_failure(Current.terms)
  PROVE  /\ SatisfierIndex(Current.terms) \in DOMAIN trail
         /\ Satisfier \in Assignment /\ Satisfier.cause \in 0 .. Len(incs)
         /\ SatisfiedTerm(Current.terms) \in DOMAIN Current.terms
<1> DEFINE terms == Current.terms
           M(k) == Min(SatisfiersOf(terms[k]))
           S == {M(k) : k \in DOMAIN terms}
           T == {k \in DOMAIN terms : M(k) = SatisfierIndex(terms)}
<1>1. terms \in Seq(Term) /\ trail \in Seq(Assignment) /\ Len(trail) \in Nat
  BY CurrentType DEF TypeOK
<1>2. ASSUME NEW k \in DOMAIN terms PROVE M(k) \in DOMAIN trail
  <2>1. SatisfiersOf(terms[k]) \in SUBSET Nat /\ SatisfiersOf(terms[k]) # {}
        /\ SatisfiersOf(terms[k]) \subseteq DOMAIN trail
    BY <1>1 DEF HasSatisfier, SatisfiersOf
  <2>. QED  BY <2>1, MinOfNaturals
<1>3. terms # << >>
  BY DEF is_root_failure
<1>4. 1 \in DOMAIN terms
  BY <1>1, <1>3
<1>5. S \in SUBSET (0 .. Len(trail)) /\ S # {} /\ S \subseteq DOMAIN trail
  <2>1. \A k \in DOMAIN terms : M(k) \in DOMAIN trail
    BY <1>2
  <2> HIDE DEF M
  <2>. QED  BY <1>1, <1>4, <2>1
<1>6. SatisfierIndex(terms) = Max(S)
  BY DEF SatisfierIndex
<1>7. Max(S) \in S
  <2> HIDE DEF S
  <2>. QED  BY <1>1, <1>5, MaxOfBounded
<1>8. SatisfierIndex(terms) \in DOMAIN trail
  <2> HIDE DEF S
  <2>. QED  BY <1>5, <1>6, <1>7
<1>9. T \in SUBSET Nat /\ T # {} /\ T \subseteq DOMAIN terms
  <2>1. PICK k \in DOMAIN terms : M(k) = Max(S)
    BY <1>7
  <2> HIDE DEF M
  <2>2. k \in T
    BY <1>6, <2>1
  <2>3. T \subseteq DOMAIN terms
    OBVIOUS
  <2>. QED  BY <1>1, <2>2, <2>3
<1>10. SatisfiedTerm(terms) = Min(T)
  BY DEF SatisfiedTerm
<1>11. SatisfiedTerm(terms) \in DOMAIN terms
  <2> HIDE DEF T
  <2>. QED  BY <1>9, <1>10, MinOfNaturals
<1>12. Satisfier \in Assignment /\ Satisfier.cause \in 0 .. Len(incs)
  <2> HIDE DEF terms
  <2>. QED  BY <1>1, <1>8 DEF Satisfier, TypeOK, terms
<1>. QED  BY <1>8, <1>11, <1>12

\* A clause without one of its terms is a sequence of terms.
LEMMA RemoveTermType ==
  ASSUME NEW terms \in Seq(Term), NEW k \in DOMAIN terms
  PROVE  RemoveTerm(terms, k) \in Seq(Term)
<1>1. SubSeq(terms, 1, k - 1) \in Seq(Term) /\ SubSeq(terms, k + 1, Len(terms)) \in Seq(Term)
  OBVIOUS
<1>. QED  BY <1>1, ConcatProperties DEF RemoveTerm

\* Attaching a learned clause only changes its flag.
LEMMA MarkAttached ==
  ASSUME TypeOK, NEW c \in 1 .. Len(incs), incs' = [incs EXCEPT ![c].attached = TRUE]
  PROVE  /\ incs' \in Seq(Incompatibility) /\ Len(incs') = Len(incs)
         /\ \A d \in DOMAIN incs : /\ incs'[d].terms = incs[d].terms
                                  /\ d # c => incs'[d] = incs[d]
         /\ incs'[c].attached /\ DOMAIN incs' = DOMAIN incs
<1>1. incs \in Seq(Incompatibility) /\ Len(incs) \in Nat /\ DOMAIN incs = 1 .. Len(incs)
  BY DEF TypeOK
<1>2. incs[c] \in Incompatibility
  BY <1>1
<1> DEFINE inc == [incs[c] EXCEPT !.attached = TRUE]
<1>3. inc \in Incompatibility /\ inc.terms = incs[c].terms /\ inc.attached
  BY <1>2 DEF Incompatibility
<1>4. incs' = [incs EXCEPT ![c] = inc]
  OBVIOUS
<1> HIDE DEF inc
<1>5. incs' \in Seq(Incompatibility) /\ Len(incs') = Len(incs) /\ DOMAIN incs' = DOMAIN incs
  <2>1. DOMAIN incs' = 1 .. Len(incs)
    BY <1>1, <1>4
  <2>2. \A d \in 1 .. Len(incs) : incs'[d] \in Incompatibility
    <3>1. \A d \in 1 .. Len(incs) : incs[d] \in Incompatibility
      BY <1>1
    <3>. QED  BY <1>1, <1>3, <1>4, <3>1
  <2>3. incs' = [d \in 1 .. Len(incs) |-> incs'[d]]
    BY <1>1, <1>4
  <2>4. incs' \in [1 .. Len(incs) -> Incompatibility]
    BY <2>1, <2>2, <2>3
  <2>. QED  BY <1>1, <2>1, <2>4
<1>6. \A d \in DOMAIN incs : incs'[d] = IF d = c THEN inc ELSE incs[d]
  BY <1>1, <1>4
<1>. QED  BY <1>1, <1>3, <1>5, <1>6

\* The version pg_make_decision picks is one of the provider's, inside the
\* accumulated range and not forbidden.
LEMMA ChosenVersionType ==
  ASSUME TypeOK, NEW p \in Undecided, ~Stuck(p)
  PROVE  /\ VersionsOf(p)[Min(Candidates(p))] \in Version
         /\ pg_range_contains(PositiveRange(trail, p), VersionsOf(p)[Min(Candidates(p))])
         /\ Offered(p, VersionsOf(p)[Min(Candidates(p))])
<1>1. p \in Packages /\ Candidates(p) # {} /\ get_versions(reg, p) # ProviderError
  BY DEF Undecided, Stuck, Unevaluable
<1>2. VersionsOf(p) \in Seq(Version)
  BY <1>1, ProviderAssumption, PubGrubAssumption, TruncateType DEF VersionsOf, TypeOK
<1>3. Candidates(p) \in SUBSET Nat /\ Candidates(p) \subseteq DOMAIN VersionsOf(p)
  BY <1>2 DEF Candidates
<1>4. Min(Candidates(p)) \in Candidates(p)
  BY <1>1, <1>3, MinOfNaturals
<1>5. VersionsOf(p)[Min(Candidates(p))] \in Version
  BY <1>2, <1>3, <1>4
<1>6. \A n \in DOMAIN VersionsOf(p) : /\ n \in DOMAIN get_versions(reg, p)
                                      /\ VersionsOf(p)[n] = get_versions(reg, p)[n]
  <2>1. get_versions(reg, p) \in Seq(Version) /\ VersionBuffer \in Nat
    BY <1>1, ProviderAssumption, PubGrubAssumption DEF TypeOK
  <2>. QED  BY <2>1 DEF VersionsOf, Truncate
<1>7. Offered(p, VersionsOf(p)[Min(Candidates(p))])
  BY <1>3, <1>4, <1>6 DEF Offered
<1>. QED  BY <1>4, <1>5, <1>7 DEF Candidates

\* Every step keeps the types.
LEMMA TypeStep == Inv /\ [Next]_vars => TypeOK'
<1> SUFFICES ASSUME Inv, [Next]_vars PROVE TypeOK'
  OBVIOUS
<1>0. TypeOK /\ Len(incs) \in Nat /\ Len(trail) \in Nat
  BY DEF Inv, TypeOK
<1>1. CASE UNCHANGED vars
  BY <1>0, <1>1 DEF TypeOK, vars
<1>2. ASSUME NEW req \in RootRequirements, AddRootDependency(req[1], req[2])
      PROVE  TypeOK'
  <2> DEFINE a == assignment(trail, req[1], req[2], TRUE, FALSE, 0, 0)
  <2>1. req[1] \in Packages /\ req[2] \in PgVersionRange
    BY PubGrubAssumption
  <2>2. a \in Assignment
    BY <1>0, <2>1, AssignmentType DEF TypeOK
  <2>3. a.cause = 0
    BY DEF assignment
  <2> HIDE DEF a
  <2>4. /\ Append(trail, a) \in Seq(Assignment)
        /\ \A i \in DOMAIN Append(trail, a) :
             Append(trail, a)[i].cause \in 0 .. Len(incs)
    BY <1>0, <2>2, <2>3, PushType
  <2>5. trail' = Append(trail, a)
    BY <1>2 DEF AddRootDependency, a
  <2>6. /\ changed' = Append(changed, req[1])
        /\ UNCHANGED <<reg, pc, status, incs, lists, scan, todo, level, conflict,
                       merge, root_incompatibility, decisions, propagations,
                       conflicts>>
    BY <1>2 DEF AddRootDependency
  <2>7. changed' \in Seq(Packages)
    BY <1>0, <2>1, <2>6 DEF TypeOK
  <2>. QED  BY <1>0, <2>4, <2>5, <2>6, <2>7 DEF TypeOK
<1>3. CASE SeedRoot
  <2>1. /\ trail' \in Seq(Assignment)
        /\ \A i \in DOMAIN trail' : trail'[i].cause \in 0 .. Len(incs)
        /\ changed' \in Seq(Packages) /\ todo' \in Seq(Dependency)
        /\ pc' \in {"register", "done"} /\ status' \in {status, "INTERNAL_ERROR"}
    BY <1>0, <1>3, PushDecisionType, PubGrubAssumption DEF SeedRoot
  <2>. QED  BY <1>0, <1>3, <2>1 DEF SeedRoot, TypeOK
<1>4. CASE RegisterDependency
  <2> DEFINE terms == DependencyTerms(trail[Len(trail)], Head(todo))
  <2>1. terms \in Seq(Term)
    <3>1. Head(todo) \in Dependency
      BY <1>0, <1>4 DEF RegisterDependency, TypeOK
    <3>2. Len(trail) \in DOMAIN trail
      BY <1>0, <1>4 DEF RegisterDependency, Inv, LoopShape, TypeOK
    <3>3. trail[Len(trail)] \in Assignment
      BY <1>0, <3>2 DEF TypeOK
    <3>. QED  BY <3>1, <3>3 DEF DependencyTerms, Dependency, Assignment, Term
  <2>2. pg_solver_add_incompatibility(terms, "DEPENDENCY") /\ changed' = changed \o PkgsOf(terms)
    BY <1>4 DEF RegisterDependency
  <2> HIDE DEF terms
  <2>3. /\ incs' \in Seq(Incompatibility) /\ Len(incs') = Len(incs) + 1
        /\ lists' \in [Packages -> Seq(1 .. Len(incs'))]
        /\ \A p \in Packages : Len(lists[p]) <= Len(lists'[p])
    BY <1>0, <2>1, <2>2, AddIncompatibilityType DEF Reason
  <2>4. changed' \in Seq(Packages)
    BY <1>0, <2>1, <2>2, PkgsOfType, ConcatProperties DEF TypeOK
  <2>5. todo' \in Seq(Dependency)
    BY <1>0, <1>4 DEF RegisterDependency, TypeOK
  <2>6. scan.idx <= Len(lists'[scan.pkg])
    <3>1. scan.idx = 0
      BY <1>4 DEF RegisterDependency, Inv, LoopShape
    <3>2. scan.pkg \in Packages
      BY <1>0 DEF TypeOK
    <3>3. Len(lists'[scan.pkg]) \in Nat
      BY <2>3, <3>2
    <3>. QED  BY <3>1, <3>3
  <2>7. /\ pc' = "register" /\ pc = "register"
        /\ UNCHANGED <<reg, status, trail, scan, level, conflict, merge,
                       root_incompatibility, decisions, propagations, conflicts>>
    BY <1>4 DEF RegisterDependency
  <2>8. /\ \A i \in DOMAIN trail : trail[i].cause \in 0 .. Len(incs')
        /\ conflict \in 0 .. Len(incs')
    <3>1. Len(incs') \in Nat /\ Len(incs) <= Len(incs')
      BY <1>0, <2>3
    <3>. QED  BY <1>0, <3>1, PointersMonotone
  <2>9. merge \in [elim : Packages, cause : 0 .. Len(incs'),
                   from : Seq(Term), into : Seq(Term)]
    BY <1>0, <2>3 DEF TypeOK
  <2>. QED  BY <1>0, <2>3, <2>4, <2>5, <2>6, <2>7, <2>8, <2>9 DEF TypeOK
<1>5. CASE RegisterDone
  BY <1>0, <1>5 DEF RegisterDone, TypeOK
<1>6. CASE CheckBudget
  BY <1>0, <1>6 DEF CheckBudget, Stop, TypeOK
<1>7. CASE PopChanged
  <2> DEFINE p == changed[Len(changed)]
  <2>1. changed \in Seq(Packages) /\ Len(changed) \in Nat /\ Len(changed) > 0
    BY <1>0, <1>7 DEF PopChanged, TypeOK
  <2>2. p \in Packages
    BY <2>1
  <2>3. SubSeq(changed, 1, Len(changed) - 1) \in Seq(Packages)
    BY <2>1
  <2>4. Len(lists[p]) \in Nat
    BY <1>0, <2>2 DEF TypeOK
  <2>5. scan' = [pkg |-> p, idx |-> Len(lists[p])]
    BY <1>7 DEF PopChanged
  <2>. QED  BY <1>0, <1>7, <2>2, <2>3, <2>4, <2>5 DEF PopChanged, TypeOK
<1>8. CASE ScanSkip
  <2>1. scan.idx \in Nat /\ scan.idx > 0
    BY <1>0, <1>8 DEF ScanSkip, TypeOK
  <2>2. scan' \in [pkg : Packages, idx : Nat] /\ scan'.pkg = scan.pkg /\ scan'.idx = scan.idx - 1
    <3>1. scan' = [scan EXCEPT !.idx = @ - 1]
      BY <1>8 DEF ScanSkip
    <3>2. scan \in [pkg : Packages, idx : Nat]
      BY <1>0 DEF TypeOK
    <3>. QED  BY <2>1, <3>1, <3>2
  <2>3. Len(lists[scan.pkg]) \in Nat
    BY <1>0 DEF TypeOK
  <2>4. UNCHANGED <<reg, pc, status, trail, incs, lists, changed, todo, level,
                    conflict, merge, root_incompatibility, decisions,
                    propagations, conflicts>>
    BY <1>8 DEF ScanSkip
  <2>. QED  BY <1>0, <2>1, <2>2, <2>3, <2>4, SMTT(60) DEF TypeOK
<1>9. CASE ScanDerive
  <2> DEFINE terms == incs[ScannedInc].terms
  <2>1. scan.idx \in Nat /\ scan.idx > 0
    BY <1>0, <1>9 DEF ScanDerive, TypeOK
  <2>2. ScannedInc \in 1 .. Len(incs) /\ terms \in Seq(Term)
    BY <1>0, <2>1, ScannedType
  <2>3. PICK k \in DOMAIN terms :
          /\ trail' = Append(trail,
                 assignment(trail, terms[k].pkg, terms[k].range,
                            ~terms[k].positive, FALSE, level, ScannedInc))
          /\ changed' = Append(changed, terms[k].pkg)
    BY <1>9 DEF ScanDerive
  <2> DEFINE a == assignment(trail, terms[k].pkg, terms[k].range,
                             ~terms[k].positive, FALSE, level, ScannedInc)
  <2> HIDE DEF terms
  <2>4. terms[k].pkg \in Packages /\ terms[k].range \in PgVersionRange
    BY <2>2, TermOf
  <2>5. a \in Assignment /\ a.cause = ScannedInc
    <3>1. trail \in Seq(Assignment) /\ level \in Nat /\ ScannedInc \in Nat
          /\ (~terms[k].positive) \in BOOLEAN
      BY <1>0, <2>2 DEF TypeOK
    <3>2. a \in Assignment
      BY <2>4, <3>1, AssignmentType
    <3>. QED  BY <3>2 DEF assignment
  <2> HIDE DEF a
  <2>6. /\ Append(trail, a) \in Seq(Assignment)
        /\ \A i \in DOMAIN Append(trail, a) :
             Append(trail, a)[i].cause \in 0 .. Len(incs)
    <3>1. a.cause \in 0 .. Len(incs)
      BY <2>2, <2>5
    <3>. QED  BY <1>0, <2>5, <3>1, PushType
  <2>7. trail' = Append(trail, a)
    BY <2>3 DEF a
  <2>8. changed' \in Seq(Packages)
    BY <1>0, <2>3, <2>4 DEF TypeOK
  <2>9. scan' \in [pkg : Packages, idx : Nat] /\ scan'.pkg = scan.pkg /\ scan'.idx = scan.idx - 1
    <3>1. scan' = [scan EXCEPT !.idx = @ - 1]
      BY <1>9 DEF ScanDerive
    <3>2. scan \in [pkg : Packages, idx : Nat]
      BY <1>0 DEF TypeOK
    <3>. QED  BY <2>1, <3>1, <3>2
  <2>10. Len(lists[scan.pkg]) \in Nat
    BY <1>0 DEF TypeOK
  <2>11. UNCHANGED <<reg, pc, status, incs, lists, todo, level, conflict, merge,
                     root_incompatibility, decisions, propagations, conflicts>>
    BY <1>9 DEF ScanDerive
  <2>12. trail' \in Seq(Assignment) /\ \A i \in DOMAIN trail' : trail'[i].cause \in 0 .. Len(incs)
    BY <2>6, <2>7
  <2>13. scan'.idx <= Len(lists[scan'.pkg])
    BY <1>0, <2>1, <2>9, <2>10 DEF TypeOK
  <2>. QED  BY <1>0, <2>8, <2>9, <2>11, <2>12, <2>13 DEF TypeOK
<1>10. CASE ScanConflict
  <2>1. scan.idx \in Nat /\ scan.idx > 0
    BY <1>0, <1>10 DEF ScanConflict, TypeOK
  <2>2. ScannedInc \in 1 .. Len(incs)
    BY <1>0, <2>1, ScannedType
  <2>3. scan' \in [pkg : Packages, idx : Nat] /\ scan'.pkg = scan.pkg /\ scan'.idx = 0
    BY <1>0, <1>10 DEF ScanConflict, TypeOK
  <2>4. Len(lists[scan.pkg]) \in Nat
    BY <1>0 DEF TypeOK
  <2>5. /\ conflict' = ScannedInc /\ pc' = "resolve"
        /\ propagations' = propagations + 1 /\ conflicts' = conflicts + 1
        /\ UNCHANGED <<reg, status, trail, incs, lists, changed, todo, level, merge,
                       root_incompatibility, decisions>>
    BY <1>10 DEF ScanConflict
  <2>. QED  BY <1>0, <2>2, <2>3, <2>4, <2>5 DEF TypeOK
<1>11. CASE PropagationDone
  BY <1>0, <1>11 DEF PropagationDone, TypeOK
<1>12. CASE DecideError
  BY <1>0, <1>12 DEF DecideError, Stop, TypeOK
<1>13. CASE DecideNoVersions
  <2>1. PICK p \in Undecided :
          LET terms == << [pkg |-> p, range |-> PositiveRange(trail, p),
                           positive |-> TRUE] >> IN
          /\ pg_solver_add_incompatibility(terms, "NO_VERSIONS")
          /\ changed' = changed \o PkgsOf(terms)
    BY <1>13 DEF DecideNoVersions
  <2> DEFINE terms == << [pkg |-> p, range |-> PositiveRange(trail, p),
                          positive |-> TRUE] >>
  <2>2. terms \in Seq(Term)
    <3>1. p \in Packages /\ PositiveRange(trail, p) \in PgVersionRange
      BY <1>0, PositiveRangeType DEF Undecided, TypeOK
    <3>. QED  BY <3>1 DEF Term
  <2>3. pg_solver_add_incompatibility(terms, "NO_VERSIONS") /\ changed' = changed \o PkgsOf(terms)
    BY <2>1
  <2> HIDE DEF terms
  <2>4. /\ incs' \in Seq(Incompatibility) /\ Len(incs') = Len(incs) + 1
        /\ lists' \in [Packages -> Seq(1 .. Len(incs'))]
        /\ \A q \in Packages : Len(lists[q]) <= Len(lists'[q])
    BY <1>0, <2>2, <2>3, AddIncompatibilityType DEF Reason
  <2>5. changed' \in Seq(Packages)
    BY <1>0, <2>2, <2>3, PkgsOfType, ConcatProperties DEF TypeOK
  <2>6. scan.idx <= Len(lists'[scan.pkg])
    <3>1. scan.idx = 0
      BY <1>13 DEF DecideNoVersions, Inv, LoopShape
    <3>2. scan.pkg \in Packages
      BY <1>0 DEF TypeOK
    <3>3. Len(lists'[scan.pkg]) \in Nat
      BY <2>4, <3>2
    <3>. QED  BY <3>1, <3>3
  <2>7. /\ conflict' = Len(incs) + 1 /\ conflicts' = conflicts + 1 /\ pc' = "resolve"
        /\ UNCHANGED <<reg, status, trail, scan, todo, level, merge,
                       root_incompatibility, decisions, propagations>>
    BY <1>13 DEF DecideNoVersions
  <2>8. /\ \A i \in DOMAIN trail : trail[i].cause \in 0 .. Len(incs')
        /\ conflict \in 0 .. Len(incs')
    <3>1. Len(incs') \in Nat /\ Len(incs) <= Len(incs')
      BY <1>0, <2>4
    <3>. QED  BY <1>0, <3>1, PointersMonotone
  <2>9. merge \in [elim : Packages, cause : 0 .. Len(incs'),
                   from : Seq(Term), into : Seq(Term)]
    <3>1. Len(incs) \in Nat /\ Len(incs) <= Len(incs')
      BY <1>0, <2>4
    <3>2. merge \in [elim : Packages, cause : 0 .. Len(incs),
                     from : Seq(Term), into : Seq(Term)]
      BY <1>0 DEF TypeOK
    <3>. QED  BY <2>4, <3>1, <3>2
  <2>. QED  BY <1>0, <2>4, <2>5, <2>6, <2>7, <2>8, <2>9 DEF TypeOK
<1>14. CASE Decide
  <2>1. PICK p \in Undecided :
          /\ PushDecision(p, VersionsOf(p)[Min(Candidates(p))], level + 1)
          /\ level' = IF pc' = "done" THEN level ELSE level + 1
          /\ decisions' = IF pc' = "done" THEN decisions ELSE decisions + 1
          /\ ~Stuck(p)
    BY <1>14 DEF Decide
  <2>2. p \in Packages /\ level + 1 \in Nat
    BY <1>0 DEF Undecided, TypeOK
  <2>3. VersionsOf(p)[Min(Candidates(p))] \in Version
    BY <1>0, <2>1, ChosenVersionType
  <2>4. /\ trail' \in Seq(Assignment)
        /\ \A i \in DOMAIN trail' : trail'[i].cause \in 0 .. Len(incs)
        /\ changed' \in Seq(Packages) /\ todo' \in Seq(Dependency)
        /\ pc' \in {"register", "done"} /\ status' \in {status, "INTERNAL_ERROR"}
    BY <1>0, <2>1, <2>2, <2>3, PushDecisionType
  <2>5. level' \in Nat /\ decisions' \in Nat
    BY <1>0, <2>1 DEF TypeOK
  <2>. QED  BY <1>0, <1>14, <2>4, <2>5 DEF Decide, TypeOK
<1>15. CASE DecideComplete
  BY <1>0, <1>15 DEF DecideComplete, Stop, TypeOK
<1>16. ASSUME NEW inc \in Incompatibility, NoSolution(inc) PROVE TypeOK'
  BY <1>0, <1>16 DEF NoSolution, Stop, TypeOK
<1>17. CASE ResolveRootFailure
  <2>1. Current \in Incompatibility
    BY <1>0, <1>17, CurrentType DEF ResolveRootFailure, TypeOK
  <2>. QED  BY <1>16, <1>17, <2>1 DEF ResolveRootFailure
<1>18. CASE ResolveNoSatisfier
  BY <1>0, <1>16, <1>18 DEF ResolveNoSatisfier, TypeOK
<1>19. CASE ResolveRootLevel
  <2>1. Current \in Incompatibility
    BY <1>0, <1>19, CurrentType DEF ResolveRootLevel, TypeOK
  <2>. QED  BY <1>16, <1>19, <2>1 DEF ResolveRootLevel
<1>20. CASE ResolveBackjump
  <2>1. conflict # 0 /\ status = "RUNNING" /\ LevelsMonotone /\ scan.idx = 0
    BY <1>0, <1>20 DEF ResolveBackjump, TypeOK, Inv, LoopShape
  <2>2. BackjumpLevel \in Nat
    BY <1>0, <2>1, BackjumpLevelType DEF TypeOK
  <2>3. conflict \in 1 .. Len(incs) /\ Current \in Incompatibility /\ Current.terms \in Seq(Term)
    BY <1>0, <2>1, CurrentType
  <2>4. incs' \in Seq(Incompatibility) /\ Len(incs') = Len(incs)
    BY <1>0, <1>20, <2>3, MarkAttached DEF ResolveBackjump
  <2>5. lists' \in [Packages -> Seq(1 .. Len(incs))]
    <3>1. AttachedLists(lists, conflict, Current.terms) \in [Packages -> Seq(1 .. Len(incs))]
      <4>1. lists \in [Packages -> Seq(1 .. Len(incs))]
        BY <1>0 DEF TypeOK
      <4>. QED  BY <2>3, <4>1, AttachedListsType
    <3>. QED  BY <1>0, <1>20, <3>1 DEF ResolveBackjump, TypeOK
  <2> DEFINE tr == Kept(trail, BackjumpLevel)
  <2>6. tr \in Seq(Assignment) /\ \A i \in DOMAIN tr : i \in DOMAIN trail /\ tr[i] = trail[i]
    BY <1>0, <2>2, KeptProperties DEF TypeOK
  <2>7. PkgsOf(tr) \in Seq(Packages)
    BY <2>6, TrailPkgsType
  <2>8. trail' = tr /\ changed' = PkgsOf(tr) /\ level' = BackjumpLevel
    BY <1>20 DEF ResolveBackjump
  <2> HIDE DEF tr
  <2>9. \A i \in DOMAIN trail' : trail'[i].cause \in 0 .. Len(incs')
    BY <1>0, <2>4, <2>6, <2>8 DEF TypeOK
  <2>10. scan' = scan /\ scan.idx <= Len(lists'[scan.pkg])
    BY <1>0, <1>20, <2>1, <2>5 DEF ResolveBackjump, TypeOK
  <2>. QED  BY <1>0, <1>20, <2>2, <2>4, <2>5, <2>6, <2>7, <2>8, <2>9, <2>10, SMTT(60)
            DEF ResolveBackjump, TypeOK
<1>21. CASE ResolveNoCause
  <2> DEFINE inc ==
        IF Satisfier.level = 0
        THEN [terms |-> RemoveTerm(Current.terms, SatisfiedTerm(Current.terms)),
              reason |-> "INTERNAL", causes |-> <<conflict>>, attached |-> FALSE]
        ELSE Current
  <2>1. conflict \in 1 .. Len(incs) /\ Current \in Incompatibility /\ Current.terms \in Seq(Term)
    BY <1>0, <1>21, CurrentType DEF ResolveNoCause, TypeOK
  <2>2. SatisfiedTerm(Current.terms) \in DOMAIN Current.terms
    BY <1>0, <1>21, SatisfierType DEF ResolveNoCause, TypeOK
  <2>3. RemoveTerm(Current.terms, SatisfiedTerm(Current.terms)) \in Seq(Term)
    BY <2>1, <2>2, RemoveTermType
  <2>4. <<conflict>> \in Seq(Nat)
    BY <2>1
  <2>5. inc \in Incompatibility
    BY <2>1, <2>3, <2>4 DEF Incompatibility, Reason
  <2>6. NoSolution(inc)
    BY <1>21 DEF ResolveNoCause
  <2>. QED  BY <1>16, <2>5, <2>6
<1>22. CASE ResolveWithCause
  <2>1. Current.terms \in Seq(Term)
    BY <1>0, <1>22, CurrentType DEF ResolveWithCause, TypeOK
  <2>2. Satisfier \in Assignment /\ Satisfier.cause \in 1 .. Len(incs)
    BY <1>0, <1>22, SatisfierType DEF ResolveWithCause, TypeOK
  <2>3. incs[Satisfier.cause].terms \in Seq(Term) /\ Satisfier.pkg \in Packages
    <3>1. incs[Satisfier.cause] \in Incompatibility
      BY <1>0, <2>2 DEF TypeOK
    <3>. QED  BY <2>2, <3>1 DEF Assignment, Incompatibility
  <2>4. Current.terms \o incs[Satisfier.cause].terms \in Seq(Term)
    BY <2>1, <2>3, ConcatProperties
  <2>5. merge' \in [elim : Packages, cause : 0 .. Len(incs),
                    from : Seq(Term), into : Seq(Term)]
    <3>1. << >> \in Seq(Term)
      OBVIOUS
    <3>. QED  BY <1>22, <2>2, <2>3, <2>4, <3>1 DEF ResolveWithCause
  <2>. QED  BY <1>0, <1>22, <2>5 DEF ResolveWithCause, TypeOK
<1>23. CASE MergeTerm
  <2>1. /\ merge \in [elim : Packages, cause : 0 .. Len(incs),
                      from : Seq(Term), into : Seq(Term)]
        /\ merge.from # << >>
    BY <1>0, <1>23 DEF MergeTerm, TypeOK
  <2>2. Tail(merge.from) \in Seq(Term) /\ Head(merge.from) \in Term
    BY <2>1
  <2>3. Append(merge.into, Head(merge.from)) \in Seq(Term)
    BY <2>1, <2>2
  <2>4. merge' \in [elim : Packages, cause : 0 .. Len(incs),
                    from : Seq(Term), into : Seq(Term)]
    BY <1>23, <2>1, <2>2, <2>3 DEF MergeTerm
  <2>. QED  BY <1>0, <1>23, <2>4 DEF MergeTerm, TypeOK
<1>24. CASE MergeDone
  <2> DEFINE inc == [terms |-> merge.into, reason |-> "INTERNAL",
                     causes |-> <<conflict, merge.cause>>, attached |-> FALSE]
  <2>1. inc \in Incompatibility
    BY <1>0, <1>24 DEF MergeDone, TypeOK, Incompatibility, Reason
  <2>2. incs' = Append(incs, inc) /\ conflict' = Len(incs) + 1
    BY <1>24 DEF MergeDone
  <2> HIDE DEF inc
  <2>3. incs' \in Seq(Incompatibility) /\ Len(incs') = Len(incs) + 1
    BY <1>0, <2>1, <2>2 DEF TypeOK
  <2>4. lists \in [Packages -> Seq(1 .. Len(incs'))]
    <3>1. 1 .. Len(incs) \subseteq 1 .. Len(incs')
      BY <1>0, <2>3
    <3>2. lists \in [Packages -> Seq(1 .. Len(incs))]
      BY <1>0 DEF TypeOK
    <3>. QED  BY <3>1, <3>2, ListsMonotone
  <2>5. merge' \in [elim : Packages, cause : 0 .. Len(incs'),
                    from : Seq(Term), into : Seq(Term)]
    BY <1>0, <1>24, <2>3, PubGrubAssumption DEF MergeDone, NoMerge
  <2>6. \A i \in DOMAIN trail : trail[i].cause \in 0 .. Len(incs')
    <3>1. Len(incs') \in Nat /\ Len(incs) <= Len(incs')
      BY <1>0, <2>3
    <3>. QED  BY <1>0, <3>1, PointersMonotone
  <2>7. /\ pc' = "resolve" /\ scan.idx = scan.idx
        /\ UNCHANGED <<reg, status, trail, lists, changed, scan, todo, level,
                       root_incompatibility, decisions, propagations, conflicts>>
    BY <1>24 DEF MergeDone
  <2>8. conflict' \in 0 .. Len(incs') /\ conflict' # 0
    BY <1>0, <2>2, <2>3
  <2>. QED  BY <1>0, <2>3, <2>4, <2>5, <2>6, <2>7, <2>8 DEF TypeOK
<1>25. CASE Done
  BY <1>0, <1>25 DEF Done, TypeOK, vars
<1>. QED
  BY <1>1, <1>2, <1>3, <1>4, <1>5, <1>6, <1>7, <1>8, <1>9, <1>10, <1>11,
     <1>12, <1>13, <1>14, <1>15, <1>17, <1>18, <1>19, <1>20, <1>21, <1>22,
     <1>23, <1>24, <1>25 DEF Next

-----------------------------------------------------------------------------
(* How a step may change the trail *)

\* What the bounds of an exact range are.
LEMMA ExactFacts ==
  ASSUME NEW v \in Version
  PROVE  /\ pg_range_is_exact(pg_range_exact(v))
         /\ pg_range_exact(v).lower.v = v /\ ~pg_range_exact(v).is_empty
         /\ pg_range_subset(pg_range_exact(v), pg_range_exact(v))
  BY DEF pg_range_is_exact, pg_range_exact, Inclusive, pg_range_subset,
         pg_lower_bound_ge, pg_upper_bound_le

\* The accumulated range of a decided package is its decision.
LEMMA DecidedRange ==
  ASSUME TypeOK, DecisionsFinal, Sound, NEW i \in DOMAIN trail, trail[i].decided
  PROVE  /\ HasPositive(trail, trail[i].pkg)
         /\ Max(Positives(trail, trail[i].pkg)) = i
         /\ \E v \in Version : /\ trail[i].range = pg_range_exact(v)
                               /\ PositiveRange(trail, trail[i].pkg) = pg_range_exact(v)
<1> DEFINE p == trail[i].pkg
<1>1. trail \in Seq(Assignment) /\ Len(trail) \in Nat
  BY DEF TypeOK
<1>2. PICK v \in Version : /\ trail[i].positive
                           /\ trail[i].range = pg_range_exact(v)
                           /\ trail[i].acc = pg_range_exact(v)
  BY DEF DecisionsFinal
<1>3. \A j \in i + 1 .. Len(trail) : trail[j].pkg = p => ~trail[j].positive
  BY DEF DecisionsFinal
<1>4. i \in Positives(trail, p) /\ HasPositive(trail, p)
  BY <1>2 DEF Positives, HasPositive
<1> HIDE DEF p
<1>5. Max(Positives(trail, p)) \in Positives(trail, p) /\ i <= Max(Positives(trail, p))
  BY <1>1, <1>4, PositivesMax
<1>6. Max(Positives(trail, p)) = i
  <2>1. /\ Max(Positives(trail, p)) \in 1 .. Len(trail)
        /\ trail[Max(Positives(trail, p))].pkg = p
        /\ trail[Max(Positives(trail, p))].positive
    BY <1>1, <1>5 DEF Positives
  <2>. QED  BY <1>1, <1>3, <1>5, <2>1
<1>. QED  BY <1>2, <1>4, <1>6 DEF PositiveRange, p

\* A negative term on a decided package is never inconclusive: unit
\* propagation derives nothing positive about a decided package.
LEMMA DecidedIsConclusive ==
  ASSUME TypeOK, DecisionsFinal, Sound, NEW i \in DOMAIN trail, trail[i].decided,
         NEW t \in Term, t.pkg = trail[i].pkg, ~t.positive
  PROVE  ~Inconclusive(trail, t)
<1>1. PICK v \in Version : PositiveRange(trail, t.pkg) = pg_range_exact(v)
  BY DecidedRange
<1>2. HasPositive(trail, t.pkg)
  BY DecidedRange
<1>3. t.range \in PgVersionRange
  BY DEF Term
<1>4. \/ pg_range_subset(pg_range_exact(v), t.range)
      \/ pg_range_intersect(pg_range_exact(v), t.range).is_empty
  BY <1>3, ExactIsDecisive
<1>. QED  BY <1>1, <1>2, <1>4 DEF Inconclusive, Satisfied, Contradicted

\* What an assignment pushed on the trail looks like.
Pushed(p, r, positive, decided, lvl, cause) ==
  /\ trail' = Append(trail, assignment(trail, p, r, positive, decided, lvl, cause))
  /\ level <= lvl /\ level' = lvl
  /\ positive => \A i \in DOMAIN trail : trail[i].decided => trail[i].pkg # p
  /\ decided => /\ positive
                /\ \E v \in Version :
                     /\ r = pg_range_exact(v) /\ Offered(p, v)
                     /\ HasPositive(trail, p) =>
                          pg_range_contains(PositiveRange(trail, p), v)

\* A step leaves the trail alone, pushes one assignment or pops some.
LEMMA TrailSteps ==
  ASSUME Inv, [Next]_vars, Sound'
  PROVE  /\ Sound
         /\ \/ UNCHANGED <<trail, level>>
            \/ \E p \in Packages, r \in PgVersionRange, positive \in BOOLEAN,
                  decided \in BOOLEAN, lvl \in Nat, cause \in Nat :
                 Pushed(p, r, positive, decided, lvl, cause)
            \/ \E lvl \in Nat : /\ trail' = Kept(trail, lvl) /\ level' = lvl
                                /\ lvl >= 1
<1> DEFINE Push == \E p \in Packages, r \in PgVersionRange, positive \in BOOLEAN,
                      decided \in BOOLEAN, lvl \in Nat, cause \in Nat :
                     Pushed(p, r, positive, decided, lvl, cause)
           Pop == \E lvl \in Nat : /\ trail' = Kept(trail, lvl) /\ level' = lvl
                                   /\ lvl >= 1
           Goal == Sound /\ (UNCHANGED <<trail, level>> \/ Push \/ Pop)
<1> SUFFICES Goal
  OBVIOUS
<1>0. /\ TypeOK /\ DecisionsFinal /\ level \in Nat /\ trail \in Seq(Assignment)
      /\ Len(trail) \in Nat
  BY DEF Inv, TypeOK
<1>a. Sound
  BY DEF Sound, vars, Next, Inv, LoopShape, AddRootDependency, SeedRoot,
     RegisterDependency, RegisterDone, CheckBudget, PopChanged, ScanSkip,
     ScanDerive, ScanConflict, PropagationDone, DecideError, DecideNoVersions,
     Decide, DecideComplete, ResolveRootFailure, ResolveNoSatisfier,
     ResolveRootLevel, ResolveBackjump, ResolveNoCause, ResolveWithCause,
     MergeTerm, MergeDone, Done
<1>b. ASSUME NEW p \in Packages, NEW v \in Version, NEW lvl \in Nat,
             PushDecision(p, v, lvl), level <= lvl, status = "RUNNING",
             level' = IF pc' = "done" THEN level ELSE lvl,
             \A i \in DOMAIN trail : trail[i].decided => trail[i].pkg # p,
             HasPositive(trail, p) => pg_range_contains(PositiveRange(trail, p), v),
             Offered(p, v)
      PROVE  Push
  <2>1. pc' = "register"
    BY <1>b DEF PushDecision, Stop, Sound
  <2>2. trail' = Append(trail, assignment(trail, p, pg_range_exact(v), TRUE, TRUE, lvl, 0))
    BY <1>b DEF PushDecision
  <2>3. Pushed(p, pg_range_exact(v), TRUE, TRUE, lvl, 0)
    BY <1>b, <2>1, <2>2 DEF Pushed
  <2>. QED  BY <2>3, ExactType
<1>1. CASE UNCHANGED <<trail, level>>
  BY <1>a, <1>1
<1>2. ASSUME NEW req \in RootRequirements, AddRootDependency(req[1], req[2])
      PROVE  Goal
  <2>1. req[1] \in Packages /\ req[2] \in PgVersionRange
    BY PubGrubAssumption
  <2>2. level = 0 /\ level' = level /\ \A i \in DOMAIN trail : ~trail[i].decided
    BY <1>2 DEF AddRootDependency, Inv, LoopShape
  <2>3. Pushed(req[1], req[2], TRUE, FALSE, 0, 0)
    BY <1>2, <2>2 DEF AddRootDependency, Pushed
  <2>4. Push
    BY <2>1, <2>3
  <2>. QED  BY <1>a, <2>4
<1>3. CASE SeedRoot
  <2>1. /\ level = 0 /\ status = "RUNNING"
        /\ \A i \in DOMAIN trail : trail[i].pkg # Root /\ ~trail[i].decided
    BY <1>3 DEF SeedRoot, Inv, LoopShape
  <2>2. ~HasPositive(trail, Root)
    BY <2>1 DEF HasPositive, Positives
  <2>3. Push
    BY <1>3, <1>b, <2>1, <2>2, PubGrubAssumption DEF SeedRoot, Offered
  <2>. QED  BY <1>a, <2>3
<1>4. CASE ScanDerive
  <2> DEFINE terms == incs[ScannedInc].terms
  <2>1. ScannedInc \in 1 .. Len(incs) /\ terms \in Seq(Term) /\ Len(incs) \in Nat
    <3>1. scan.idx > 0
      BY <1>4 DEF ScanDerive
    <3>2. Len(incs) \in Nat
      BY <1>0 DEF TypeOK
    <3>. QED  BY <1>0, <3>1, <3>2, ScannedType
  <2>2. PICK k \in DOMAIN terms :
          /\ UnitAt(trail, terms, k)
          /\ trail' = Append(trail,
                 assignment(trail, terms[k].pkg, terms[k].range,
                            ~terms[k].positive, FALSE, level, ScannedInc))
    BY <1>4 DEF ScanDerive
  <2>3. level' = level
    BY <1>4 DEF ScanDerive
  <2> HIDE DEF terms
  <2>4. terms[k] \in Term /\ terms[k].pkg \in Packages /\ terms[k].range \in PgVersionRange
    BY <2>1, TermOf
  <2>5. Inconclusive(trail, terms[k])
    BY <2>2 DEF UnitAt
  <2>6. ~terms[k].positive => \A i \in DOMAIN trail : trail[i].decided => trail[i].pkg # terms[k].pkg
    BY <1>0, <1>a, <2>4, <2>5, DecidedIsConclusive
  <2>7. Pushed(terms[k].pkg, terms[k].range, ~terms[k].positive, FALSE, level, ScannedInc)
    BY <1>0, <2>2, <2>3, <2>6 DEF Pushed
  <2>8. (~terms[k].positive) \in BOOLEAN /\ ScannedInc \in Nat
    BY <2>1
  <2>9. Push
    BY <1>0, <2>4, <2>7, <2>8
  <2>. QED  BY <1>a, <2>9
<1>5. CASE Decide
  <2>1. PICK p \in Undecided :
          /\ PushDecision(p, VersionsOf(p)[Min(Candidates(p))], level + 1)
          /\ level' = IF pc' = "done" THEN level ELSE level + 1
          /\ ~Stuck(p)
    BY <1>5 DEF Decide
  <2>2. p \in Packages /\ ~HasDecision(trail, p)
    BY DEF Undecided
  <2>3. VersionsOf(p)[Min(Candidates(p))] \in Version
        /\ pg_range_contains(PositiveRange(trail, p), VersionsOf(p)[Min(Candidates(p))])
        /\ Offered(p, VersionsOf(p)[Min(Candidates(p))])
    BY <1>0, <2>1, ChosenVersionType
  <2>4. ASSUME NEW i \in DOMAIN trail, trail[i].decided PROVE trail[i].pkg # p
    <3>1. PICK v \in Version : trail[i].positive /\ trail[i].range = pg_range_exact(v)
      BY <1>0, <1>a, <2>4 DEF DecisionsFinal
    <3>2. pg_range_is_exact(trail[i].range)
      BY <3>1, ExactFacts
    <3>. QED  BY <2>2, <2>4, <3>1, <3>2 DEF HasDecision
  <2>5. status = "RUNNING" /\ level + 1 \in Nat /\ level <= level + 1
    BY <1>0, <1>5 DEF Decide, Inv, LoopShape
  <2>6. Push
    BY <1>b, <2>1, <2>2, <2>3, <2>4, <2>5
  <2>. QED  BY <1>a, <2>6
<1>6. CASE ResolveBackjump
  <2>1. status = "RUNNING" /\ LevelsMonotone
    BY <1>6 DEF ResolveBackjump, Inv, LoopShape
  <2>2. BackjumpLevel \in Nat
    BY <1>0, <2>1, BackjumpLevelType
  <2>3. trail' = Kept(trail, BackjumpLevel) /\ level' = BackjumpLevel /\ BackjumpLevel >= 1
    BY <1>6 DEF ResolveBackjump
  <2>4. Pop
    BY <2>2, <2>3
  <2>. QED  BY <1>a, <2>4
<1>7. CASE UNCHANGED vars
  BY <1>1, <1>7 DEF vars
<1>8. CASE RegisterDependency \/ RegisterDone \/ CheckBudget \/ PopChanged \/ ScanSkip
  BY <1>1, <1>8 DEF RegisterDependency, RegisterDone, CheckBudget, PopChanged, ScanSkip
<1>9. CASE ScanConflict \/ PropagationDone \/ DecideError \/ DecideNoVersions \/ DecideComplete
  BY <1>1, <1>9 DEF ScanConflict, PropagationDone, DecideError, DecideNoVersions, DecideComplete
<1>10. CASE ResolveRootFailure \/ ResolveNoSatisfier \/ ResolveRootLevel \/ ResolveNoCause
  BY <1>1, <1>10 DEF ResolveRootFailure, ResolveNoSatisfier, ResolveRootLevel,
                     ResolveNoCause, NoSolution
<1>11. CASE ResolveWithCause \/ MergeTerm \/ MergeDone \/ Done
  BY <1>1, <1>11 DEF ResolveWithCause, MergeTerm, MergeDone, Done, vars
<1>. QED
  BY <1>2, <1>3, <1>4, <1>5, <1>6, <1>7, <1>8, <1>9, <1>10, <1>11 DEF Next

\* A pushed assignment comes last on the new trail and disturbs nothing else.
LastIs(p, r, positive, decided, lvl) ==
  /\ trail \in Seq(Assignment) /\ Len(trail) \in Nat
  /\ trail' \in Seq(Assignment) /\ Len(trail') = Len(trail) + 1
  /\ \A i \in 1 .. Len(trail) : trail'[i] = trail[i]
  /\ trail'[Len(trail) + 1].pkg = p /\ trail'[Len(trail) + 1].range = r
  /\ trail'[Len(trail) + 1].positive = positive
  /\ trail'[Len(trail) + 1].decided = decided
  /\ trail'[Len(trail) + 1].level = lvl
  /\ positive => trail'[Len(trail) + 1].acc = Accumulate(trail, p, r)

\* Pushing an assignment has that effect.
LEMMA PushedShape ==
  ASSUME TypeOK, NEW p \in Packages, NEW r \in PgVersionRange,
         NEW positive \in BOOLEAN, NEW decided \in BOOLEAN, NEW lvl \in Nat,
         NEW cause \in Nat, Pushed(p, r, positive, decided, lvl, cause)
  PROVE  LastIs(p, r, positive, decided, lvl)
<1> DEFINE a == assignment(trail, p, r, positive, decided, lvl, cause)
<1>1. trail \in Seq(Assignment) /\ Len(trail) \in Nat
  BY DEF TypeOK
<1>2. a \in Assignment
  BY <1>1, AssignmentType
<1>3. /\ a.pkg = p /\ a.range = r /\ a.positive = positive /\ a.decided = decided
      /\ a.level = lvl /\ (positive => a.acc = Accumulate(trail, p, r))
  BY DEF assignment
<1>4. trail' = Append(trail, a)
  BY DEF Pushed
<1> HIDE DEF a
<1>5. /\ trail' \in Seq(Assignment) /\ Len(trail') = Len(trail) + 1
      /\ \A i \in 1 .. Len(trail) : trail'[i] = trail[i]
      /\ trail'[Len(trail) + 1] = a
  BY <1>1, <1>2, <1>4, AppendProperties
<1>. QED  BY <1>1, <1>3, <1>5 DEF LastIs

\* Every step keeps the levels monotone along the trail.
LEMMA LevelsStep == ASSUME Inv, [Next]_vars PROVE LevelsMonotone'
<1> SUFFICES ASSUME Sound' PROVE LevelsMonotone'
  BY DEF LevelsMonotone
<1>0. TypeOK /\ LevelsMonotone /\ Sound /\ level \in Nat /\ trail \in Seq(Assignment) /\ Len(trail) \in Nat
  BY TrailSteps DEF Inv, TypeOK
<1>a. ASSUME NEW i \in DOMAIN trail PROVE trail[i].level \in Nat
  <2>1. trail[i] \in Assignment
    BY <1>0
  <2>. QED  BY <2>1 DEF Assignment
<1>b. \A i \in DOMAIN trail : /\ trail[i].level <= level
                              /\ \A j \in 1 .. i : trail[j].level <= trail[i].level
  BY <1>0 DEF LevelsMonotone
<1>1. CASE UNCHANGED <<trail, level>>
  BY <1>b, <1>1 DEF LevelsMonotone
<1>2. ASSUME NEW p \in Packages, NEW r \in PgVersionRange, NEW positive \in BOOLEAN,
             NEW decided \in BOOLEAN, NEW lvl \in Nat, NEW cause \in Nat,
             Pushed(p, r, positive, decided, lvl, cause)
      PROVE  LevelsMonotone'
  <2>0. LastIs(p, r, positive, decided, lvl)
    BY <1>0, <1>2, PushedShape
  <2>1. /\ trail' \in Seq(Assignment) /\ Len(trail') = Len(trail) + 1
        /\ \A i \in 1 .. Len(trail) : trail'[i] = trail[i]
        /\ trail'[Len(trail) + 1].level = lvl
    BY <2>0 DEF LastIs
  <2>2. level <= lvl /\ level' = lvl
    BY <1>2 DEF Pushed
  <2>3. ASSUME NEW i \in DOMAIN trail'
        PROVE  /\ trail'[i].level <= level'
               /\ \A j \in 1 .. i : trail'[j].level <= trail'[i].level
    <3>1. i \in 1 .. Len(trail) \/ i = Len(trail) + 1
      BY <1>0, <2>1
    <3>2. \A j \in 1 .. Len(trail) : trail'[j].level <= lvl /\ trail'[j].level \in Nat
      BY <1>0, <1>a, <1>b, <2>1, <2>2
    <3>3. CASE i \in 1 .. Len(trail)
      BY <1>0, <1>b, <2>1, <2>2, <3>2, <3>3
    <3>4. CASE i = Len(trail) + 1
      <4>1. \A j \in 1 .. i : j \in 1 .. Len(trail) \/ j = i
        BY <1>0, <3>4
      <4>. QED  BY <2>1, <2>2, <3>2, <3>4, <4>1
    <3>. QED  BY <3>1, <3>3, <3>4
  <2>. QED  BY <2>3 DEF LevelsMonotone
<1>3. ASSUME NEW lvl \in Nat, trail' = Kept(trail, lvl), level' = lvl
      PROVE  LevelsMonotone'
  <2> DEFINE n == Len(trail')
  <2>1. /\ trail' \in Seq(Assignment) /\ n \in 0 .. Len(trail)
        /\ \A i \in DOMAIN trail' : i \in DOMAIN trail /\ trail'[i] = trail[i]
        /\ n > 0 => trail[n].level <= lvl
    BY <1>0, <1>3, KeptProperties
  <2>2. ASSUME NEW i \in DOMAIN trail'
        PROVE  /\ trail'[i].level <= level'
               /\ \A j \in 1 .. i : trail'[j].level <= trail'[i].level
    <3>1. n > 0 /\ n \in DOMAIN trail /\ i \in 1 .. n /\ i \in DOMAIN trail /\ n \in Nat
      BY <1>0, <2>1
    <3>2. trail[i].level <= trail[n].level
      BY <1>b, <3>1
    <3>3. trail[i].level <= lvl
      BY <1>a, <2>1, <3>1, <3>2
    <3>4. \A j \in 1 .. i : j \in DOMAIN trail'
      BY <2>1, <3>1
    <3>. QED  BY <1>3, <1>b, <2>1, <3>1, <3>3, <3>4
  <2>. QED  BY <2>2 DEF LevelsMonotone
<1>. QED  BY <1>1, <1>2, <1>3, TrailSteps

\* Every step keeps accumulated ranges inside the ranges they stem from.
LEMMA RangesStep == ASSUME Inv, [Next]_vars PROVE RangesAccumulate'
<1> SUFFICES ASSUME Sound' PROVE RangesAccumulate'
  BY DEF RangesAccumulate
<1>0. TypeOK /\ RangesAccumulate /\ Sound /\ trail \in Seq(Assignment) /\ Len(trail) \in Nat
  BY TrailSteps DEF Inv, TypeOK
<1>b. \A i \in DOMAIN trail : \A j \in 1 .. i :
        trail[i].positive /\ trail[j].positive /\ trail[j].pkg = trail[i].pkg =>
          \A v \in Version : pg_range_contains(trail[i].acc, v) =>
                               pg_range_contains(trail[j].range, v)
  BY <1>0 DEF RangesAccumulate
<1>1. CASE UNCHANGED <<trail, level>>
  BY <1>b, <1>1 DEF RangesAccumulate
<1>2. ASSUME NEW p \in Packages, NEW r \in PgVersionRange, NEW positive \in BOOLEAN,
             NEW decided \in BOOLEAN, NEW lvl \in Nat, NEW cause \in Nat,
             Pushed(p, r, positive, decided, lvl, cause)
      PROVE  RangesAccumulate'
  <2> DEFINE n == Len(trail) + 1
  <2>0. LastIs(p, r, positive, decided, lvl)
    BY <1>0, <1>2, PushedShape
  <2>1. /\ trail' \in Seq(Assignment) /\ Len(trail') = n
        /\ \A i \in 1 .. Len(trail) : trail'[i] = trail[i]
        /\ trail'[n].pkg = p /\ trail'[n].range = r /\ trail'[n].positive = positive
        /\ positive => trail'[n].acc = Accumulate(trail, p, r)
    BY <2>0 DEF LastIs
  <2> SUFFICES ASSUME NEW i \in DOMAIN trail', NEW j \in 1 .. i,
                      trail'[i].positive, trail'[j].positive,
                      trail'[j].pkg = trail'[i].pkg,
                      NEW v \in Version, pg_range_contains(trail'[i].acc, v)
               PROVE  pg_range_contains(trail'[j].range, v)
    BY DEF RangesAccumulate
  <2>2. CASE i \in 1 .. Len(trail)
    <3>1. j \in 1 .. Len(trail)
      BY <1>0, <2>2
    <3>. QED  BY <1>0, <1>b, <2>1, <2>2, <3>1
  <2>3. CASE i = n
    <3>1. trail'[i].acc = Accumulate(trail, p, r) /\ positive
      BY <2>1, <2>3
    <3>2. CASE ~HasPositive(trail, p)
      <4>1. j \notin 1 .. Len(trail)
        BY <1>0, <2>1, <2>3, <3>2 DEF HasPositive, Positives
      <4>2. j = n
        BY <1>0, <2>3, <4>1
      <4>. QED  BY <2>1, <3>1, <3>2, <4>2 DEF Accumulate
    <3>3. CASE HasPositive(trail, p)
      <4> DEFINE m == Max(Positives(trail, p))
      <4>1. m \in Positives(trail, p) /\ \A k \in Positives(trail, p) : k <= m
        BY <1>0, <3>3, PositivesMax
      <4>2. /\ m \in DOMAIN trail /\ trail[m].pkg = p /\ trail[m].positive
            /\ PositiveRange(trail, p) = trail[m].acc
        BY <4>1 DEF Positives, PositiveRange
      <4> HIDE DEF m
      <4>3. trail[m].acc \in PgVersionRange
        BY <1>0, <3>3, <4>2, PositiveRangeType
      <4>4. pg_range_contains(pg_range_intersect(trail[m].acc, r), v)
        BY <3>1, <3>3, <4>2 DEF Accumulate
      <4>5. pg_range_contains(trail[m].acc, v) /\ pg_range_contains(r, v)
        BY <4>3, <4>4, IntersectIsMeet
      <4>6. CASE j = n
        BY <2>1, <4>5, <4>6
      <4>7. CASE j \in 1 .. Len(trail)
        <5>1. j \in Positives(trail, p) /\ trail'[j] = trail[j]
          BY <1>0, <2>1, <2>3, <4>7 DEF Positives
        <5>2. j \in 1 .. m /\ trail[j].pkg = trail[m].pkg /\ trail[j].positive
          BY <1>0, <4>1, <4>2, <4>7, <5>1 DEF Positives
        <5>. QED  BY <1>b, <4>2, <4>5, <5>1, <5>2
      <4>8. j = n \/ j \in 1 .. Len(trail)
        BY <1>0, <2>3
      <4>. QED  BY <4>6, <4>7, <4>8
    <3>. QED  BY <3>2, <3>3
  <2>4. i = n \/ i \in 1 .. Len(trail)
    BY <1>0, <2>1
  <2>. QED  BY <2>2, <2>3, <2>4
<1>3. ASSUME NEW lvl \in Nat, trail' = Kept(trail, lvl)
      PROVE  RangesAccumulate'
  <2>1. /\ trail' \in Seq(Assignment)
        /\ \A i \in DOMAIN trail' : i \in DOMAIN trail /\ trail'[i] = trail[i]
    BY <1>0, <1>3, KeptProperties
  <2>2. \A i \in DOMAIN trail' : \A j \in 1 .. i : j \in DOMAIN trail'
    BY <2>1
  <2>. QED  BY <1>b, <2>1, <2>2 DEF RangesAccumulate
<1>. QED  BY <1>1, <1>2, <1>3, TrailSteps

\* Every step keeps decisions exact and final.
LEMMA DecisionsStep == ASSUME Inv, [Next]_vars PROVE DecisionsFinal'
<1> SUFFICES ASSUME Sound' PROVE DecisionsFinal'
  BY DEF DecisionsFinal
<1>0. TypeOK /\ DecisionsFinal /\ Sound /\ trail \in Seq(Assignment) /\ Len(trail) \in Nat
  BY TrailSteps DEF Inv, TypeOK
<1>b. \A i \in DOMAIN trail : trail[i].decided =>
        /\ trail[i].positive
        /\ \E v \in Version : /\ trail[i].range = pg_range_exact(v)
                              /\ trail[i].acc = pg_range_exact(v)
        /\ \A j \in i + 1 .. Len(trail) :
             trail[j].pkg = trail[i].pkg => ~trail[j].positive
  BY <1>0 DEF DecisionsFinal
<1>1. CASE UNCHANGED <<trail, level>>
  BY <1>b, <1>1 DEF DecisionsFinal
<1>2. ASSUME NEW p \in Packages, NEW r \in PgVersionRange, NEW positive \in BOOLEAN,
             NEW decided \in BOOLEAN, NEW lvl \in Nat, NEW cause \in Nat,
             Pushed(p, r, positive, decided, lvl, cause)
      PROVE  DecisionsFinal'
  <2> DEFINE n == Len(trail) + 1
  <2>0. LastIs(p, r, positive, decided, lvl)
    BY <1>0, <1>2, PushedShape
  <2>1. /\ trail' \in Seq(Assignment) /\ Len(trail') = n
        /\ \A i \in 1 .. Len(trail) : trail'[i] = trail[i]
        /\ trail'[n].pkg = p /\ trail'[n].range = r /\ trail'[n].positive = positive
        /\ trail'[n].decided = decided
        /\ positive => trail'[n].acc = Accumulate(trail, p, r)
    BY <2>0 DEF LastIs
  <2> SUFFICES ASSUME NEW i \in DOMAIN trail', trail'[i].decided
               PROVE  /\ trail'[i].positive
                      /\ \E v \in Version : /\ trail'[i].range = pg_range_exact(v)
                                            /\ trail'[i].acc = pg_range_exact(v)
                      /\ \A j \in i + 1 .. Len(trail') :
                           trail'[j].pkg = trail'[i].pkg => ~trail'[j].positive
    BY DEF DecisionsFinal
  <2>2. CASE i \in 1 .. Len(trail)
    <3>1. i \in DOMAIN trail /\ trail'[i] = trail[i] /\ trail[i].decided
      BY <1>0, <2>1, <2>2
    <3>2. \A j \in i + 1 .. Len(trail') :
             \/ j \in i + 1 .. Len(trail) /\ trail'[j] = trail[j]
             \/ j = n
      BY <1>0, <2>1, <2>2
    <3>3. trail[i].pkg = p => ~positive
      BY <1>2, <3>1 DEF Pushed
    <3>. QED  BY <1>b, <2>1, <3>1, <3>2, <3>3
  <2>3. CASE i = n
    <3>1. decided /\ positive
      BY <1>2, <2>1, <2>3 DEF Pushed
    <3>2. PICK v \in Version :
            /\ r = pg_range_exact(v)
            /\ HasPositive(trail, p) => pg_range_contains(PositiveRange(trail, p), v)
      BY <1>2, <3>1 DEF Pushed
    <3>3. Accumulate(trail, p, r) = pg_range_exact(v)
      BY <1>0, <3>2, PositiveRangeType, ExactAbsorbs DEF Accumulate
    <3>4. i + 1 .. Len(trail') = {}
      BY <1>0, <2>1, <2>3
    <3>. QED  BY <2>1, <2>3, <3>1, <3>2, <3>3, <3>4
  <2>4. i = n \/ i \in 1 .. Len(trail)
    BY <1>0, <2>1
  <2>. QED  BY <2>2, <2>3, <2>4
<1>3. ASSUME NEW lvl \in Nat, trail' = Kept(trail, lvl)
      PROVE  DecisionsFinal'
  <2>1. /\ trail' \in Seq(Assignment) /\ Len(trail') \in 0 .. Len(trail)
        /\ \A i \in DOMAIN trail' : i \in DOMAIN trail /\ trail'[i] = trail[i]
    BY <1>0, <1>3, KeptProperties
  <2>2. \A i \in DOMAIN trail' : \A j \in i + 1 .. Len(trail') :
          j \in i + 1 .. Len(trail) /\ trail'[j] = trail[j]
    BY <1>0, <2>1
  <2>. QED  BY <1>b, <2>1, <2>2 DEF DecisionsFinal
<1>. QED  BY <1>1, <1>2, <1>3, TrailSteps

-----------------------------------------------------------------------------
(* How a step may change the clauses *)

\* A step leaves the clauses and their lists alone, adds an attached clause, adds
\* a clause that is not attached, or attaches the clause just learned.
LEMMA ClauseSteps ==
  ASSUME Inv, [Next]_vars
  PROVE  \/ UNCHANGED <<incs, lists>>
         \/ \E terms \in Seq(Term), reason \in Reason :
              pg_solver_add_incompatibility(terms, reason)
         \/ /\ UNCHANGED lists
            /\ \E inc \in Incompatibility : ~inc.attached /\ incs' = Append(incs, inc)
         \/ /\ pc = "resolve" /\ conflict \in 1 .. Len(incs)
            /\ incs' = [incs EXCEPT ![conflict].attached = TRUE]
            /\ lists' = IF Current.attached THEN lists
                        ELSE AttachedLists(lists, conflict, Current.terms)
<1>0. TypeOK
  BY DEF Inv
<1>1. CASE RegisterDependency
  <2> DEFINE terms == DependencyTerms(trail[Len(trail)], Head(todo))
  <2>1. terms \in Seq(Term)
    <3>1. Head(todo) \in Dependency
      <4>1. todo \in Seq(Dependency)
        BY <1>0 DEF TypeOK
      <4>2. todo # << >>
        BY <1>1 DEF RegisterDependency
      <4>. QED  BY <4>1, <4>2
    <3>2. Len(trail) \in DOMAIN trail
      BY <1>0, <1>1 DEF RegisterDependency, Inv, LoopShape, TypeOK
    <3>3. trail[Len(trail)] \in Assignment
      BY <1>0, <3>2 DEF TypeOK
    <3>. QED  BY <3>1, <3>3 DEF DependencyTerms, Dependency, Assignment, Term
  <2>2. pg_solver_add_incompatibility(terms, "DEPENDENCY")
    BY <1>1 DEF RegisterDependency
  <2>. QED  BY <2>1, <2>2 DEF Reason
<1>2. CASE DecideNoVersions
  <2>1. PICK p \in Undecided :
          pg_solver_add_incompatibility(
            << [pkg |-> p, range |-> PositiveRange(trail, p), positive |-> TRUE] >>,
            "NO_VERSIONS")
    BY <1>2 DEF DecideNoVersions
  <2>2. << [pkg |-> p, range |-> PositiveRange(trail, p), positive |-> TRUE] >> \in Seq(Term)
    <3>1. p \in Packages /\ PositiveRange(trail, p) \in PgVersionRange
      BY <1>0, PositiveRangeType DEF Undecided, TypeOK
    <3>. QED  BY <3>1 DEF Term
  <2>. QED  BY <2>1, <2>2 DEF Reason
<1>3. CASE ResolveBackjump
  <2>1. conflict \in 1 .. Len(incs)
    BY <1>0, <1>3, CurrentType DEF ResolveBackjump, TypeOK
  <2>. QED  BY <1>3, <2>1 DEF ResolveBackjump
<1>4. CASE MergeDone
  <2> DEFINE inc == [terms |-> merge.into, reason |-> "INTERNAL",
                     causes |-> <<conflict, merge.cause>>, attached |-> FALSE]
  <2>1. inc \in Incompatibility /\ ~inc.attached
    BY <1>0, <1>4 DEF MergeDone, TypeOK, Incompatibility, Reason
  <2>2. incs' = Append(incs, inc) /\ lists' = lists
    BY <1>4 DEF MergeDone
  <2>. QED  BY <2>1, <2>2
<1>5. CASE UNCHANGED <<incs, lists>>
  BY <1>5
<1>6. CASE \/ UNCHANGED vars \/ \E req \in RootRequirements : AddRootDependency(req[1], req[2])
           \/ SeedRoot \/ RegisterDone \/ CheckBudget \/ PopChanged \/ ScanSkip \/ ScanDerive
  BY <1>5, <1>6 DEF vars, AddRootDependency, SeedRoot, RegisterDone, CheckBudget, PopChanged,
                    ScanSkip, ScanDerive
<1>7. CASE ScanConflict \/ PropagationDone \/ DecideError \/ Decide \/ DecideComplete
  BY <1>5, <1>7 DEF ScanConflict, PropagationDone, DecideError, Decide, DecideComplete
<1>8. CASE ResolveRootFailure \/ ResolveNoSatisfier \/ ResolveRootLevel \/ ResolveNoCause
  BY <1>5, <1>8 DEF ResolveRootFailure, ResolveNoSatisfier, ResolveRootLevel,
                    ResolveNoCause, NoSolution
<1>9. CASE ResolveWithCause \/ MergeTerm \/ Done
  BY <1>5, <1>9 DEF ResolveWithCause, MergeTerm, Done, vars
<1>. QED
  BY <1>1, <1>2, <1>3, <1>4, <1>6, <1>7, <1>8, <1>9 DEF Next

\* Clauses are never lost, changed or detached.
LEMMA ClausesKept ==
  ASSUME Inv, [Next]_vars
  PROVE  \A c \in DOMAIN incs : /\ c \in DOMAIN incs'
                                /\ incs'[c].terms = incs[c].terms
                                /\ incs[c].attached => incs'[c].attached
<1>0. TypeOK /\ incs \in Seq(Incompatibility) /\ Len(incs) \in Nat /\ DOMAIN incs = 1 .. Len(incs)
  BY DEF Inv, TypeOK
<1>1. CASE UNCHANGED <<incs, lists>>
  BY <1>1
<1>2. ASSUME NEW terms \in Seq(Term), NEW reason \in Reason,
             pg_solver_add_incompatibility(terms, reason)
      PROVE  \A c \in DOMAIN incs : c \in DOMAIN incs' /\ incs'[c] = incs[c]
  <2>1. /\ incs' \in Seq(Incompatibility) /\ Len(incs') = Len(incs) + 1
        /\ \A c \in 1 .. Len(incs) : incs'[c] = incs[c]
    BY <1>0, <1>2, AddIncompatibilityType
  <2>. QED  BY <1>0, <2>1
<1>3. ASSUME NEW inc \in Incompatibility, incs' = Append(incs, inc)
      PROVE  \A c \in DOMAIN incs : c \in DOMAIN incs' /\ incs'[c] = incs[c]
  BY <1>0, <1>3, AppendProperties
<1>4. CASE conflict \in 1 .. Len(incs) /\ incs' = [incs EXCEPT ![conflict].attached = TRUE]
  BY <1>0, <1>4, MarkAttached
<1>. QED  BY <1>1, <1>2, <1>3, <1>4, ClauseSteps

\* Every step keeps attached clauses in the lists of their packages.
LEMMA ListedStep == ASSUME Inv, [Next]_vars PROVE ClausesListed'
<1>0. /\ TypeOK /\ ClausesListed
      /\ incs \in Seq(Incompatibility) /\ Len(incs) \in Nat /\ DOMAIN incs = 1 .. Len(incs)
      /\ lists \in [Packages -> Seq(1 .. Len(incs))]
  BY DEF Inv, TypeOK
<1>b. lists \in [Packages -> Seq(Nat)]
  <2>1. 1 .. Len(incs) \subseteq Nat
    BY <1>0
  <2>. QED  BY <1>0, <2>1, ListsMonotone
<1>1. CASE UNCHANGED <<incs, lists>>
  BY <1>0, <1>1 DEF ClausesListed
<1>a. \A c \in DOMAIN incs : incs[c].terms \in Seq(Term)
  <2>1. \A c \in DOMAIN incs : incs[c] \in Incompatibility
    BY <1>0
  <2>. QED  BY <2>1 DEF Incompatibility
<1>2. ASSUME NEW terms \in Seq(Term), NEW reason \in Reason,
             pg_solver_add_incompatibility(terms, reason)
      PROVE  ClausesListed'
  <2> DEFINE n == Len(incs) + 1
  <2>1. /\ incs' \in Seq(Incompatibility) /\ Len(incs') = n
        /\ incs'[n].terms = terms
        /\ \A c \in 1 .. Len(incs) : incs'[c] = incs[c]
    BY <1>0, <1>2, AddIncompatibilityType
  <2>2. n \in Nat /\ Len(incs) <= n /\ n \in 1 .. n
    BY <1>0
  <2>3. lists' = AttachedLists(lists, n, terms)
    BY <1>2 DEF pg_solver_add_incompatibility
  <2>4. /\ \A p \in Packages : \A j \in DOMAIN lists[p] :
             j \in DOMAIN lists'[p] /\ lists'[p][j] = lists[p][j]
        /\ \A k \in DOMAIN terms : \E j \in DOMAIN lists'[terms[k].pkg] :
             lists'[terms[k].pkg][j] = n
    <3> HIDE DEF n
    <3>1. /\ \A p \in Packages : \A j \in DOMAIN lists[p] :
               /\ j \in DOMAIN AttachedLists(lists, n, terms)[p]
               /\ AttachedLists(lists, n, terms)[p][j] = lists[p][j]
          /\ \A k \in DOMAIN terms :
               \E j \in DOMAIN AttachedLists(lists, n, terms)[terms[k].pkg] :
                 AttachedLists(lists, n, terms)[terms[k].pkg][j] = n
      BY <1>b, <2>2, AttachedListsKeep
    <3>. QED  BY <2>3, <3>1
  <2>5. ASSUME NEW c \in DOMAIN incs', incs'[c].attached, NEW k \in DOMAIN incs'[c].terms
        PROVE  \E j \in DOMAIN lists'[incs'[c].terms[k].pkg] :
                 lists'[incs'[c].terms[k].pkg][j] = c
    <3>1. CASE c = n
      BY <2>1, <2>4, <2>5, <3>1
    <3>2. CASE c \in 1 .. Len(incs)
      <4>1. incs'[c] = incs[c] /\ incs[c].attached /\ k \in DOMAIN incs[c].terms
        BY <2>1, <2>5, <3>2
      <4>2. incs[c].terms[k].pkg \in Packages
        BY <1>0, <1>a, <3>2, <4>1, TermOf
      <4>3. \E j \in DOMAIN lists[incs[c].terms[k].pkg] : lists[incs[c].terms[k].pkg][j] = c
        BY <1>0, <3>2, <4>1 DEF ClausesListed
      <4>. QED  BY <2>4, <4>1, <4>2, <4>3
    <3>3. c = n \/ c \in 1 .. Len(incs)
      BY <1>0, <2>1
    <3>. QED  BY <3>1, <3>2, <3>3
  <2>. QED  BY <2>5 DEF ClausesListed
<1>3. ASSUME NEW inc \in Incompatibility, ~inc.attached, incs' = Append(incs, inc),
             UNCHANGED lists
      PROVE  ClausesListed'
  <2>1. /\ Len(incs') = Len(incs) + 1 /\ incs'[Len(incs) + 1] = inc
        /\ incs' \in Seq(Incompatibility)
        /\ \A c \in 1 .. Len(incs) : incs'[c] = incs[c]
    BY <1>0, <1>3, AppendProperties
  <2>2. \A c \in DOMAIN incs' : incs'[c].attached => c \in DOMAIN incs /\ incs'[c] = incs[c]
    BY <1>0, <1>3, <2>1
  <2>3. \A c \in DOMAIN incs' : incs'[c].attached =>
          \A k \in DOMAIN incs'[c].terms :
            \E j \in DOMAIN lists[incs'[c].terms[k].pkg] :
              lists[incs'[c].terms[k].pkg][j] = c
    <3>1. ASSUME NEW c \in DOMAIN incs', incs'[c].attached, NEW k \in DOMAIN incs'[c].terms
          PROVE  \E j \in DOMAIN lists[incs'[c].terms[k].pkg] :
                   lists[incs'[c].terms[k].pkg][j] = c
      <4>1. c \in DOMAIN incs /\ incs'[c] = incs[c]
        BY <2>2, <3>1
      <4>2. incs[c].attached /\ k \in DOMAIN incs[c].terms
        BY <3>1, <4>1
      <4>3. \E j \in DOMAIN lists[incs[c].terms[k].pkg] : lists[incs[c].terms[k].pkg][j] = c
        BY <1>0, <4>1, <4>2 DEF ClausesListed
      <4>. QED  BY <4>1, <4>3
    <3>. QED  BY <3>1
  <2>. QED  BY <1>3, <2>3 DEF ClausesListed
<1>4. CASE /\ conflict \in 1 .. Len(incs)
           /\ incs' = [incs EXCEPT ![conflict].attached = TRUE]
           /\ lists' = IF Current.attached THEN lists
                       ELSE AttachedLists(lists, conflict, Current.terms)
  <2>1. /\ DOMAIN incs' = DOMAIN incs
        /\ \A d \in DOMAIN incs : /\ incs'[d].terms = incs[d].terms
                                  /\ d # conflict => incs'[d] = incs[d]
    BY <1>0, <1>4, MarkAttached
  <2>2. /\ Current = incs[conflict] /\ Current.terms \in Seq(Term)
        /\ conflict \in DOMAIN incs /\ conflict \in Nat
    BY <1>0, <1>4, <1>a DEF Current
  <2>3. \A p \in Packages : \A j \in DOMAIN lists[p] :
             j \in DOMAIN lists'[p] /\ lists'[p][j] = lists[p][j]
    <3>1. CASE Current.attached
      BY <1>4, <3>1
    <3>2. CASE ~Current.attached
      <4>1. lists' = AttachedLists(lists, conflict, Current.terms) /\ Len(incs) <= Len(incs)
        BY <1>0, <1>4, <3>2
      <4>2. \A p \in Packages : \A j \in DOMAIN lists[p] :
               /\ j \in DOMAIN AttachedLists(lists, conflict, Current.terms)[p]
               /\ AttachedLists(lists, conflict, Current.terms)[p][j] = lists[p][j]
        BY <1>b, <2>2, AttachedListsKeep
      <4>. QED  BY <4>1, <4>2
    <3>. QED  BY <3>1, <3>2
  <2>4. ASSUME NEW c \in DOMAIN incs, incs'[c].attached, NEW k \in DOMAIN incs[c].terms
        PROVE  \E j \in DOMAIN lists'[incs[c].terms[k].pkg] :
                 lists'[incs[c].terms[k].pkg][j] = c
    <3>1. CASE incs[c].attached
      <4>1. incs[c].terms[k].pkg \in Packages
        BY <1>a, TermOf
      <4>2. \E j \in DOMAIN lists[incs[c].terms[k].pkg] : lists[incs[c].terms[k].pkg][j] = c
        BY <1>0, <3>1 DEF ClausesListed
      <4>. QED  BY <2>3, <4>1, <4>2
    <3>2. CASE ~incs[c].attached
      <4>1. c = conflict
        BY <2>1, <2>4, <3>2
      <4>2. lists' = AttachedLists(lists, conflict, Current.terms) /\ Len(incs) <= Len(incs)
        BY <1>0, <1>4, <2>2, <3>2, <4>1
      <4>3. \A m \in DOMAIN Current.terms :
              \E j \in DOMAIN lists'[Current.terms[m].pkg] :
                lists'[Current.terms[m].pkg][j] = conflict
        <5>1. \A m \in DOMAIN Current.terms :
                \E j \in DOMAIN AttachedLists(lists, conflict, Current.terms)[Current.terms[m].pkg] :
                  AttachedLists(lists, conflict, Current.terms)[Current.terms[m].pkg][j] = conflict
          BY <1>b, <2>2, AttachedListsMention
        <5>. QED  BY <4>2, <5>1
      <4>. QED  BY <2>2, <4>1, <4>3
    <3>. QED  BY <3>1, <3>2
  <2>. QED  BY <2>1, <2>4 DEF ClausesListed
<1>. QED  BY <1>1, <1>2, <1>3, <1>4, ClauseSteps

-----------------------------------------------------------------------------
(* Where the loops stand *)

\* Pushing an assignment keeps what is on the trail.
LEMMA AppendKeeps ==
  ASSUME NEW S, NEW s \in Seq(S), NEW e \in S
  PROVE  /\ \A i \in DOMAIN s : i \in DOMAIN Append(s, e) /\ Append(s, e)[i] = s[i]
         /\ Len(s) + 1 \in DOMAIN Append(s, e) /\ Append(s, e)[Len(s) + 1] = e
         /\ Len(Append(s, e)) = Len(s) + 1
<1>1. /\ Append(s, e) \in Seq(S) /\ Len(Append(s, e)) = Len(s) + 1
      /\ \A i \in 1 .. Len(s) : Append(s, e)[i] = s[i]
      /\ Append(s, e)[Len(s) + 1] = e
  BY AppendProperties
<1>. QED  BY <1>1

\* Appending to a list keeps what is in it.
LEMMA ConcatKeeps ==
  ASSUME NEW S, NEW s \in Seq(S), NEW e \in Seq(S), Len(e) > 0
  PROVE  /\ \A i \in DOMAIN s : i \in DOMAIN (s \o e) /\ (s \o e)[i] = s[i]
         /\ Len(s) + 1 \in DOMAIN (s \o e) /\ (s \o e)[Len(s) + 1] = e[1]
<1>1. Len(s) \in Nat /\ Len(e) \in Nat
  OBVIOUS
<1>2. /\ s \o e \in Seq(S) /\ Len(s \o e) = Len(s) + Len(e)
      /\ \A i \in 1 .. Len(s) + Len(e) :
           (s \o e)[i] = IF i <= Len(s) THEN s[i] ELSE e[i - Len(s)]
  BY ConcatProperties
<1>3. DOMAIN (s \o e) = 1 .. Len(s) + Len(e)
  BY <1>2
<1>4. Len(s) + 1 \in 1 .. Len(s) + Len(e) /\ Len(s) + 1 - Len(s) = 1 /\ ~(Len(s) + 1 <= Len(s))
  BY <1>1
<1>. QED  BY <1>1, <1>2, <1>3, <1>4

RootDecided(tr) ==
  \E i \in DOMAIN tr : /\ tr[i].pkg = Root /\ tr[i].decided
                       /\ tr[i].range = pg_range_exact(RootVersion)
                       /\ tr[i].level = 1

\* Appending to the trail keeps the root's decision on it.
LEMMA RootDecidedAppend ==
  ASSUME NEW tr \in Seq(Assignment), NEW a \in Assignment, RootDecided(tr)
  PROVE  RootDecided(Append(tr, a))
  BY AppendKeeps DEF RootDecided

\* A decision is pushed last on the trail.
LEMMA PushDecisionShape ==
  ASSUME TypeOK, NEW p \in Packages, NEW v \in Version, NEW lvl \in Nat,
         PushDecision(p, v, lvl)
  PROVE  /\ trail' \in Seq(Assignment) /\ Len(trail') = Len(trail) + 1
         /\ \A i \in DOMAIN trail : i \in DOMAIN trail' /\ trail'[i] = trail[i]
         /\ Len(trail') \in DOMAIN trail' /\ Len(trail') > 0
         /\ trail'[Len(trail')].pkg = p /\ trail'[Len(trail')].decided
         /\ trail'[Len(trail')].range = pg_range_exact(v)
         /\ trail'[Len(trail')].level = lvl
         /\ changed' = Append(changed, p)
<1> DEFINE a == assignment(trail, p, pg_range_exact(v), TRUE, TRUE, lvl, 0)
<1>1. trail \in Seq(Assignment) /\ Len(trail) \in Nat
  BY DEF TypeOK
<1>2. a \in Assignment
  BY <1>1, AssignmentType, ExactType
<1>3. a.pkg = p /\ a.decided /\ a.range = pg_range_exact(v) /\ a.level = lvl
  BY DEF assignment
<1>4. trail' = Append(trail, a) /\ changed' = Append(changed, p)
  BY DEF PushDecision
<1> HIDE DEF a
<1>5. trail' \in Seq(Assignment)
  BY <1>1, <1>2, <1>4
<1>. QED  BY <1>1, <1>2, <1>3, <1>4, <1>5, AppendKeeps

\* Every step keeps the shape of the main loop.
LEMMA LoopStep == ASSUME Inv, [Next]_vars PROVE LoopShape'
<1>0. /\ TypeOK /\ LoopShape /\ trail \in Seq(Assignment) /\ Len(trail) \in Nat
      /\ scan \in [pkg : Packages, idx : Nat]
  BY DEF Inv, TypeOK
<1>a. pc # "new" => RootDecided(trail)
  BY <1>0 DEF LoopShape, RootDecided
<1>1. CASE UNCHANGED vars
  BY <1>0, <1>1 DEF LoopShape, vars, Undecided
<1>2. ASSUME NEW req \in RootRequirements, AddRootDependency(req[1], req[2])
      PROVE  LoopShape'
  <2> DEFINE a == assignment(trail, req[1], req[2], TRUE, FALSE, 0, 0)
  <2>1. req[1] \in Packages /\ req[1] # Root /\ req[2] \in PgVersionRange
    BY PubGrubAssumption
  <2>2. a \in Assignment
    BY <1>0, <2>1, AssignmentType
  <2>3. a.pkg = req[1] /\ ~a.decided
    BY DEF assignment
  <2>4. trail' = Append(trail, a) /\ pc = "new"
        /\ UNCHANGED <<pc, status, incs, scan, level>>
    BY <1>2 DEF AddRootDependency
  <2> HIDE DEF a
  <2>5. \A i \in DOMAIN trail' :
          \/ i \in DOMAIN trail /\ trail'[i] = trail[i]
          \/ trail'[i] = a
    BY <1>0, <2>2, <2>4, AppendProperties
  <2>6. \A i \in DOMAIN trail' : trail'[i].pkg # Root /\ ~trail'[i].decided
    BY <1>0, <2>1, <2>3, <2>4, <2>5 DEF LoopShape
  <2>. QED  BY <1>0, <2>4, <2>6 DEF LoopShape
<1>3. CASE SeedRoot
  <2>1. /\ Len(trail') \in DOMAIN trail' /\ Len(trail') > 0
        /\ trail'[Len(trail')].pkg = Root /\ trail'[Len(trail')].decided
        /\ trail'[Len(trail')].range = pg_range_exact(RootVersion)
        /\ trail'[Len(trail')].level = 1
    BY <1>0, <1>3, PushDecisionShape, PubGrubAssumption DEF SeedRoot
  <2>2. \/ pc' = "register" /\ status' = status
        \/ pc' = "done" /\ status' = "INTERNAL_ERROR"
    BY <1>3 DEF SeedRoot, PushDecision, Stop
  <2>3. pc = "new" /\ scan' = scan
    BY <1>3 DEF SeedRoot
  <2>. QED  BY <1>0, <2>1, <2>2, <2>3 DEF LoopShape
<1>4. CASE RegisterDependency
  <2>1. pc = "register" /\ UNCHANGED <<pc, status, trail, scan>>
    BY <1>4 DEF RegisterDependency
  <2>. QED  BY <1>0, <2>1 DEF LoopShape
<1>5. CASE RegisterDone \/ CheckBudget
  <2>1. /\ pc \in {"register", "loop"} /\ UNCHANGED <<trail, scan, changed>>
        /\ \/ pc' \in {"loop", "propagate"} /\ status' = status
           \/ pc' = "done" /\ status' = "BUDGET_EXCEEDED"
    BY <1>5 DEF RegisterDone, CheckBudget, Stop
  <2>. QED  BY <1>0, <2>1 DEF LoopShape
<1>6. CASE PopChanged \/ ScanSkip
  <2>1. pc = "propagate" /\ UNCHANGED <<pc, status, trail>>
    BY <1>6 DEF PopChanged, ScanSkip
  <2>. QED  BY <1>0, <2>1 DEF LoopShape
<1>7. CASE ScanDerive
  <2>1. pc = "propagate" /\ UNCHANGED <<pc, status>>
    BY <1>7 DEF ScanDerive
  <2>2. RootDecided(trail')
    <3>1. Sound'
      BY <1>0, <2>1 DEF Sound, LoopShape
    <3>2. level' = level /\ trail' # trail
      <4>1. \E a : trail' = Append(trail, a)
        BY <1>7 DEF ScanDerive
      <4>2. level' = level
        BY <1>7 DEF ScanDerive
      <4>3. Len(trail') = Len(trail) + 1
        BY <1>0, <4>1
      <4>. QED  BY <1>0, <4>2, <4>3
    <3>3. ASSUME NEW lvl \in Nat, trail' = Kept(trail, lvl) PROVE FALSE
      <4>1. \E a : trail' = Append(trail, a)
        BY <1>7 DEF ScanDerive
      <4>2. Len(trail') = Len(trail) + 1
        BY <1>0, <4>1
      <4>3. Len(trail') \in 0 .. Len(trail)
        BY <1>0, <3>3, KeptProperties
      <4>. QED  BY <1>0, <4>2, <4>3
    <3>4. PICK p \in Packages, r \in PgVersionRange, positive \in BOOLEAN,
               decided \in BOOLEAN, lvl \in Nat, cause \in Nat :
            Pushed(p, r, positive, decided, lvl, cause)
      BY <3>1, <3>2, <3>3, TrailSteps
    <3>5. assignment(trail, p, r, positive, decided, lvl, cause) \in Assignment
      BY <1>0, AssignmentType
    <3>. QED  BY <1>0, <1>a, <2>1, <3>4, <3>5, RootDecidedAppend DEF Pushed
  <2>. QED  BY <1>0, <2>1, <2>2 DEF LoopShape, RootDecided
<1>8. CASE ScanConflict
  <2>1. pc = "propagate" /\ pc' = "resolve" /\ UNCHANGED <<status, trail>> /\ scan'.idx = 0
    BY <1>0, <1>8 DEF ScanConflict
  <2>. QED  BY <1>0, <2>1 DEF LoopShape
<1>9. CASE PropagationDone
  BY <1>0, <1>9 DEF LoopShape, PropagationDone
<1>10. CASE DecideError \/ DecideNoVersions
  <2>1. /\ pc = "decide" /\ UNCHANGED <<trail, scan>>
        /\ \/ pc' = "resolve" /\ status' = status
           \/ pc' = "done" /\ status' = "INTERNAL_ERROR"
    BY <1>10 DEF DecideError, DecideNoVersions, Stop
  <2>. QED  BY <1>0, <2>1 DEF LoopShape
<1>11. CASE Decide
  <2>1. PICK p \in Undecided :
          PushDecision(p, VersionsOf(p)[Min(Candidates(p))], level + 1) /\ ~Stuck(p)
    BY <1>11 DEF Decide
  <2>2. p \in Packages /\ level + 1 \in Nat /\ VersionsOf(p)[Min(Candidates(p))] \in Version
    BY <1>0, <2>1, ChosenVersionType DEF Undecided, TypeOK
  <2>3. /\ \A i \in DOMAIN trail : i \in DOMAIN trail' /\ trail'[i] = trail[i]
        /\ Len(trail') > 0 /\ trail'[Len(trail')].decided
    BY <1>0, <2>1, <2>2, PushDecisionShape
  <2>4. \/ pc' = "register" /\ status' = status
        \/ pc' = "done" /\ status' = "INTERNAL_ERROR"
    BY <2>1 DEF PushDecision, Stop
  <2>5. pc = "decide" /\ scan' = scan
    BY <1>11 DEF Decide
  <2>6. RootDecided(trail')
    BY <1>a, <2>3, <2>5 DEF RootDecided
  <2>. QED  BY <1>0, <2>3, <2>4, <2>5, <2>6 DEF LoopShape, RootDecided
<1>12. CASE DecideComplete
  <2>1. pc = "decide" /\ Undecided = {} /\ pc' = "done" /\ status' = "OK"
        /\ UNCHANGED <<trail, scan, changed>>
    BY <1>12 DEF DecideComplete, Stop
  <2>2. Undecided' = {}
    BY <2>1 DEF Undecided
  <2>. QED  BY <1>0, <2>1, <2>2 DEF LoopShape
<1>13. CASE ResolveRootFailure \/ ResolveNoSatisfier \/ ResolveRootLevel \/ ResolveNoCause
  <2>1. /\ pc = "resolve" /\ UNCHANGED <<trail, scan>>
        /\ pc' = "done" /\ status' = "NO_SOLUTION"
    BY <1>13 DEF ResolveRootFailure, ResolveNoSatisfier, ResolveRootLevel,
                 ResolveNoCause, NoSolution, Stop
  <2>. QED  BY <1>0, <2>1 DEF LoopShape
<1>14. CASE ResolveBackjump
  <2>1. pc = "resolve" /\ pc' = "loop" /\ UNCHANGED <<status, scan>>
        /\ trail' = Kept(trail, BackjumpLevel) /\ BackjumpLevel >= 1
    BY <1>14 DEF ResolveBackjump
  <2>2. BackjumpLevel \in Nat
    BY <1>0, <2>1, BackjumpLevelType DEF Inv, LoopShape
  <2>3. \A i \in DOMAIN trail : trail[i].level <= BackjumpLevel =>
          i \in DOMAIN trail' /\ trail'[i] = trail[i]
    BY <1>0, <2>1, <2>2, KeptLevels
  <2>4. RootDecided(trail')
    BY <1>a, <2>1, <2>2, <2>3 DEF RootDecided
  <2>. QED  BY <1>0, <2>1, <2>4 DEF LoopShape, RootDecided
<1>15. CASE ResolveWithCause \/ MergeTerm \/ MergeDone
  <2>1. /\ pc \in {"resolve", "merge"} /\ pc' \in {"resolve", "merge"}
        /\ UNCHANGED <<trail, scan, status>>
    BY <1>15 DEF ResolveWithCause, MergeTerm, MergeDone
  <2>. QED  BY <1>0, <2>1 DEF LoopShape
<1>16. CASE Done
  BY <1>1, <1>16 DEF Done
<1>. QED
  BY <1>1, <1>2, <1>3, <1>4, <1>5, <1>6, <1>7, <1>8, <1>9, <1>10, <1>11,
     <1>12, <1>13, <1>14, <1>15, <1>16 DEF Next

-----------------------------------------------------------------------------
(* Dependencies of decisions *)

\* A decision's dependencies read the same on a trail that holds it at the same
\* place.
LEMMA RegStep == ASSUME Inv, [Next]_vars PROVE reg' = reg
  BY DEF Next, vars, AddRootDependency, SeedRoot,
     RegisterDependency, RegisterDone, CheckBudget, PopChanged, ScanSkip,
     ScanDerive, ScanConflict, PropagationDone, DecideError, DecideNoVersions,
     Decide, DecideComplete, ResolveRootFailure, ResolveNoSatisfier,
     ResolveRootLevel, ResolveBackjump, ResolveNoCause, ResolveWithCause,
     MergeTerm, MergeDone, Done, NoSolution

\* Every step keeps decisions among the versions the provider listed.
LEMMA OfferedStep == ASSUME Inv, [Next]_vars PROVE DecisionsOffered'
<1> SUFFICES ASSUME Sound' PROVE DecisionsOffered'
  BY DEF DecisionsOffered
<1>0. TypeOK /\ DecisionsOffered /\ Sound /\ trail \in Seq(Assignment) /\ Len(trail) \in Nat
  BY TrailSteps DEF Inv, TypeOK
<1>a. reg' = reg
  BY RegStep
<1>b. \A i \in DOMAIN trail : trail[i].decided => Offered(trail[i].pkg, trail[i].range.lower.v)
  BY <1>0 DEF DecisionsOffered, DecidedVersion
<1>c. SUFFICES \A i \in DOMAIN trail' : trail'[i].decided =>
                 Offered(trail'[i].pkg, trail'[i].range.lower.v)
  BY <1>a DEF DecisionsOffered, DecidedVersion, Offered
<1>1. CASE UNCHANGED <<trail, level>>
  BY <1>b, <1>1
<1>2. ASSUME NEW p \in Packages, NEW r \in PgVersionRange, NEW positive \in BOOLEAN,
             NEW decided \in BOOLEAN, NEW lvl \in Nat, NEW cause \in Nat,
             Pushed(p, r, positive, decided, lvl, cause),
             NEW i \in DOMAIN trail', trail'[i].decided
      PROVE  Offered(trail'[i].pkg, trail'[i].range.lower.v)
  <2> DEFINE n == Len(trail) + 1
  <2>0. LastIs(p, r, positive, decided, lvl)
    BY <1>0, <1>2, PushedShape
  <2>1. /\ trail' \in Seq(Assignment) /\ Len(trail') = n
        /\ \A j \in 1 .. Len(trail) : trail'[j] = trail[j]
        /\ trail'[n].pkg = p /\ trail'[n].range = r /\ trail'[n].decided = decided
    BY <2>0 DEF LastIs
  <2>2. CASE i \in 1 .. Len(trail)
    BY <1>0, <1>2, <1>b, <2>1, <2>2
  <2>3. CASE i = n
    <3>1. PICK v \in Version : r = pg_range_exact(v) /\ Offered(p, v)
      BY <1>2, <2>1, <2>3 DEF Pushed
    <3>. QED  BY <2>1, <2>3, <3>1, ExactFacts
  <2>. QED  BY <1>0, <2>1, <2>2, <2>3
<1>3. ASSUME NEW lvl \in Nat, trail' = Kept(trail, lvl), NEW i \in DOMAIN trail',
             trail'[i].decided
      PROVE  Offered(trail'[i].pkg, trail'[i].range.lower.v)
  BY <1>0, <1>3, <1>b, KeptProperties
<1>. QED  BY <1>1, <1>2, <1>3, TrailSteps

\* The clause of the i-th assignment's k-th dependency exists.
Registered(i, k) ==
  \E c \in DOMAIN incs : /\ incs[c].attached
                         /\ incs[c].terms = DependencyTerms(trail[i], DependenciesOf(i)[k])

\* The dependency is still in the loop that registers it.
Waiting(i, k) ==
  /\ pc = "register" /\ i = Len(trail)
  /\ \E n \in DOMAIN todo : todo[n] = DependenciesOf(i)[k]

\* A decision that stays on the trail keeps its dependencies.
LEMMA SameDependencies ==
  ASSUME Inv, [Next]_vars, NEW i \in DOMAIN trail, i \in DOMAIN trail',
         trail'[i] = trail[i]
  PROVE  /\ DecidedVersion(i)' = DecidedVersion(i)
         /\ DependenciesOf(i)' = DependenciesOf(i)
         /\ \A k \in DOMAIN DependenciesOf(i) : Registered(i, k) => Registered(i, k)'
<1>1. reg' = reg
  BY RegStep
<1>2. DecidedVersion(i)' = DecidedVersion(i)
  BY DEF DecidedVersion
<1>3. DependenciesOf(i)' = DependenciesOf(i)
  BY <1>1, <1>2 DEF DependenciesOf
<1>. QED  BY <1>2, <1>3, ClausesKept DEF Registered

\* The dependencies of a new decision wait to be registered.
LEMMA NewDecisionWaits ==
  ASSUME TypeOK, NEW p \in Packages, NEW v \in Version, NEW lvl \in Nat,
         PushDecision(p, v, lvl), Sound', reg' = reg, NEW i, i = Len(trail')
  PROVE  /\ get_dependencies(reg, p, v) # ProviderError
         /\ DecidedVersion(i)' = v
         /\ \A k \in DOMAIN DependenciesOf(i)' : Waiting(i, k)'
<1>1. trail'[i].pkg = p /\ trail'[i].range = pg_range_exact(v)
  BY PushDecisionShape
<1>2. /\ get_dependencies(reg, p, v) # ProviderError
      /\ todo' = Truncate(get_dependencies(reg, p, v), DependencyBuffer)
      /\ pc' = "register"
  BY DEF PushDecision, Stop, Sound
<1>3. DecidedVersion(i)' = v
  BY <1>1, ExactFacts DEF DecidedVersion
<1>4. DependenciesOf(i)' = todo'
  BY <1>1, <1>2, <1>3 DEF DependenciesOf
<1>. QED  BY <1>2, <1>3, <1>4 DEF Waiting

\* Every step keeps the dependencies of every decision registered.
LEMMA DependenciesStep == ASSUME Inv, [Next]_vars PROVE DependenciesRegistered'
<1> DEFINE Fine(i) ==
      /\ get_dependencies(reg, trail[i].pkg, DecidedVersion(i)) # ProviderError
      /\ \A k \in DOMAIN DependenciesOf(i) : Registered(i, k) \/ Waiting(i, k)
<1> SUFFICES ASSUME Sound', NEW i \in DOMAIN trail', trail'[i].decided
             PROVE  Fine(i)'
  BY DEF DependenciesRegistered, Registered, Waiting
<1>0. /\ TypeOK /\ Sound /\ trail \in Seq(Assignment) /\ Len(trail) \in Nat
      /\ todo \in Seq(Dependency)
  BY TrailSteps DEF Inv, TypeOK
<1>a. \A j \in DOMAIN trail : trail[j].decided => Fine(j)
  BY <1>0 DEF Inv, DependenciesRegistered, Registered, Waiting
<1>b. reg' = reg
  BY RegStep
<1>c. ASSUME i \in DOMAIN trail, trail'[i] = trail[i], pc # "register"
      PROVE  Fine(i)'
  <2>1. /\ DecidedVersion(i)' = DecidedVersion(i)
        /\ DependenciesOf(i)' = DependenciesOf(i)
        /\ \A k \in DOMAIN DependenciesOf(i) : Registered(i, k) => Registered(i, k)'
    BY <1>c, SameDependencies
  <2>2. Fine(i)
    BY <1>a, <1>c
  <2>3. \A k \in DOMAIN DependenciesOf(i) : Registered(i, k)
    BY <1>c, <2>2 DEF Waiting
  <2>. QED  BY <1>b, <1>c, <2>1, <2>2, <2>3
<1>d. ASSUME i \in DOMAIN trail, UNCHANGED <<trail, pc, todo>>
      PROVE  Fine(i)'
  <2>1. /\ DecidedVersion(i)' = DecidedVersion(i)
        /\ DependenciesOf(i)' = DependenciesOf(i)
        /\ \A k \in DOMAIN DependenciesOf(i) : Registered(i, k) => Registered(i, k)'
    BY <1>d, SameDependencies
  <2>2. Fine(i)
    BY <1>a, <1>d
  <2>3. \A k \in DOMAIN DependenciesOf(i) : Waiting(i, k) => Waiting(i, k)'
    BY <1>d, <2>1 DEF Waiting
  <2>. QED  BY <1>b, <1>d, <2>1, <2>2, <2>3
<1>e. ASSUME NEW p \in Packages, NEW v \in Version, NEW lvl \in Nat,
             PushDecision(p, v, lvl), pc # "register"
      PROVE  Fine(i)'
  <2>1. /\ Len(trail') = Len(trail) + 1 /\ trail' \in Seq(Assignment)
        /\ \A j \in DOMAIN trail : j \in DOMAIN trail' /\ trail'[j] = trail[j]
        /\ trail'[Len(trail')].pkg = p
    BY <1>0, <1>e, PushDecisionShape
  <2>2. CASE i \in DOMAIN trail
    BY <1>c, <1>e, <2>1, <2>2
  <2>3. CASE i = Len(trail')
    <3>1. /\ get_dependencies(reg, p, v) # ProviderError
          /\ DecidedVersion(i)' = v
          /\ \A k \in DOMAIN DependenciesOf(i)' : Waiting(i, k)'
      BY <1>0, <1>b, <1>e, <2>3, NewDecisionWaits
    <3>. QED  BY <1>b, <2>1, <2>3, <3>1
  <2>4. i \in DOMAIN trail \/ i = Len(trail')
    BY <1>0, <2>1
  <2>. QED  BY <2>2, <2>3, <2>4
<1>1. CASE UNCHANGED vars
  BY <1>1, <1>d DEF vars
<1>2. CASE SeedRoot
  BY <1>2, <1>e, PubGrubAssumption DEF SeedRoot
<1>3. CASE Decide
  <2>1. PICK p \in Undecided :
          PushDecision(p, VersionsOf(p)[Min(Candidates(p))], level + 1) /\ ~Stuck(p)
    BY <1>3 DEF Decide
  <2>2. p \in Packages /\ level + 1 \in Nat /\ VersionsOf(p)[Min(Candidates(p))] \in Version
    BY <1>0, <2>1, ChosenVersionType DEF Undecided, TypeOK
  <2>3. pc = "decide"
    BY <1>3 DEF Decide
  <2>. QED  BY <1>e, <2>1, <2>2, <2>3
<1>4. CASE RegisterDependency
  <2>0. pc = "register" /\ todo # << >> /\ todo' = Tail(todo) /\ UNCHANGED <<trail, pc>>
        /\ pg_solver_add_incompatibility(
             DependencyTerms(trail[Len(trail)], Head(todo)), "DEPENDENCY")
    BY <1>4 DEF RegisterDependency
  <2>1. i \in DOMAIN trail /\ trail'[i] = trail[i] /\ trail[i].decided
    BY <2>0
  <2>2. /\ DecidedVersion(i)' = DecidedVersion(i)
        /\ DependenciesOf(i)' = DependenciesOf(i)
        /\ \A k \in DOMAIN DependenciesOf(i) : Registered(i, k) => Registered(i, k)'
    BY <2>1, SameDependencies
  <2>3. Fine(i)
    BY <1>a, <2>1
  <2>4. ASSUME NEW k \in DOMAIN DependenciesOf(i), Waiting(i, k)
        PROVE  Registered(i, k)' \/ Waiting(i, k)'
    <3>1. PICK n \in DOMAIN todo : todo[n] = DependenciesOf(i)[k]
      BY <2>4 DEF Waiting
    <3>2. i = Len(trail)
      BY <2>4 DEF Waiting
    <3>3. CASE n = 1
      <4> DEFINE inc == [terms |-> DependencyTerms(trail[Len(trail)], Head(todo)),
                         reason |-> "DEPENDENCY", causes |-> << >>, attached |-> TRUE]
      <4>1. Head(todo) = DependenciesOf(i)[k]
        BY <1>0, <2>0, <3>1, <3>3
      <4>2. incs' = Append(incs, inc)
        BY <2>0 DEF pg_solver_add_incompatibility
      <4>3. inc.attached /\ inc.terms = DependencyTerms(trail[i], DependenciesOf(i)[k])
        BY <3>2, <4>1
      <4> HIDE DEF inc
      <4>4. Len(incs) + 1 \in DOMAIN incs' /\ incs'[Len(incs) + 1] = inc
        <5>1. incs \in Seq(Incompatibility) /\ Len(incs) \in Nat
          BY <1>0 DEF TypeOK
        <5>. QED  BY <4>2, <5>1
      <4>. QED  BY <2>1, <2>2, <4>3, <4>4 DEF Registered
    <3>4. CASE n # 1
      <4>1. n - 1 \in DOMAIN Tail(todo) /\ Tail(todo)[n - 1] = todo[n]
        BY <1>0, <2>0, <3>4
      <4>. QED  BY <2>0, <2>2, <3>1, <3>2, <4>1 DEF Waiting
    <3>. QED  BY <3>3, <3>4
  <2>5. \A k \in DOMAIN DependenciesOf(i)' : Registered(i, k)' \/ Waiting(i, k)'
    BY <2>2, <2>3, <2>4
  <2>. QED  BY <1>b, <2>1, <2>2, <2>3, <2>5
<1>5. CASE RegisterDone
  <2>0. pc = "register" /\ todo = << >> /\ UNCHANGED <<trail, todo>>
    BY <1>5 DEF RegisterDone
  <2>1. i \in DOMAIN trail /\ trail'[i] = trail[i] /\ trail[i].decided
    BY <2>0
  <2>2. /\ DecidedVersion(i)' = DecidedVersion(i)
        /\ DependenciesOf(i)' = DependenciesOf(i)
        /\ \A k \in DOMAIN DependenciesOf(i) : Registered(i, k) => Registered(i, k)'
    BY <2>1, SameDependencies
  <2>3. Fine(i)
    BY <1>a, <2>1
  <2>4. \A k \in DOMAIN DependenciesOf(i) : ~Waiting(i, k)
    BY <2>0 DEF Waiting
  <2>. QED  BY <1>b, <2>1, <2>2, <2>3, <2>4
<1>6. ASSUME pc # "register", ~SeedRoot, ~Decide PROVE Fine(i)'
  <2>1. CASE i \in DOMAIN trail /\ trail'[i] = trail[i]
    BY <1>6, <1>c, <2>1
  <2>2. CASE UNCHANGED <<trail, level>>
    BY <2>1, <2>2
  <2>3. ASSUME NEW lvl \in Nat, trail' = Kept(trail, lvl)
        PROVE  Fine(i)'
    BY <1>0, <2>1, <2>3, KeptProperties
  <2>4. ASSUME NEW p \in Packages, NEW r \in PgVersionRange, NEW positive \in BOOLEAN,
               NEW decided \in BOOLEAN, NEW lvl \in Nat, NEW cause \in Nat,
               Pushed(p, r, positive, decided, lvl, cause)
        PROVE  Fine(i)'
    <3> DEFINE a == assignment(trail, p, r, positive, decided, lvl, cause)
    <3>1. trail' = Append(trail, a) /\ a \in Assignment /\ a.decided = decided
      <4>1. trail' = Append(trail, a)
        BY <2>4 DEF Pushed
      <4>2. a \in Assignment
        BY <1>0, AssignmentType
      <4>3. a.decided = decided
        BY DEF assignment
      <4>. QED  BY <4>1, <4>2, <4>3
    <3> HIDE DEF a
    <3>2. /\ trail' \in Seq(Assignment) /\ Len(trail') = Len(trail) + 1
          /\ \A j \in 1 .. Len(trail) : trail'[j] = trail[j]
          /\ trail'[Len(trail) + 1] = a
      BY <1>0, <3>1, AppendProperties
    <3>3. trail' # trail
      BY <1>0, <3>2
    <3>4. ~decided
      <4>1. \/ \E req \in RootRequirements : AddRootDependency(req[1], req[2])
            \/ ScanDerive \/ ResolveBackjump
        BY <1>6, <3>3 DEF Next, vars, RegisterDependency, RegisterDone, CheckBudget,
           PopChanged, ScanSkip, ScanConflict, PropagationDone, DecideError,
           DecideNoVersions, DecideComplete, ResolveRootFailure, ResolveNoSatisfier,
           ResolveRootLevel, ResolveNoCause, ResolveWithCause, MergeTerm, MergeDone,
           Done, NoSolution
      <4>2. CASE ResolveBackjump
        <5>1. trail' = Kept(trail, BackjumpLevel) /\ BackjumpLevel \in Nat
          BY <1>0, <4>2, BackjumpLevelType DEF ResolveBackjump, Inv, LoopShape
        <5>2. Len(trail') \in 0 .. Len(trail)
          BY <1>0, <5>1, KeptProperties
        <5>. QED  BY <1>0, <3>2, <5>2
      <4>3. CASE \E req \in RootRequirements : AddRootDependency(req[1], req[2])
        <5>1. PICK req \in RootRequirements :
                trail' = Append(trail, assignment(trail, req[1], req[2], TRUE, FALSE, 0, 0))
          BY <4>3 DEF AddRootDependency
        <5>2. trail'[Len(trail) + 1].decided = FALSE
          BY <1>0, <5>1 DEF assignment
        <5>. QED  BY <3>1, <3>2, <5>2
      <4>4. CASE ScanDerive
        <5>1. PICK k : trail' = Append(trail,
                         assignment(trail, incs[ScannedInc].terms[k].pkg,
                                    incs[ScannedInc].terms[k].range,
                                    ~incs[ScannedInc].terms[k].positive, FALSE, level,
                                    ScannedInc))
          BY <4>4 DEF ScanDerive
        <5>2. trail'[Len(trail) + 1].decided = FALSE
          BY <1>0, <5>1 DEF assignment
        <5>. QED  BY <3>1, <3>2, <5>2
      <4>. QED  BY <4>1, <4>2, <4>3, <4>4
    <3>5. i # Len(trail) + 1
      BY <3>1, <3>2, <3>4
    <3>6. i \in DOMAIN trail /\ trail'[i] = trail[i]
      BY <1>0, <3>2, <3>5
    <3>. QED  BY <2>1, <3>6
  <2>. QED  BY <2>2, <2>3, <2>4, TrailSteps
<1>7. pc = "register" => UNCHANGED vars \/ RegisterDependency \/ RegisterDone
  BY DEF Next, AddRootDependency, SeedRoot, CheckBudget, PopChanged, ScanSkip,
     ScanDerive, ScanConflict, PropagationDone, DecideError, DecideNoVersions,
     Decide, DecideComplete, ResolveRootFailure, ResolveNoSatisfier,
     ResolveRootLevel, ResolveBackjump, ResolveNoCause, ResolveWithCause,
     MergeTerm, MergeDone, Done
<1>. QED  BY <1>1, <1>2, <1>3, <1>4, <1>5, <1>6, <1>7

-----------------------------------------------------------------------------
(* Propagation *)

\* An assignment to another package changes nothing about a term.
LEMMA PushElsewhere ==
  ASSUME NEW tr \in Seq(Assignment), NEW a \in Assignment, NEW t \in Term,
         t.pkg # a.pkg
  PROVE  /\ Satisfied(Append(tr, a), t) <=> Satisfied(tr, t)
         /\ Contradicted(Append(tr, a), t) <=> Contradicted(tr, t)
<1> DEFINE new == Append(tr, a)
           q == t.pkg
<1>1. Len(tr) \in Nat
  OBVIOUS
<1>2. /\ new \in Seq(Assignment) /\ Len(new) = Len(tr) + 1
      /\ \A i \in 1 .. Len(tr) : new[i] = tr[i]
      /\ new[Len(tr) + 1] = a
  BY AppendProperties
<1> HIDE DEF new, q
<1>3. \A i : i \in DOMAIN new <=> i \in DOMAIN tr \/ i = Len(tr) + 1
  BY <1>1, <1>2
<1>4. \A i \in DOMAIN new : new[i].pkg = q => i \in DOMAIN tr /\ new[i] = tr[i]
  BY <1>1, <1>2, <1>3 DEF q
<1>5. \A i \in DOMAIN tr : i \in DOMAIN new /\ new[i] = tr[i]
  BY <1>1, <1>2, <1>3
<1>6. Positives(new, q) = Positives(tr, q)
  BY <1>4, <1>5 DEF Positives
<1>7. HasPositive(new, q) <=> HasPositive(tr, q)
  BY <1>6 DEF HasPositive
<1>8. HasPositive(tr, q) => PositiveRange(new, q) = PositiveRange(tr, q)
  <2>1. SUFFICES ASSUME HasPositive(tr, q) PROVE PositiveRange(new, q) = PositiveRange(tr, q)
    OBVIOUS
  <2>2. Max(Positives(tr, q)) \in Positives(tr, q)
    BY <2>1, PositivesMax
  <2>3. Max(Positives(tr, q)) \in DOMAIN tr
    BY <2>2 DEF Positives
  <2>. QED  BY <1>5, <1>6, <2>3 DEF PositiveRange
<1>9. Forbids(new, t) <=> Forbids(tr, t)
  BY <1>4, <1>5 DEF Forbids, q
<1>10. Satisfied(new, t) <=> Satisfied(tr, t)
  BY <1>7, <1>8 DEF Satisfied, q
<1>11. Contradicted(new, t) <=> Contradicted(tr, t)
  BY <1>7, <1>8, <1>9, <1>10 DEF Contradicted, q
<1>. QED  BY <1>10, <1>11 DEF new

\* An assignment for another package changes nothing for a clause.
LEMMA PendingElsewhere ==
  ASSUME NEW tr \in Seq(Assignment), NEW a \in Assignment, NEW terms \in Seq(Term),
         \A k \in DOMAIN terms : terms[k].pkg # a.pkg,
         Pending(Append(tr, a), terms)
  PROVE  Pending(tr, terms)
<1>1. \A k \in DOMAIN terms :
        /\ Satisfied(Append(tr, a), terms[k]) <=> Satisfied(tr, terms[k])
        /\ Contradicted(Append(tr, a), terms[k]) <=> Contradicted(tr, terms[k])
  BY TermOf, PushElsewhere
<1>. QED  BY <1>1 DEF Pending, AllSatisfied, UnitAt, Inconclusive

\* The clause is due for another look.
Covered(c) ==
  \/ \E k \in DOMAIN incs[c].terms : \E n \in DOMAIN changed :
       changed[n] = incs[c].terms[k].pkg
  \/ AheadOfScan(c)

\* No step loses a propagation.
LEMMA PropagationStep == ASSUME Inv, [Next]_vars PROVE PropagationComplete'
<1> SUFFICES ASSUME Sound', pc' \notin {"resolve", "merge"}, NEW c \in DOMAIN incs',
                    incs'[c].attached, Pending(trail', incs'[c].terms)
             PROVE  Covered(c)'
  BY DEF PropagationComplete, Covered
<1>0. /\ TypeOK /\ Sound /\ trail \in Seq(Assignment) /\ Len(trail) \in Nat
      /\ incs \in Seq(Incompatibility) /\ Len(incs) \in Nat
      /\ changed \in Seq(Packages) /\ Len(changed) \in Nat
      /\ scan \in [pkg : Packages, idx : Nat]
      /\ lists \in [Packages -> Seq(1 .. Len(incs))]
  BY TrailSteps DEF Inv, TypeOK
<1>a. ASSUME pc \notin {"resolve", "merge"}, NEW d \in DOMAIN incs, incs[d].attached,
             Pending(trail, incs[d].terms)
      PROVE  Covered(d)
  BY <1>0, <1>a DEF Inv, PropagationComplete, Covered
<1>b. \A d \in DOMAIN incs : incs[d].terms \in Seq(Term)
  <2>1. \A d \in DOMAIN incs : incs[d] \in Incompatibility
    BY <1>0
  <2>. QED  BY <2>1 DEF Incompatibility
<1>1. ASSUME pc \notin {"resolve", "merge"}, UNCHANGED <<trail, incs, lists, changed, scan>>
      PROVE  Covered(c)'
  <2>1. Covered(c)
    BY <1>1, <1>a
  <2>. QED  BY <1>1, <2>1 DEF Covered, AheadOfScan
<1>2. ASSUME pc \notin {"resolve", "merge"}, NEW a \in Assignment,
             trail' = Append(trail, a), changed' = Append(changed, a.pkg),
             UNCHANGED <<incs, lists>>,
             \/ scan' = scan
             \/ /\ scan' = [scan EXCEPT !.idx = @ - 1] /\ scan.idx > 0
                /\ \E k \in DOMAIN incs[ScannedInc].terms :
                     incs[ScannedInc].terms[k].pkg = a.pkg
      PROVE  Covered(c)'
  <2>0. a.pkg \in Packages
    BY DEF Assignment
  <2>1. /\ \A n \in DOMAIN changed : n \in DOMAIN changed' /\ changed'[n] = changed[n]
        /\ Len(changed) + 1 \in DOMAIN changed' /\ changed'[Len(changed) + 1] = a.pkg
    BY <1>0, <1>2, <2>0, AppendKeeps
  <2>2. CASE \E k \in DOMAIN incs[c].terms : incs[c].terms[k].pkg = a.pkg
    BY <1>2, <2>1, <2>2 DEF Covered
  <2>3. CASE \A k \in DOMAIN incs[c].terms : incs[c].terms[k].pkg # a.pkg
    <3>1. Pending(trail, incs[c].terms)
      BY <1>0, <1>2, <1>b, <2>3, PendingElsewhere
    <3>2. Covered(c)
      BY <1>2, <1>a, <3>1
    <3>3. AheadOfScan(c) => AheadOfScan(c)'
      <4>1. CASE scan' = scan
        BY <1>2, <4>1 DEF AheadOfScan
      <4>2. CASE scan' # scan
        <5>1. /\ scan'.pkg = scan.pkg /\ scan'.idx = scan.idx - 1 /\ scan.idx > 0
              /\ scan.idx \in Nat /\ ScannedInc # c
          BY <1>0, <1>2, <2>3, <4>2
        <5>2. \A j \in 1 .. scan.idx : lists[scan.pkg][j] = c => j \in 1 .. scan'.idx
          BY <5>1 DEF ScannedInc
        <5>. QED  BY <1>2, <5>1, <5>2 DEF AheadOfScan
      <4>. QED  BY <4>1, <4>2
    <3>. QED  BY <1>2, <2>1, <3>2, <3>3 DEF Covered
  <2>. QED  BY <2>2, <2>3
<1>3. ASSUME NEW p \in Packages, NEW v \in Version, NEW lvl \in Nat,
             PushDecision(p, v, lvl), pc \notin {"resolve", "merge"},
             UNCHANGED <<incs, lists, scan>>
      PROVE  Covered(c)'
  <2> DEFINE a == assignment(trail, p, pg_range_exact(v), TRUE, TRUE, lvl, 0)
  <2>1. a \in Assignment
    BY <1>0, AssignmentType, ExactType
  <2>2. a.pkg = p
    BY DEF assignment
  <2>3. trail' = Append(trail, a) /\ changed' = Append(changed, p)
    BY <1>3 DEF PushDecision
  <2> HIDE DEF a
  <2>. QED  BY <1>2, <1>3, <2>1, <2>2, <2>3
<1>4. CASE UNCHANGED vars \/ RegisterDone \/ CheckBudget \/ PropagationDone \/ DecideComplete \/ Done
  <2>1. UNCHANGED <<trail, incs, lists, changed, scan>>
    BY <1>4 DEF vars, RegisterDone, CheckBudget, PropagationDone, DecideComplete, Done
  <2>2. pc \notin {"resolve", "merge"}
    BY <1>4 DEF vars, RegisterDone, CheckBudget, PropagationDone, DecideComplete, Done
  <2>. QED  BY <1>1, <2>1, <2>2
<1>5. ASSUME NEW req \in RootRequirements, AddRootDependency(req[1], req[2])
      PROVE  Covered(c)'
  <2>1. incs' = incs /\ incs = << >>
    BY <1>5 DEF AddRootDependency, Inv, LoopShape
  <2>. QED  BY <2>1
<1>6. CASE SeedRoot
  BY <1>3, <1>6, PubGrubAssumption DEF SeedRoot
<1>7. CASE Decide
  <2>1. PICK p \in Undecided :
          PushDecision(p, VersionsOf(p)[Min(Candidates(p))], level + 1) /\ ~Stuck(p)
    BY <1>7 DEF Decide
  <2>2. p \in Packages /\ level + 1 \in Nat /\ VersionsOf(p)[Min(Candidates(p))] \in Version
    BY <1>0, <2>1, ChosenVersionType DEF Undecided, TypeOK
  <2>3. pc = "decide" /\ UNCHANGED <<incs, lists, scan>>
    BY <1>7 DEF Decide
  <2>. QED  BY <1>3, <2>1, <2>2, <2>3
<1>8. CASE RegisterDependency
  <2> DEFINE terms == DependencyTerms(trail[Len(trail)], Head(todo))
  <2>0. /\ pc = "register" /\ UNCHANGED <<trail, scan>>
        /\ pg_solver_add_incompatibility(terms, "DEPENDENCY")
        /\ changed' = changed \o PkgsOf(terms)
    BY <1>8 DEF RegisterDependency
  <2>1. terms \in Seq(Term) /\ Len(terms) = 2
    <3>1. Head(todo) \in Dependency
      BY <1>0, <1>8 DEF RegisterDependency, TypeOK
    <3>2. Len(trail) \in DOMAIN trail
      BY <1>0, <1>8 DEF RegisterDependency, Inv, LoopShape
    <3>3. trail[Len(trail)] \in Assignment
      BY <1>0, <3>2
    <3>. QED  BY <3>1, <3>3 DEF DependencyTerms, Dependency, Assignment, Term
  <2> HIDE DEF terms
  <2>2. /\ incs' \in Seq(Incompatibility) /\ Len(incs') = Len(incs) + 1
        /\ incs'[Len(incs) + 1].terms = terms
        /\ \A d \in 1 .. Len(incs) : incs'[d] = incs[d]
    BY <1>0, <2>0, <2>1, AddIncompatibilityType DEF Reason
  <2>3. /\ PkgsOf(terms) \in Seq(Packages) /\ Len(PkgsOf(terms)) = 2
        /\ PkgsOf(terms)[1] = terms[1].pkg /\ 1 \in DOMAIN terms
    BY <2>1, PkgsOfType
  <2>4. /\ \A n \in DOMAIN changed : n \in DOMAIN changed' /\ changed'[n] = changed[n]
        /\ Len(changed) + 1 \in DOMAIN changed'
        /\ changed'[Len(changed) + 1] = terms[1].pkg
    <3>1. Len(PkgsOf(terms)) > 0
      BY <2>3
    <3>2. changed \in Seq(Packages) /\ changed' = changed \o PkgsOf(terms)
      BY <1>0, <2>0
    <3>. QED  BY <2>3, <3>1, <3>2, ConcatKeeps
  <2>5. CASE c = Len(incs) + 1
    BY <2>2, <2>3, <2>4, <2>5 DEF Covered
  <2>6. CASE c \in 1 .. Len(incs)
    <3>1. incs'[c] = incs[c] /\ c \in DOMAIN incs
      BY <1>0, <2>2, <2>6
    <3>2. Covered(c)
      BY <1>a, <2>0, <3>1
    <3>3. ~AheadOfScan(c)
      BY <1>0, <2>0 DEF AheadOfScan, Inv, LoopShape
    <3>. QED  BY <2>4, <3>1, <3>2, <3>3 DEF Covered
  <2>7. c = Len(incs) + 1 \/ c \in 1 .. Len(incs)
    BY <1>0, <2>2
  <2>. QED  BY <2>5, <2>6, <2>7
<1>9. CASE PopChanged
  <2> DEFINE p == changed[Len(changed)]
  <2>1. /\ pc = "propagate" /\ scan.idx = 0 /\ changed # << >>
        /\ scan' = [pkg |-> p, idx |-> Len(lists[p])]
        /\ changed' = SubSeq(changed, 1, Len(changed) - 1)
        /\ UNCHANGED <<trail, incs, lists>>
    BY <1>9 DEF PopChanged
  <2>2. Covered(c) /\ ~AheadOfScan(c)
    <3>1. Covered(c)
      BY <1>a, <2>1
    <3>2. ~AheadOfScan(c)
      BY <2>1 DEF AheadOfScan
    <3>. QED  BY <3>1, <3>2
  <2>3. PICK k \in DOMAIN incs[c].terms, n \in DOMAIN changed :
          changed[n] = incs[c].terms[k].pkg
    BY <2>2 DEF Covered
  <2>4. CASE n = Len(changed)
    <3>1. \E j \in DOMAIN lists[p] : lists[p][j] = c
      BY <2>1, <2>3, <2>4 DEF Inv, ClausesListed
    <3>2. p \in Packages /\ DOMAIN lists[p] = 1 .. Len(lists[p])
      BY <1>0, <2>1
    <3>3. scan'.pkg = p /\ scan'.idx = Len(lists[p])
      BY <2>1
    <3>. QED  BY <2>1, <3>1, <3>2, <3>3 DEF Covered, AheadOfScan
  <2>5. CASE n # Len(changed)
    <3>1. n \in 1 .. Len(changed) - 1
      BY <1>0, <2>5
    <3>2. n \in DOMAIN changed' /\ changed'[n] = changed[n]
      BY <1>0, <2>1, <3>1
    <3>. QED  BY <2>1, <2>3, <3>2 DEF Covered
  <2>. QED  BY <2>4, <2>5
<1>10. CASE ScanSkip
  <2>1. /\ pc = "propagate" /\ scan.idx > 0 /\ UNCHANGED <<trail, incs, lists, changed>>
        /\ scan' = [scan EXCEPT !.idx = @ - 1]
        /\ ~AllSatisfied(trail, incs[ScannedInc].terms)
        /\ \A k \in DOMAIN incs[ScannedInc].terms : ~UnitAt(trail, incs[ScannedInc].terms, k)
    BY <1>10 DEF ScanSkip
  <2>2. Covered(c) /\ c # ScannedInc
    BY <1>a, <2>1 DEF Pending
  <2>3. scan'.pkg = scan.pkg /\ scan'.idx = scan.idx - 1 /\ scan.idx \in Nat
    BY <1>0, <2>1
  <2>4. \A j \in 1 .. scan.idx : lists[scan.pkg][j] = c => j \in 1 .. scan'.idx
    BY <2>1, <2>2, <2>3 DEF ScannedInc
  <2>. QED  BY <2>1, <2>2, <2>3, <2>4 DEF Covered, AheadOfScan
<1>11. CASE ScanDerive
  <2> DEFINE terms == incs[ScannedInc].terms
  <2>1. ScannedInc \in 1 .. Len(incs) /\ terms \in Seq(Term)
    BY <1>0, <1>11, ScannedType DEF ScanDerive
  <2>2. PICK k \in DOMAIN terms :
          /\ trail' = Append(trail,
                 assignment(trail, terms[k].pkg, terms[k].range,
                            ~terms[k].positive, FALSE, level, ScannedInc))
          /\ changed' = Append(changed, terms[k].pkg)
    BY <1>11 DEF ScanDerive
  <2>3. /\ pc = "propagate" /\ scan.idx > 0 /\ scan' = [scan EXCEPT !.idx = @ - 1]
        /\ UNCHANGED <<incs, lists>>
    BY <1>11 DEF ScanDerive
  <2> DEFINE a == assignment(trail, terms[k].pkg, terms[k].range,
                             ~terms[k].positive, FALSE, level, ScannedInc)
  <2>4. a \in Assignment /\ a.pkg = terms[k].pkg
    <3> HIDE DEF terms
    <3>1. terms[k].pkg \in Packages /\ terms[k].range \in PgVersionRange
      BY <2>1, TermOf
    <3>2. level \in Nat /\ ScannedInc \in Nat /\ (~terms[k].positive) \in BOOLEAN
      BY <1>0, <2>1 DEF TypeOK
    <3>3. a \in Assignment
      BY <1>0, <3>1, <3>2, AssignmentType
    <3>. QED  BY <3>3 DEF assignment
  <2>5. trail' = Append(trail, a)
    BY <2>2
  <2> HIDE DEF a
  <2>6. \E m \in DOMAIN incs[ScannedInc].terms : incs[ScannedInc].terms[m].pkg = a.pkg
    BY <2>4
  <2>7. changed' = Append(changed, a.pkg) /\ pc \notin {"resolve", "merge"}
    BY <2>2, <2>3, <2>4
  <2>. QED  BY <1>2, <2>3, <2>4, <2>5, <2>6, <2>7
<1>12. CASE ResolveBackjump
  <2>1. /\ trail' = Kept(trail, BackjumpLevel) /\ changed' = PkgsOf(trail')
    BY <1>12 DEF ResolveBackjump
  <2>2. BackjumpLevel \in Nat
    BY <1>0, <1>12, BackjumpLevelType DEF Inv, LoopShape, ResolveBackjump
  <2>3. trail' \in Seq(Assignment)
    BY <1>0, <2>1, <2>2, KeptProperties
  <2>4. PICK k \in DOMAIN incs'[c].terms : Satisfied(trail', incs'[c].terms[k])
    BY DEF Pending
  <2>5. PICK i \in DOMAIN trail' : trail'[i].pkg = incs'[c].terms[k].pkg
    BY <2>4 DEF Satisfied, HasPositive, Positives
  <2>6. i \in DOMAIN changed' /\ changed'[i] = trail'[i].pkg
    BY <2>1, <2>3, TrailPkgsType
  <2>. QED  BY <2>5, <2>6 DEF Covered
<1>13. CASE ScanConflict \/ DecideError \/ DecideNoVersions
  BY <1>13 DEF ScanConflict, DecideError, DecideNoVersions, Stop, Sound
<1>14. CASE ResolveRootFailure \/ ResolveNoSatisfier \/ ResolveRootLevel \/ ResolveNoCause
  BY <1>14 DEF ResolveRootFailure, ResolveNoSatisfier, ResolveRootLevel,
               ResolveNoCause, NoSolution, Stop, Sound
<1>15. CASE ResolveWithCause \/ MergeTerm \/ MergeDone
  BY <1>15 DEF ResolveWithCause, MergeTerm, MergeDone
<1>. QED
  BY <1>4, <1>5, <1>6, <1>7, <1>8, <1>9, <1>10, <1>11, <1>12, <1>13, <1>14,
     <1>15 DEF Next

-----------------------------------------------------------------------------
(* The invariant and what follows from it *)

\* A new solver satisfies the inductive invariant.
LEMMA InvInit == Init => Inv
<1> SUFFICES ASSUME Init PROVE Inv
  OBVIOUS
<1>1. TypeOK
  BY TypeInit
<1>2. DOMAIN trail = {} /\ DOMAIN incs = {}
  BY DEF Init
<1>3. LoopShape
  BY <1>2 DEF Init, LoopShape
<1>. QED
  BY <1>1, <1>2, <1>3 DEF Inv, LevelsMonotone, RangesAccumulate, DecisionsFinal,
     DecisionsOffered, DependenciesRegistered, ClausesListed, PropagationComplete

\* Every step of the solver preserves the inductive invariant.
LEMMA InvStep == Inv /\ [Next]_vars => Inv'
<1> SUFFICES ASSUME Inv, [Next]_vars PROVE Inv'
  OBVIOUS
<1>1. TypeOK'
  BY TypeStep
<1>2. LevelsMonotone' /\ RangesAccumulate' /\ DecisionsFinal' /\ DecisionsOffered'
  BY LevelsStep, RangesStep, DecisionsStep, OfferedStep
<1>3. DependenciesRegistered' /\ ClausesListed' /\ PropagationComplete' /\ LoopShape'
  BY DependenciesStep, ListedStep, PropagationStep, LoopStep
<1>. QED  BY <1>1, <1>2, <1>3 DEF Inv

\* The inductive invariant holds of pg_solver_solve for every provider, every
\* set of root requirements and every budget: types, levels, accumulated
\* ranges, final decisions, registered dependencies, complete propagation.
THEOREM Invariance == Spec => []Inv
<1>1. Init => Inv
  BY InvInit
<1>2. Inv /\ [Next]_vars => Inv'
  BY InvStep
<1>. QED  BY <1>1, <1>2, PTL DEF Spec

\* Every pointer the solver follows names a clause that exists, and every loop
\* index stays inside its list.
THEOREM TypeCorrect == Spec => []TypeOK
<1>1. Inv => TypeOK
  BY DEF Inv
<1>. QED  BY <1>1, Invariance, PTL

\* When the solver reports success, a package with a positive assignment has
\* one decision, and that is what pg_solver_get_selected_version reads.
LEMMA SelectedIsDecided ==
  ASSUME Inv, status = "OK", NEW p \in Packages, HasPositive(trail, p)
  PROVE  \E i \in DOMAIN trail : \E v \in Version :
           /\ trail[i].pkg = p /\ trail[i].decided
           /\ trail[i].range = pg_range_exact(v)
           /\ PositiveRange(trail, p) = pg_range_exact(v)
           /\ Selected(p) /\ SelectedVersion(p) = v
<1>0. TypeOK /\ DecisionsFinal /\ Sound /\ RangesAccumulate /\ trail \in Seq(Assignment)
  BY DEF Inv, Sound, TypeOK
<1>1. PICK i \in DOMAIN trail : trail[i].pkg = p /\ trail[i].decided
  <2>1. CASE p = Root
    BY <2>1 DEF Inv, LoopShape
  <2>2. CASE p # Root
    <3>1. HasDecision(trail, p)
      BY <2>2 DEF Inv, LoopShape, Undecided
    <3>. QED  BY <3>1 DEF HasDecision
  <2>. QED  BY <2>1, <2>2
<1>2. PICK v \in Version : /\ trail[i].range = pg_range_exact(v)
                           /\ PositiveRange(trail, p) = pg_range_exact(v)
  BY <1>0, <1>1, DecidedRange
<1>3. trail[i].positive /\ trail[i].acc = pg_range_exact(v)
  <2>1. Max(Positives(trail, p)) = i
    BY <1>0, <1>1, DecidedRange
  <2>. QED  BY <1>0, <1>1, <1>2, <2>1 DEF DecisionsFinal, PositiveRange
<1>4. i \in ExactPositives(p) /\ ExactPositives(p) \in SUBSET Nat
  BY <1>0, <1>1, <1>2, <1>3, ExactFacts DEF ExactPositives, Positives
<1> DEFINE m == Min(ExactPositives(p))
<1>5. m \in ExactPositives(p) /\ m <= i
  BY <1>4, MinOfNaturals
<1>6. /\ m \in DOMAIN trail /\ trail[m].pkg = p /\ trail[m].positive
      /\ pg_range_is_exact(trail[m].range)
  BY <1>5 DEF ExactPositives, Positives
<1>7. SelectedVersion(p) = trail[m].range.lower.v
  BY DEF SelectedVersion
<1> HIDE DEF m
<1>8. m \in 1 .. i
  BY <1>0, <1>5, <1>6
<1>9. pg_range_contains(trail[i].acc, v)
  BY <1>3, ExactContains
<1>10. pg_range_contains(trail[m].range, v)
  BY <1>0, <1>1, <1>3, <1>6, <1>8, <1>9 DEF RangesAccumulate
<1>11. trail[m].range \in PgVersionRange
  <2>1. trail[m] \in Assignment
    BY <1>0, <1>6
  <2>. QED  BY <2>1 DEF Assignment
<1>12. trail[m].range.lower.v = v
  BY <1>6, <1>10, <1>11, ExactRangeNames
<1>13. Selected(p)
  BY <1>4 DEF Selected
<1>. QED  BY <1>1, <1>2, <1>7, <1>12, <1>13

\* A successful end leaves no clause half propagated: the dependency of a
\* selected version is selected inside its range.
LEMMA DependencySelected ==
  ASSUME Inv, status = "OK", NEW i \in DOMAIN trail, NEW v \in Version,
         trail[i].decided, trail[i].range = pg_range_exact(v),
         NEW k \in DOMAIN DependenciesOf(i)
  PROVE  LET dep == DependenciesOf(i)[k] IN
           /\ dep.pkg \in Packages /\ HasPositive(trail, dep.pkg)
           /\ pg_range_subset(PositiveRange(trail, dep.pkg), dep.range)
<1> DEFINE dep == DependenciesOf(i)[k]
<1>0. /\ TypeOK /\ Sound /\ DecisionsFinal /\ pc = "done" /\ changed = << >> /\ scan.idx = 0
      /\ trail \in Seq(Assignment)
  BY DEF Inv, Sound, LoopShape, TypeOK
<1>1. PICK c \in DOMAIN incs : /\ incs[c].attached
                               /\ incs[c].terms = DependencyTerms(trail[i], dep)
  BY <1>0 DEF Inv, DependenciesRegistered
<1>2. ~Pending(trail, incs[c].terms)
  <2>1. DOMAIN changed = {} /\ 1 .. scan.idx = {}
    BY <1>0
  <2>. QED  BY <1>0, <1>1, <2>1 DEF Inv, PropagationComplete, AheadOfScan
<1> HIDE DEF dep
<1> DEFINE t1 == [pkg |-> trail[i].pkg, range |-> trail[i].range, positive |-> TRUE]
           t2 == [pkg |-> dep.pkg, range |-> dep.range, positive |-> FALSE]
<1>3. incs[c].terms = << t1, t2 >>
  BY <1>1 DEF DependencyTerms
<1>4. Satisfied(trail, t1)
  <2>1. /\ HasPositive(trail, trail[i].pkg)
        /\ PositiveRange(trail, trail[i].pkg) = trail[i].range
    BY <1>0, DecidedRange
  <2>2. pg_range_subset(trail[i].range, trail[i].range)
    BY ExactFacts
  <2>. QED  BY <2>1, <2>2 DEF Satisfied
<1>5. Contradicted(trail, t2)
  <2> HIDE DEF t1, t2
  <2>1. DOMAIN << t1, t2 >> = {1, 2} /\ << t1, t2 >>[1] = t1 /\ << t1, t2 >>[2] = t2
    OBVIOUS
  <2>2. \E n \in DOMAIN << t1, t2 >> : Satisfied(trail, << t1, t2 >>[n])
    BY <1>4, <2>1
  <2>3. ~AllSatisfied(trail, << t1, t2 >>) /\ ~UnitAt(trail, << t1, t2 >>, 2)
    BY <1>2, <1>3, <2>1, <2>2 DEF Pending
  <2>. QED  BY <1>4, <2>1, <2>3 DEF AllSatisfied, UnitAt, Inconclusive
<1>6. /\ HasPositive(trail, dep.pkg)
      /\ pg_range_subset(PositiveRange(trail, dep.pkg), dep.range)
  BY <1>5 DEF Contradicted
<1>7. dep.pkg \in Packages
  <2>1. incs[c] \in Incompatibility
    BY <1>0, <1>1 DEF TypeOK
  <2>2. << t1, t2 >> \in Seq(Term)
    BY <1>3, <2>1 DEF Incompatibility
  <2>3. t2 \in Term
    <3> HIDE DEF t1, t2
    <3>. QED  BY <2>2
  <2>. QED  BY <2>3 DEF Term
<1>. QED  BY <1>6, <1>7 DEF dep

\* Every provider whose versions have no more dependencies than
\* PG_DEPENDENCY_BUFFER gets only valid answers.
DependenciesFit ==
  \A r \in Registries : \A p \in Packages : \A v \in Version :
    get_dependencies(r, p, v) # ProviderError =>
      Len(get_dependencies(r, p, v)) <= DependencyBuffer

\* A trail that satisfies the invariant when the solver reports success holds
\* a valid choice of versions.
LEMMA InvImpliesValid ==
  ASSUME Inv, DependenciesFit PROVE SolutionValid
<1> SUFFICES ASSUME status = "OK" PROVE Valid(Solution)
  BY DEF SolutionValid
<1>0. TypeOK /\ reg \in Registries /\ Sound /\ trail \in Seq(Assignment) /\ pc = "done"
  BY DEF Inv, TypeOK, Sound, LoopShape
<1>a. DOMAIN Solution = {q \in Packages : Selected(q)}
  BY DEF Solution
<1>b. \A q \in DOMAIN Solution : Solution[q] = SelectedVersion(q) /\ HasPositive(trail, q)
  BY DEF Solution, Selected, ExactPositives, HasPositive
<1>1. Root \in DOMAIN Solution /\ Solution[Root] = RootVersion
  <2>1. PICK i \in DOMAIN trail : /\ trail[i].pkg = Root /\ trail[i].decided
                                  /\ trail[i].range = pg_range_exact(RootVersion)
    BY <1>0 DEF Inv, LoopShape
  <2>2. /\ HasPositive(trail, Root)
        /\ PositiveRange(trail, Root) = pg_range_exact(RootVersion)
    <3>1. HasPositive(trail, trail[i].pkg) /\ PositiveRange(trail, trail[i].pkg) = trail[i].range
      BY <1>0, <2>1, DecidedRange DEF Inv
    <3>. QED  BY <2>1, <3>1
  <2>3. PICK v \in Version : /\ PositiveRange(trail, Root) = pg_range_exact(v)
                             /\ Selected(Root) /\ SelectedVersion(Root) = v
    BY <2>2, SelectedIsDecided, PubGrubAssumption
  <2>4. v = RootVersion
    BY <2>2, <2>3, ExactFacts, PubGrubAssumption
  <2>. QED  BY <1>a, <1>b, <2>3, <2>4, PubGrubAssumption
<1>2. ASSUME NEW p \in DOMAIN Solution,
             NEW k \in DOMAIN get_dependencies(reg, p, Solution[p])
      PROVE  LET dep == get_dependencies(reg, p, Solution[p])[k] IN
               dep.pkg \in DOMAIN Solution /\ pg_range_contains(dep.range, Solution[dep.pkg])
  <2> DEFINE dep == get_dependencies(reg, p, Solution[p])[k]
  <2>1. p \in Packages /\ HasPositive(trail, p) /\ Solution[p] = SelectedVersion(p)
    BY <1>a, <1>b
  <2>2. PICK i \in DOMAIN trail, v \in Version :
          /\ trail[i].pkg = p /\ trail[i].decided /\ trail[i].range = pg_range_exact(v)
          /\ Solution[p] = v
    BY <2>1, SelectedIsDecided
  <2>3. DecidedVersion(i) = v
    BY <2>2, ExactFacts DEF DecidedVersion
  <2>4. get_dependencies(reg, p, v) # ProviderError
    BY <1>0, <2>2, <2>3 DEF Inv, DependenciesRegistered
  <2>5. get_dependencies(reg, p, v) \in Seq(Dependency)
    BY <1>0, <2>1, <2>4, ProviderType
  <2>6. DependenciesOf(i) = get_dependencies(reg, p, v)
    <3>1. Len(get_dependencies(reg, p, v)) <= DependencyBuffer
      BY <1>0, <2>1, <2>4 DEF DependenciesFit
    <3>2. Truncate(get_dependencies(reg, p, v), DependencyBuffer) = get_dependencies(reg, p, v)
      BY <2>5, <3>1, TruncateType, PubGrubAssumption
    <3>. QED  BY <2>2, <2>3, <3>2 DEF DependenciesOf
  <2>7. dep = DependenciesOf(i)[k] /\ k \in DOMAIN DependenciesOf(i)
    BY <2>2, <2>6
  <2>8. ~dep.range.is_empty /\ dep.range \in PgVersionRange
    <3>1. ~dep.range.is_empty
      BY <1>0, <2>1, <2>2, <2>4, ProviderAssumption
    <3>2. dep \in Dependency
      BY <2>2, <2>5
    <3>. QED  BY <3>1, <3>2 DEF Dependency
  <2> HIDE DEF dep
  <2>9. /\ dep.pkg \in Packages /\ HasPositive(trail, dep.pkg)
        /\ pg_range_subset(PositiveRange(trail, dep.pkg), dep.range)
    BY <2>2, <2>7, DependencySelected
  <2>10. PICK w \in Version : /\ PositiveRange(trail, dep.pkg) = pg_range_exact(w)
                              /\ Selected(dep.pkg) /\ SelectedVersion(dep.pkg) = w
    BY <2>9, SelectedIsDecided
  <2>11. pg_range_contains(dep.range, w)
    <3>1. pg_range_contains(pg_range_exact(w), w) /\ pg_range_exact(w) \in PgVersionRange
      BY ExactContains, ExactType
    <3>. QED  BY <2>8, <2>9, <2>10, <3>1, SubsetIsSound
  <2>12. dep.pkg \in DOMAIN Solution /\ Solution[dep.pkg] = w
    BY <1>a, <1>b, <2>9, <2>10
  <2>. QED  BY <2>11, <2>12 DEF dep
<1>3. ASSUME NEW p \in DOMAIN Solution PROVE Offered(p, Solution[p])
  <2>1. p \in Packages /\ HasPositive(trail, p) /\ Solution[p] = SelectedVersion(p)
    BY <1>a, <1>b
  <2>2. PICK i \in DOMAIN trail, v \in Version :
          /\ trail[i].pkg = p /\ trail[i].decided /\ trail[i].range = pg_range_exact(v)
          /\ Solution[p] = v
    BY <2>1, SelectedIsDecided
  <2>3. DecidedVersion(i) = v
    BY <2>2, ExactFacts DEF DecidedVersion
  <2>. QED  BY <1>0, <2>2, <2>3 DEF Inv, DecisionsOffered
<1>. QED  BY <1>1, <1>2, <1>3 DEF Valid

\* PG_SOLVER_OK comes only with versions that satisfy every dependency of every
\* selected version, for every registry whose versions have no more
\* dependencies than the buffer of pg_solver_register_dependencies holds.
THEOREM Soundness ==
  ASSUME DependenciesFit PROVE Spec => []SolutionValid
<1>1. Inv => SolutionValid
  BY InvImpliesValid
<1>. QED  BY <1>1, Invariance, PTL

\* Whatever a caller required of pg_solver_add_root_dependency is kept by every
\* step: no backjump pops a level 0 assignment.
THEOREM RootRequirementsKeptAlways == Spec => RootRequirementsKept
<1> DEFINE Keeps == \A i \in DOMAIN trail : trail[i].level = 0 =>
                      i \in DOMAIN trail' /\ trail'[i] = trail[i]
<1>1. ASSUME Inv, [Next]_vars PROVE [Keeps]_vars
  <2>0. TypeOK /\ trail \in Seq(Assignment) /\ Len(trail) \in Nat
    BY <1>1 DEF Inv, TypeOK
  <2>1. CASE trail' = trail
    BY <2>1
  <2>2. ASSUME NEW a \in Assignment, trail' = Append(trail, a) PROVE Keeps
    BY <2>0, <2>2, AppendKeeps
  <2>3. CASE ResolveBackjump
    <3>1. trail' = Kept(trail, BackjumpLevel)
      BY <2>3 DEF ResolveBackjump
    <3>2. BackjumpLevel \in Nat
      BY <1>1, <2>0, <2>3, BackjumpLevelType DEF Inv, LoopShape, ResolveBackjump
    <3>3. \A i \in DOMAIN trail : trail[i].level <= BackjumpLevel =>
            i \in DOMAIN trail' /\ trail'[i] = trail[i]
      BY <2>0, <3>1, <3>2, KeptLevels
    <3>. QED  BY <3>2, <3>3
  <2>4. ASSUME NEW p \in Packages, NEW v \in Version, NEW lvl \in Nat, PushDecision(p, v, lvl)
        PROVE  Keeps
    BY <2>0, <2>4, PushDecisionShape
  <2>5. CASE SeedRoot
    BY <2>4, <2>5, PubGrubAssumption DEF SeedRoot
  <2>6. CASE Decide
    <3>1. PICK p \in Undecided :
            PushDecision(p, VersionsOf(p)[Min(Candidates(p))], level + 1) /\ ~Stuck(p)
      BY <2>6 DEF Decide
    <3>2. p \in Packages /\ level + 1 \in Nat /\ VersionsOf(p)[Min(Candidates(p))] \in Version
      BY <2>0, <3>1, ChosenVersionType DEF Undecided, TypeOK
    <3>. QED  BY <2>4, <3>1, <3>2
  <2>7. CASE ScanDerive \/ \E req \in RootRequirements : AddRootDependency(req[1], req[2])
    <3>1. \E a : trail' = Append(trail, a)
      BY <2>7 DEF ScanDerive, AddRootDependency
    <3>. QED  BY <2>0, <3>1
  <2>8. \/ trail' = trail \/ SeedRoot \/ Decide \/ ScanDerive \/ ResolveBackjump
        \/ \E req \in RootRequirements : AddRootDependency(req[1], req[2])
    BY <1>1 DEF Next, vars, RegisterDependency, RegisterDone, CheckBudget,
       PopChanged, ScanSkip, ScanConflict, PropagationDone, DecideError,
       DecideNoVersions, DecideComplete, ResolveRootFailure, ResolveNoSatisfier,
       ResolveRootLevel, ResolveNoCause, ResolveWithCause, MergeTerm, MergeDone,
       Done, NoSolution
  <2>. QED  BY <2>1, <2>3, <2>5, <2>6, <2>7, <2>8
<1>2. RootRequirementsKept <=> [][Keeps]_vars
  BY DEF RootRequirementsKept
<1>. QED  BY <1>1, <1>2, Invariance, PTL DEF Spec
=============================================================================
