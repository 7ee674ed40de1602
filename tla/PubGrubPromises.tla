-------------------------- MODULE PubGrubPromises --------------------------
(***************************************************************************)
(* What pg_core.h lets a caller rely on besides sound versions: a          *)
(* solution honours the caller's own requirements, PG_SOLVER_INTERNAL_     *)
(* ERROR means that a provider failed, and nothing is selected without a   *)
(* reason.  For the last, every learned clause that requires a package     *)
(* chains dependencies of versions, and the trail says which of them.      *)
(***************************************************************************)
EXTENDS PubGrubProofs

-----------------------------------------------------------------------------
(* The caller's requirements *)

\* Below the first level the trail holds requirements only, nothing derived.
RootsPositive ==
  Sound => \A i \in DOMAIN trail : trail[i].level = 0 => trail[i].positive

\* Until solving starts, callers add requirements and nothing else happens.
LEMMA NewOnlyRequires ==
  ASSUME Inv, [Next]_vars, pc' = "new"
  PROVE  \/ trail' = trail
         \/ \E req \in RootRequirements :
              trail' = Append(trail, assignment(trail, req[1], req[2], TRUE, FALSE, 0, 0))
BY DEF vars, Next, AddRootDependency, SeedRoot, PushDecision, Stop, RegisterDependency,
   RegisterDone, CheckBudget, PopChanged, ScanSkip, ScanDerive, ScanConflict,
   PropagationDone, DecideError, DecideNoVersions, Decide, DecideComplete, NoSolution,
   ResolveRootFailure, ResolveNoSatisfier, ResolveRootLevel, ResolveBackjump,
   ResolveNoCause, ResolveWithCause, MergeTerm, MergeDone, Done

\* A requirement is pushed like any other assignment.
LEMMA RequirementShape ==
  ASSUME TypeOK, NEW req \in RootRequirements, NEW tr,
         tr = Append(trail, assignment(trail, req[1], req[2], TRUE, FALSE, 0, 0))
  PROVE  /\ tr \in Seq(Assignment) /\ Len(tr) = Len(trail) + 1
         /\ \A i \in 1 .. Len(trail) : tr[i] = trail[i]
         /\ tr[Len(trail) + 1].positive
         /\ tr[Len(trail) + 1].acc = Accumulate(trail, req[1], req[2])
<1> DEFINE a == assignment(trail, req[1], req[2], TRUE, FALSE, 0, 0)
<1>1. trail \in Seq(Assignment) /\ Len(trail) \in Nat
  BY DEF TypeOK
<1>2. req[1] \in Packages /\ req[2] \in PgVersionRange
  BY PubGrubAssumption
<1>3. a \in Assignment
  BY <1>1, <1>2, AssignmentType
<1>4. a.positive /\ a.acc = Accumulate(trail, req[1], req[2])
  BY DEF assignment
<1> HIDE DEF a
<1>5. tr = Append(trail, a)
  BY DEF a
<1>6. /\ Append(trail, a) \in Seq(Assignment) /\ Len(Append(trail, a)) = Len(trail) + 1
      /\ \A i \in 1 .. Len(trail) : Append(trail, a)[i] = trail[i]
      /\ Append(trail, a)[Len(trail) + 1] = a
  BY <1>1, <1>3, AppendProperties
<1> QED BY <1>4, <1>5, <1>6

\* What a step adds to the trail below the first level is a requirement.
LEMMA RootsPositiveStep ==
  ASSUME Inv, [Next]_vars, RootsPositive
  PROVE  RootsPositive'
<1> DEFINE Goal == \A i \in DOMAIN trail' : trail'[i].level = 0 => trail'[i].positive
<1> SUFFICES ASSUME Sound' PROVE Goal
  BY DEF RootsPositive
<1>0. /\ TypeOK /\ Sound /\ trail \in Seq(Assignment) /\ Len(trail) \in Nat
      /\ \A i \in DOMAIN trail : trail[i].level = 0 => trail[i].positive
  BY TrailSteps DEF Inv, TypeOK, RootsPositive
<1>1. CASE trail' = trail
  BY <1>0, <1>1
<1>2. CASE pc' = "new"
  <2>1. ASSUME NEW req \in RootRequirements,
               trail' = Append(trail, assignment(trail, req[1], req[2], TRUE, FALSE, 0, 0))
        PROVE  Goal
    <3>1. /\ trail' \in Seq(Assignment) /\ Len(trail') = Len(trail) + 1
          /\ \A i \in 1 .. Len(trail) : trail'[i] = trail[i]
          /\ trail'[Len(trail) + 1].positive
      BY <1>0, <2>1, RequirementShape
    <3> QED BY <1>0, <3>1
  <2> QED BY <1>1, <1>2, <2>1, NewOnlyRequires
<1>3. CASE pc' # "new"
  <2>1. level' \in Nat /\ level' >= 1
    <3>1. Inv'
      BY InvStep
    <3>2. level' \in Nat /\ \E i \in DOMAIN trail' : trail'[i].level = 1
      BY <1>3, <3>1 DEF Inv, TypeOK, LoopShape
    <3> QED BY <3>1, <3>2 DEF Inv, LevelsMonotone
  <2>2. ASSUME NEW p \in Packages, NEW r \in PgVersionRange, NEW positive \in BOOLEAN,
               NEW decided \in BOOLEAN, NEW lvl \in Nat, NEW cause \in Nat,
               Pushed(p, r, positive, decided, lvl, cause)
        PROVE  Goal
    <3>1. LastIs(p, r, positive, decided, lvl) /\ level' = lvl
      BY <1>0, <2>2, PushedShape DEF Pushed
    <3> QED BY <1>0, <2>1, <3>1 DEF LastIs
  <2>3. ASSUME NEW lvl \in Nat, trail' = Kept(trail, lvl)
        PROVE  Goal
    BY <1>0, <2>3, KeptProperties
  <2> QED BY <1>1, <2>2, <2>3, TrailSteps
<1> QED BY <1>2, <1>3

\* What the caller required of a package is decided inside the range required.
LEMMA RequirementDecided ==
  ASSUME Inv, RootsPositive, status = "OK",
         NEW j \in DOMAIN trail, trail[j].level = 0
  PROVE  /\ Selected(trail[j].pkg)
         /\ pg_range_contains(trail[j].range, SelectedVersion(trail[j].pkg))
<1>0. /\ Sound /\ DecisionsFinal /\ RangesAccumulate
      /\ trail \in Seq(Assignment) /\ Len(trail) \in Nat
  BY DEF Inv, TypeOK, Sound
<1>1. trail[j].positive /\ trail[j].pkg \in Packages
  <2>1. trail[j] \in Assignment
    BY <1>0
  <2> QED BY <1>0, <2>1 DEF RootsPositive, Assignment
<1>2. HasPositive(trail, trail[j].pkg)
  BY <1>1 DEF HasPositive, Positives
<1>3. PICK i \in DOMAIN trail, v \in Version :
         /\ trail[i].pkg = trail[j].pkg /\ trail[i].decided
         /\ trail[i].range = pg_range_exact(v)
         /\ Selected(trail[j].pkg) /\ SelectedVersion(trail[j].pkg) = v
  BY <1>1, <1>2, SelectedIsDecided
<1>4. trail[i].positive /\ j \in 1 .. i
  BY <1>0, <1>1, <1>3 DEF DecisionsFinal
<1>5. pg_range_contains(trail[i].acc, v)
  <2>1. PICK w \in Version : trail[i].range = pg_range_exact(w) /\ trail[i].acc = pg_range_exact(w)
    BY <1>0, <1>3 DEF DecisionsFinal
  <2>2. trail[i].acc = pg_range_exact(v)
    BY <1>3, <2>1, ExactFacts
  <2> QED BY <2>2, ExactContains
<1>6. pg_range_contains(trail[j].range, v)
  BY <1>0, <1>1, <1>3, <1>4, <1>5 DEF RangesAccumulate
<1> QED BY <1>3, <1>6

\* Every range the caller passed to pg_solver_add_root_dependency holds the
\* version that pg_solver_get_selected_version reports for its package, for any
\* provider and any backjumping on the way.
THEOREM RequirementsHonoured == Spec => []RootRequirementsHonoured
<1>1. Init => RootsPositive
  BY DEF Init, RootsPositive
<1>2. Inv /\ RootsPositive /\ [Next]_vars => RootsPositive'
  BY RootsPositiveStep
<1>3. Inv /\ RootsPositive => RootRequirementsHonoured
  BY RequirementDecided DEF RootRequirementsHonoured
<1> QED BY <1>1, <1>2, <1>3, Invariance, PTL DEF Spec

-----------------------------------------------------------------------------
(* Internal errors *)

\* Callers do not require ranges flagged empty (pg_elm_add_root_dependency takes
\* none from them).
RequirementsNotEmpty == \A req \in RootRequirements : ~req[2].is_empty

\* What a clause forbids outside a range leaves that range to choose from.
NegativesNotEmpty(terms) ==
  \A k \in DOMAIN terms : terms[k].positive \/ ~terms[k].range.is_empty

\* No accumulated range is empty, and nothing waits that would make one empty.
RangesNotEmpty ==
  /\ Sound => \A i \in DOMAIN trail : trail[i].positive => ~trail[i].acc.is_empty
  /\ \A c \in DOMAIN incs : NegativesNotEmpty(incs[c].terms)
  /\ NegativesNotEmpty(merge.from) /\ NegativesNotEmpty(merge.into)
  /\ \A k \in DOMAIN todo : ~todo[k].range.is_empty

LEMMA InitNotEmpty == Init => RangesNotEmpty /\ NoInternalError
BY DEF Init, RangesNotEmpty, NegativesNotEmpty, NoInternalError, NoMerge

\* The range accumulated for a package is the one of its last positive
\* assignment.
LEMMA PositiveRangeNotEmpty ==
  ASSUME TypeOK, Sound, RangesNotEmpty, NEW p, HasPositive(trail, p)
  PROVE  ~PositiveRange(trail, p).is_empty
<1>1. Max(Positives(trail, p)) \in Positives(trail, p)
  BY PositivesMax DEF TypeOK
<1> QED BY <1>1 DEF PositiveRange, Positives, RangesNotEmpty

\* A term derived by propagation is one that the trail leaves open, so that its
\* range and the one accumulated so far meet.
LEMMA DerivedNotEmpty ==
  ASSUME TypeOK, NEW terms \in Seq(Term), NegativesNotEmpty(terms),
         NEW k \in DOMAIN terms, UnitAt(trail, terms, k), ~terms[k].positive
  PROVE  ~Accumulate(trail, terms[k].pkg, terms[k].range).is_empty
BY DEF UnitAt, Inconclusive, Satisfied, NegativesNotEmpty, Accumulate

LEMMA TrailNotEmpty ==
  ASSUME RequirementsNotEmpty, Inv, [Next]_vars, RangesNotEmpty, Sound'
  PROVE  \A i \in DOMAIN trail' : trail'[i].positive => ~trail'[i].acc.is_empty
<1> DEFINE Goal == \A i \in DOMAIN trail' : trail'[i].positive => ~trail'[i].acc.is_empty
<1>0. /\ TypeOK /\ Sound /\ trail \in Seq(Assignment) /\ Len(trail) \in Nat
      /\ \A i \in DOMAIN trail : trail[i].positive => ~trail[i].acc.is_empty
  BY TrailSteps DEF Inv, TypeOK, RangesNotEmpty
<1>1. CASE trail' = trail
  BY <1>0, <1>1
<1>2. ASSUME NEW req \in RootRequirements, AddRootDependency(req[1], req[2])
      PROVE  Goal
  <2>1. trail' = Append(trail, assignment(trail, req[1], req[2], TRUE, FALSE, 0, 0))
    BY <1>2 DEF AddRootDependency
  <2>2. /\ trail' \in Seq(Assignment) /\ Len(trail') = Len(trail) + 1
        /\ \A i \in 1 .. Len(trail) : trail'[i] = trail[i]
        /\ trail'[Len(trail) + 1].acc = Accumulate(trail, req[1], req[2])
    BY <1>0, <2>1, RequirementShape
  <2>3. ~Accumulate(trail, req[1], req[2]).is_empty
    BY <1>2 DEF AddRootDependency, Accumulate, RequirementsNotEmpty
  <2> QED BY <1>0, <2>2, <2>3
<1>3. ASSUME NEW p \in Packages, NEW v \in Version, NEW lvl \in Nat, PushDecision(p, v, lvl)
      PROVE  Goal
  <2>1. /\ trail' \in Seq(Assignment) /\ Len(trail') = Len(trail) + 1
        /\ \A i \in DOMAIN trail : trail'[i] = trail[i]
        /\ trail'[Len(trail')].decided
    BY <1>0, <1>3, PushDecisionShape
  <2>2. \A i \in DOMAIN trail' : trail'[i].decided =>
           \E w \in Version : trail'[i].acc = pg_range_exact(w)
    BY InvStep DEF Inv, DecisionsFinal
  <2>3. ~trail'[Len(trail')].acc.is_empty
    BY <1>0, <2>1, <2>2, ExactFacts
  <2> QED BY <1>0, <2>1, <2>3
<1>4. CASE ScanDerive
  <2> DEFINE terms == incs[ScannedInc].terms
  <2>1. terms \in Seq(Term) /\ NegativesNotEmpty(terms)
    BY <1>0, <1>4, ScannedType DEF ScanDerive, RangesNotEmpty
  <2>2. PICK k \in DOMAIN terms :
          /\ UnitAt(trail, terms, k)
          /\ trail' = Append(trail, assignment(trail, terms[k].pkg, terms[k].range,
                                               ~terms[k].positive, FALSE, level, ScannedInc))
    BY <1>4 DEF ScanDerive
  <2> HIDE DEF terms
  <2> DEFINE a == assignment(trail, terms[k].pkg, terms[k].range,
                             ~terms[k].positive, FALSE, level, ScannedInc)
  <2>3. a \in Assignment
    <3>1. terms[k] \in Term
      BY <2>1
    <3>2. Len(incs) \in Nat /\ level \in Nat /\ scan.idx > 0
      BY <1>0, <1>4 DEF ScanDerive, TypeOK
    <3>3. ScannedInc \in 1 .. Len(incs)
      BY <1>0, <3>2, ScannedType
    <3>4. ScannedInc \in Nat
      BY <3>2, <3>3
    <3> QED BY <1>0, <3>1, <3>2, <3>4, AssignmentType DEF Term
  <2>4. a.positive => ~a.acc.is_empty
    BY <1>0, <2>1, <2>2, DerivedNotEmpty DEF assignment
  <2> HIDE DEF a
  <2>5. /\ Append(trail, a) \in Seq(Assignment) /\ Len(Append(trail, a)) = Len(trail) + 1
        /\ \A i \in 1 .. Len(trail) : Append(trail, a)[i] = trail[i]
        /\ Append(trail, a)[Len(trail) + 1] = a
    BY <1>0, <2>3, AppendProperties
  <2>6. trail' = Append(trail, a)
    BY <2>2 DEF a
  <2> QED BY <1>0, <2>4, <2>5, <2>6
<1>5. CASE ResolveBackjump
  <2>1. \E lvl \in Nat : trail' = Kept(trail, lvl)
    BY <1>0, <1>5, BackjumpLevelType DEF Inv, LoopShape, ResolveBackjump
  <2> QED BY <1>0, <2>1, KeptProperties
<1>6. CASE SeedRoot
  BY <1>3, <1>6, PubGrubAssumption DEF SeedRoot
<1>7. CASE Decide
  <2>1. PICK p \in Undecided :
          PushDecision(p, VersionsOf(p)[Min(Candidates(p))], level + 1) /\ ~Stuck(p)
    BY <1>7 DEF Decide
  <2>2. p \in Packages /\ level + 1 \in Nat /\ VersionsOf(p)[Min(Candidates(p))] \in Version
    BY <1>0, <2>1, ChosenVersionType DEF Undecided, TypeOK
  <2> QED BY <1>3, <2>1, <2>2
<1>8. \/ trail' = trail \/ SeedRoot \/ Decide \/ ScanDerive \/ ResolveBackjump
      \/ \E req \in RootRequirements : AddRootDependency(req[1], req[2])
  BY DEF Next, vars, RegisterDependency, RegisterDone, CheckBudget,
     PopChanged, ScanSkip, ScanConflict, PropagationDone, DecideError,
     DecideNoVersions, DecideComplete, ResolveRootFailure, ResolveNoSatisfier,
     ResolveRootLevel, ResolveNoCause, ResolveWithCause, MergeTerm, MergeDone,
     Done, NoSolution
<1> QED BY <1>1, <1>2, <1>4, <1>5, <1>6, <1>7, <1>8

\* New clauses are dependencies, whose ranges are parsed constraints, NO_VERSIONS,
\* which forbid nothing outside a range, and what merging has collected.
LEMMA ClausesNotEmpty ==
  ASSUME Inv, [Next]_vars, RangesNotEmpty
  PROVE  \A c \in DOMAIN incs' : NegativesNotEmpty(incs'[c].terms)
<1> DEFINE Goal == \A c \in DOMAIN incs' : NegativesNotEmpty(incs'[c].terms)
<1>0. /\ TypeOK /\ incs \in Seq(Incompatibility) /\ Len(incs) \in Nat
      /\ \A c \in DOMAIN incs : NegativesNotEmpty(incs[c].terms)
  BY DEF Inv, TypeOK, RangesNotEmpty
<1>1. CASE incs' = incs
  BY <1>0, <1>1
<1>2. ASSUME NEW inc \in Incompatibility, incs' = Append(incs, inc),
             NegativesNotEmpty(inc.terms)
      PROVE  Goal
  <2>1. /\ Len(incs') = Len(incs) + 1 /\ incs' \in Seq(Incompatibility)
        /\ \A c \in 1 .. Len(incs) : incs'[c] = incs[c]
        /\ incs'[Len(incs) + 1] = inc
    BY <1>0, <1>2, AppendProperties
  <2> QED BY <1>0, <1>2, <2>1
<1>3. ASSUME NEW terms \in Seq(Term), NEW reason \in Reason, NegativesNotEmpty(terms),
             pg_solver_add_incompatibility(terms, reason)
      PROVE  Goal
  <2> DEFINE inc == [terms |-> terms, reason |-> reason, causes |-> << >>, attached |-> TRUE]
  <2>1. inc \in Incompatibility /\ incs' = Append(incs, inc) /\ NegativesNotEmpty(inc.terms)
    BY <1>3 DEF pg_solver_add_incompatibility, Incompatibility
  <2> HIDE DEF inc
  <2> QED BY <1>2, <2>1
<1>4. CASE RegisterDependency
  <2> DEFINE terms == DependencyTerms(trail[Len(trail)], Head(todo))
  <2>1. todo \in Seq(Dependency) /\ todo # << >> /\ ~todo[1].range.is_empty
    BY <1>0, <1>4 DEF RegisterDependency, TypeOK, RangesNotEmpty
  <2>2. Head(todo) = todo[1] /\ Head(todo) \in Dependency
    BY <2>1
  <2>3. trail[Len(trail)] \in Assignment
    BY <1>0, <1>4 DEF RegisterDependency, Inv, LoopShape, TypeOK
  <2>4. terms \in Seq(Term)
    BY <2>2, <2>3 DEF DependencyTerms, Dependency, Assignment, Term
  <2>5. NegativesNotEmpty(terms)
    BY <2>1, <2>2 DEF DependencyTerms, NegativesNotEmpty
  <2>6. pg_solver_add_incompatibility(terms, "DEPENDENCY")
    BY <1>4 DEF RegisterDependency
  <2> HIDE DEF terms
  <2> QED BY <1>3, <2>4, <2>5, <2>6 DEF Reason
<1>5. CASE DecideNoVersions
  <2>1. PICK p \in Undecided :
          pg_solver_add_incompatibility(
            << [pkg |-> p, range |-> PositiveRange(trail, p), positive |-> TRUE] >>,
            "NO_VERSIONS")
    BY <1>5 DEF DecideNoVersions
  <2> DEFINE terms == << [pkg |-> p, range |-> PositiveRange(trail, p), positive |-> TRUE] >>
  <2>2. terms \in Seq(Term)
    <3>1. p \in Packages /\ PositiveRange(trail, p) \in PgVersionRange
      BY <1>0, PositiveRangeType DEF Undecided, TypeOK
    <3> QED BY <3>1 DEF Term
  <2>3. NegativesNotEmpty(terms)
    BY DEF NegativesNotEmpty
  <2> HIDE DEF terms
  <2>4. pg_solver_add_incompatibility(terms, "NO_VERSIONS")
    BY <2>1 DEF terms
  <2> QED BY <1>3, <2>2, <2>3, <2>4 DEF Reason
<1>6. CASE ResolveBackjump
  <2>1. conflict \in 1 .. Len(incs) /\ incs' = [incs EXCEPT ![conflict].attached = TRUE]
    BY <1>0, <1>6, CurrentType DEF ResolveBackjump, TypeOK
  <2>2. DOMAIN incs' = DOMAIN incs /\ \A c \in DOMAIN incs : incs'[c].terms = incs[c].terms
    BY <1>0, <2>1, MarkAttached
  <2> QED BY <1>0, <2>2
<1>7. CASE MergeDone
  <2> DEFINE inc == [terms |-> merge.into, reason |-> "INTERNAL",
                     causes |-> <<conflict, merge.cause>>, attached |-> FALSE]
  <2>1. inc \in Incompatibility /\ incs' = Append(incs, inc) /\ NegativesNotEmpty(inc.terms)
    BY <1>0, <1>7 DEF MergeDone, TypeOK, Incompatibility, Reason, RangesNotEmpty
  <2> HIDE DEF inc
  <2> QED BY <1>2, <2>1
<1>8. \/ incs' = incs \/ RegisterDependency \/ DecideNoVersions \/ ResolveBackjump \/ MergeDone
  BY DEF Next, vars, AddRootDependency, SeedRoot, RegisterDone, CheckBudget, PopChanged,
     ScanSkip, ScanDerive, ScanConflict, PropagationDone, DecideError, Decide,
     DecideComplete, ResolveRootFailure, ResolveNoSatisfier, ResolveRootLevel,
     ResolveNoCause, ResolveWithCause, MergeTerm, Done, NoSolution
<1> QED BY <1>1, <1>4, <1>5, <1>6, <1>7, <1>8

LEMMA ConcatNotEmpty ==
  ASSUME NEW s \in Seq(Term), NEW t \in Seq(Term), NegativesNotEmpty(s), NegativesNotEmpty(t)
  PROVE  NegativesNotEmpty(s \o t)
BY DEF NegativesNotEmpty

LEMMA AppendNotEmpty ==
  ASSUME NEW s \in Seq(Term), NEW t \in Term, NegativesNotEmpty(s),
         t.positive \/ ~t.range.is_empty
  PROVE  NegativesNotEmpty(Append(s, t))
<1>1. /\ Append(s, t) \in Seq(Term) /\ Len(Append(s, t)) = Len(s) + 1 /\ Len(s) \in Nat
      /\ \A k \in 1 .. Len(s) : Append(s, t)[k] = s[k]
      /\ Append(s, t)[Len(s) + 1] = t
  BY AppendProperties
<1> QED BY <1>1 DEF NegativesNotEmpty

\* Merging takes terms from two clauses and makes none.
LEMMA MergeNotEmpty ==
  ASSUME Inv, [Next]_vars, RangesNotEmpty
  PROVE  NegativesNotEmpty(merge'.from) /\ NegativesNotEmpty(merge'.into)
<1>0. /\ TypeOK /\ merge.from \in Seq(Term) /\ merge.into \in Seq(Term)
      /\ NegativesNotEmpty(merge.from) /\ NegativesNotEmpty(merge.into)
  BY DEF Inv, TypeOK, RangesNotEmpty
<1>1. CASE merge' = merge
  BY <1>0, <1>1
<1>2. CASE ResolveWithCause
  <2>1. Current.terms \in Seq(Term) /\ conflict \in DOMAIN incs
    BY <1>0, <1>2, CurrentType DEF ResolveWithCause, TypeOK
  <2>2. Satisfier.cause \in DOMAIN incs /\ incs[Satisfier.cause].terms \in Seq(Term)
    <3>1. Satisfier.cause \in 1 .. Len(incs)
      BY <1>0, <1>2, <2>1, SatisfierType DEF ResolveWithCause, TypeOK
    <3>2. incs[Satisfier.cause] \in Incompatibility /\ Satisfier.cause \in DOMAIN incs
      BY <1>0, <3>1 DEF TypeOK
    <3> QED BY <3>2 DEF Incompatibility
  <2>3. NegativesNotEmpty(Current.terms \o incs[Satisfier.cause].terms)
    BY <2>1, <2>2, ConcatNotEmpty DEF RangesNotEmpty, Current
  <2>4. merge'.from = Current.terms \o incs[Satisfier.cause].terms /\ merge'.into = << >>
    BY <1>2 DEF ResolveWithCause
  <2>5. NegativesNotEmpty(<< >>)
    BY DEF NegativesNotEmpty
  <2> QED BY <2>3, <2>4, <2>5
<1>3. CASE MergeTerm
  <2>1. /\ Head(merge.from) \in Term
        /\ Head(merge.from).positive \/ ~Head(merge.from).range.is_empty
    BY <1>0, <1>3 DEF MergeTerm, NegativesNotEmpty
  <2>2. NegativesNotEmpty(Append(merge.into, Head(merge.from)))
    BY <1>0, <2>1, AppendNotEmpty
  <2>3. NegativesNotEmpty(Tail(merge.from))
    BY <1>0, <1>3 DEF MergeTerm, NegativesNotEmpty
  <2>4. /\ merge'.from = Tail(merge.from)
        /\ merge'.into \in {merge.into, Append(merge.into, Head(merge.from))}
    BY <1>0, <1>3 DEF MergeTerm, TypeOK
  <2> QED BY <1>0, <2>2, <2>3, <2>4
<1>4. CASE MergeDone
  <2>1. merge'.from = << >> /\ merge'.into = << >>
    BY <1>4 DEF MergeDone, NoMerge
  <2>2. NegativesNotEmpty(<< >>)
    BY DEF NegativesNotEmpty
  <2> QED BY <2>1, <2>2
<1>5. merge' = merge \/ ResolveWithCause \/ MergeTerm \/ MergeDone
  BY DEF Next, vars, AddRootDependency, SeedRoot, RegisterDependency, RegisterDone, CheckBudget,
     PopChanged, ScanSkip, ScanDerive, ScanConflict, PropagationDone, DecideError,
     DecideNoVersions, Decide, DecideComplete, ResolveRootFailure, ResolveNoSatisfier,
     ResolveRootLevel, ResolveBackjump, ResolveNoCause, Done, NoSolution
<1> QED BY <1>1, <1>2, <1>3, <1>4, <1>5

\* Dependencies that wait to be registered came from the provider.
LEMMA TodoNotEmpty ==
  ASSUME Inv, [Next]_vars, RangesNotEmpty
  PROVE  \A k \in DOMAIN todo' : ~todo'[k].range.is_empty
<1>0. TypeOK /\ todo \in Seq(Dependency) /\ \A k \in DOMAIN todo : ~todo[k].range.is_empty
  BY DEF Inv, TypeOK, RangesNotEmpty
<1>1. CASE todo' = todo
  BY <1>0, <1>1
<1>2. ASSUME NEW p \in Packages, NEW v \in Version, NEW lvl \in Nat, PushDecision(p, v, lvl)
      PROVE  \A k \in DOMAIN todo' : ~todo'[k].range.is_empty
  <2>1. CASE get_dependencies(reg, p, v) = ProviderError
    BY <1>0, <1>2, <2>1 DEF PushDecision
  <2>2. CASE get_dependencies(reg, p, v) # ProviderError
    <3> DEFINE deps == get_dependencies(reg, p, v)
    <3>1. deps \in Seq(Dependency) /\ \A k \in DOMAIN deps : ~deps[k].range.is_empty
      BY <1>0, <2>2, ProviderAssumption, ProviderType DEF TypeOK
    <3>2. todo' = Truncate(deps, DependencyBuffer)
      BY <1>2, <2>2 DEF PushDecision
    <3> HIDE DEF deps
    <3> QED BY <3>1, <3>2, PubGrubAssumption DEF Truncate
  <2> QED BY <2>1, <2>2
<1>3. CASE RegisterDependency
  BY <1>0, <1>3 DEF RegisterDependency
<1>4. CASE SeedRoot
  BY <1>2, <1>4, PubGrubAssumption DEF SeedRoot
<1>5. CASE Decide
  <2>1. PICK p \in Undecided :
          PushDecision(p, VersionsOf(p)[Min(Candidates(p))], level + 1) /\ ~Stuck(p)
    BY <1>5 DEF Decide
  <2>2. p \in Packages /\ level + 1 \in Nat /\ VersionsOf(p)[Min(Candidates(p))] \in Version
    BY <1>0, <2>1, ChosenVersionType DEF Undecided, TypeOK
  <2> QED BY <1>2, <2>1, <2>2
<1>6. todo' = todo \/ SeedRoot \/ Decide \/ RegisterDependency
  BY DEF Next, vars, AddRootDependency, RegisterDone, CheckBudget, PopChanged, ScanSkip,
     ScanDerive, ScanConflict, PropagationDone, DecideError, DecideNoVersions,
     DecideComplete, ResolveRootFailure, ResolveNoSatisfier, ResolveRootLevel,
     ResolveBackjump, ResolveNoCause, ResolveWithCause, MergeTerm, MergeDone, Done, NoSolution
<1> QED BY <1>1, <1>3, <1>4, <1>5, <1>6

\* Only a decision without dependencies, or one that cannot be made, ends the
\* search with an internal error.
LEMMA ErrorsNeedProvider ==
  ASSUME Inv, [Next]_vars, RangesNotEmpty, NoInternalError
  PROVE  NoInternalError'
<1> SUFFICES ASSUME status' = "INTERNAL_ERROR"
             PROVE  (\E p \in Packages : \/ get_versions(reg, p) = ProviderError
                                         \/ \E v \in Version :
                                              get_dependencies(reg, p, v) = ProviderError)'
  BY DEF NoInternalError
<1> DEFINE Failing == \E p \in Packages : \/ get_versions(reg, p) = ProviderError
                                          \/ \E v \in Version :
                                               get_dependencies(reg, p, v) = ProviderError
<1>0. TypeOK /\ reg' = reg
  BY RegStep DEF Inv
<1> SUFFICES Failing
  BY <1>0
<1>1. CASE status = "INTERNAL_ERROR"
  BY <1>1 DEF NoInternalError
<1>2. ASSUME NEW p \in Packages, NEW v \in Version, NEW lvl \in Nat, PushDecision(p, v, lvl),
             status # "INTERNAL_ERROR"
      PROVE  Failing
  BY <1>2 DEF PushDecision, Stop
<1>3. CASE SeedRoot
  BY <1>1, <1>2, <1>3, PubGrubAssumption DEF SeedRoot
<1>4. CASE Decide
  <2>1. PICK p \in Undecided :
          PushDecision(p, VersionsOf(p)[Min(Candidates(p))], level + 1) /\ ~Stuck(p)
    BY <1>4 DEF Decide
  <2>2. p \in Packages /\ level + 1 \in Nat /\ VersionsOf(p)[Min(Candidates(p))] \in Version
    BY <1>0, <2>1, ChosenVersionType DEF Undecided, TypeOK
  <2> QED BY <1>1, <1>2, <2>1, <2>2
<1>5. CASE DecideError
  <2>1. PICK p \in Undecided : Unevaluable(p)
    BY <1>5 DEF DecideError
  <2>2. p \in Packages /\ HasPositive(trail, p)
    BY <2>1 DEF Undecided
  <2>3. Sound
    BY <1>5 DEF Sound, DecideError, Inv, LoopShape
  <2> QED BY <1>0, <2>1, <2>2, <2>3, PositiveRangeNotEmpty DEF Unevaluable
<1>6. status' = status \/ SeedRoot \/ Decide \/ DecideError
  BY DEF Next, vars, Stop, AddRootDependency, RegisterDependency, RegisterDone, CheckBudget,
     PopChanged, ScanSkip, ScanDerive, ScanConflict, PropagationDone, DecideNoVersions,
     DecideComplete, ResolveRootFailure, ResolveNoSatisfier, ResolveRootLevel,
     ResolveBackjump, ResolveNoCause, ResolveWithCause, MergeTerm, MergeDone, Done, NoSolution
<1> QED BY <1>1, <1>3, <1>4, <1>5, <1>6

\* PG_SOLVER_INTERNAL_ERROR means that the provider failed to list versions or
\* dependencies: make_decision's other reason, an empty accumulated range, never
\* comes up, as long as the caller requires no empty range.
THEOREM InternalErrorsAreProviders ==
  ASSUME RequirementsNotEmpty PROVE Spec => []NoInternalError
<1>1. Init => RangesNotEmpty /\ NoInternalError
  BY InitNotEmpty
<1>2. Inv /\ RangesNotEmpty /\ NoInternalError /\ [Next]_vars
        => RangesNotEmpty' /\ NoInternalError'
  <2> SUFFICES ASSUME Inv, RangesNotEmpty, NoInternalError, [Next]_vars
               PROVE  RangesNotEmpty' /\ NoInternalError'
    OBVIOUS
  <2>1. RangesNotEmpty'
    BY TrailNotEmpty, ClausesNotEmpty, MergeNotEmpty, TodoNotEmpty DEF RangesNotEmpty
  <2> QED BY <2>1, ErrorsNeedProvider
<1> QED BY <1>1, <1>2, Invariance, PTL DEF Spec

\* Between propagation and the next decision no clause that calls for an
\* assignment is forgotten: its package is on the changed stack, or the scan has
\* not reached it, whatever was popped, attached or backjumped over before.
THEOREM NoPropagationLost == Spec => []PropagationComplete
<1>1. Inv => PropagationComplete
  BY DEF Inv
<1> QED BY <1>1, Invariance, PTL

-----------------------------------------------------------------------------
(* Ranges inside others *)

\* The greater of two lower bounds stays at or above what either is above.
LEMMA MaxLowerRises ==
  ASSUME NEW a \in Bound, NEW b \in Bound, NEW c \in Bound,
         pg_lower_bound_ge(a, c) \/ pg_lower_bound_ge(b, c)
  PROVE  pg_lower_bound_ge(MaxLower(a, b), c)
<1>1. a.v \in Version /\ b.v \in Version /\ c.v \in Version
      /\ a.inclusive \in BOOLEAN /\ b.inclusive \in BOOLEAN /\ c.inclusive \in BOOLEAN
      /\ a.unbounded \in BOOLEAN /\ b.unbounded \in BOOLEAN /\ c.unbounded \in BOOLEAN
  BY DEF Bound
<1>2. /\ VersionLt(a.v, b.v) \/ VersionLt(b.v, a.v) \/ a.v = b.v
      /\ VersionLt(c.v, a.v) /\ VersionLt(a.v, b.v) => VersionLt(c.v, b.v)
      /\ VersionLt(c.v, b.v) /\ VersionLt(b.v, a.v) => VersionLt(c.v, a.v)
  BY <1>1, LtTotal, LtTransitive
<1>3. CASE a.unbounded
  BY <1>3 DEF pg_lower_bound_ge, MaxLower
<1>4. CASE ~a.unbounded /\ b.unbounded
  BY <1>4 DEF pg_lower_bound_ge, MaxLower
<1>5. CASE ~a.unbounded /\ ~b.unbounded
  BY <1>1, <1>2, <1>5 DEF pg_lower_bound_ge, MaxLower
<1> QED BY <1>1, <1>3, <1>4, <1>5

\* The smaller of two upper bounds stays at or below what either is below.
LEMMA MinUpperFalls ==
  ASSUME NEW a \in Bound, NEW b \in Bound, NEW c \in Bound,
         pg_upper_bound_le(a, c) \/ pg_upper_bound_le(b, c)
  PROVE  pg_upper_bound_le(MinUpper(a, b), c)
<1>1. a.v \in Version /\ b.v \in Version /\ c.v \in Version
      /\ a.inclusive \in BOOLEAN /\ b.inclusive \in BOOLEAN /\ c.inclusive \in BOOLEAN
      /\ a.unbounded \in BOOLEAN /\ b.unbounded \in BOOLEAN /\ c.unbounded \in BOOLEAN
  BY DEF Bound
<1>2. /\ VersionLt(a.v, b.v) \/ VersionLt(b.v, a.v) \/ a.v = b.v
      /\ VersionLt(a.v, b.v) /\ VersionLt(b.v, c.v) => VersionLt(a.v, c.v)
      /\ VersionLt(b.v, a.v) /\ VersionLt(a.v, c.v) => VersionLt(b.v, c.v)
  BY <1>1, LtTotal, LtTransitive
<1>3. CASE a.unbounded
  BY <1>3 DEF pg_upper_bound_le, MinUpper
<1>4. CASE ~a.unbounded /\ b.unbounded
  BY <1>4 DEF pg_upper_bound_le, MinUpper
<1>5. CASE ~a.unbounded /\ ~b.unbounded
  BY <1>1, <1>2, <1>5 DEF pg_upper_bound_le, MinUpper
<1> QED BY <1>1, <1>3, <1>4, <1>5

\* Intersecting never leaves a range that one of the two lies in.
LEMMA MeetStaysInside ==
  ASSUME NEW a \in PgVersionRange, NEW b \in PgVersionRange, NEW r \in PgVersionRange,
         pg_range_subset(a, r) \/ pg_range_subset(b, r)
  PROVE  pg_range_subset(pg_range_intersect(a, b), r)
<1>1. /\ a.lower \in Bound /\ a.upper \in Bound /\ b.lower \in Bound /\ b.upper \in Bound
      /\ r.lower \in Bound /\ r.upper \in Bound
  BY DEF PgVersionRange
<1>2. CASE a.is_empty \/ b.is_empty
  BY <1>2 DEF pg_range_subset, pg_range_intersect
<1>3. CASE ~(a.is_empty \/ b.is_empty)
  <2>1. /\ pg_lower_bound_ge(MaxLower(a.lower, b.lower), r.lower)
        /\ pg_upper_bound_le(MinUpper(a.upper, b.upper), r.upper)
    BY <1>1, <1>3, MaxLowerRises, MinUpperFalls DEF pg_range_subset
  <2> QED BY <1>3, <2>1 DEF pg_range_subset, pg_range_intersect
<1> QED BY <1>2, <1>3

\* What lies inside an exact range is inside any other range, or apart from it.
LEMMA WithinExactIsDecisive ==
  ASSUME NEW a \in PgVersionRange, NEW v \in Version, NEW r \in PgVersionRange,
         pg_range_subset(a, pg_range_exact(v))
  PROVE  pg_range_subset(a, r) \/ pg_range_intersect(a, r).is_empty
<1>1. CASE a.is_empty \/ r.is_empty
  BY <1>1 DEF pg_range_intersect
<1>2. ASSUME ~a.is_empty, ~r.is_empty, ~pg_range_subset(a, r)
      PROVE  BoundsCross(MaxLower(a.lower, r.lower), MinUpper(a.upper, r.upper))
  <2> DEFINE lo == MaxLower(a.lower, r.lower)
             hi == MinUpper(a.upper, r.upper)
  <2>1. /\ a.lower \in Bound /\ a.upper \in Bound /\ r.lower \in Bound /\ r.upper \in Bound
        /\ lo \in Bound /\ hi \in Bound
    BY MaxLowerType, MinUpperType DEF PgVersionRange
  <2>2. /\ pg_lower_bound_ge(a.lower, Inclusive(v)) /\ pg_upper_bound_le(a.upper, Inclusive(v))
        /\ Inclusive(v) \in Bound
    BY <1>2 DEF pg_range_subset, pg_range_exact, Inclusive, Bound
  <2>3. pg_lower_bound_ge(lo, Inclusive(v)) /\ pg_upper_bound_le(hi, Inclusive(v))
    BY <2>1, <2>2, MaxLowerRises, MinUpperFalls
  <2>4. ~pg_lower_bound_ge(a.lower, r.lower) \/ ~pg_upper_bound_le(a.upper, r.upper)
    BY <1>2 DEF pg_range_subset
  <2>5. ~pg_lower_bound_ge(a.lower, r.lower) => VersionLt(v, lo.v) \/ (lo.v = v /\ ~lo.inclusive)
    <3>1. /\ a.lower.v \in Version /\ r.lower.v \in Version
      BY <2>1 DEF Bound
    <3>2. /\ VersionLt(a.lower.v, r.lower.v) \/ VersionLt(r.lower.v, a.lower.v) \/ a.lower.v = r.lower.v
          /\ VersionLt(v, a.lower.v) /\ VersionLt(a.lower.v, r.lower.v) => VersionLt(v, r.lower.v)
      BY <3>1, LtTotal, LtTransitive
    <3> QED BY <2>1, <2>2, <3>1, <3>2 DEF pg_lower_bound_ge, MaxLower, Inclusive, Bound
  <2>6. ~pg_upper_bound_le(a.upper, r.upper) => VersionLt(hi.v, v) \/ (hi.v = v /\ ~hi.inclusive)
    <3>1. /\ a.upper.v \in Version /\ r.upper.v \in Version
      BY <2>1 DEF Bound
    <3>2. /\ VersionLt(a.upper.v, r.upper.v) \/ VersionLt(r.upper.v, a.upper.v) \/ a.upper.v = r.upper.v
          /\ VersionLt(r.upper.v, a.upper.v) /\ VersionLt(a.upper.v, v) => VersionLt(r.upper.v, v)
      BY <3>1, LtTotal, LtTransitive
    <3> QED BY <2>1, <2>2, <3>1, <3>2 DEF pg_upper_bound_le, MinUpper, Inclusive, Bound
  <2>7. lo.v \in Version /\ hi.v \in Version /\ lo.inclusive \in BOOLEAN /\ hi.inclusive \in BOOLEAN
    BY <2>1 DEF Bound
  <2>8. /\ VersionLt(hi.v, v) /\ VersionLt(v, lo.v) => VersionLt(hi.v, lo.v)
        /\ VersionLt(v, lo.v) /\ hi.v = v => VersionLt(hi.v, lo.v)
    BY <2>7, LtTransitive
  <2> HIDE DEF lo, hi
  <2>9. /\ ~lo.unbounded /\ (VersionLt(v, lo.v) \/ lo.v = v)
        /\ ~hi.unbounded /\ (VersionLt(hi.v, v) \/ hi.v = v)
    BY <2>3 DEF pg_lower_bound_ge, pg_upper_bound_le, Inclusive
  <2>10. BoundsCross(lo, hi)
    BY <2>4, <2>5, <2>6, <2>7, <2>8, <2>9 DEF BoundsCross
  <2> QED BY <2>10 DEF lo, hi
<1> QED BY <1>1, <1>2 DEF pg_range_intersect

-----------------------------------------------------------------------------
(* Why a package is selected *)

\* The dependencies that pg_solver_register_dependencies reads of a version.
Known(r, p, v) ==
  IF get_dependencies(r, p, v) = ProviderError THEN << >>
  ELSE Truncate(get_dependencies(r, p, v), DependencyBuffer)

\* Some versions of some packages.
Selections == UNION {[D -> Version] : D \in SUBSET Packages}

\* Every dependency known of a chosen version is chosen inside its range.
Honours(r, sel) ==
  \A p \in DOMAIN sel : \A k \in DOMAIN Known(r, p, sel[p]) :
    LET dep == Known(r, p, sel[p])[k] IN
      dep.pkg \in DOMAIN sel /\ pg_range_contains(dep.range, sel[dep.pkg])

\* A chosen version depends on p.
Depended(r, sel, p) ==
  \E q \in DOMAIN sel : \E k \in DOMAIN Known(r, q, sel[q]) : Known(r, q, sel[q])[k].pkg = p

\* A choice agrees with a positive term.
Chooses(sel, t) == t.pkg \in DOMAIN sel /\ pg_range_contains(t.range, sel[t.pkg])

\* To choose inside the term s is to choose inside the range of t as well, and
\* some chosen version asks for it.
Entails(r, s, t) ==
  \A sel \in Selections : Honours(r, sel) /\ Chooses(sel, s) =>
                         Chooses(sel, t) /\ Depended(r, sel, t.pkg)

\* A term on an exact version and the negation of what it entails.
Requires(r, s, t) ==
  /\ s.positive /\ ~t.positive
  /\ \E v \in Version : s.range = pg_range_exact(v)
  /\ Entails(r, s, t)

\* The terms of a clause, in no order.
TermsIn(terms) == {terms[k] : k \in DOMAIN terms}

\* A clause forbids versions, or it is a dependency: registered, or found by
\* resolving other dependencies.
Explained(r, T) ==
  \/ \A t \in T : t.positive
  \/ \E s \in T, t \in T : T = {s, t} /\ Requires(r, s, t)

\* The terms of the clause that pg_incompatibility_resolve_with is collecting.
Collected ==
  TermsIn(merge.into) \cup {t \in TermsIn(merge.from) : t.pkg # merge.elim}

\* Every clause is explained, the one being merged included, and what waits to
\* be registered are the last decision's dependencies.
ClausesExplained ==
  /\ \A c \in DOMAIN incs : Explained(reg, TermsIn(incs[c].terms))
  /\ pc = "merge" => Explained(reg, Collected)
  /\ pc = "register" =>
       \A n \in DOMAIN todo :
         \E k \in DOMAIN Known(reg, trail[Len(trail)].pkg, DecidedVersion(Len(trail))) :
           todo[n] = Known(reg, trail[Len(trail)].pkg, DecidedVersion(Len(trail)))[k]

\* The accumulated ranges of a package only narrow.
Narrows(tr) ==
  \A i \in DOMAIN tr : \A j \in 1 .. i :
    tr[i].positive /\ tr[j].positive /\ tr[j].pkg = tr[i].pkg =>
      \A r \in PgVersionRange :
        pg_range_subset(tr[j].range, r) \/ pg_range_subset(tr[j].acc, r) =>
          pg_range_subset(tr[i].acc, r)

\* A package is required before the solver decides it.
DecidedLater(tr, i) ==
  tr[i].decided => \/ tr[i].pkg = Root
                   \/ \E j \in 1 .. i - 1 : tr[j].positive /\ tr[j].pkg = tr[i].pkg

\* A requirement that propagation derives comes from a dependency clause whose
\* other term held already, of another package.
DerivedFrom(tr, i, terms) ==
  \E s \in TermsIn(terms), t \in TermsIn(terms) :
    /\ TermsIn(terms) = {s, t} /\ s.positive /\ ~t.positive /\ s.pkg # t.pkg
    /\ t.pkg = tr[i].pkg /\ t.range = tr[i].range
    /\ \E m \in 1 .. i - 1 : /\ tr[m].positive /\ tr[m].pkg = s.pkg
                             /\ pg_range_subset(tr[m].acc, s.range)

\* No requirement at an exact version precedes tr[i].
NoneExactBefore(tr, i) ==
  \A j \in 1 .. i - 1 : tr[j].positive /\ tr[j].pkg = tr[i].pkg =>
    \A w \in Version : ~pg_range_subset(tr[j].range, pg_range_exact(w))

\* A version is ruled out by a clause with its positive term, and while no exact
\* version of the package is required.
RuledOut(tr, i, terms) ==
  /\ \E s \in TermsIn(terms) : s.positive /\ s.pkg = tr[i].pkg /\ s.range = tr[i].range
  /\ (\E v \in Version : tr[i].range = pg_range_exact(v)) => NoneExactBefore(tr, i)

\* What an assignment without a cause is, and what a cause says.
CauseOf(tr, i, clauses) ==
  IF tr[i].cause = 0 THEN tr[i].positive /\ (tr[i].decided \/ tr[i].level = 0)
  ELSE /\ tr[i].cause \in DOMAIN clauses
       /\ IF tr[i].positive THEN DerivedFrom(tr, i, clauses[tr[i].cause].terms)
                            ELSE RuledOut(tr, i, clauses[tr[i].cause].terms)

\* Along the trail ranges narrow and every assignment has its reason.
TrailExplained ==
  Sound => /\ Narrows(trail)
           /\ \A i \in DOMAIN trail : DecidedLater(trail, i) /\ CauseOf(trail, i, incs)

-----------------------------------------------------------------------------
(* The trail explains itself *)

\* What is pushed or left when assignments are popped.
LEMMA TrailChange ==
  ASSUME Inv, [Next]_vars, Sound'
  PROVE  \/ trail' = trail
         \/ \E req \in RootRequirements :
              trail' = Append(trail, assignment(trail, req[1], req[2], TRUE, FALSE, 0, 0))
         \/ \E p \in Packages, v \in Version, lvl \in Nat :
              /\ trail' = Append(trail, assignment(trail, p, pg_range_exact(v), TRUE, TRUE, lvl, 0))
              /\ p = Root \/ HasPositive(trail, p)
         \/ ScanDerive
         \/ \E lvl \in Nat : trail' = Kept(trail, lvl)
<1>0. TypeOK /\ Sound
  BY TrailSteps DEF Inv
<1>1. CASE ResolveBackjump
  <2>1. \E lvl \in Nat : trail' = Kept(trail, lvl)
    BY <1>0, <1>1, BackjumpLevelType DEF Inv, LoopShape, ResolveBackjump
  <2> QED BY <2>1
<1>2. CASE SeedRoot
  BY <1>2, PubGrubAssumption DEF SeedRoot, PushDecision
<1>3. CASE Decide
  <2>1. PICK p \in Undecided :
          PushDecision(p, VersionsOf(p)[Min(Candidates(p))], level + 1) /\ ~Stuck(p)
    BY <1>3 DEF Decide
  <2>2. /\ p \in Packages /\ HasPositive(trail, p) /\ level + 1 \in Nat
        /\ VersionsOf(p)[Min(Candidates(p))] \in Version
    BY <1>0, <2>1, ChosenVersionType DEF Undecided, TypeOK
  <2> QED BY <2>1, <2>2 DEF PushDecision
<1>4. ASSUME NEW req \in RootRequirements, AddRootDependency(req[1], req[2])
      PROVE  trail' = Append(trail, assignment(trail, req[1], req[2], TRUE, FALSE, 0, 0))
  BY <1>4 DEF AddRootDependency
<1>5. \/ trail' = trail \/ SeedRoot \/ Decide \/ ScanDerive \/ ResolveBackjump
      \/ \E req \in RootRequirements : AddRootDependency(req[1], req[2])
  BY DEF Next, vars, RegisterDependency, RegisterDone, CheckBudget,
     PopChanged, ScanSkip, ScanConflict, PropagationDone, DecideError,
     DecideNoVersions, DecideComplete, ResolveRootFailure, ResolveNoSatisfier,
     ResolveRootLevel, ResolveNoCause, ResolveWithCause, MergeTerm, MergeDone,
     Done, NoSolution
<1> QED BY <1>1, <1>2, <1>3, <1>4, <1>5

\* What an assignment says depends on those before it and on clauses that stay.
LEMMA CausePersists ==
  ASSUME NEW tr \in Seq(Assignment), NEW tr2 \in Seq(Assignment), NEW i \in DOMAIN tr, i \in DOMAIN tr2,
         \A j \in 1 .. i : tr2[j] = tr[j], NEW clauses, NEW clauses2,
         \A c \in DOMAIN clauses : c \in DOMAIN clauses2 /\ clauses2[c].terms = clauses[c].terms
  PROVE  /\ DecidedLater(tr, i) => DecidedLater(tr2, i)
         /\ CauseOf(tr, i, clauses) => CauseOf(tr2, i, clauses2)
<1>1. i \in 1 .. i /\ \A j \in 1 .. i - 1 : j \in 1 .. i
  OBVIOUS
<1>2. tr2[i] = tr[i] /\ \A j \in 1 .. i - 1 : tr2[j] = tr[j]
  BY <1>1
<1>3. DecidedLater(tr, i) => DecidedLater(tr2, i)
  BY <1>2 DEF DecidedLater
<1>4. NoneExactBefore(tr, i) => NoneExactBefore(tr2, i)
  BY <1>2 DEF NoneExactBefore
<1>5. ASSUME NEW terms PROVE DerivedFrom(tr, i, terms) => DerivedFrom(tr2, i, terms)
  BY <1>2 DEF DerivedFrom
<1>6. ASSUME NEW terms PROVE RuledOut(tr, i, terms) => RuledOut(tr2, i, terms)
  BY <1>2, <1>4 DEF RuledOut
<1>7. ASSUME CauseOf(tr, i, clauses) PROVE CauseOf(tr2, i, clauses2)
  <2>1. CASE tr[i].cause = 0
    BY <1>2, <1>7, <2>1 DEF CauseOf
  <2>2. CASE tr[i].cause # 0
    <3> DEFINE terms == clauses[tr[i].cause].terms
    <3>1. /\ tr[i].cause \in DOMAIN clauses
          /\ IF tr[i].positive THEN DerivedFrom(tr, i, terms) ELSE RuledOut(tr, i, terms)
      BY <1>7, <2>2 DEF CauseOf
    <3>2. tr[i].cause \in DOMAIN clauses2 /\ clauses2[tr[i].cause].terms = terms
      BY <3>1
    <3> HIDE DEF terms
    <3>3. IF tr2[i].positive THEN DerivedFrom(tr2, i, terms) ELSE RuledOut(tr2, i, terms)
      BY <1>2, <1>5, <1>6, <3>1
    <3> QED BY <1>2, <2>2, <3>2, <3>3 DEF CauseOf
  <2> QED BY <2>1, <2>2
<1> QED BY <1>3, <1>7

\* A positive assignment narrows what its package has accumulated.
LEMMA PushNarrows ==
  ASSUME NEW tr \in Seq(Assignment), Narrows(tr), NEW p \in Packages, NEW range \in PgVersionRange,
         NEW a \in Assignment, a.pkg = p, a.range = range,
         a.positive => a.acc = Accumulate(tr, p, range)
  PROVE  Narrows(Append(tr, a))
<1> DEFINE tr2 == Append(tr, a)
           n == Len(tr) + 1
<1>1. /\ Len(tr) \in Nat /\ DOMAIN tr = 1 .. Len(tr) /\ DOMAIN tr2 = 1 .. n
      /\ \A i \in 1 .. Len(tr) : tr2[i] = tr[i]
      /\ tr2[n] = a
  BY AppendProperties
<1> HIDE DEF tr2
<1> SUFFICES ASSUME NEW i \in 1 .. n, NEW j \in 1 .. i, tr2[i].positive, tr2[j].positive,
                    tr2[j].pkg = tr2[i].pkg, NEW r \in PgVersionRange,
                    pg_range_subset(tr2[j].range, r) \/ pg_range_subset(tr2[j].acc, r)
             PROVE  pg_range_subset(tr2[i].acc, r)
  BY <1>1 DEF Narrows, tr2
<1>2. CASE i \in 1 .. Len(tr)
  <2>1. j \in 1 .. Len(tr)
    BY <1>1, <1>2
  <2> QED BY <1>1, <1>2, <2>1 DEF Narrows
<1>3. CASE i = n
  <2>1. a.positive /\ a.acc = Accumulate(tr, p, range) /\ tr2[i] = a
    BY <1>1, <1>3
  <2>2. CASE ~HasPositive(tr, p)
    <3>1. j \notin 1 .. Len(tr)
      BY <1>1, <1>3, <2>1, <2>2 DEF HasPositive, Positives
    <3>2. j = n
      BY <1>1, <1>3, <3>1
    <3> QED BY <1>1, <2>1, <2>2, <3>2 DEF Accumulate
  <2>3. CASE HasPositive(tr, p)
    <3> DEFINE m == Max(Positives(tr, p))
    <3>1. m \in Positives(tr, p) /\ \A k \in Positives(tr, p) : k <= m
      BY <2>3, PositivesMax
    <3>2. /\ m \in DOMAIN tr /\ tr[m].pkg = p /\ tr[m].positive
          /\ PositiveRange(tr, p) = tr[m].acc
      BY <3>1 DEF Positives, PositiveRange
    <3> HIDE DEF m
    <3>3. tr[m].acc \in PgVersionRange
      BY <2>3, <3>2, PositiveRangeType
    <3>4. a.acc = pg_range_intersect(tr[m].acc, range)
      BY <2>1, <2>3, <3>2 DEF Accumulate
    <3>5. CASE j = n
      <4>1. pg_range_subset(range, r) \/ pg_range_subset(a.acc, r)
        BY <1>1, <3>5
      <4> QED BY <2>1, <3>3, <3>4, <4>1, MeetStaysInside
    <3>6. CASE j \in 1 .. Len(tr)
      <4>1. tr2[j] = tr[j] /\ j \in Positives(tr, p)
        BY <1>1, <2>1, <3>6 DEF Positives
      <4>2. j \in 1 .. m
        BY <1>1, <3>1, <3>2, <3>6, <4>1
      <4>3. pg_range_subset(tr[m].acc, r)
        BY <3>2, <4>1, <4>2 DEF Narrows, Positives
      <4> QED BY <2>1, <3>3, <3>4, <4>3, MeetStaysInside
    <3> QED BY <1>1, <1>3, <3>5, <3>6
  <2> QED BY <2>2, <2>3
<1> QED BY <1>1, <1>2, <1>3

\* What propagation derives about a package: a requirement comes from a
\* dependency clause, and an exact version is not ruled out of an exact range.
LEMMA DerivedExplains ==
  ASSUME NEW tr \in Seq(Assignment), Narrows(tr), NEW terms \in Seq(Term), NEW r,
         Explained(r, TermsIn(terms)), NEW k \in DOMAIN terms, UnitAt(tr, terms, k),
         NEW tr2 \in Seq(Assignment), Len(tr2) = Len(tr) + 1,
         \A i \in 1 .. Len(tr) : tr2[i] = tr[i],
         tr2[Len(tr) + 1].pkg = terms[k].pkg, tr2[Len(tr) + 1].range = terms[k].range
  PROVE  IF terms[k].positive THEN RuledOut(tr2, Len(tr) + 1, terms)
                              ELSE DerivedFrom(tr2, Len(tr) + 1, terms)
<1> DEFINE n == Len(tr) + 1
<1>1. /\ Len(tr) \in Nat /\ n - 1 = Len(tr) /\ DOMAIN tr = 1 .. Len(tr)
      /\ terms[k] \in Term /\ terms[k] \in TermsIn(terms)
      /\ terms[k].range \in PgVersionRange /\ terms[k].positive \in BOOLEAN
  BY TermOf DEF TermsIn
<1>2. ~Satisfied(tr, terms[k]) /\ ~Contradicted(tr, terms[k])
  BY DEF UnitAt, Inconclusive
<1>3. ASSUME NEW v \in Version, HasPositive(tr, terms[k].pkg),
             pg_range_subset(PositiveRange(tr, terms[k].pkg), pg_range_exact(v))
      PROVE  FALSE
  <2> DEFINE acc == PositiveRange(tr, terms[k].pkg)
  <2>1. acc \in PgVersionRange
    BY <1>3, PositiveRangeType
  <2>2. pg_range_subset(acc, terms[k].range) \/ pg_range_intersect(acc, terms[k].range).is_empty
    BY <1>1, <1>3, <2>1, WithinExactIsDecisive
  <2> QED BY <1>1, <1>2, <1>3, <2>2 DEF Satisfied, Contradicted
<1>4. CASE terms[k].positive
  <2>1. ASSUME NEW v \in Version, tr2[n].range = pg_range_exact(v),
               NEW j \in 1 .. n - 1, tr2[j].positive, tr2[j].pkg = tr2[n].pkg,
               NEW w \in Version, pg_range_subset(tr2[j].range, pg_range_exact(w))
        PROVE  FALSE
    <3> DEFINE p == terms[k].pkg
               m == Max(Positives(tr, p))
    <3>1. /\ j \in DOMAIN tr /\ tr[j].positive /\ tr[j].pkg = p
          /\ pg_range_subset(tr[j].range, pg_range_exact(w))
      BY <1>1, <2>1
    <3>2. j \in Positives(tr, p) /\ HasPositive(tr, p)
      BY <3>1 DEF Positives, HasPositive
    <3>3. m \in Positives(tr, p) /\ j <= m
      BY <3>2, PositivesMax
    <3>4. /\ m \in DOMAIN tr /\ tr[m].positive /\ tr[m].pkg = p /\ j \in 1 .. m
          /\ PositiveRange(tr, p) = tr[m].acc
      BY <1>1, <3>1, <3>3 DEF Positives, PositiveRange
    <3>5. pg_range_exact(w) \in PgVersionRange
      BY ExactType
    <3> HIDE DEF p, m
    <3>6. pg_range_subset(tr[m].acc, pg_range_exact(w))
      BY <3>1, <3>4, <3>5 DEF Narrows
    <3> QED BY <1>3, <3>2, <3>4, <3>6 DEF p
  <2>2. (\E v \in Version : tr2[n].range = pg_range_exact(v)) => NoneExactBefore(tr2, n)
    BY <2>1 DEF NoneExactBefore
  <2> QED BY <1>1, <1>4, <2>2 DEF RuledOut
<1>5. CASE ~terms[k].positive
  <2>1. PICK s \in TermsIn(terms), t \in TermsIn(terms) :
          TermsIn(terms) = {s, t} /\ Requires(r, s, t)
    BY <1>1, <1>5 DEF Explained
  <2>2. s.positive /\ ~t.positive /\ t = terms[k] /\ s # t
    BY <1>1, <1>5, <2>1 DEF Requires
  <2>3. PICK j \in DOMAIN terms : s = terms[j]
    BY <2>1 DEF TermsIn
  <2>4. Satisfied(tr, s)
    BY <2>2, <2>3 DEF UnitAt
  <2> DEFINE m == Max(Positives(tr, s.pkg))
  <2>5. HasPositive(tr, s.pkg) /\ pg_range_subset(PositiveRange(tr, s.pkg), s.range)
    BY <2>2, <2>4 DEF Satisfied
  <2>6. m \in Positives(tr, s.pkg)
    BY <2>5, PositivesMax
  <2>7. /\ m \in 1 .. n - 1 /\ tr2[m].positive /\ tr2[m].pkg = s.pkg
        /\ pg_range_subset(tr2[m].acc, s.range)
    BY <1>1, <2>5, <2>6 DEF Positives, PositiveRange
  <2>8. s.pkg # t.pkg
    <3>1. PICK v \in Version : s.range = pg_range_exact(v)
      BY <2>1 DEF Requires
    <3> QED BY <1>3, <2>2, <2>5, <3>1
  <2> HIDE DEF m
  <2> QED BY <1>5, <2>1, <2>2, <2>7, <2>8 DEF DerivedFrom
<1> QED BY <1>1, <1>4, <1>5

\* Every step leaves a trail that explains itself.
LEMMA TrailExplainedStep ==
  ASSUME Inv, ClausesExplained, TrailExplained, [Next]_vars
  PROVE  TrailExplained'
<1> DEFINE Fine(i) == DecidedLater(trail', i) /\ CauseOf(trail', i, incs')
           Goal == Narrows(trail') /\ \A i \in DOMAIN trail' : Fine(i)
<1> SUFFICES ASSUME Sound' PROVE Goal
  BY DEF TrailExplained
<1>0. /\ TypeOK /\ Sound /\ trail \in Seq(Assignment) /\ Len(trail) \in Nat /\ Narrows(trail)
      /\ DOMAIN trail = 1 .. Len(trail)
      /\ \A i \in DOMAIN trail : DecidedLater(trail, i) /\ CauseOf(trail, i, incs)
  BY TrailSteps DEF Inv, TypeOK, TrailExplained
<1>1. \A c \in DOMAIN incs : c \in DOMAIN incs' /\ incs'[c].terms = incs[c].terms
  BY ClausesKept
<1>2. ASSUME NEW tr2 \in Seq(Assignment), tr2 = trail', NEW i \in DOMAIN trail, i \in DOMAIN tr2,
             \A j \in 1 .. i : tr2[j] = trail[j]
      PROVE  Fine(i)
  <2>1. DecidedLater(tr2, i) /\ CauseOf(tr2, i, incs')
    BY <1>0, <1>1, <1>2, CausePersists
  <2> QED BY <1>2, <2>1
<1>3. ASSUME NEW a \in Assignment, NEW p \in Packages, NEW range \in PgVersionRange,
             a.pkg = p, a.range = range, a.positive => a.acc = Accumulate(trail, p, range),
             trail' = Append(trail, a), Fine(Len(trail) + 1)
      PROVE  Goal
  <2>1. /\ trail' \in Seq(Assignment) /\ Len(trail') = Len(trail) + 1
        /\ \A i \in 1 .. Len(trail) : trail'[i] = trail[i]
    BY <1>0, <1>3, AppendProperties
  <2>2. Narrows(trail')
    BY <1>0, <1>3, PushNarrows
  <2>3. \A i \in 1 .. Len(trail) : \A j \in 1 .. i : trail'[j] = trail[j]
    BY <1>0, <2>1
  <2>4. \A i \in 1 .. Len(trail) : Fine(i)
    BY <1>0, <1>2, <2>1, <2>3
  <2> HIDE DEF Fine
  <2>5. \A i \in DOMAIN trail' : i \in 1 .. Len(trail) \/ i = Len(trail) + 1
    BY <1>0, <2>1
  <2> QED BY <1>3, <2>2, <2>4, <2>5
<1>4. CASE trail' = trail
  <2>1. \A i \in DOMAIN trail : Fine(i)
    BY <1>0, <1>2, <1>4
  <2> QED BY <1>0, <1>4, <2>1
<1>5. ASSUME NEW lvl \in Nat, trail' = Kept(trail, lvl) PROVE Goal
  <2>1. /\ trail' \in Seq(Assignment) /\ Len(trail') \in 0 .. Len(trail)
        /\ \A i \in DOMAIN trail' : i \in DOMAIN trail /\ trail'[i] = trail[i]
    BY <1>0, <1>5, KeptProperties
  <2>2. \A i \in DOMAIN trail' : \A j \in 1 .. i : j \in DOMAIN trail' /\ trail'[j] = trail[j]
    BY <2>1
  <2>3. Narrows(trail')
    BY <1>0, <2>1, <2>2 DEF Narrows
  <2>4. \A i \in DOMAIN trail' : Fine(i)
    BY <1>2, <2>1, <2>2
  <2> QED BY <2>3, <2>4
<1>6. ASSUME NEW req \in RootRequirements,
             trail' = Append(trail, assignment(trail, req[1], req[2], TRUE, FALSE, 0, 0))
      PROVE  Goal
  <2> DEFINE a == assignment(trail, req[1], req[2], TRUE, FALSE, 0, 0)
  <2>1. req[1] \in Packages /\ req[2] \in PgVersionRange
    BY PubGrubAssumption
  <2>2. a \in Assignment
    BY <1>0, <2>1, AssignmentType
  <2>3. /\ a.pkg = req[1] /\ a.range = req[2] /\ a.positive /\ ~a.decided /\ a.cause = 0
        /\ a.level = 0 /\ a.acc = Accumulate(trail, req[1], req[2])
    BY DEF assignment
  <2>4. trail' = Append(trail, a)
    BY <1>6
  <2> HIDE DEF a
  <2>5. trail'[Len(trail) + 1] = a
    BY <1>0, <2>2, <2>4, AppendProperties
  <2>6. Fine(Len(trail) + 1)
    BY <2>3, <2>5 DEF DecidedLater, CauseOf
  <2> QED BY <1>3, <2>1, <2>2, <2>3, <2>4, <2>6
<1>7. ASSUME NEW p \in Packages, NEW v \in Version, NEW lvl \in Nat,
             trail' = Append(trail, assignment(trail, p, pg_range_exact(v), TRUE, TRUE, lvl, 0)),
             p = Root \/ HasPositive(trail, p)
      PROVE  Goal
  <2> DEFINE a == assignment(trail, p, pg_range_exact(v), TRUE, TRUE, lvl, 0)
             n == Len(trail) + 1
  <2>1. a \in Assignment /\ pg_range_exact(v) \in PgVersionRange
    BY <1>0, AssignmentType, ExactType
  <2>2. /\ a.pkg = p /\ a.range = pg_range_exact(v) /\ a.positive /\ a.decided /\ a.cause = 0
        /\ a.acc = Accumulate(trail, p, pg_range_exact(v))
    BY DEF assignment
  <2>3. trail' = Append(trail, a)
    BY <1>7
  <2> HIDE DEF a
  <2>4. trail'[n] = a /\ \A i \in 1 .. Len(trail) : trail'[i] = trail[i]
    BY <1>0, <2>1, <2>3, AppendProperties
  <2>5. p = Root \/ \E j \in 1 .. n - 1 : trail'[j].positive /\ trail'[j].pkg = p
    BY <1>0, <1>7, <2>4 DEF HasPositive, Positives
  <2>6. Fine(n)
    BY <2>2, <2>4, <2>5 DEF DecidedLater, CauseOf
  <2> QED BY <1>3, <2>1, <2>2, <2>3, <2>6
<1>8. CASE ScanDerive
  <2> DEFINE c == ScannedInc
             terms == incs[c].terms
             n == Len(trail) + 1
  <2>1. c \in DOMAIN incs /\ c \in 1 .. Len(incs) /\ terms \in Seq(Term) /\ level \in Nat
    BY <1>0, <1>8, ScannedType DEF ScanDerive, TypeOK
  <2>2. PICK k \in DOMAIN terms :
          /\ UnitAt(trail, terms, k)
          /\ trail' = Append(trail, assignment(trail, terms[k].pkg, terms[k].range,
                                               ~terms[k].positive, FALSE, level, c))
    BY <1>8 DEF ScanDerive
  <2>3. Explained(reg, TermsIn(terms))
    BY <2>1 DEF ClausesExplained
  <2>4. c \in DOMAIN incs' /\ incs'[c].terms = terms
    BY <1>1, <2>1
  <2> HIDE DEF c, terms
  <2> DEFINE a == assignment(trail, terms[k].pkg, terms[k].range, ~terms[k].positive, FALSE, level, c)
  <2>5. terms[k].pkg \in Packages /\ terms[k].range \in PgVersionRange /\ terms[k].positive \in BOOLEAN
    BY <2>1, TermOf
  <2>6. a \in Assignment /\ c \in Nat /\ c # 0
    <3>1. Len(incs) \in Nat
      BY <1>0 DEF TypeOK
    <3>2. c \in Nat /\ c # 0
      BY <2>1, <3>1
    <3>3. (~terms[k].positive) \in BOOLEAN /\ FALSE \in BOOLEAN
      OBVIOUS
    <3> QED BY <1>0, <2>1, <2>5, <3>2, <3>3, AssignmentType
  <2>7. /\ a.pkg = terms[k].pkg /\ a.range = terms[k].range /\ a.positive = ~terms[k].positive
        /\ ~a.decided /\ a.cause = c
        /\ a.positive => a.acc = Accumulate(trail, terms[k].pkg, terms[k].range)
    BY DEF assignment
  <2>8. trail' = Append(trail, a)
    BY <2>2
  <2> HIDE DEF a
  <2>9. /\ trail' \in Seq(Assignment) /\ Len(trail') = n /\ trail'[n] = a
        /\ \A i \in 1 .. Len(trail) : trail'[i] = trail[i]
    BY <1>0, <2>6, <2>8, AppendProperties
  <2>10. IF terms[k].positive THEN RuledOut(trail', n, terms) ELSE DerivedFrom(trail', n, terms)
    BY <1>0, <2>1, <2>2, <2>3, <2>7, <2>9, DerivedExplains
  <2>11. Fine(n)
    BY <2>4, <2>5, <2>6, <2>7, <2>9, <2>10 DEF DecidedLater, CauseOf
  <2> QED BY <1>3, <2>5, <2>6, <2>7, <2>8, <2>11
<1> QED BY <1>4, <1>5, <1>6, <1>7, <1>8, TrailChange

-----------------------------------------------------------------------------
(* Resolving two explained clauses *)

\* The satisfier satisfies a term, and every other term is satisfied before it.
LEMMA SatisfierReaches ==
  ASSUME TypeOK, conflict # 0, HasSatisfier(Current.terms), ~is_root_failure(Current.terms)
  PROVE  LET i == SatisfierIndex(Current.terms) IN
           /\ i \in DOMAIN trail
           /\ \E k \in DOMAIN Current.terms : AssignmentSatisfies(trail[i], Current.terms[k])
           /\ \A k \in DOMAIN Current.terms :
                \E j \in 1 .. i : AssignmentSatisfies(trail[j], Current.terms[k])
<1> DEFINE terms == Current.terms
           M(k) == Min(SatisfiersOf(terms[k]))
           S == {M(k) : k \in DOMAIN terms}
           i == SatisfierIndex(terms)
<1>1. terms \in Seq(Term) /\ trail \in Seq(Assignment) /\ Len(trail) \in Nat
  BY CurrentType DEF TypeOK
<1>2. ASSUME NEW k \in DOMAIN terms
      PROVE  M(k) \in SatisfiersOf(terms[k]) /\ M(k) \in DOMAIN trail
  <2>1. SatisfiersOf(terms[k]) \in SUBSET Nat /\ SatisfiersOf(terms[k]) # {}
        /\ SatisfiersOf(terms[k]) \subseteq DOMAIN trail
    BY <1>1 DEF HasSatisfier, SatisfiersOf
  <2> QED BY <2>1, MinOfNaturals
<1>3. 1 \in DOMAIN terms
  BY <1>1 DEF is_root_failure
<1>4. S \in SUBSET (0 .. Len(trail)) /\ S # {} /\ S \subseteq DOMAIN trail
  <2>1. \A k \in DOMAIN terms : M(k) \in DOMAIN trail
    BY <1>2
  <2> HIDE DEF M
  <2> QED BY <1>1, <1>3, <2>1
<1>5. i = Max(S)
  BY DEF SatisfierIndex
<1>6. i \in S /\ \A y \in S : y <= i
  <2> HIDE DEF S, i
  <2> QED BY <1>1, <1>4, <1>5, MaxOfBounded
<1>7. \E k \in DOMAIN terms : M(k) = i
  <2> HIDE DEF i, M
  <2> QED BY <1>6
<1>8. \A k \in DOMAIN terms : M(k) <= i
  <2> HIDE DEF i, M
  <2> QED BY <1>6
<1>9. i \in DOMAIN trail
  BY <1>4, <1>6
<1>10. \E k \in DOMAIN terms : AssignmentSatisfies(trail[i], terms[k])
  BY <1>2, <1>7 DEF SatisfiersOf
<1>11. ASSUME NEW k \in DOMAIN terms
       PROVE  \E j \in 1 .. i : AssignmentSatisfies(trail[j], terms[k])
  <2>1. M(k) \in DOMAIN trail /\ AssignmentSatisfies(trail[M(k)], terms[k]) /\ M(k) <= i
    BY <1>2, <1>8, <1>11 DEF SatisfiersOf
  <2>2. M(k) \in 1 .. i
    BY <1>1, <1>9, <2>1
  <2> QED BY <2>1, <2>2
<1> HIDE DEF i
<1> QED BY <1>9, <1>10, <1>11 DEF i

\* A term that is entailed inside an exact range, and what that entails in turn.
LEMMA EntailsOn ==
  ASSUME NEW r, NEW s \in Term, NEW t \in Term, NEW s2 \in Term, NEW t2 \in Term,
         Entails(r, s, t), Entails(r, s2, t2), t.pkg = s2.pkg,
         NEW v \in Version, s2.range = pg_range_exact(v), pg_range_subset(t.range, s2.range)
  PROVE  Entails(r, s, t2)
<1> SUFFICES ASSUME NEW sel \in Selections, Honours(r, sel), Chooses(sel, s)
             PROVE  Chooses(sel, t2) /\ Depended(r, sel, t2.pkg)
  BY DEF Entails
<1>1. t.pkg \in DOMAIN sel /\ pg_range_contains(t.range, sel[t.pkg])
  BY DEF Entails, Chooses
<1>2. sel[t.pkg] \in Version
  BY <1>1 DEF Selections
<1>3. /\ t.range \in PgVersionRange /\ s2.range \in PgVersionRange /\ ~s2.range.is_empty
  BY ExactFacts DEF Term
<1>4. pg_range_contains(s2.range, sel[s2.pkg])
  BY <1>1, <1>2, <1>3, SubsetIsSound
<1>5. Chooses(sel, s2)
  BY <1>1, <1>4 DEF Chooses
<1> QED BY <1>5 DEF Entails

\* What is left of two clauses without the terms of a package.
Resolvent(T1, T2, q) == {t \in T1 \cup T2 : t.pkg # q}

\* Resolving a clause with the cause of its satisfier gives a clause that is
\* explained: pg_incompatibility_resolve_with drops every term of the
\* satisfier's package, and what is left forbids versions or chains two
\* dependencies.
LEMMA ResolutionExplains ==
  ASSUME NEW r, NEW terms \in Seq(Term), NEW cause \in Seq(Term),
         Explained(r, TermsIn(terms)), Explained(r, TermsIn(cause)),
         NEW tr \in Seq(Assignment), NEW i \in DOMAIN tr,
         \E k \in DOMAIN terms : AssignmentSatisfies(tr[i], terms[k]),
         \A k \in DOMAIN terms : \E j \in 1 .. i : AssignmentSatisfies(tr[j], terms[k]),
         IF tr[i].positive THEN DerivedFrom(tr, i, cause) ELSE RuledOut(tr, i, cause)
  PROVE  Explained(r, Resolvent(TermsIn(terms), TermsIn(cause), tr[i].pkg))
<1> DEFINE q == tr[i].pkg
           T1 == TermsIn(terms)
           T2 == TermsIn(cause)
           R == {t \in T1 \cup T2 : t.pkg # q}
<1> SUFFICES Explained(r, R)
  BY DEF Resolvent
<1>1. /\ T1 \subseteq Term /\ T2 \subseteq Term
      /\ \E t \in T1 : AssignmentSatisfies(tr[i], t)
      /\ \A t \in T1 : \E j \in 1 .. i : AssignmentSatisfies(tr[j], t)
  BY DEF TermsIn
<1>2. \A t \in Term : t.positive \in BOOLEAN /\ t.range \in PgVersionRange
  BY DEF Term
<1>3. ASSUME NEW s \in Term, NEW t \in Term, s \in R, t \in R, R = {s, t}, Requires(r, s, t)
      PROVE  Explained(r, R)
  BY <1>3 DEF Explained
<1>4. ASSUME \A t \in R : t.positive PROVE Explained(r, R)
  BY <1>4 DEF Explained
<1>5. Explained(r, T1) /\ Explained(r, T2)
  OBVIOUS
<1>6. CASE tr[i].positive
  <2>1. PICK s2 \in T2, t2 \in T2 :
          /\ T2 = {s2, t2} /\ s2.positive /\ ~t2.positive /\ s2.pkg # t2.pkg
          /\ t2.pkg = q /\ t2.range = tr[i].range
    BY <1>6 DEF DerivedFrom
  <2>2. Requires(r, s2, t2)
    BY <1>5, <2>1 DEF Explained, Requires
  <2>3. s2 \in R /\ t2 \notin R
    BY <2>1
  <2>4. CASE \A t \in T1 : t.positive
    BY <1>4, <2>1, <2>4
  <2>5. CASE ~ \A t \in T1 : t.positive
    <3>1. PICK s1 \in T1, t1 \in T1 : T1 = {s1, t1} /\ Requires(r, s1, t1)
      BY <1>5, <2>5 DEF Explained
    <3>2. s1.positive /\ ~t1.positive
      BY <3>1 DEF Requires
    <3>3. CASE t1.pkg = q
      <4>1. \A t \in R : t = s1 \/ t = s2
        BY <2>1, <3>1, <3>3
      <4> QED BY <1>4, <2>1, <3>2, <4>1
    <3>4. CASE t1.pkg # q
      <4>1. AssignmentSatisfies(tr[i], s1)
        BY <1>1, <3>1, <3>4 DEF AssignmentSatisfies
      <4>2. s1.pkg = q /\ pg_range_subset(t2.range, s1.range)
        BY <2>1, <3>2, <4>1 DEF AssignmentSatisfies
      <4>3. R = {s2, t1} /\ t1 \in R
        BY <2>1, <3>1, <3>4, <4>2
      <4>4. PICK v \in Version : s1.range = pg_range_exact(v)
        BY <3>1 DEF Requires
      <4>5. s1 \in Term /\ t1 \in Term /\ s2 \in Term /\ t2 \in Term
        BY <1>1
      <4>6. Entails(r, s2, t2) /\ Entails(r, s1, t1)
        BY <2>2, <3>1 DEF Requires
      <4>7. Entails(r, s2, t1)
        BY <2>1, <4>2, <4>4, <4>5, <4>6, EntailsOn
      <4>8. Requires(r, s2, t1)
        BY <2>2, <3>2, <4>7 DEF Requires
      <4> QED BY <1>3, <2>3, <4>3, <4>5, <4>8
    <3> QED BY <3>3, <3>4
  <2> QED BY <2>4, <2>5
<1>7. CASE ~tr[i].positive
  <2>1. PICK x \in T2 : x.positive /\ x.pkg = q /\ x.range = tr[i].range
    BY <1>7 DEF RuledOut
  <2>2. PICK t1 \in T1 : AssignmentSatisfies(tr[i], t1)
    BY <1>1
  <2>3. t1.pkg = q /\ ~t1.positive /\ pg_range_subset(t1.range, tr[i].range)
    BY <1>1, <1>2, <1>7, <2>2 DEF AssignmentSatisfies
  <2>4. PICK s1 \in T1 : T1 = {s1, t1} /\ Requires(r, s1, t1)
    <3>1. PICK s \in T1, t \in T1 : T1 = {s, t} /\ Requires(r, s, t)
      BY <1>5, <2>3 DEF Explained
    <3>2. t = t1
      BY <2>3, <3>1 DEF Requires
    <3> QED BY <3>1, <3>2
  <2>5. s1.positive
    BY <2>4 DEF Requires
  <2>6. CASE \A t \in T2 : t.positive
    <3>1. \A t \in R : t.positive
      BY <2>3, <2>4, <2>5, <2>6
    <3> QED BY <1>4, <3>1
  <2>7. CASE ~ \A t \in T2 : t.positive
    <3>1. PICK s2 \in T2, t2 \in T2 : T2 = {s2, t2} /\ Requires(r, s2, t2)
      BY <1>5, <2>7 DEF Explained
    <3>2. x = s2
      BY <2>1, <3>1 DEF Requires
    <3>3. CASE t2.pkg = q
      <4>1. \A t \in R : t = s1
        BY <2>1, <2>3, <2>4, <3>1, <3>2, <3>3
      <4> QED BY <1>4, <2>5, <4>1
    <3>4. CASE t2.pkg # q
      <4>1. PICK w \in Version : s2.range = pg_range_exact(w)
        BY <3>1 DEF Requires
      <4>2. NoneExactBefore(tr, i)
        BY <1>7, <2>1, <3>2, <4>1 DEF RuledOut
      <4>3. s1.pkg # q
        <5> SUFFICES ASSUME s1.pkg = q PROVE FALSE
          OBVIOUS
        <5>1. PICK j \in 1 .. i : AssignmentSatisfies(tr[j], s1)
          BY <1>1
        <5>2. PICK v \in Version : s1.range = pg_range_exact(v)
          BY <2>4 DEF Requires
        <5>3. tr[j].positive /\ tr[j].pkg = q /\ pg_range_subset(tr[j].range, pg_range_exact(v))
          BY <2>5, <5>1, <5>2 DEF AssignmentSatisfies
        <5>4. j \in 1 .. i - 1
          BY <1>7, <5>3
        <5> QED BY <4>2, <5>2, <5>3, <5>4 DEF NoneExactBefore
      <4>4. R = {s1, t2} /\ s1 \in R /\ t2 \in R
        BY <2>1, <2>3, <2>4, <3>1, <3>2, <3>4, <4>3
      <4>5. s1 \in Term /\ t1 \in Term /\ s2 \in Term /\ t2 \in Term
        BY <1>1
      <4>6. Entails(r, s1, t1) /\ Entails(r, s2, t2)
        BY <2>4, <3>1 DEF Requires
      <4>7. Entails(r, s1, t2)
        BY <2>1, <2>3, <3>2, <4>1, <4>5, <4>6, EntailsOn
      <4>8. Requires(r, s1, t2)
        BY <2>4, <3>1, <4>7 DEF Requires
      <4> QED BY <1>3, <4>4, <4>5, <4>8
    <3> QED BY <3>3, <3>4
  <2> QED BY <2>6, <2>7
<1> QED BY <1>6, <1>7

-----------------------------------------------------------------------------
(* Every clause is explained *)

\* Appending a term adds it to the terms.
LEMMA TermsOfAppend ==
  ASSUME NEW s \in Seq(Term), NEW t \in Term
  PROVE  TermsIn(Append(s, t)) = TermsIn(s) \cup {t}
<1>1. /\ Append(s, t) \in Seq(Term) /\ Len(Append(s, t)) = Len(s) + 1 /\ Len(s) \in Nat
      /\ \A k \in 1 .. Len(s) : Append(s, t)[k] = s[k]
      /\ Append(s, t)[Len(s) + 1] = t
  BY AppendProperties
<1> QED BY <1>1 DEF TermsIn

\* The terms of two clauses in a row are those of both.
LEMMA TermsOfConcat ==
  ASSUME NEW s \in Seq(Term), NEW t \in Seq(Term)
  PROVE  TermsIn(s \o t) = TermsIn(s) \cup TermsIn(t)
<1> DEFINE u == s \o t
<1>1. /\ DOMAIN s = 1 .. Len(s) /\ DOMAIN t = 1 .. Len(t) /\ Len(s) \in Nat /\ Len(t) \in Nat
      /\ DOMAIN u = 1 .. Len(s) + Len(t)
      /\ \A k \in 1 .. Len(s) + Len(t) : u[k] = IF k <= Len(s) THEN s[k] ELSE t[k - Len(s)]
  BY ConcatProperties
<1> HIDE DEF u
<1>2. ASSUME NEW x \in TermsIn(u) PROVE x \in TermsIn(s) \cup TermsIn(t)
  <2>1. PICK k \in 1 .. Len(s) + Len(t) : x = u[k]
    BY <1>1 DEF TermsIn
  <2>2. CASE k <= Len(s)
    BY <1>1, <2>1, <2>2 DEF TermsIn
  <2>3. CASE k > Len(s)
    <3>1. k - Len(s) \in DOMAIN t /\ x = t[k - Len(s)]
      BY <1>1, <2>1, <2>3
    <3> QED BY <3>1 DEF TermsIn
  <2> QED BY <1>1, <2>2, <2>3
<1>3. ASSUME NEW k \in DOMAIN s PROVE s[k] \in TermsIn(u)
  BY <1>1 DEF TermsIn
<1>4. ASSUME NEW k \in DOMAIN t PROVE t[k] \in TermsIn(u)
  <2>1. Len(s) + k \in DOMAIN u /\ u[Len(s) + k] = t[k]
    BY <1>1
  <2> QED BY <2>1 DEF TermsIn
<1>5. TermsIn(s) \cup TermsIn(t) \subseteq TermsIn(u)
  BY <1>3, <1>4 DEF TermsIn
<1> QED BY <1>2, <1>5 DEF u

\* A clause has the terms of its head and of its tail.
LEMMA TermsOfTail ==
  ASSUME NEW s \in Seq(Term), s # << >>
  PROVE  TermsIn(s) = {Head(s)} \cup TermsIn(Tail(s))
<1>1. /\ Tail(s) \in Seq(Term) /\ Len(Tail(s)) = Len(s) - 1 /\ Len(s) \in Nat /\ Len(s) > 0
      /\ \A k \in 1 .. Len(s) - 1 : Tail(s)[k] = s[k + 1]
      /\ Head(s) = s[1]
  BY HeadTailProperties
<1>2. ASSUME NEW k \in DOMAIN s PROVE s[k] \in {Head(s)} \cup TermsIn(Tail(s))
  <2>1. CASE k = 1
    BY <1>1, <2>1
  <2>2. CASE k # 1
    <3>1. k - 1 \in DOMAIN Tail(s) /\ Tail(s)[k - 1] = s[k]
      BY <1>1, <2>2
    <3> QED BY <3>1 DEF TermsIn
  <2> QED BY <2>1, <2>2
<1>3. ASSUME NEW k \in DOMAIN Tail(s) PROVE Tail(s)[k] \in TermsIn(s)
  <2>1. k + 1 \in DOMAIN s /\ Tail(s)[k] = s[k + 1]
    BY <1>1
  <2> QED BY <2>1 DEF TermsIn
<1>4. Head(s) \in TermsIn(s)
  <2>1. 1 \in DOMAIN s
    BY <1>1
  <2> QED BY <1>1, <2>1 DEF TermsIn
<1>5. TermsIn(s) \subseteq {Head(s)} \cup TermsIn(Tail(s))
  BY <1>2 DEF TermsIn
<1>6. TermsIn(Tail(s)) \subseteq TermsIn(s)
  BY <1>3 DEF TermsIn
<1> QED BY <1>4, <1>5, <1>6

\* A decision's version and a dependency it has.
LEMMA DependencyRequires ==
  ASSUME NEW r, NEW decision, NEW dep, NEW v \in Version, decision.range = pg_range_exact(v),
         \E k \in DOMAIN Known(r, decision.pkg, v) : dep = Known(r, decision.pkg, v)[k]
  PROVE  Explained(r, TermsIn(DependencyTerms(decision, dep)))
<1> DEFINE s == [pkg |-> decision.pkg, range |-> decision.range, positive |-> TRUE]
           t == [pkg |-> dep.pkg, range |-> dep.range, positive |-> FALSE]
<1>1. /\ s.pkg = decision.pkg /\ s.range = pg_range_exact(v) /\ s.positive
      /\ t.pkg = dep.pkg /\ t.range = dep.range /\ ~t.positive
  OBVIOUS
<1>2. DependencyTerms(decision, dep) = << s, t >>
  BY DEF DependencyTerms
<1> HIDE DEF s, t
<1>3. TermsIn(<< s, t >>) = {s, t}
  BY DEF TermsIn
<1>4. ASSUME NEW sel \in Selections, Honours(r, sel), Chooses(sel, s)
      PROVE  Chooses(sel, t) /\ Depended(r, sel, t.pkg)
  <2>1. decision.pkg \in DOMAIN sel /\ pg_range_contains(pg_range_exact(v), sel[decision.pkg])
    BY <1>1, <1>4 DEF Chooses
  <2>2. sel[decision.pkg] \in Version
    BY <2>1 DEF Selections
  <2>3. sel[decision.pkg] = v
    BY <2>1, <2>2, ExactContains
  <2> QED BY <1>1, <1>4, <2>1, <2>3 DEF Honours, Chooses, Depended
<1>5. Requires(r, s, t)
  BY <1>1, <1>4 DEF Requires, Entails
<1> QED BY <1>2, <1>3, <1>5 DEF Explained

\* The clauses stay explained: a new one is a dependency of the last decision,
\* forbids versions, or is what merging has collected.
LEMMA ClausesStayExplained ==
  ASSUME Inv, ClausesExplained, [Next]_vars
  PROVE  \A c \in DOMAIN incs' : Explained(reg, TermsIn(incs'[c].terms))
<1> DEFINE Goal == \A c \in DOMAIN incs' : Explained(reg, TermsIn(incs'[c].terms))
<1>0. /\ TypeOK /\ incs \in Seq(Incompatibility) /\ Len(incs) \in Nat
      /\ \A c \in DOMAIN incs : Explained(reg, TermsIn(incs[c].terms))
  BY DEF Inv, TypeOK, ClausesExplained
<1>1. CASE incs' = incs
  BY <1>0, <1>1
<1>2. ASSUME NEW inc \in Incompatibility, incs' = Append(incs, inc),
             Explained(reg, TermsIn(inc.terms))
      PROVE  Goal
  <2>1. /\ Len(incs') = Len(incs) + 1 /\ incs' \in Seq(Incompatibility)
        /\ \A c \in 1 .. Len(incs) : incs'[c] = incs[c]
        /\ incs'[Len(incs) + 1] = inc
    BY <1>0, <1>2, AppendProperties
  <2> QED BY <1>0, <1>2, <2>1
<1>3. ASSUME NEW terms \in Seq(Term), NEW reason \in Reason, Explained(reg, TermsIn(terms)),
             pg_solver_add_incompatibility(terms, reason)
      PROVE  Goal
  <2> DEFINE inc == [terms |-> terms, reason |-> reason, causes |-> << >>, attached |-> TRUE]
  <2>1. inc \in Incompatibility /\ incs' = Append(incs, inc) /\ inc.terms = terms
    BY <1>3 DEF pg_solver_add_incompatibility, Incompatibility
  <2> HIDE DEF inc
  <2> QED BY <1>2, <1>3, <2>1
<1>4. CASE RegisterDependency
  <2> DEFINE n == Len(trail)
             terms == DependencyTerms(trail[n], Head(todo))
  <2>1. /\ pc = "register" /\ todo \in Seq(Dependency) /\ todo # << >>
        /\ Head(todo) = todo[1] /\ Head(todo) \in Dependency /\ 1 \in DOMAIN todo
    BY <1>0, <1>4 DEF RegisterDependency, TypeOK
  <2>2. n \in DOMAIN trail /\ trail[n] \in Assignment /\ trail[n].decided /\ Sound
    BY <1>0, <2>1 DEF Inv, LoopShape, TypeOK, Sound
  <2>3. terms \in Seq(Term)
    BY <2>1, <2>2 DEF DependencyTerms, Dependency, Assignment, Term
  <2>4. PICK v \in Version : trail[n].range = pg_range_exact(v)
    BY <2>2 DEF Inv, DecisionsFinal
  <2>5. DecidedVersion(n) = v
    BY <2>4, ExactFacts DEF DecidedVersion
  <2>6. \E k \in DOMAIN Known(reg, trail[n].pkg, v) : Head(todo) = Known(reg, trail[n].pkg, v)[k]
    BY <2>1, <2>5 DEF ClausesExplained
  <2>7. Explained(reg, TermsIn(terms))
    BY <2>4, <2>6, DependencyRequires
  <2>8. pg_solver_add_incompatibility(terms, "DEPENDENCY")
    BY <1>4 DEF RegisterDependency
  <2> HIDE DEF terms
  <2> QED BY <1>3, <2>3, <2>7, <2>8 DEF Reason
<1>5. CASE DecideNoVersions
  <2>1. PICK p \in Undecided :
          pg_solver_add_incompatibility(
            << [pkg |-> p, range |-> PositiveRange(trail, p), positive |-> TRUE] >>,
            "NO_VERSIONS")
    BY <1>5 DEF DecideNoVersions
  <2> DEFINE terms == << [pkg |-> p, range |-> PositiveRange(trail, p), positive |-> TRUE] >>
  <2>2. terms \in Seq(Term)
    <3>1. p \in Packages /\ PositiveRange(trail, p) \in PgVersionRange
      BY <1>0, PositiveRangeType DEF Undecided, TypeOK
    <3> QED BY <3>1 DEF Term
  <2>3. Explained(reg, TermsIn(terms))
    BY DEF Explained, TermsIn
  <2> HIDE DEF terms
  <2>4. pg_solver_add_incompatibility(terms, "NO_VERSIONS")
    BY <2>1 DEF terms
  <2> QED BY <1>3, <2>2, <2>3, <2>4 DEF Reason
<1>6. CASE ResolveBackjump
  <2>1. conflict \in 1 .. Len(incs) /\ incs' = [incs EXCEPT ![conflict].attached = TRUE]
    BY <1>0, <1>6, CurrentType DEF ResolveBackjump, TypeOK
  <2>2. DOMAIN incs' = DOMAIN incs /\ \A c \in DOMAIN incs : incs'[c].terms = incs[c].terms
    BY <1>0, <2>1, MarkAttached
  <2> QED BY <1>0, <2>2
<1>7. CASE MergeDone
  <2> DEFINE inc == [terms |-> merge.into, reason |-> "INTERNAL",
                     causes |-> <<conflict, merge.cause>>, attached |-> FALSE]
  <2>1. inc \in Incompatibility /\ incs' = Append(incs, inc) /\ inc.terms = merge.into
    BY <1>0, <1>7 DEF MergeDone, TypeOK, Incompatibility, Reason
  <2>2. Collected = TermsIn(merge.into)
    BY <1>7 DEF MergeDone, Collected, TermsIn
  <2>3. Explained(reg, Collected)
    BY <1>7 DEF MergeDone, ClausesExplained
  <2> HIDE DEF inc
  <2> QED BY <1>2, <2>1, <2>2, <2>3
<1>8. \/ incs' = incs \/ RegisterDependency \/ DecideNoVersions \/ ResolveBackjump \/ MergeDone
  BY DEF Next, vars, AddRootDependency, SeedRoot, RegisterDone, CheckBudget, PopChanged,
     ScanSkip, ScanDerive, ScanConflict, PropagationDone, DecideError, Decide,
     DecideComplete, ResolveRootFailure, ResolveNoSatisfier, ResolveRootLevel,
     ResolveNoCause, ResolveWithCause, MergeTerm, Done, NoSolution
<1> QED BY <1>1, <1>4, <1>5, <1>6, <1>7, <1>8

\* What is being merged stays explained.
LEMMA MergeStaysExplained ==
  ASSUME Inv, ClausesExplained, TrailExplained, [Next]_vars, pc' = "merge"
  PROVE  Explained(reg, TermsIn(merge'.into)
                          \cup {t \in TermsIn(merge'.from) : t.pkg # merge'.elim})
<1> DEFINE Goal == Explained(reg, TermsIn(merge'.into)
                                    \cup {t \in TermsIn(merge'.from) : t.pkg # merge'.elim})
<1>0. TypeOK /\ merge.from \in Seq(Term) /\ merge.into \in Seq(Term)
  BY DEF Inv, TypeOK
<1>1. CASE ResolveWithCause
  <2> DEFINE i == SatisfierIndex(Current.terms)
             terms == Current.terms
             cause == incs[trail[i].cause].terms
  <2>1. /\ conflict # 0 /\ conflict \in DOMAIN incs /\ terms \in Seq(Term) /\ Sound
        /\ HasSatisfier(terms) /\ ~is_root_failure(terms)
    BY <1>0, <1>1, CurrentType DEF ResolveWithCause, TypeOK, Inv, LoopShape, Sound
  <2>2. Explained(reg, TermsIn(terms))
    BY <2>1 DEF ClausesExplained, Current
  <2>3. /\ i \in DOMAIN trail /\ trail \in Seq(Assignment)
        /\ \E k \in DOMAIN terms : AssignmentSatisfies(trail[i], terms[k])
        /\ \A k \in DOMAIN terms : \E j \in 1 .. i : AssignmentSatisfies(trail[j], terms[k])
    BY <1>0, <2>1, SatisfierReaches DEF TypeOK
  <2>4. trail[i].cause # 0 /\ CauseOf(trail, i, incs)
    BY <1>1, <2>1, <2>3 DEF ResolveWithCause, Satisfier, TrailExplained
  <2>5. /\ trail[i].cause \in DOMAIN incs
        /\ IF trail[i].positive THEN DerivedFrom(trail, i, cause) ELSE RuledOut(trail, i, cause)
    BY <2>4 DEF CauseOf
  <2>6. cause \in Seq(Term) /\ Explained(reg, TermsIn(cause))
    <3>1. incs[trail[i].cause] \in Incompatibility
      BY <1>0, <2>5 DEF TypeOK
    <3> QED BY <2>5, <3>1 DEF Incompatibility, ClausesExplained
  <2>7. /\ merge'.from = terms \o cause /\ merge'.into = << >> /\ merge'.elim = trail[i].pkg
    BY <1>1 DEF ResolveWithCause, Satisfier
  <2>8. TermsIn(<< >>) = {}
    BY DEF TermsIn
  <2> HIDE DEF i, terms, cause
  <2>9. Explained(reg, Resolvent(TermsIn(terms), TermsIn(cause), trail[i].pkg))
    <3>1. IF trail[i].positive THEN DerivedFrom(trail, i, cause) ELSE RuledOut(trail, i, cause)
      BY <2>5
    <3> QED BY <2>1, <2>2, <2>3, <2>6, <3>1, ResolutionExplains
  <2>10. TermsIn(terms \o cause) = TermsIn(terms) \cup TermsIn(cause)
    BY <2>1, <2>6, TermsOfConcat
  <2> QED BY <2>7, <2>8, <2>9, <2>10 DEF Resolvent
<1>2. CASE MergeTerm
  <2>1. /\ pc = "merge" /\ merge.from # << >>
        /\ merge'.from = Tail(merge.from) /\ merge'.elim = merge.elim
        /\ merge'.into = IF Head(merge.from).pkg = merge.elim THEN merge.into
                         ELSE Append(merge.into, Head(merge.from))
    BY <1>0, <1>2 DEF MergeTerm, TypeOK
  <2>2. TermsIn(merge.from) = {Head(merge.from)} \cup TermsIn(Tail(merge.from))
    BY <1>0, <2>1, TermsOfTail
  <2>3. Head(merge.from) \in Term
    BY <1>0, <2>1
  <2>4. TermsIn(Append(merge.into, Head(merge.from)))
          = TermsIn(merge.into) \cup {Head(merge.from)}
    BY <1>0, <2>3, TermsOfAppend
  <2>5. Explained(reg, Collected)
    BY <2>1 DEF ClausesExplained
  <2>6. TermsIn(merge'.into) \cup {t \in TermsIn(merge'.from) : t.pkg # merge'.elim} = Collected
    <3>1. CASE Head(merge.from).pkg = merge.elim
      BY <2>1, <2>2, <3>1 DEF Collected
    <3>2. CASE Head(merge.from).pkg # merge.elim
      BY <2>1, <2>2, <2>4, <3>2 DEF Collected
    <3> QED BY <3>1, <3>2
  <2> QED BY <2>5, <2>6
<1>3. CASE pc = "merge" /\ UNCHANGED <<merge, incs>>
  BY <1>3 DEF ClausesExplained, Collected
<1>4. ResolveWithCause \/ MergeTerm \/ (pc = "merge" /\ UNCHANGED <<merge, incs>>)
  BY DEF Next, vars, Stop, AddRootDependency, SeedRoot, PushDecision, RegisterDependency,
     RegisterDone, CheckBudget, PopChanged, ScanSkip, ScanDerive, ScanConflict, PropagationDone,
     DecideError, DecideNoVersions, Decide, DecideComplete, ResolveRootFailure,
     ResolveNoSatisfier, ResolveRootLevel, ResolveBackjump, ResolveNoCause, MergeDone, Done,
     NoSolution
<1> QED BY <1>1, <1>2, <1>3, <1>4

\* What waits to be registered stays dependencies of the last decision.
LEMMA WaitingStepped ==
  ASSUME Inv, ClausesExplained, [Next]_vars, pc' = "register"
  PROVE  \A n \in DOMAIN todo' : \E k \in DOMAIN Known(reg, trail'[Len(trail')].pkg, DecidedVersion(Len(trail))') :
           todo'[n] = Known(reg, trail'[Len(trail')].pkg, DecidedVersion(Len(trail))')[k]
<1> DEFINE Goal == \A n \in DOMAIN todo' :
                     \E k \in DOMAIN Known(reg, trail'[Len(trail')].pkg, DecidedVersion(Len(trail))') :
                       todo'[n] = Known(reg, trail'[Len(trail')].pkg, DecidedVersion(Len(trail))')[k]
<1>0. TypeOK /\ todo \in Seq(Dependency)
  BY DEF Inv, TypeOK
<1>1. ASSUME NEW p \in Packages, NEW v \in Version, NEW lvl \in Nat, PushDecision(p, v, lvl)
      PROVE  Goal
  <2>1. /\ Len(trail') > 0 /\ trail'[Len(trail')].pkg = p
        /\ trail'[Len(trail')].range = pg_range_exact(v)
    BY <1>0, <1>1, PushDecisionShape
  <2>2. DecidedVersion(Len(trail))' = v
    BY <2>1, ExactFacts DEF DecidedVersion
  <2>3. /\ get_dependencies(reg, p, v) # ProviderError
        /\ todo' = Truncate(get_dependencies(reg, p, v), DependencyBuffer)
    BY <1>1 DEF PushDecision, Stop
  <2>4. todo' = Known(reg, p, v)
    BY <2>3 DEF Known
  <2> QED BY <2>1, <2>2, <2>4
<1>2. CASE SeedRoot
  BY <1>1, <1>2, PubGrubAssumption DEF SeedRoot
<1>3. CASE Decide
  <2>1. PICK p \in Undecided :
          PushDecision(p, VersionsOf(p)[Min(Candidates(p))], level + 1) /\ ~Stuck(p)
    BY <1>3 DEF Decide
  <2>2. p \in Packages /\ level + 1 \in Nat /\ VersionsOf(p)[Min(Candidates(p))] \in Version
    BY <1>0, <2>1, ChosenVersionType DEF Undecided, TypeOK
  <2> QED BY <1>1, <2>1, <2>2
<1>4. CASE RegisterDependency
  <2>1. /\ todo' = Tail(todo) /\ todo # << >> /\ trail' = trail /\ pc = "register"
    BY <1>4 DEF RegisterDependency
  <2>2. \A n \in DOMAIN Tail(todo) : n + 1 \in DOMAIN todo /\ Tail(todo)[n] = todo[n + 1]
    BY <1>0, <2>1
  <2>3. DecidedVersion(Len(trail))' = DecidedVersion(Len(trail))
    BY <2>1 DEF DecidedVersion
  <2> QED BY <2>1, <2>2, <2>3 DEF ClausesExplained
<1>5. CASE pc = "register" /\ UNCHANGED <<todo, trail>>
  <2>1. DecidedVersion(Len(trail))' = DecidedVersion(Len(trail))
    BY <1>5 DEF DecidedVersion
  <2> QED BY <1>5, <2>1 DEF ClausesExplained
<1>6. SeedRoot \/ Decide \/ RegisterDependency \/ (pc = "register" /\ UNCHANGED <<todo, trail>>)
  BY DEF Next, vars, Stop, AddRootDependency, RegisterDone, CheckBudget, PopChanged, ScanSkip,
     ScanDerive, ScanConflict, PropagationDone, DecideError, DecideNoVersions, DecideComplete,
     ResolveRootFailure, ResolveNoSatisfier, ResolveRootLevel, ResolveBackjump,
     ResolveNoCause, ResolveWithCause, MergeTerm, MergeDone, Done, NoSolution
<1> QED BY <1>2, <1>3, <1>4, <1>5, <1>6

\* No step adds a clause that is not explained, or waits for what the provider
\* did not answer.
LEMMA ClausesExplainedStep ==
  ASSUME Inv, ClausesExplained, TrailExplained, [Next]_vars
  PROVE  ClausesExplained'
<1>1. reg' = reg
  BY RegStep
<1>2. (\A c \in DOMAIN incs : Explained(reg, TermsIn(incs[c].terms)))'
  BY <1>1, ClausesStayExplained
<1>3. (pc = "merge" => Explained(reg, Collected))'
  BY <1>1, MergeStaysExplained DEF Collected
<1>4. (pc = "register" =>
         \A n \in DOMAIN todo :
           \E k \in DOMAIN Known(reg, trail[Len(trail)].pkg, DecidedVersion(Len(trail))) :
             todo[n] = Known(reg, trail[Len(trail)].pkg, DecidedVersion(Len(trail)))[k])'
  BY <1>1, WaitingStepped
<1> QED BY <1>2, <1>3, <1>4 DEF ClausesExplained

-----------------------------------------------------------------------------
(* The selection *)

\* What is known of a version's dependencies is what the provider answers.
LEMMA KnownDependencies ==
  ASSUME NEW r \in Registries, NEW p \in Packages, NEW v \in Version, NEW k \in DOMAIN Known(r, p, v)
  PROVE  /\ get_dependencies(r, p, v) # ProviderError
         /\ k \in DOMAIN get_dependencies(r, p, v)
         /\ Known(r, p, v)[k] = get_dependencies(r, p, v)[k]
         /\ Known(r, p, v)[k].pkg \in Packages /\ Known(r, p, v)[k].range \in PgVersionRange
         /\ ~Known(r, p, v)[k].range.is_empty
<1> DEFINE deps == get_dependencies(r, p, v)
<1>1. CASE deps = ProviderError
  BY <1>1 DEF Known
<1>2. CASE deps # ProviderError
  <2>1. deps \in Seq(Dependency) /\ \A n \in DOMAIN deps : ~deps[n].range.is_empty
    BY <1>2, ProviderAssumption
  <2>2. Known(r, p, v) = Truncate(deps, DependencyBuffer)
    BY <1>2 DEF Known
  <2> HIDE DEF deps
  <2>3. k \in DOMAIN deps /\ Truncate(deps, DependencyBuffer)[k] = deps[k]
    BY <2>1, <2>2, PubGrubAssumption DEF Truncate
  <2>4. deps[k] \in Dependency /\ ~deps[k].range.is_empty
    BY <2>1, <2>3
  <2> QED BY <1>2, <2>2, <2>3, <2>4 DEF Dependency, deps
<1> QED BY <1>1, <1>2

\* The selected versions honour every dependency that the solver has read.
LEMMA SolutionHonours ==
  ASSUME Inv, status = "OK"
  PROVE  Solution \in Selections /\ Honours(reg, Solution)
<1>0. TypeOK /\ reg \in Registries /\ Sound /\ trail \in Seq(Assignment) /\ pc = "done"
  BY DEF Inv, TypeOK, Sound, LoopShape
<1>1. DOMAIN Solution = {q \in Packages : Selected(q)}
  BY DEF Solution
<1>2. \A q \in DOMAIN Solution :
        q \in Packages /\ Solution[q] = SelectedVersion(q) /\ HasPositive(trail, q)
  BY DEF Solution, Selected, ExactPositives, HasPositive
<1>3. ASSUME NEW p \in DOMAIN Solution
      PROVE  \E i \in DOMAIN trail : \E v \in Version :
               /\ trail[i].pkg = p /\ trail[i].decided /\ trail[i].range = pg_range_exact(v)
               /\ Solution[p] = v /\ DecidedVersion(i) = v
  <2>1. p \in Packages /\ HasPositive(trail, p) /\ Solution[p] = SelectedVersion(p)
    BY <1>2
  <2>2. PICK i \in DOMAIN trail, v \in Version :
          /\ trail[i].pkg = p /\ trail[i].decided /\ trail[i].range = pg_range_exact(v)
          /\ Solution[p] = v
    BY <2>1, SelectedIsDecided
  <2>3. DecidedVersion(i) = v
    BY <2>2, ExactFacts DEF DecidedVersion
  <2> QED BY <2>2, <2>3
<1>4. Solution \in Selections
  <2>1. \A p \in DOMAIN Solution : Solution[p] \in Version
    BY <1>3
  <2>2. Solution = [q \in DOMAIN Solution |-> Solution[q]] /\ DOMAIN Solution \subseteq Packages
    BY <1>1 DEF Solution
  <2>3. Solution \in [DOMAIN Solution -> Version]
    BY <2>1, <2>2
  <2> QED BY <2>2, <2>3 DEF Selections
<1>5. ASSUME NEW p \in DOMAIN Solution, NEW k \in DOMAIN Known(reg, p, Solution[p])
      PROVE  LET dep == Known(reg, p, Solution[p])[k] IN
               dep.pkg \in DOMAIN Solution /\ pg_range_contains(dep.range, Solution[dep.pkg])
  <2> DEFINE dep == Known(reg, p, Solution[p])[k]
  <2>1. PICK i \in DOMAIN trail, v \in Version :
          /\ trail[i].pkg = p /\ trail[i].decided /\ trail[i].range = pg_range_exact(v)
          /\ Solution[p] = v /\ DecidedVersion(i) = v
    BY <1>3
  <2>2. /\ get_dependencies(reg, p, v) # ProviderError
        /\ dep.pkg \in Packages /\ dep.range \in PgVersionRange /\ ~dep.range.is_empty
    BY <1>0, <1>2, <2>1, KnownDependencies
  <2>3. k \in DOMAIN DependenciesOf(i) /\ dep = DependenciesOf(i)[k]
    BY <2>1, <2>2 DEF DependenciesOf, Known
  <2> HIDE DEF dep
  <2>4. HasPositive(trail, dep.pkg) /\ pg_range_subset(PositiveRange(trail, dep.pkg), dep.range)
    BY <2>1, <2>3, DependencySelected
  <2>5. PICK w \in Version : /\ PositiveRange(trail, dep.pkg) = pg_range_exact(w)
                             /\ Selected(dep.pkg) /\ SelectedVersion(dep.pkg) = w
    BY <2>2, <2>4, SelectedIsDecided
  <2>6. pg_range_contains(dep.range, w)
    <3>1. pg_range_contains(pg_range_exact(w), w) /\ pg_range_exact(w) \in PgVersionRange
      BY ExactContains, ExactType
    <3> QED BY <2>2, <2>4, <2>5, <3>1, SubsetIsSound
  <2>7. dep.pkg \in DOMAIN Solution /\ Solution[dep.pkg] = w
    BY <1>1, <1>2, <2>2, <2>5
  <2> QED BY <2>6, <2>7 DEF dep
<1>6. Honours(reg, Solution)
  BY <1>5 DEF Honours
<1> QED BY <1>4, <1>6

\* Looking back from its first assignment, a selected package is the root's, the
\* caller's, or some selected version's dependency.
LEMMA SelectedIsNeeded ==
  ASSUME Inv, ClausesExplained, TrailExplained PROVE SelectionNeeded
<1> SUFFICES ASSUME status = "OK", NEW p \in DOMAIN Solution \ {Root}
             PROVE  \/ \E i \in DOMAIN trail : trail[i].level = 0 /\ trail[i].pkg = p
                    \/ \E q \in DOMAIN Solution :
                         \E k \in DOMAIN get_dependencies(reg, q, Solution[q]) :
                           get_dependencies(reg, q, Solution[q])[k].pkg = p
  BY DEF SelectionNeeded
<1>0. /\ Sound /\ TypeOK /\ reg \in Registries /\ trail \in Seq(Assignment) /\ Len(trail) \in Nat
      /\ incs \in Seq(Incompatibility) /\ Narrows(trail)
      /\ \A i \in DOMAIN trail : DecidedLater(trail, i) /\ CauseOf(trail, i, incs)
  BY DEF Inv, TypeOK, Sound, TrailExplained
<1>1. p \in Packages /\ Positives(trail, p) # {}
  BY DEF Solution, Selected, ExactPositives
<1> DEFINE i == Min(Positives(trail, p))
<1>2. i \in Positives(trail, p) /\ \A j \in Positives(trail, p) : i <= j
  <2>1. Positives(trail, p) \in SUBSET Nat
    BY <1>0 DEF Positives
  <2> QED BY <1>1, <2>1, MinOfNaturals
<1>3. i \in DOMAIN trail /\ trail[i].pkg = p /\ trail[i].positive
  BY <1>2 DEF Positives
<1> HIDE DEF i
<1>4. CASE trail[i].cause = 0
  <2>1. trail[i].decided \/ trail[i].level = 0
    BY <1>0, <1>3, <1>4 DEF CauseOf
  <2>2. ASSUME trail[i].decided PROVE FALSE
    <3>1. PICK j \in 1 .. i - 1 : trail[j].positive /\ trail[j].pkg = p
      BY <1>0, <1>3, <2>2 DEF DecidedLater
    <3>2. j \in Positives(trail, p) /\ j < i
      BY <1>0, <1>3, <3>1 DEF Positives
    <3> QED BY <1>0, <1>2, <1>3, <3>2
  <2> QED BY <1>3, <2>1, <2>2
<1>5. CASE trail[i].cause # 0
  <2> DEFINE terms == incs[trail[i].cause].terms
  <2>1. trail[i].cause \in DOMAIN incs /\ DerivedFrom(trail, i, terms)
    BY <1>0, <1>3, <1>5 DEF CauseOf
  <2>2. terms \in Seq(Term) /\ Explained(reg, TermsIn(terms))
    <3>1. incs[trail[i].cause] \in Incompatibility
      BY <1>0, <2>1
    <3> QED BY <2>1, <3>1 DEF Incompatibility, ClausesExplained
  <2> HIDE DEF terms
  <2>3. PICK s \in TermsIn(terms), t \in TermsIn(terms) :
          /\ TermsIn(terms) = {s, t} /\ s.positive /\ ~t.positive /\ t.pkg = p
          /\ \E m \in 1 .. i - 1 : /\ trail[m].positive /\ trail[m].pkg = s.pkg
                                   /\ pg_range_subset(trail[m].acc, s.range)
    BY <1>3, <2>1 DEF DerivedFrom
  <2>4. PICK m \in 1 .. i - 1 : /\ trail[m].positive /\ trail[m].pkg = s.pkg
                                /\ pg_range_subset(trail[m].acc, s.range)
    BY <2>3
  <2>5. Requires(reg, s, t)
    BY <2>2, <2>3 DEF Explained, Requires
  <2>6. s \in Term
    BY <2>2 DEF TermsIn
  <2>7. s.pkg \in Packages /\ s.range \in PgVersionRange /\ ~s.range.is_empty
    BY <2>5, <2>6, ExactFacts DEF Term, Requires
  <2> DEFINE q == s.pkg
             n == Max(Positives(trail, q))
  <2>8. m \in Positives(trail, q) /\ HasPositive(trail, q)
    BY <1>0, <1>3, <2>4 DEF Positives, HasPositive
  <2>9. n \in Positives(trail, q) /\ m <= n
    BY <1>0, <2>8, PositivesMax
  <2>10. PICK u \in Version : /\ PositiveRange(trail, q) = pg_range_exact(u)
                              /\ Selected(q) /\ SelectedVersion(q) = u
    BY <2>7, <2>8, SelectedIsDecided
  <2>11. pg_range_subset(pg_range_exact(u), s.range)
    <3>1. /\ n \in DOMAIN trail /\ trail[n].positive /\ trail[n].pkg = q /\ m \in 1 .. n
          /\ trail[n].acc = pg_range_exact(u)
      BY <1>0, <2>4, <2>9, <2>10 DEF Positives, PositiveRange
    <3> HIDE DEF n
    <3>2. pg_range_subset(trail[n].acc, s.range)
      BY <1>0, <2>4, <2>7, <3>1 DEF Narrows
    <3> QED BY <3>1, <3>2
  <2>12. pg_range_contains(s.range, u)
    <3>1. pg_range_contains(pg_range_exact(u), u) /\ pg_range_exact(u) \in PgVersionRange
      BY ExactContains, ExactType
    <3> QED BY <2>7, <2>11, <3>1, SubsetIsSound
  <2>13. Chooses(Solution, s)
    BY <2>7, <2>10, <2>12 DEF Chooses, Solution
  <2>14. Depended(reg, Solution, p)
    BY <2>3, <2>5, <2>13, SolutionHonours DEF Requires, Entails
  <2>15. PICK r \in DOMAIN Solution :
            \E k \in DOMAIN Known(reg, r, Solution[r]) : Known(reg, r, Solution[r])[k].pkg = p
    BY <2>14 DEF Depended
  <2>17. PICK k \in DOMAIN Known(reg, r, Solution[r]) : Known(reg, r, Solution[r])[k].pkg = p
    BY <2>15
  <2>16. r \in Packages /\ Solution[r] \in Version
    <3>1. Solution \in Selections
      BY SolutionHonours
    <3> QED BY <3>1 DEF Selections
  <2> QED BY <1>0, <2>15, <2>16, <2>17, KnownDependencies
<1> QED BY <1>4, <1>5

\* Nothing is selected without a reason: for every provider and every order of
\* learning and backjumping, each version of a solution is the root, what the
\* caller required, or a dependency of another version of the solution.  The
\* clauses learned on the way may forbid too much, but each that requires a
\* package chains dependencies.
THEOREM SelectionIsNeeded == Spec => []SelectionNeeded
<1>1. Init => ClausesExplained /\ TrailExplained
  BY DEF Init, ClausesExplained, TrailExplained, Narrows
<1>2. Inv /\ ClausesExplained /\ TrailExplained /\ [Next]_vars
        => ClausesExplained' /\ TrailExplained'
  BY ClausesExplainedStep, TrailExplainedStep
<1>3. Inv /\ ClausesExplained /\ TrailExplained => SelectionNeeded
  BY SelectedIsNeeded
<1> QED BY <1>1, <1>2, <1>3, Invariance, PTL DEF Spec
=============================================================================
