------------------------------ MODULE PubGrub ------------------------------
(***************************************************************************)
(* The dependency solver of elm-wrap (src/pgsolver/pg_core.c): unit        *)
(* propagation over a stack of changed packages, decisions, conflict       *)
(* resolution with learned incompatibilities, and backjumping.             *)
(*                                                                         *)
(* The solver is one thread, so its loops are cut into one step per        *)
(* incompatibility scanned, dependency registered or clause resolved.      *)
(* Pointers to incompatibilities are indices into incs; the cause of an    *)
(* assignment is such an index, or 0 for NULL.                             *)
(***************************************************************************)
EXTENDS VersionRange, Sequences, FiniteSetsExt

CONSTANTS
  Packages,            \* package ids, small naturals
  Root,                \* root_pkg
  RootVersion,         \* root_version
  Registries,          \* the package universes a provider may stand for
  get_versions(_, _),  \* the provider: the versions of a package, newest
                       \* first, and the dependencies of a version; each may
  get_dependencies(_, _, _), \* answer ProviderError instead (-1 in the code)
  ProviderError,
  RootRequirements,    \* pairs <<package, range>> for add_root_dependency
  MaxRootRequirements, \* how often it is called before solving
  DependencyBuffer,    \* PG_DEPENDENCY_BUFFER
  VersionBuffer,       \* PG_DECISION_VERSION_BUFFER
  MaxDecisions, MaxPropagations, MaxConflicts, MaxPackages, MaxTrail,
  MaxIncompatibilities \* the PG_MAX_* budgets

VARIABLES
  reg,            \* the provider: fixed while the solver runs
  pc,             \* where pg_solver_solve stands
  status,         \* its result
  trail,          \* the assignments, oldest first
  incs,           \* every incompatibility tracked so far
  lists,          \* pkg_incompat_lists
  changed,        \* the stack of packages whose assignments changed
  scan,           \* the package popped from it and the list index reached
  todo,           \* dependencies of the last decision still to register
  level,          \* current_decision_level
  conflict,       \* the incompatibility being resolved, 0 if none
  merge,          \* resolve_with: terms still to copy, terms copied, causes
  root_incompatibility,
  decisions, propagations, conflicts     \* stats_*

vars == <<reg, pc, status, trail, incs, lists, changed, scan, todo, level,
          conflict, merge, root_incompatibility, decisions, propagations,
          conflicts>>

Dependency == [pkg : Packages, range : PgVersionRange]

Term == [pkg : Packages, range : PgVersionRange, positive : BOOLEAN]

Reason == {"DEPENDENCY", "NO_VERSIONS", "INTERNAL"}

Incompatibility ==
  [terms : Seq(Term), reason : Reason, causes : Seq(Nat), attached : BOOLEAN]

NoIncompatibility ==
  [terms |-> << >>, reason |-> "INTERNAL", causes |-> << >>, attached |-> FALSE]

NoMerge == [elim |-> Root, cause |-> 0, from |-> << >>, into |-> << >>]

\* acc is what pg_solver_compute_positive_range finds for pkg on the trail up
\* to and including a positive assignment: the ranges so far, intersected in
\* trail order.  Popping assignments restores it, as recomputing it does.
Assignment == [pkg : Packages, range : PgVersionRange, positive : BOOLEAN,
               decided : BOOLEAN, level : Nat, cause : Nat,
               acc : PgVersionRange]

ASSUME PubGrubAssumption ==
  /\ Packages \subseteq Nat /\ Root \in Packages /\ RootVersion \in Version
  /\ RootRequirements \subseteq (Packages \ {Root}) \X PgVersionRange
  /\ DependencyBuffer \in Nat /\ VersionBuffer \in Nat
  /\ MaxRootRequirements \in Nat
  /\ MaxDecisions \in Nat /\ MaxPropagations \in Nat /\ MaxConflicts \in Nat
  /\ MaxPackages \in Nat /\ MaxTrail \in Nat /\ MaxIncompatibilities \in Nat

\* The providers answer well-typed values, and no constraint they parse is
\* flagged empty (version_parse_constraint, pg_elm_add_root_dependency).
ASSUME ProviderAssumption ==
  \A r \in Registries : \A p \in Packages :
    /\ get_versions(r, p) \in Seq(Version) \cup {ProviderError}
    /\ \A v \in Version :
         /\ get_dependencies(r, p, v) \in Seq(Dependency) \cup {ProviderError}
         /\ get_dependencies(r, p, v) # ProviderError =>
              \A k \in DOMAIN get_dependencies(r, p, v) :
                ~get_dependencies(r, p, v)[k].range.is_empty

-----------------------------------------------------------------------------
(* The trail *)

Positives(tr, p) == {i \in DOMAIN tr : tr[i].pkg = p /\ tr[i].positive}

HasPositive(tr, p) == Positives(tr, p) # {}

PositiveRange(tr, p) == tr[Max(Positives(tr, p))].acc

Accumulate(tr, p, range) ==
  IF HasPositive(tr, p) THEN pg_range_intersect(PositiveRange(tr, p), range)
                        ELSE range

assignment(tr, p, range, positive, decided, lvl, cause) ==
  [pkg |-> p, range |-> range, positive |-> positive, decided |-> decided,
   level |-> lvl, cause |-> cause,
   acc |-> IF positive THEN Accumulate(tr, p, range) ELSE range]

\* Fault: any exact range on the trail passes for a decision.
HasDecisionIfExact(tr, p) ==
  \E i \in DOMAIN tr : /\ tr[i].pkg = p /\ tr[i].positive
                       /\ pg_range_is_exact(tr[i].range)

\* PgPkgState.has_decision: set by push_assignment, rebuilt by backtracking.
HasDecision(tr, p) ==
  \E i \in DOMAIN tr : /\ tr[i].pkg = p /\ tr[i].decided /\ tr[i].positive
                       /\ pg_range_is_exact(tr[i].range)

\* A negative assignment that overlaps a positive term.
Forbids(tr, t) ==
  \E i \in DOMAIN tr :
    /\ tr[i].pkg = t.pkg /\ ~tr[i].positive
    /\ ~pg_range_intersect(t.range, tr[i].range).is_empty

Satisfied(tr, t) ==
  /\ HasPositive(tr, t.pkg)
  /\ IF t.positive
     THEN pg_range_subset(PositiveRange(tr, t.pkg), t.range)
     ELSE pg_range_intersect(PositiveRange(tr, t.pkg), t.range).is_empty

Contradicted(tr, t) ==
  /\ ~Satisfied(tr, t)
  /\ IF t.positive
     THEN \/ Forbids(tr, t)
          \/ /\ HasPositive(tr, t.pkg)
             /\ pg_range_intersect(PositiveRange(tr, t.pkg), t.range).is_empty
     ELSE /\ HasPositive(tr, t.pkg)
          /\ pg_range_subset(PositiveRange(tr, t.pkg), t.range)

Inconclusive(tr, t) == ~Satisfied(tr, t) /\ ~Contradicted(tr, t)

-----------------------------------------------------------------------------
(* Adding incompatibilities *)

PkgsOf(terms) == [k \in DOMAIN terms |-> terms[k].pkg]

\* One entry per term: a package with two terms lists the clause twice.
AttachedLists(ls, id, terms) ==
  [p \in Packages |->
     ls[p] \o [j \in 1 .. Cardinality({k \in DOMAIN terms : terms[k].pkg = p})
                 |-> id]]

pg_solver_add_incompatibility(terms, reason) ==
  /\ incs' = Append(incs, [terms |-> terms, reason |-> reason,
                           causes |-> << >>, attached |-> TRUE])
  /\ lists' = AttachedLists(lists, Len(incs) + 1, terms)

DependencyTerms(decision, dep) ==
  << [pkg |-> decision.pkg, range |-> decision.range, positive |-> TRUE],
     [pkg |-> dep.pkg, range |-> dep.range, positive |-> FALSE] >>

Truncate(s, capacity) ==
  SubSeq(s, 1, IF Len(s) < capacity THEN Len(s) ELSE capacity)

-----------------------------------------------------------------------------
Init ==
  /\ reg \in Registries
  /\ pc = "new" /\ status = "RUNNING"
  /\ trail = << >> /\ incs = << >> /\ lists = [p \in Packages |-> << >>]
  /\ changed = << >> /\ scan = [pkg |-> Root, idx |-> 0] /\ todo = << >>
  /\ level = 0 /\ conflict = 0 /\ merge = NoMerge
  /\ root_incompatibility = NoIncompatibility
  /\ decisions = 0 /\ propagations = 0 /\ conflicts = 0

Stop(result) == pc' = "done" /\ status' = result

\* Fault: contradicting requirements are accepted.
AddRootDependencyUnchecked(p, range) ==
  /\ pc = "new" /\ Len(trail) < MaxRootRequirements
  /\ trail' = Append(trail, assignment(trail, p, range, TRUE, FALSE, 0, 0))
  /\ changed' = Append(changed, p)
  /\ UNCHANGED <<reg, pc, status, incs, lists, scan, todo, level, conflict,
                 merge, root_incompatibility, decisions, propagations,
                 conflicts>>

\* pg_solver_add_root_dependency: a range that contradicts what is already
\* required is refused and leaves nothing behind.
AddRootDependency(p, range) ==
  /\ pc = "new" /\ Len(trail) < MaxRootRequirements
  /\ HasPositive(trail, p) =>
       ~pg_range_intersect(PositiveRange(trail, p), range).is_empty
  /\ trail' = Append(trail, assignment(trail, p, range, TRUE, FALSE, 0, 0))
  /\ changed' = Append(changed, p)
  /\ UNCHANGED <<reg, pc, status, incs, lists, scan, todo, level, conflict,
                 merge, root_incompatibility, decisions, propagations,
                 conflicts>>

\* Pushes a decision and asks the provider for its dependencies.
PushDecision(p, v, lvl) ==
  /\ trail' = Append(trail, assignment(trail, p, pg_range_exact(v), TRUE, TRUE,
                                       lvl, 0))
  /\ changed' = Append(changed, p)
  /\ IF get_dependencies(reg, p, v) = ProviderError
     THEN Stop("INTERNAL_ERROR") /\ UNCHANGED todo
     ELSE /\ todo' = Truncate(get_dependencies(reg, p, v), DependencyBuffer)
          /\ pc' = "register" /\ UNCHANGED status

SeedRoot ==
  /\ pc = "new"
  /\ PushDecision(Root, RootVersion, 1)
  /\ level' = IF pc' = "done" THEN level ELSE 1
  /\ UNCHANGED <<reg, incs, lists, scan, conflict, merge,
                 root_incompatibility, decisions, propagations, conflicts>>

\* pg_solver_register_dependencies, one dependency at a time.
RegisterDependency ==
  /\ pc = "register" /\ todo # << >>
  /\ LET terms == DependencyTerms(trail[Len(trail)], Head(todo)) IN
       /\ pg_solver_add_incompatibility(terms, "DEPENDENCY")
       /\ changed' = changed \o PkgsOf(terms)
  /\ todo' = Tail(todo)
  /\ UNCHANGED <<reg, pc, status, trail, scan, level, conflict, merge,
                 root_incompatibility, decisions, propagations, conflicts>>

RegisterDone ==
  /\ pc = "register" /\ todo = << >>
  /\ pc' = "loop"
  /\ UNCHANGED <<reg, status, trail, incs, lists, changed, scan, todo, level,
                 conflict, merge, root_incompatibility, decisions,
                 propagations, conflicts>>

\* pg_solver_ensure_pkg_state sizes the array for the first package pushed and
\* doubles it until every package pushed or attached since then fits.
PkgStateCapacity ==
  LET seen == {trail[i].pkg : i \in DOMAIN trail}
                \cup {p \in Packages : lists[p] # << >>}
  IN Min({n \in {(trail[1].pkg + 1) * 2^k : k \in 0 .. Max(seen)} : n > Max(seen)})

\* Some budget of pg_solver_budget_check is used up.
OverBudget ==
  \/ decisions >= MaxDecisions
  \/ propagations >= MaxPropagations
  \/ conflicts >= MaxConflicts
  \/ PkgStateCapacity > MaxPackages
  \/ Len(trail) > MaxTrail
  \/ Len(incs) > MaxIncompatibilities

CheckBudget ==
  /\ pc = "loop"
  /\ IF OverBudget THEN Stop("BUDGET_EXCEEDED")
                   ELSE pc' = "propagate" /\ UNCHANGED status
  /\ UNCHANGED <<reg, trail, incs, lists, changed, scan, todo, level,
                 conflict, merge, root_incompatibility, decisions,
                 propagations, conflicts>>

-----------------------------------------------------------------------------
(* Unit propagation *)

\* Fault: the countdown starts one past the end of the list.
PopChangedPastEnd ==
  /\ pc = "propagate" /\ scan.idx = 0 /\ changed # << >>
  /\ LET p == changed[Len(changed)] IN
       scan' = [pkg |-> p, idx |-> Len(lists[p]) + 1]
  /\ changed' = SubSeq(changed, 1, Len(changed) - 1)
  /\ UNCHANGED <<reg, pc, status, trail, incs, lists, todo, level, conflict,
                 merge, root_incompatibility, decisions, propagations,
                 conflicts>>

PopChanged ==
  /\ pc = "propagate" /\ scan.idx = 0 /\ changed # << >>
  /\ LET p == changed[Len(changed)] IN
       scan' = [pkg |-> p, idx |-> Len(lists[p])]
  /\ changed' = SubSeq(changed, 1, Len(changed) - 1)
  /\ UNCHANGED <<reg, pc, status, trail, incs, lists, todo, level, conflict,
                 merge, root_incompatibility, decisions, propagations,
                 conflicts>>

ScannedInc == lists[scan.pkg][scan.idx]

AllSatisfied(tr, terms) == \A k \in DOMAIN terms : Satisfied(tr, terms[k])

\* Every term but the k-th is satisfied and the k-th is inconclusive.
UnitAt(tr, terms, k) ==
  /\ Inconclusive(tr, terms[k])
  /\ \A j \in DOMAIN terms \ {k} : Satisfied(tr, terms[j])

\* Fault: skipping a clause skips the countdown too.
ScanSkipForever ==
  LET terms == incs[ScannedInc].terms IN
  /\ pc = "propagate" /\ scan.idx > 0
  /\ ~AllSatisfied(trail, terms)
  /\ \A k \in DOMAIN terms : ~UnitAt(trail, terms, k)
  /\ UNCHANGED vars

ScanSkip ==
  LET terms == incs[ScannedInc].terms IN
  /\ pc = "propagate" /\ scan.idx > 0
  /\ ~AllSatisfied(trail, terms)
  /\ \A k \in DOMAIN terms : ~UnitAt(trail, terms, k)
  /\ scan' = [scan EXCEPT !.idx = @ - 1]
  /\ UNCHANGED <<reg, pc, status, trail, incs, lists, changed, todo, level,
                 conflict, merge, root_incompatibility, decisions,
                 propagations, conflicts>>

ScanDerive ==
  LET terms == incs[ScannedInc].terms IN
  /\ pc = "propagate" /\ scan.idx > 0
  /\ \E k \in DOMAIN terms :
       /\ UnitAt(trail, terms, k)
       /\ trail' = Append(trail,
                     assignment(trail, terms[k].pkg, terms[k].range,
                                ~terms[k].positive, FALSE, level, ScannedInc))
       /\ changed' = Append(changed, terms[k].pkg)
  /\ scan' = [scan EXCEPT !.idx = @ - 1]
  /\ UNCHANGED <<reg, pc, status, incs, lists, todo, level, conflict, merge,
                 root_incompatibility, decisions, propagations, conflicts>>

\* The rest of the changed stack stays for the next propagation.
ScanConflict ==
  LET terms == incs[ScannedInc].terms IN
  /\ pc = "propagate" /\ scan.idx > 0
  /\ AllSatisfied(trail, terms)
  /\ conflict' = ScannedInc
  /\ scan' = [scan EXCEPT !.idx = 0]
  /\ propagations' = propagations + 1
  /\ conflicts' = conflicts + 1
  /\ pc' = "resolve"
  /\ UNCHANGED <<reg, status, trail, incs, lists, changed, todo, level, merge,
                 root_incompatibility, decisions>>

PropagationDone ==
  /\ pc = "propagate" /\ scan.idx = 0 /\ changed = << >>
  /\ propagations' = propagations + 1
  /\ pc' = "decide"
  /\ UNCHANGED <<reg, status, trail, incs, lists, changed, scan, todo, level,
                 conflict, merge, root_incompatibility, decisions, conflicts>>

-----------------------------------------------------------------------------
(* Decisions *)

version_is_forbidden(p, v) ==
  \E i \in DOMAIN trail : /\ trail[i].pkg = p /\ ~trail[i].positive
                          /\ pg_range_contains(trail[i].range, v)

\* Choosing v would satisfy every term of some clause listed for p.
version_would_conflict(p, v) ==
  \E j \in DOMAIN lists[p] :
    \A k \in DOMAIN incs[lists[p][j]].terms :
      LET t == incs[lists[p][j]].terms[k] IN
        IF t.pkg = p THEN pg_range_contains(t.range, v) <=> t.positive
                     ELSE Satisfied(trail, t)

VersionsOf(p) == Truncate(get_versions(reg, p), VersionBuffer)

\* The positions in the provider's list that pg_solver_evaluate_candidate
\* counts as available.
Candidates(p) ==
  {i \in DOMAIN VersionsOf(p) :
     LET v == VersionsOf(p)[i] IN
       /\ pg_range_contains(PositiveRange(trail, p), v)
       /\ ~version_is_forbidden(p, v)
       /\ ~version_would_conflict(p, v)}

\* Fault: only packages with a derived assignment are considered.
UndecidedDerived ==
  {p \in Packages \ {Root} :
     /\ HasPositive(trail, p) /\ ~HasDecision(trail, p)
     /\ \E i \in Positives(trail, p) : trail[i].cause # 0}

\* The packages pg_make_decision considers.
Undecided ==
  {p \in Packages \ {Root} : HasPositive(trail, p) /\ ~HasDecision(trail, p)}

\* compute_positive_range or get_versions fails for p.
Unevaluable(p) ==
  PositiveRange(trail, p).is_empty \/ get_versions(reg, p) = ProviderError

\* The loop over the packages ends early at the first of these.
Stuck(p) == Unevaluable(p) \/ Candidates(p) = {}

DecideError ==
  /\ pc = "decide"
  /\ \E p \in Undecided :
       /\ Unevaluable(p)
       /\ \A q \in Undecided : q < p => ~Stuck(q)
  /\ Stop("INTERNAL_ERROR")
  /\ UNCHANGED <<reg, trail, incs, lists, changed, scan, todo, level,
                 conflict, merge, root_incompatibility, decisions,
                 propagations, conflicts>>

\* No version left: a NO_VERSIONS clause on the required range alone.
DecideNoVersions ==
  /\ pc = "decide"
  /\ \E p \in Undecided :
       LET terms == << [pkg |-> p, range |-> PositiveRange(trail, p),
                        positive |-> TRUE] >> IN
       /\ ~Unevaluable(p) /\ Candidates(p) = {}
       /\ \A q \in Undecided : q < p => ~Stuck(q)
       /\ pg_solver_add_incompatibility(terms, "NO_VERSIONS")
       /\ changed' = changed \o PkgsOf(terms)
  /\ conflict' = Len(incs) + 1
  /\ conflicts' = conflicts + 1
  /\ pc' = "resolve"
  /\ UNCHANGED <<reg, status, trail, scan, todo, level, merge,
                 root_incompatibility, decisions, propagations>>

\* p has the fewest available versions, and the lowest id among those.
Preferred(p) ==
  \A q \in Undecided :
    \/ Cardinality(Candidates(p)) < Cardinality(Candidates(q))
    \/ Cardinality(Candidates(p)) = Cardinality(Candidates(q)) /\ p <= q

Decide ==
  /\ pc = "decide"
  /\ \A q \in Undecided : ~Stuck(q)
  /\ \E p \in Undecided :
       /\ Preferred(p)
       /\ PushDecision(p, VersionsOf(p)[Min(Candidates(p))], level + 1)
       /\ level' = IF pc' = "done" THEN level ELSE level + 1
       /\ decisions' = IF pc' = "done" THEN decisions ELSE decisions + 1
  /\ UNCHANGED <<reg, incs, lists, scan, conflict, merge,
                 root_incompatibility, propagations, conflicts>>

DecideComplete ==
  /\ pc = "decide" /\ Undecided = {}
  /\ Stop("OK")
  /\ UNCHANGED <<reg, trail, incs, lists, changed, scan, todo, level,
                 conflict, merge, root_incompatibility, decisions,
                 propagations, conflicts>>

-----------------------------------------------------------------------------
(* Conflict resolution *)

\* pg_assignment_satisfies_term: one assignment alone satisfies the term.
AssignmentSatisfies(a, t) ==
  /\ a.pkg = t.pkg
  /\ IF t.positive
     THEN a.positive /\ pg_range_subset(a.range, t.range)
     ELSE IF a.positive
          THEN pg_range_intersect(a.range, t.range).is_empty
          ELSE pg_range_subset(t.range, a.range)

SatisfiersOf(t) == {i \in DOMAIN trail : AssignmentSatisfies(trail[i], t)}

HasSatisfier(terms) == \A k \in DOMAIN terms : SatisfiersOf(terms[k]) # {}

\* The first trail position by which every term has a satisfier of its own.
SatisfierIndex(terms) ==
  Max({Min(SatisfiersOf(terms[k])) : k \in DOMAIN terms})

\* The first term that this position is the first to satisfy.
SatisfiedTerm(terms) ==
  Min({k \in DOMAIN terms :
         Min(SatisfiersOf(terms[k])) = SatisfierIndex(terms)})

\* The highest level among the latest satisfiers of other packages' terms.
PreviousLevel(terms, skip) ==
  Max({0} \cup {trail[Max(SatisfiersOf(terms[k]))].level :
                  k \in {j \in DOMAIN terms : /\ terms[j].pkg # skip
                                              /\ SatisfiersOf(terms[j]) # {}}})

is_root_failure(terms) ==
  \/ terms = << >>
  \/ Len(terms) = 1 /\ terms[1].positive /\ terms[1].pkg = Root

Current == incs[conflict]
Satisfier == trail[SatisfierIndex(Current.terms)]
BackjumpLevel == PreviousLevel(Current.terms, Satisfier.pkg)

\* The loop of pg_resolve_conflict stops here with a clause to learn.
Learns == Satisfier.decided \/ BackjumpLevel = Satisfier.level

NoSolution(inc) ==
  /\ Stop("NO_SOLUTION")
  /\ root_incompatibility' = inc
  /\ UNCHANGED <<reg, trail, incs, lists, changed, scan, todo, level,
                 conflict, merge, decisions, propagations, conflicts>>

ResolveRootFailure ==
  /\ pc = "resolve" /\ is_root_failure(Current.terms)
  /\ NoSolution(Current)

ResolveNoSatisfier ==
  /\ pc = "resolve" /\ ~is_root_failure(Current.terms)
  /\ ~HasSatisfier(Current.terms)
  /\ NoSolution(root_incompatibility)

ResolveRootLevel ==
  /\ pc = "resolve" /\ ~is_root_failure(Current.terms)
  /\ HasSatisfier(Current.terms)
  /\ Learns /\ BackjumpLevel < 1
  /\ NoSolution(Current)

\* Fault: one assignment too few is popped.
KeptOneMore(tr, lvl) ==
  SubSeq(tr, 1, Min({Len(tr),
                     1 + Max({0} \cup {i \in DOMAIN tr : tr[i].level <= lvl})}))

\* Fault: only decisions are popped; what they led to stays.
KeptDerived(tr, lvl) ==
  SelectSeq(tr, LAMBDA a : a.level <= lvl \/ ~a.decided)

\* Fault: the requirements below the first decision are not carried over.
KeptDecided(tr, lvl) ==
  SelectSeq(tr, LAMBDA a : a.level \in 1 .. lvl)

\* What pg_solver_backtrack_to_level keeps: the trail up to the last
\* assignment whose level does not exceed the target.
Kept(tr, lvl) ==
  SubSeq(tr, 1, Max({0} \cup {i \in DOMAIN tr : tr[i].level <= lvl}))

\* Fault: the changed stack is emptied and not rebuilt.
ResolveBackjumpQuietly ==
  /\ pc = "resolve" /\ ~is_root_failure(Current.terms)
  /\ HasSatisfier(Current.terms)
  /\ Learns /\ BackjumpLevel >= 1
  /\ incs' = [incs EXCEPT ![conflict].attached = TRUE]
  /\ lists' = IF Current.attached THEN lists
              ELSE AttachedLists(lists, conflict, Current.terms)
  /\ trail' = Kept(trail, BackjumpLevel)
  /\ level' = BackjumpLevel
  /\ changed' = << >>
  /\ conflict' = 0
  /\ pc' = "loop"
  /\ UNCHANGED <<reg, status, scan, merge, todo, root_incompatibility,
                 decisions, propagations, conflicts>>

\* Attach the learned clause unless it is attached already, and backjump; the
\* changed stack is rebuilt from the trail that remains.
ResolveBackjump ==
  /\ pc = "resolve" /\ ~is_root_failure(Current.terms)
  /\ HasSatisfier(Current.terms)
  /\ Learns /\ BackjumpLevel >= 1
  /\ incs' = [incs EXCEPT ![conflict].attached = TRUE]
  /\ lists' = IF Current.attached THEN lists
              ELSE AttachedLists(lists, conflict, Current.terms)
  /\ trail' = Kept(trail, BackjumpLevel)
  /\ level' = BackjumpLevel
  /\ changed' = PkgsOf(Kept(trail, BackjumpLevel))
  /\ conflict' = 0
  /\ pc' = "loop"
  /\ UNCHANGED <<reg, status, scan, merge, todo, root_incompatibility,
                 decisions, propagations, conflicts>>

RemoveTerm(terms, k) ==
  SubSeq(terms, 1, k - 1) \o SubSeq(terms, k + 1, Len(terms))

\* The satisfier is a root requirement: the clause without it explains the
\* failure.  (A decision, the other assignment without a cause, has stopped
\* the loop already.)
ResolveNoCause ==
  /\ pc = "resolve" /\ ~is_root_failure(Current.terms)
  /\ HasSatisfier(Current.terms)
  /\ ~Learns /\ Satisfier.cause = 0
  /\ NoSolution(
       IF Satisfier.level = 0
       THEN [terms |-> RemoveTerm(Current.terms, SatisfiedTerm(Current.terms)),
             reason |-> "INTERNAL", causes |-> <<conflict>>, attached |-> FALSE]
       ELSE Current)

\* pg_incompatibility_resolve_with, one term at a time: the terms of the clause
\* and of the satisfier's cause, except every term of the eliminated package.
ResolveWithCause ==
  /\ pc = "resolve" /\ ~is_root_failure(Current.terms)
  /\ HasSatisfier(Current.terms)
  /\ ~Learns /\ Satisfier.cause # 0
  /\ merge' = [elim |-> Satisfier.pkg, cause |-> Satisfier.cause,
               from |-> Current.terms \o incs[Satisfier.cause].terms,
               into |-> << >>]
  /\ pc' = "merge"
  /\ UNCHANGED <<reg, status, trail, incs, lists, changed, scan, todo, level,
                 conflict, root_incompatibility, decisions, propagations,
                 conflicts>>

MergeTerm ==
  /\ pc = "merge" /\ merge.from # << >>
  /\ merge' = [merge EXCEPT
       !.from = Tail(@),
       !.into = IF Head(merge.from).pkg = merge.elim THEN @
                ELSE Append(@, Head(merge.from))]
  /\ UNCHANGED <<reg, pc, status, trail, incs, lists, changed, scan, todo,
                 level, conflict, root_incompatibility, decisions,
                 propagations, conflicts>>

MergeDone ==
  /\ pc = "merge" /\ merge.from = << >>
  /\ incs' = Append(incs, [terms |-> merge.into, reason |-> "INTERNAL",
                           causes |-> <<conflict, merge.cause>>,
                           attached |-> FALSE])
  /\ conflict' = Len(incs) + 1
  /\ merge' = NoMerge
  /\ pc' = "resolve"
  /\ UNCHANGED <<reg, status, trail, lists, changed, scan, todo, level,
                 root_incompatibility, decisions, propagations, conflicts>>

\* pg_solver_solve has returned; its callers read the result and free it.
Done == pc = "done" /\ UNCHANGED vars

Next ==
  \/ \E req \in RootRequirements : AddRootDependency(req[1], req[2])
  \/ SeedRoot \/ RegisterDependency \/ RegisterDone \/ CheckBudget
  \/ PopChanged \/ ScanSkip \/ ScanDerive \/ ScanConflict \/ PropagationDone
  \/ DecideError \/ DecideNoVersions \/ Decide \/ DecideComplete
  \/ ResolveRootFailure \/ ResolveNoSatisfier \/ ResolveRootLevel
  \/ ResolveBackjump \/ ResolveNoCause \/ ResolveWithCause
  \/ MergeTerm \/ MergeDone
  \/ Done

Spec == Init /\ [][Next]_vars

\* One thread runs the loop and nothing in it blocks.
FairSpec == Spec /\ WF_vars(SeedRoot) /\ WF_vars(pc # "new" /\ Next)

-----------------------------------------------------------------------------
(* The result *)

\* pg_solver_get_selected_version: the first exact positive assignment.
ExactPositives(p) ==
  {i \in Positives(trail, p) : pg_range_is_exact(trail[i].range)}

Selected(p) == ExactPositives(p) # {}

SelectedVersion(p) == trail[Min(ExactPositives(p))].range.lower.v

-----------------------------------------------------------------------------
(* Invariants *)

\* Every value has its type and every index that stands for a pointer names an
\* incompatibility that exists.
TypeOK ==
  /\ reg \in Registries
  /\ pc \in {"new", "register", "loop", "propagate", "decide", "resolve",
             "merge", "done"}
  /\ status \in {"RUNNING", "OK", "NO_SOLUTION", "BUDGET_EXCEEDED",
                 "INTERNAL_ERROR"}
  /\ trail \in Seq(Assignment)
  /\ \A i \in DOMAIN trail : trail[i].cause \in 0 .. Len(incs)
  /\ incs \in Seq(Incompatibility)
  /\ lists \in [Packages -> Seq(1 .. Len(incs))]
  /\ changed \in Seq(Packages)
  /\ scan \in [pkg : Packages, idx : Nat]
  /\ scan.idx <= Len(lists[scan.pkg])
  /\ todo \in Seq(Dependency)
  /\ level \in Nat
  /\ conflict \in 0 .. Len(incs)
  /\ pc \in {"resolve", "merge"} => conflict # 0
  /\ merge \in [elim : Packages, cause : 0 .. Len(incs),
                from : Seq(Term), into : Seq(Term)]
  /\ root_incompatibility \in Incompatibility
  /\ decisions \in Nat /\ propagations \in Nat /\ conflicts \in Nat

\* The states of the main loop and a successful end of it.
Sound == status \in {"RUNNING", "OK"}

\* Levels never decrease along the trail and never exceed the current one, so
\* that popping to a level removes exactly the assignments above it.
LevelsMonotone ==
  Sound => \A i \in DOMAIN trail :
             /\ trail[i].level <= level
             /\ \A j \in 1 .. i : trail[j].level <= trail[i].level

\* The range accumulated for a package lies inside every positive range
\* assigned to it so far.
RangesAccumulate ==
  Sound => \A i \in DOMAIN trail : \A j \in 1 .. i :
    trail[i].positive /\ trail[j].positive /\ trail[j].pkg = trail[i].pkg =>
      \A v \in Version : pg_range_contains(trail[i].acc, v) =>
                           pg_range_contains(trail[j].range, v)

\* A decision is exact, it lies inside everything required of its package when
\* it is made, and nothing positive is derived about the package afterwards.
DecisionsFinal ==
  Sound => \A i \in DOMAIN trail : trail[i].decided =>
    /\ trail[i].positive
    /\ \E v \in Version : /\ trail[i].range = pg_range_exact(v)
                           /\ trail[i].acc = pg_range_exact(v)
    /\ \A j \in i + 1 .. Len(trail) :
         trail[j].pkg = trail[i].pkg => ~trail[j].positive

DecidedVersion(i) == trail[i].range.lower.v

\* The provider lists version v of package p; the root is not in a registry.
Offered(p, v) ==
  p # Root => \E n \in DOMAIN get_versions(reg, p) : get_versions(reg, p)[n] = v

\* Only versions that the provider listed are ever decided.
DecisionsOffered ==
  Sound => \A i \in DOMAIN trail : trail[i].decided =>
             Offered(trail[i].pkg, DecidedVersion(i))

DependenciesOf(i) ==
  Truncate(get_dependencies(reg, trail[i].pkg, DecidedVersion(i)),
           DependencyBuffer)

\* Every dependency of every decision on the trail is an attached clause, save
\* those still waiting in the loop that registers them.
DependenciesRegistered ==
  Sound => \A i \in DOMAIN trail : trail[i].decided =>
    /\ get_dependencies(reg, trail[i].pkg, DecidedVersion(i)) # ProviderError
    /\ \A k \in DOMAIN DependenciesOf(i) :
         \/ \E c \in DOMAIN incs :
              /\ incs[c].attached
              /\ incs[c].terms = DependencyTerms(trail[i], DependenciesOf(i)[k])
         \/ /\ pc = "register" /\ i = Len(trail)
            /\ \E n \in DOMAIN todo : todo[n] = DependenciesOf(i)[k]

\* An attached clause is in the list of every package it mentions.
ClausesListed ==
  \A c \in DOMAIN incs : incs[c].attached =>
    \A k \in DOMAIN incs[c].terms :
      \E j \in DOMAIN lists[incs[c].terms[k].pkg] :
        lists[incs[c].terms[k].pkg][j] = c

\* The clause calls for propagation: some term is satisfied, and all the others
\* are, or all but one that is inconclusive.
Pending(tr, terms) ==
  /\ \E k \in DOMAIN terms : Satisfied(tr, terms[k])
  /\ \/ AllSatisfied(tr, terms)
     \/ \E k \in DOMAIN terms : UnitAt(tr, terms, k)

\* The scan in progress has yet to reach the clause.
AheadOfScan(c) ==
  \E j \in 1 .. scan.idx : lists[scan.pkg][j] = c

\* No propagation is lost: whenever the main loop is not resolving a conflict,
\* a clause that calls for propagation mentions a package on the changed stack
\* or lies ahead of the scan.  (The stack is rebuilt by backjumping, pushed to
\* by assignments and new clauses, and popped before the lists are read.)
PropagationComplete ==
  Sound /\ pc \notin {"resolve", "merge"} =>
    \A c \in DOMAIN incs :
      incs[c].attached /\ Pending(trail, incs[c].terms) =>
        \/ \E k \in DOMAIN incs[c].terms : \E n \in DOMAIN changed :
             changed[n] = incs[c].terms[k].pkg
        \/ AheadOfScan(c)

\* Where the loops stand: the scan and the stack are exhausted before a
\* decision, the root is decided once solving starts, and success means that
\* nothing is left to decide.
LoopShape ==
  /\ pc # "done" <=> status = "RUNNING"
  /\ pc # "propagate" => scan.idx = 0
  /\ pc = "new" => level = 0 /\ incs = << >> /\ \A i \in DOMAIN trail :
                    trail[i].pkg # Root /\ ~trail[i].decided
  /\ pc = "register" => Len(trail) > 0 /\ trail[Len(trail)].decided
  /\ pc # "new" => \E i \in DOMAIN trail :
                    /\ trail[i].pkg = Root /\ trail[i].decided
                    /\ trail[i].range = pg_range_exact(RootVersion)
                    /\ trail[i].level = 1
  /\ pc = "decide" \/ status = "OK" => changed = << >>
  /\ status = "OK" => Undecided = {}

\* The inductive invariant of the soundness proof.
Inv ==
  /\ TypeOK /\ LevelsMonotone /\ RangesAccumulate /\ DecisionsFinal
  /\ DecisionsOffered
  /\ DependenciesRegistered /\ ClausesListed /\ PropagationComplete
  /\ LoopShape

-----------------------------------------------------------------------------
(* What the solver promises *)

\* A choice of versions that a caller may install: it holds the root, every
\* version exists, and every dependency of every chosen version is chosen at a
\* version inside its range.
Valid(sel) ==
  /\ Root \in DOMAIN sel /\ sel[Root] = RootVersion
  /\ \A p \in DOMAIN sel :
       /\ Offered(p, sel[p])
       /\ \A k \in DOMAIN get_dependencies(reg, p, sel[p]) :
         LET dep == get_dependencies(reg, p, sel[p])[k] IN
           dep.pkg \in DOMAIN sel /\ pg_range_contains(dep.range, sel[dep.pkg])

Solution == [p \in {q \in Packages : Selected(q)} |-> SelectedVersion(p)]

\* When pg_solver_solve reports PG_SOLVER_OK, the versions that
\* pg_solver_get_selected_version reads off the trail satisfy every
\* dependency of every selected version.
SolutionValid == status = "OK" => Valid(Solution)

\* Whatever a caller required with pg_solver_add_root_dependency stays on the
\* trail to the end, and a solution honours it.
RootRequirementsKept ==
  [][\A i \in DOMAIN trail : trail[i].level = 0 =>
       i \in DOMAIN trail' /\ trail'[i] = trail[i]]_vars

RootRequirementsHonoured ==
  status = "OK" => \A i \in DOMAIN trail : trail[i].level = 0 =>
    /\ Selected(trail[i].pkg)
    /\ pg_range_contains(trail[i].range, SelectedVersion(trail[i].pkg))

\* Every selected package is the root, a requirement of the caller or a
\* dependency of another selected package: backjumping leaves no assignment
\* behind whose reason is gone.
SelectionNeeded ==
  status = "OK" => \A p \in DOMAIN Solution \ {Root} :
    \/ \E i \in DOMAIN trail : trail[i].level = 0 /\ trail[i].pkg = p
    \/ \E q \in DOMAIN Solution :
         \E k \in DOMAIN get_dependencies(reg, q, Solution[q]) :
           get_dependencies(reg, q, Solution[q])[k].pkg = p

\* The solver never gives up on a healthy provider: make_decision's internal
\* error needs an empty accumulated range, and none ever builds up.
NoInternalError ==
  status = "INTERNAL_ERROR" =>
    \E p \in Packages :
      \/ get_versions(reg, p) = ProviderError
      \/ \E v \in Version : get_dependencies(reg, p, v) = ProviderError

\* A backjump makes progress: on the trail that it leaves, the learned clause
\* has one inconclusive term and the rest satisfied, so that propagation derives
\* a new assignment from it ("guaranteed to derive new assignments",
\* doc/pubgrub-solver-spec.md).
BackjumpDerives ==
  [][pc = "resolve" /\ pc' = "loop" =>
       \E k \in DOMAIN Current.terms : UnitAt(trail', Current.terms, k)]_vars

\* The main loop always ends: propagation cannot run for ever between two
\* looks at the budgets, and the budgets end everything else.
Terminates == <>(pc = "done")

=============================================================================
