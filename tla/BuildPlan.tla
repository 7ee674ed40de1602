----------------------------- MODULE BuildPlan -----------------------------
(***************************************************************************)
(* The plan of wrap build: the packages in build order, the modules that   *)
(* the entry points reach, in an order and in batches to compile at once,  *)
(* and for every other module the package it comes from.  Then the files   *)
(* of a package that no exposed module reaches, as wrap cache check        *)
(* reports them.                                                           *)
(***************************************************************************)
EXTENDS SourceTree

-----------------------------------------------------------------------------
(* Packages *)

\* A package whose elm.json cannot be read counts as one that needs nothing.
PackageDeps(p) == IF p \in DOMAIN cached THEN cached[p].deps \cap Listed ELSE {}

\* Kahn's algorithm: always the first package, by name, whose needs are placed.
Ready(order) == {p \in Listed \ Range(order) : PackageDeps(p) \subseteq Range(order)}
RECURSIVE PlacePackages(_)
PlacePackages(order) ==
  IF Ready(order) = {} THEN order ELSE PlacePackages(Append(order, Min(Ready(order))))
compute_package_build_order == PlacePackages(<<>>)
PackagesOrdered == Range(compute_package_build_order) = Listed

\* The first package in build order that exposes the module; 0 is "unknown".
find_package_for_module(m) ==
  LET order == compute_package_build_order
      at == {i \in DOMAIN order : order[i] \in Exposing(m)}
  IN  IF at = {} THEN 0 ELSE order[Min(at)]

-----------------------------------------------------------------------------
(* Modules *)

module_name_to_path(m) == <<Local(AppDirs, m), m>>
Parses(m) == IsLocal(AppDirs, m) /\ Readable(module_name_to_path(m))
ImportsOf(m) == ImportsAt(module_name_to_path(m))
LocalDeps(m) == {n \in ImportsOf(m) : IsLocal(AppDirs, n)}

\* A module whose file cannot be parsed is discovered, yet not in the plan.
RECURSIVE Crawl(_, _)
Crawl(queue, discovered) ==
  IF queue = {} THEN {m \in discovered : Parses(m)}
  ELSE LET found == (UNION {LocalDeps(m) : m \in {q \in queue : Parses(q)}}) \ discovered
       IN  Crawl(found, discovered \cup found)
crawl_modules(entries) == LET E == {m \in entries : Parses(m)} IN Crawl(E, E)

Alphabetical(S) == SetToSortSeq(S, <)

\* Depth first, marked on the way in, placed on the way out.
RECURSIVE dfs_topo_visit(_, _, _)
dfs_topo_visit(plan, s, m) ==
  IF m \in s.visited \/ m \notin plan THEN s
  ELSE LET below == FoldLeft(LAMBDA t, n : dfs_topo_visit(plan, t, n),
                             [s EXCEPT !.visited = @ \cup {m}], Alphabetical(LocalDeps(m)))
       IN  [below EXCEPT !.order = Append(@, m)]
compute_module_build_order(plan) ==
  FoldLeft(LAMBDA s, m : dfs_topo_visit(plan, s, m),
           [visited |-> {}, order |-> <<>>], Alphabetical(plan)).order

\* -1 until every local import has a level.
NoLevel == -1
NextLevel(level, m) ==
  CASE LocalDeps(m) = {} -> 0
    [] \E n \in LocalDeps(m) : n \notin DOMAIN level \/ level[n] = NoLevel -> level[m]
    [] OTHER -> Max({level[n] : n \in LocalDeps(m)}) + 1
RECURSIVE Settle(_)
Settle(level) ==
  LET next == [m \in DOMAIN level |-> NextLevel(level, m)]
  IN  IF next = level THEN level ELSE Settle(next)
compute_parallel_levels(plan) == Settle([m \in plan |-> NoLevel])

group_into_batches(level) ==
  LET top == Max({level[m] : m \in DOMAIN level} \cup {0})
  IN  [l \in 0 .. top |-> {m \in DOMAIN level : level[m] = l}]

\* A plan with a problem is given up; the modules' order is the second place
\* where one is looked for ("Cycle detected in module dependencies").
build_generate_plan(entries) ==
  LET modules == IF PackagesOrdered THEN crawl_modules(entries) ELSE {}
      order == compute_module_build_order(modules)
      cyclic == Len(order) # Cardinality(modules)
  IN  [modules |-> modules,
       order |-> order,
       problem |-> ~PackagesOrdered \/ cyclic,
       batches |-> group_into_batches(compute_parallel_levels(IF cyclic THEN {} ELSE modules)),
       foreign |-> {<<n, find_package_for_module(n)>> :
                      n \in UNION {ImportsOf(m) \ LocalDeps(m) : m \in modules}}]

-----------------------------------------------------------------------------
(* Files of a package that nothing needs *)

RECURSIVE collect_reachable_files(_, _)
collect_reachable_files(found, seen) ==
  IF found = {} THEN seen
  ELSE LET next == {n \in UNION {ImportsAt(<<Package, m>>) :
                                   m \in {f \in found : Readable(<<Package, f>>)}} : There(Package, n)}
       IN  collect_reachable_files(next \ (seen \cup found), seen \cup found)

collect_all_elm_files == {m \in Modules : There(Package, m)}

import_tree_analyze(exposed) ==
  collect_all_elm_files \ collect_reachable_files({m \in exposed : There(Package, m)}, {})

-----------------------------------------------------------------------------
(* Properties *)

Position(s, x) == CHOOSE i \in DOMAIN s : s[i] = x
Batched(plan) == UNION {plan.batches[l] : l \in DOMAIN plan.batches}

\* Modules on an import cycle, or above one or above a file that cannot be
\* parsed: each of a set imports one of the set, or such a file.
Stuck(modules) ==
  UNION {S \in SUBSET modules : \A m \in S : LocalDeps(m) \cap (S \cup {n \in Modules : ~Parses(n)}) # {}}

\* What a plan promises of the modules that reach neither an import cycle nor a
\* file that cannot be parsed: each is in a batch, with every local import in an
\* earlier one and one of them in the batch just before, so that a batch may be
\* compiled at once and as early as possible; the serial order agrees with the
\* batches, and names every package before its dependents.  Of the other modules
\* it says nothing: CyclesAreReported does.
PlanFollowsImports(plan) ==
  /\ plan.modules \ Stuck(plan.modules) \subseteq Batched(plan)
  /\ \A l \in DOMAIN plan.batches, m \in Modules : m \in plan.batches[l] =>
       /\ \A n \in LocalDeps(m) : \E k \in 0 .. l - 1 : n \in plan.batches[k]
       /\ l > 0 => LocalDeps(m) \cap plan.batches[l - 1] # {}
       /\ \A n \in LocalDeps(m) : Position(plan.order, n) < Position(plan.order, m)
  /\ Range(plan.order) = plan.modules /\ Len(plan.order) = Cardinality(plan.modules)
  /\ \A f \in plan.foreign : f[2] # 0 => f[2] \in Exposing(f[1])
  /\ PackagesOrdered => \A p \in Listed : \A q \in PackageDeps(p) :
       Position(compute_package_build_order, q) < Position(compute_package_build_order, p)

\* A plan without a problem has an order to build in: every local import of a
\* module of the plan stands before it.
OrderIsTopological(plan) ==
  plan.problem \/ \A m \in plan.modules : \A n \in LocalDeps(m) \cap plan.modules :
                    Position(plan.order, n) < Position(plan.order, m)
=============================================================================
