----------------------------- MODULE MCSources -----------------------------
(***************************************************************************)
(* Three modules in two source directories, one of them in both, and three *)
(* packages: elm/core, one that needs another, and two that expose one     *)
(* module under the same name.                                             *)
(***************************************************************************)
EXTENDS Extract, BuildPlan

\* Modules 1, 2 and 3 may be files; 4 and 5 come from packages 2 and 3.
MCModules == 1 .. 5
MCPublished == 1 .. 3

MCImports(m) ==
  CASE m = 1 -> {{2}, {3, 4}, {2, 4}, {2, 3, 5}}
    [] m = 2 -> {{}, {3, 5}, {1, 4}}
    [] m = 3 -> {{}, {2}, {4}}

\* Module 2 may be in both directories; the second copy imports module 3.
MCTexts == {<<1, 1>>, <<1, 2>>, <<2, 3>>}
MCGraphs ==
  LET Graphs == {g \in [MCTexts -> UNION {MCImports(m) : m \in 1 .. 3}] :
                   \A p \in MCTexts : g[p] \in MCImports(p[2])}
  IN  Graphs \cup {g @@ (<<2, 2>> :> {3}) : g \in Graphs}

MCFile(p) == [files |-> {p}, dirs |-> {}]
MCSelections ==
  {MCFile(<<1, 2>>), MCFile(<<2, 3>>), MCFile(<<2, 2>>),
   [files |-> {<<1, 2>>, <<2, 3>>}, dirs |-> {}],
   [files |-> {<<1, 2>>}, dirs |-> {2}],
   [files |-> {<<2, 3>>}, dirs |-> {2}]}

MCJson(exposed, deps) == [exposed |-> exposed, deps |-> deps]
MCCore == MCJson({}, {})
MCProjects ==
  {[app |-> [direct |-> {1, 2}, indirect |-> {3}],
    cached |-> (1 :> MCCore) @@ (2 :> MCJson({4}, {1, 3})) @@ (3 :> MCJson({5}, {1}))],
   [app |-> [direct |-> {1, 2, 3}, indirect |-> {}],
    cached |-> (1 :> MCCore) @@ (2 :> MCJson({4, 5}, {1})) @@ (3 :> MCJson({5}, {1}))],
   [app |-> [direct |-> {1, 3}, indirect |-> {2}],
    cached |-> (1 :> MCCore) @@ (3 :> MCJson({4}, {1, 2}))]}

MCStarts ==
  {[imports |-> g, broken |-> b, app |-> p.app, cached |-> p.cached] :
     g \in MCGraphs, b \in {{}, {<<2, 3>>}}, p \in MCProjects}


\* Modules that import each other have no build order, and the plan says so:
\* build_driver.c looks for them after the sort and reports "Cycle detected in
\* module dependencies"; "Every module's dependencies appear before it in the
\* output" (doc/build-ordering.md).
CyclesAreReported ==
  Idle => \A entries \in {{1}, {2, 3}} : OrderIsTopological(build_generate_plan(entries))
=============================================================================
