---------------------------- MODULE InstallPlan ----------------------------
(***************************************************************************)
(* From a command to the plan of changes: the requirements that each       *)
(* strategy of the solver puts on the solution, the ladder of strategies,  *)
(* the plan read off a solution, and how plans are merged.                 *)
(*                                                                         *)
(* The solver itself is abstract: any selection that PubGrubPromises       *)
(* allows (requirements met, dependencies satisfied, nothing selected      *)
(* without a reason), or none at all.                                      *)
(***************************************************************************)
EXTENDS ElmJson

NotSelected == 0
Selections == {s \in [Packages -> AllVersions \cup {NotSelected}] :
                 \A p \in Packages : s[p] \in Versions(p) \cup {NotSelected}}
Selected(s) == {p \in Packages : s[p] # NotSelected}

(***************************************************************************)
(* Requirements are pairs of a package and the versions that are accepted. *)
(***************************************************************************)

RequireExact(j, maps) ==
  UNION {{<<p, Exact(j[m][p].from)>> : p \in DOMAIN j[m]} : m \in maps}
RequireUpgradable(j, maps) ==
  UNION {{<<p, UntilNextMajor(j[m][p].from)>> : p \in DOMAIN j[m]} : m \in maps}
RequireAsWritten(j, maps) ==
  UNION {{<<p, Accepts(j[m][p])>> : p \in DOMAIN j[m]} : m \in maps}

\* Installing test dependencies pins production unless --upgrade-all.
\* Mutant of PinProduction: production moves with the tests.
PinNothing(ask) == FALSE
PinProduction(ask) == ask.is_test /\ ~ask.upgrade_all

exact_app(j, ask) ==
  RequireExact(j, ProductionMaps \cup (IF ask.is_test THEN TestMaps ELSE {}))

exact_direct_app(j, ask) ==
  RequireExact(j, {"direct"} \cup (IF ask.is_test THEN TestMaps ELSE {}))
  \cup (IF PinProduction(ask) THEN RequireExact(j, {"indirect"}) ELSE RequireUpgradable(j, {"indirect"}))

upgradable_app(j, ask) ==
  (IF PinProduction(ask) THEN RequireExact(j, ProductionMaps) ELSE RequireUpgradable(j, ProductionMaps))
  \cup (IF ask.is_test THEN RequireUpgradable(j, TestMaps) ELSE {})

\* Production is left out altogether.
cross_major_for_target(j, ask) == IF ask.is_test THEN RequireExact(j, TestMaps) ELSE {}

constraints_package(j, strategy, ask) ==
  RequireAsWritten(j, (IF strategy = "cross_major" THEN {} ELSE {"direct"})
                      \cup (IF ask.is_test THEN {"test_direct"} ELSE {}))

Roots(j, strategy, ask) ==
  IF ~IsApp(j) THEN constraints_package(j, strategy, ask)
  ELSE CASE strategy = "exact_all" -> exact_app(j, ask)
         [] strategy = "exact_direct" -> exact_direct_app(j, ask)
         [] strategy = "upgradable" -> upgradable_app(j, ask)
         [] strategy = "cross_major" -> cross_major_for_target(j, ask)

Target(p, version) == {<<p, IF version = NotSelected THEN Versions(p) ELSE Exact(version)>>}

strategies(ask, version) ==
  IF version # NotSelected THEN <<"upgradable", "exact_direct", "exact_all">>
  ELSE IF ask.major /\ Len(ask.packages) = 1 THEN <<"cross_major">>
  ELSE <<"exact_all", "exact_direct", "upgradable">>

\* Upgrading everything to a new major version states no requirement at all.
UpgradeAllRoots(j, major) ==
  IF ~IsApp(j) THEN RequireAsWritten(j, {"direct", "test_direct"})
  ELSE IF major THEN {} ELSE RequireUpgradable(j, MapNames)

(***************************************************************************)
(* Solutions and plans.  A package whose elm.json can neither be read nor  *)
(* downloaded counts as one without dependencies.                          *)
(***************************************************************************)

Satisfies(s, roots, readable) ==
  /\ \A r \in roots : s[r[1]] \in r[2]
  /\ \A p \in Selected(s) : LET needs == NeedsOf(readable, p, s[p]) IN
       \A d \in DOMAIN needs : s[d] \in needs[d]

SelectedEdges(s, readable) ==
  UNION {{p} \X (DOMAIN NeedsOf(readable, p, s[p])) : p \in Selected(s)}

Solutions(roots, readable) ==
  {s \in Selections : /\ Satisfies(s, roots, readable)
                      /\ Selected(s) \subseteq Reachable({r[1] : r \in roots}, SelectedEdges(s, readable))}

\* What a selection changes: packages that are new, or written differently.
\* Mutant of Changed: updates of listed packages are lost.
OnlyNew(j, s) == Selected(s) \ Listed(j)
Changed(j, s) == {p \in Selected(s) : p \in Listed(j) => find_existing_package(j, p) # Bare(s[p])}
InstallPlanOf(j, s) == [p \in Changed(j, s) |-> s[p]]
UpgradeAllPlanOf(j, s) == [p \in Changed(j, s) \cap Listed(j) |-> s[p]]

\* The first change of a package stays.
install_plan_merge(plan, more) ==
  [p \in DOMAIN plan \cup DOMAIN more |-> IF p \in DOMAIN plan THEN plan[p] ELSE more[p]]

\* Package projects record only the packages that were asked for; install
\* writes none of them anew.
UpgradeChanges(j, plan, requested) ==
  IF IsApp(j) THEN plan ELSE [p \in DOMAIN plan \cap requested |-> plan[p]]
InstallChanges(j, plan, requested) ==
  IF IsApp(j) THEN plan
  ELSE [p \in (DOMAIN plan \cap requested) \ Listed(j) |-> plan[p]]

(***************************************************************************)
(* Upgrading one package                                                   *)
(***************************************************************************)

Newest(p) == Published[p][1]
\* Zero when the registry has none.
Latest(p, v, major) ==
  LET found == SelectSeq(Published[p], LAMBDA w : major \/ Major(w) = Major(v))
  IN  IF found = <<>> THEN NotSelected ELSE found[1]

\* Version v of q needs p, as far as its own elm.json can be read.
package_depends_on(q, v, p, readable) == p \in DOMAIN NeedsOf(readable, q, v)

\* The listed packages whose own elm.json does not accept a new major version
\* and for which the registry names nothing newer.
Blockers(j, p, readable) ==
  {q \in Listed(j) \ {p} :
     LET v == VersionIn(j, q) IN
       /\ package_depends_on(q, v, p, readable) /\ Newest(p) \notin Needs[q][v][p]
       /\ find_existing_package(j, q) = Bare(Newest(q))}

InTest(j, p) == \E m \in TestMaps : p \in DOMAIN j[m]

CrossesMajor(j, p) == Major(Newest(p)) # Major(VersionIn(j, p))

BlocksMajorUpgrade(j, p, readable, ignore_test) ==
  /\ CrossesMajor(j, p)
  /\ \E q \in Blockers(j, p, readable) : ~InTest(j, q) \/ ~ignore_test
=============================================================================
