------------------------------ MODULE ElmJson ------------------------------
(***************************************************************************)
(* The dependency maps of an elm.json file and the edits that the package  *)
(* commands make to them.                                                  *)
(*                                                                         *)
(* A version is a number whose tens are the major version.  An entry of a  *)
(* map is a version, or, in package projects, the constraint "from <= v <  *)
(* next major".  A package project uses the maps direct and test_direct    *)
(* only.                                                                   *)
(***************************************************************************)
EXTENDS Naturals, Sequences, FiniteSets, TLC

CONSTANTS
  Packages,    \* the packages that the registry or a project may name
  Published,   \* their versions in the registry, newest first
  Needs        \* [package |-> [version |-> [dependency |-> versions accepted]]]

ASSUME NewestFirst ==
  /\ Published \in [Packages -> Seq(Nat \ {0})]
  /\ \A p \in Packages : \A i, j \in DOMAIN Published[p] : i < j => Published[p][i] > Published[p][j]

Major(v) == v \div 10
Versions(p) == {Published[p][i] : i \in DOMAIN Published[p]}
AllVersions == UNION {Versions(p) : p \in Packages}

\* What a release needs are packages, in versions that are none.
ASSUME NeedsArePackages ==
  \A p \in Packages : \A v \in Versions(p) :
    DOMAIN Needs[p][v] \subseteq Packages /\ \A d \in DOMAIN Needs[p][v] : 0 \notin Needs[p][v][d]

Exact(v) == {v}
\* Mutant of UntilNextMajor: no upper bound.
FromOn(v) == {w \in AllVersions : w >= v}
UntilNextMajor(v) == {w \in AllVersions : w >= v /\ Major(w) = Major(v)}

Entry == [from : AllVersions, caret : BOOLEAN]
Accepts(e) == IF e.caret THEN UntilNextMajor(e.from) ELSE Exact(e.from)
Bare(v) == [from |-> v, caret |-> FALSE]
version_to_constraint(v) == [from |-> v, caret |-> TRUE]

MapNames == {"direct", "indirect", "test_direct", "test_indirect"}
ProductionMaps == {"direct", "indirect"}
TestMaps == MapNames \ ProductionMaps
DirectMaps == {"direct", "test_direct"}
\* The map that a removed direct dependency is demoted to.
Counterpart(m) == IF m = "direct" THEN "indirect" ELSE "test_indirect"

Partial(S, T) == UNION {[D -> T] : D \in SUBSET S}
File == [kind : {"application", "package"}, name : Packages \cup {"none"},
         direct : Partial(Packages, Entry), indirect : Partial(Packages, Entry),
         test_direct : Partial(Packages, Entry), test_indirect : Partial(Packages, Entry)]

IsApp(j) == j.kind = "application"
Listed(j) == UNION {DOMAIN j[m] : m \in MapNames}

\* Applications list exact versions, package projects have no indirect ones.
WellFormed(j) ==
  IF IsApp(j) THEN \A m \in MapNames : \A p \in DOMAIN j[m] : ~j[m][p].caret
  ELSE DOMAIN j["indirect"] = {} /\ DOMAIN j["test_indirect"] = {}
Project == {j \in File : WellFormed(j)}

(***************************************************************************)
(* Lookup: the maps are asked in one fixed order.                          *)
(***************************************************************************)

Rank == [direct |-> 1, indirect |-> 2, test_direct |-> 3, test_indirect |-> 4]
Homes(j, p) == {m \in MapNames : p \in DOMAIN j[m]}

find_package_map(j, p) == CHOOSE m \in Homes(j, p) : \A o \in Homes(j, p) : Rank[m] <= Rank[o]
find_existing_package(j, p) == j[find_package_map(j, p)][p]
VersionIn(j, p) == find_existing_package(j, p).from

\* The package that the project is itself cannot be installed in it.
IsItself(j, p) == ~IsApp(j) /\ j.name = p

(***************************************************************************)
(* Edits                                                                   *)
(***************************************************************************)

Without(f, S) == [q \in DOMAIN f \ S |-> f[q]]

\* The entries e[p] written at the places "at", each a package and a map.
Put(j, at, e) ==
  LET Over(m) == [p \in DOMAIN j[m] \cup {a[1] : a \in {b \in at : b[2] = m}} |->
                    IF <<p, m>> \in at THEN e[p] ELSE j[m][p]]
  IN  [j EXCEPT !.direct = Over("direct"), !.indirect = Over("indirect"),
                !.test_direct = Over("test_direct"), !.test_indirect = Over("test_indirect")]

\* package_map_add refuses a package that the map has already.
package_map_add(j, m, p, e) == IF p \in DOMAIN j[m] THEN j ELSE Put(j, {<<p, m>>}, [q \in {p} |-> e])
package_map_remove(j, m, S) == [j EXCEPT ![m] = Without(@, S)]

remove_from_all_maps(j, S) ==
  [j EXCEPT !.direct = Without(@, S), !.indirect = Without(@, S),
            !.test_direct = Without(@, S), !.test_indirect = Without(@, S)]

\* Mutant of Move: the old entry stays.
CopyTo(j, from, to, p) == package_map_add(j, to, p, j[from][p])
Move(j, from, to, p) == package_map_remove(package_map_add(j, to, p, j[from][p]), from, {p})

\* Where promotion takes a package from the map that it is found in.  In an
\* application a test_indirect package becomes a direct test dependency.
Promotions(j) ==
  IF IsApp(j) THEN [indirect |-> "direct", test_direct |-> "direct", test_indirect |-> "test_direct"]
  ELSE [test_direct |-> "direct"]

elm_json_find_package(j, p) ==
  IF p \in Listed(j) /\ find_package_map(j, p) \in DOMAIN Promotions(j)
  THEN Promotions(j)[find_package_map(j, p)] ELSE "none"

elm_json_promote_package(j, p) == Move(j, find_package_map(j, p), elm_json_find_package(j, p), p)

PromoteIndirect(j, S) ==
  [Put(j, S \X {"direct"}, j["indirect"]) EXCEPT !.indirect = Without(@, S)]

NewEntry(j, v) == IF IsApp(j) THEN Bare(v) ELSE version_to_constraint(v)

\* The map for a package that is not listed yet.
DefaultMap(j, is_test, is_direct) ==
  IF IsApp(j) /\ ~is_direct THEN (IF is_test THEN "test_indirect" ELSE "indirect")
  ELSE IF is_test THEN "test_direct" ELSE "direct"

\* The changes of a plan, which maps packages to versions.  A listed package
\* is updated in the first map that lists it.
add_or_update(j, changes, requested, is_test) ==
  Put(j, {<<p, IF p \in Listed(j) THEN find_package_map(j, p)
               ELSE DefaultMap(j, is_test, p \in requested)>> : p \in DOMAIN changes},
      [p \in DOMAIN changes |-> NewEntry(j, changes[p])])

\* Upgrades write a package that several maps list into all of them.
Everywhere(j, changes) ==
  {at \in (DOMAIN changes) \X MapNames : at[1] \in DOMAIN j[at[2]]}

apply_preserving_location(j, changes, requested, is_test) ==
  Put(j, Everywhere(j, changes)
         \cup {<<p, DefaultMap(j, is_test, p \in requested)>> : p \in DOMAIN changes \ Listed(j)},
      [p \in DOMAIN changes |-> NewEntry(j, changes[p])])

\* Upgrades through a V2 registry write versions, into package projects too.
apply_bare(j, changes, requested, is_test) ==
  Put(j, {<<p, IF p \in Listed(j) THEN find_package_map(j, p)
               ELSE DefaultMap(j, is_test, p \in requested)>> : p \in DOMAIN changes},
      [p \in DOMAIN changes |-> Bare(changes[p])])

(***************************************************************************)
(* Dependencies of the listed packages, as far as their own elm.json files *)
(* are in the cache.  "readable" is a set of pairs of package and version. *)
(***************************************************************************)

Known(readable, p, v) == <<p, v>> \in readable
NeedsOf(readable, p, v) == IF Known(readable, p, v) THEN Needs[p][v] ELSE <<>>

find_missing_dependencies(j, readable) ==
  IF ~IsApp(j) THEN {}
  ELSE UNION {UNION {DOMAIN NeedsOf(readable, p, j[m][p].from) : p \in DOMAIN j[m]} : m \in MapNames}
       \ Listed(j)

\* Visiting goes by name: the version is the one that the first map gives.
Edges(j, readable) ==
  UNION {{p} \X (DOMAIN NeedsOf(readable, p, VersionIn(j, p))) : p \in Listed(j)}

Closed(S, edges) == \A e \in edges : e[1] \in S => e[2] \in S
Reachable(from, edges) ==
  {q \in Packages : \A S \in SUBSET Packages : from \subseteq S /\ Closed(S, edges) => q \in S}

\* Mutant of find_orphaned_packages: indirect test dependencies are forgotten.
find_orphans_of_production(j, readable) ==
  (DOMAIN j["indirect"])
    \ Reachable(DOMAIN j["direct"] \cup DOMAIN j["test_direct"], Edges(j, readable))
find_orphaned_packages(j, readable) ==
  (DOMAIN j["indirect"] \cup DOMAIN j["test_indirect"])
    \ Reachable(DOMAIN j["direct"] \cup DOMAIN j["test_direct"], Edges(j, readable))

(***************************************************************************)
(* Removal.  Direct targets become indirect for the search for orphans; a  *)
(* target that is still needed is demoted, everything else that was named  *)
(* or is orphaned goes.                                                    *)
(***************************************************************************)

DirectTargets(j, targets) == {p \in targets : find_package_map(j, p) \in DirectMaps}

Demoted(j, S) ==
  LET at == {<<p, Counterpart(find_package_map(j, p))>> : p \in S}
      added == Put(j, {a \in at : a[1] \notin DOMAIN j[a[2]]}, [p \in S |-> find_existing_package(j, p)])
      In(m) == {p \in S : find_package_map(j, p) = m}
  IN  [added EXCEPT !.direct = Without(@, In("direct")), !.test_direct = Without(@, In("test_direct"))]

\* After the search every candidate is put back into its direct map alone.
Restored(j, S) ==
  LET In(m) == {p \in S : Counterpart(find_package_map(j, p)) = m}
  IN  [j EXCEPT !.indirect = Without(@, In("indirect")), !.test_indirect = Without(@, In("test_indirect"))]

RemoveFromApp(j, targets, readable) ==
  LET candidates == DirectTargets(j, targets)
      orphans == find_orphaned_packages(Demoted(j, candidates), readable)
  IN  remove_from_all_maps(Demoted(Restored(j, candidates), candidates \ orphans),
                           (targets \ (candidates \ orphans)) \cup (orphans \ targets))

RemoveFromPackage(j, targets) == remove_from_all_maps(j, targets)
=============================================================================
