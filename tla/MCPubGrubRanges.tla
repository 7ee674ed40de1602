-------------------------- MODULE MCPubGrubRanges --------------------------
(***************************************************************************)
(* The layers of MCPubGrub, and beside them overlapping ranges, dependency *)
(* cycles and failing providers: packages 1 and 2 (two versions each)      *)
(* constrain package 3 (three versions), whose versions may depend back on *)
(* 1.  Their root names them through pg_solver_add_root_dependency, up to  *)
(* twice, in every order.                                                  *)
(***************************************************************************)
EXTENDS MCPubGrub

\* A bound above 3.0.0 within the components of the model.
AfterV3 == [major |-> 3, minor |-> 3, patch |-> 3]

\* "wraps" is "3.0.0 <= v < 4.0.0" where 3 is the last major version: 4 wraps to
\* 0, and the range is empty.
OverlapOf(o) == CASE o = "1"   -> pg_range_exact(V(1))
                  [] o = "2"   -> pg_range_exact(V(2))
                  [] o = "3"   -> pg_range_exact(V(3))
                  [] o = "1-2" -> version_parse_constraint(V(1), V(3))
                  [] o = "2-3" -> version_parse_constraint(V(2), AfterV3)
                  [] o = "wraps" -> version_parse_constraint(V(3), version_parse(4, 0, 0))
                  [] o = "any" -> pg_range_any

MCRootRequirements ==
  {<<2, pg_range_any>>, <<1, pg_range_exact(V(1))>>,
   <<1, pg_range_exact(V(2))>>, <<3, pg_range_exact(V(1))>>,
   <<2, pg_range_until_next_major(V(1))>>, <<3, pg_range_until_next_minor(V(2))>>}

\* to3[p][v]: what version v of package p asks of 3; to1[v]: what version v
\* of 3 asks of 1; fault: a provider call that fails.
Overlapping ==
  [to3 : {f \in [{1, 2} -> [1 .. 2 -> {"none", "1-2", "2-3", "3"}]] :
            /\ \A v \in 1 .. 2 : f[1][v] # "2-3" /\ f[2][v] # "1-2"
            /\ f[1][2] # "3" /\ f[1][1] # "none" /\ f[2][2] # "none"},
   to1 : {f \in [1 .. 3 -> {"none", "1", "2"}] : f[3] = "none" /\ f[2] # "1"},
   fault : {"none"}]
    \cup
  [to3 : {[p \in {1, 2} |-> [v \in 1 .. 2 |-> IF v = 2 THEN o ELSE "any"]] : o \in {"wraps", "2-3"}},
   to1 : {[v \in 1 .. 3 |-> IF v = 1 THEN o ELSE "none"] : o \in {"none", "1"}},
   fault : {"none"}]
    \cup
  [to3 : {[p \in {1, 2} |-> [v \in 1 .. 2 |-> "any"]]},
   to1 : {[v \in 1 .. 3 |-> "none"]},
   fault : {"versions", "dependencies"}]

OverlappingVersions(r, p) ==
  CASE p = 0 -> <<V(1)>>
    [] p \in {1, 2} -> <<V(2), V(1)>>
    [] p = 3 -> IF r.fault = "versions" THEN ProviderError
                ELSE <<V(3), V(2), V(1)>>

Needing(o, q) ==
  IF o = "none" THEN << >> ELSE << [pkg |-> q, range |-> OverlapOf(o)] >>

OverlappingDependencies(r, p, v) ==
  CASE p \in {1, 2} /\ v \in {V(1), V(2)} -> Needing(r.to3[p][v.major], 3)
    [] p = 3 /\ r.fault = "dependencies" -> ProviderError
    [] p = 3 /\ r.fault # "dependencies" /\ v \in {V(1), V(2), V(3)} ->
         Needing(r.to1[v.major], 1)
    [] OTHER -> << >>

-----------------------------------------------------------------------------
\* Both kinds of registry, told apart by their form; of the layers those whose
\* older 1 asks nothing of 3.
Layered == {r \in MCRegistries : r[<<11, 3>>] = "none" /\ r[<<22, 3>>] = "none" /\ r[<<0, 2>>] # "any"}

Either == [form : {"layers"}, as : Layered] \cup [form : {"overlap"}, as : Overlapping]

EitherVersions(r, p) ==
  IF r.form = "layers" THEN MCget_versions(r.as, p) ELSE OverlappingVersions(r.as, p)
EitherDependencies(r, p, v) ==
  IF r.form = "layers" THEN MCget_dependencies(r.as, p, v) ELSE OverlappingDependencies(r.as, p, v)

\* The root of a layered registry has its requirements already.
RootsOfOverlaps == reg.form = "layers" /\ pc = "new" /\ pc' = "new" => UNCHANGED trail
=============================================================================
