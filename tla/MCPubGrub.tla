----------------------------- MODULE MCPubGrub -----------------------------
(***************************************************************************)
(* Small package universes for the solver: root 0 and packages 1, 2, 3 in  *)
(* layers (1 may depend on 2 and 3, 2 on 3), two versions each, and most   *)
(* assignments of dependencies to versions; the root asks for 1 and, in    *)
(* some universes, for 2 or for its first version.                         *)
(***************************************************************************)
EXTENDS PubGrub, TLC

V(n) == [major |-> n, minor |-> 0, patch |-> 0]

MCRootVersion == V(1)

\* A dependency slot: who depends on whom.
Slots == {<<0, 1>>, <<0, 2>>, <<0, 3>>} \cup
         {<<10 * p + n, q>> : p \in {1}, n \in {1, 2}, q \in {2, 3}} \cup
         {<<20 + n, 3>> : n \in {1, 2}}

\* No dependency, exactly 1.0.0, exactly 2.0.0, any version.
Options == {"none", "1", "2", "any"}

RangeOf(o) == CASE o = "1" -> version_parse_constraint(V(1), V(2))
                [] o = "2" -> pg_range_exact(V(2))
                [] o = "any" -> pg_range_any

MCRegistries ==
  {r \in [Slots -> Options] :
     /\ r[<<0, 1>>] = "any" /\ r[<<0, 2>>] # "2" /\ r[<<0, 3>>] = "none"
     /\ r[<<0, 2>>] = "1" => r[<<22, 3>>] = "none"
     /\ \A slot \in {<<11, 2>>, <<11, 3>>, <<21, 3>>} : r[slot] # "any"
     /\ r[<<22, 3>>] \in {"none", "1"}}

MCget_versions(r, p) == IF p = 0 THEN <<V(1)>> ELSE <<V(2), V(1)>>

SlotOf(p, v) == IF p = 0 THEN 0 ELSE 10 * p + v.major

DepOn(r, s, q) ==
  IF <<s, q>> \in Slots /\ r[<<s, q>>] # "none"
  THEN << [pkg |-> q, range |-> RangeOf(r[<<s, q>>])] >> ELSE << >>

MCget_dependencies(r, p, v) ==
  LET s == SlotOf(p, v) IN DepOn(r, s, 1) \o DepOn(r, s, 2) \o DepOn(r, s, 3)

-----------------------------------------------------------------------------
\* The registries of the termination run: the newest version of 1 asks for 2
\* and 3 at versions that 2 may or may not agree with, so that success, failure
\* and an exhausted budget all happen.
MCFewRegistries ==
  {r \in MCRegistries :
     /\ r[<<0, 2>>] = "none" /\ r[<<11, 2>>] = "1" /\ r[<<11, 3>>] = "none"
     /\ r[<<12, 2>>] \in {"1", "2"} /\ r[<<12, 3>>] = "2"
     /\ r[<<21, 3>>] \in {"none", "1"}}

\* Every choice of versions, V(0) standing for a package left out.
Picks == [Packages \ {Root} -> {V(0), V(1), V(2)}]

Choice(pick) ==
  [p \in {Root} \cup {q \in DOMAIN pick : pick[q] # V(0)} |->
     IF p = Root THEN RootVersion ELSE pick[p]]

\* "no solution exists" (the comment in pg_resolve_conflict): the solver
\* reports PG_SOLVER_NO_SOLUTION only if no choice of versions is valid.
Complete == status = "NO_SOLUTION" => \A pick \in Picks : ~Valid(Choice(pick))
=============================================================================
