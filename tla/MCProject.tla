------------------------------ MODULE MCProject ------------------------------
(***************************************************************************)
(* An instance of Project: four packages of which a and the test framework *)
(* t need b, and newer versions need more than older ones.                 *)
(***************************************************************************)
EXTENDS Project

MCPublished == [p \in {"a", "b", "c", "t"} |->
  CASE p = "a" -> <<11, 10>> [] p = "b" -> <<20, 11, 10>> [] p = "c" -> <<10>> [] p = "t" -> <<11, 10>>]

None == <<>>
MCNeeds == [p \in {"a", "b", "c", "t"} |->
  CASE p = "a" -> (10 :> ("b" :> {10, 11})) @@ (11 :> ("b" :> {11}))
    [] p = "b" -> (10 :> None) @@ (11 :> ("c" :> {10})) @@ (20 :> None)
    [] p = "c" -> (10 :> None)
    [] p = "t" -> (10 :> ("b" :> {10, 11})) @@ (11 :> ("b" :> {11}))]

At(S, v) == [p \in S |-> Bare(v)]
App(direct, indirect, test_direct, test_indirect) ==
  [kind |-> "application", name |-> "none", direct |-> At(direct, 10), indirect |-> At(indirect, 10),
   test_direct |-> At(test_direct, 10), test_indirect |-> At(test_indirect, 10)]
Package(direct, test_direct) ==
  [App({}, {}, {}, {}) EXCEPT !.kind = "package", !.name = "c",
     !.direct = [p \in direct |-> version_to_constraint(10)],
     !.test_direct = [p \in test_direct |-> version_to_constraint(10)]]

MCProjects ==
  {App({}, {}, {}, {}), App({"a"}, {"b"}, {}, {}), App({"a"}, {"b"}, {"t"}, {}), App({"b"}, {}, {"t"}, {}),
   App({"b"}, {}, {}, {"a"}), App({}, {}, {"t"}, {"b"}), App({"a"}, {}, {}, {}),
   Package({}, {}), Package({"a"}, {"t"})}

Ask(kind, packages) ==
  [kind |-> kind, packages |-> packages, version |-> [p \in {"a", "b", "c", "t"} |-> NotSelected],
   is_test |-> FALSE, upgrade_all |-> FALSE, major |-> FALSE, ignore_test |-> FALSE, protocol |-> "v1"]
Test(c) == [c EXCEPT !.is_test = TRUE]
Of(c, p, v) == [c EXCEPT !.version[p] = v]
MajorOf(c) == [c EXCEPT !.major = TRUE]
V2(c) == [c EXCEPT !.protocol = "v2"]

MCCommands ==
  {Ask("install", <<p>>) : p \in {"a", "b", "c", "t"}}
  \cup {Test(Ask("install", <<"t">>)), Test(Ask("install", <<"b">>)), [Test(Ask("install", <<"t">>)) EXCEPT !.upgrade_all = TRUE],
        Of(Ask("install", <<"b">>), "b", 11), Of(Ask("install", <<"b">>), "b", 12), Of(Ask("install", <<"a">>), "a", 11),
        Ask("install", <<"a", "t">>), Of(Ask("install", <<"b", "a">>), "b", 11), Of(Ask("install", <<"b", "a">>), "b", 12),
        Of(Ask("file", <<"c">>), "c", 10)}
  \cup {Ask("upgrade", <<p>>) : p \in {"a", "b", "t"}}
  \cup {MajorOf(Ask("upgrade", <<"b">>)), [MajorOf(Ask("upgrade", <<"b">>)) EXCEPT !.ignore_test = TRUE],
        MajorOf(Ask("install", <<"b">>)), Ask("upgrade_all", <<>>), MajorOf(Ask("upgrade_all", <<>>)),
        V2(Ask("upgrade", <<"a">>)), V2(Ask("upgrade_all", <<>>)), V2(Ask("install", <<"a">>))}
  \cup {Ask("remove", <<p>>) : p \in {"a", "b", "t"}} \cup {Ask("remove", <<"a", "t">>)}

MCCaches == {{}, AllReleases}
MCOutages == {{}, {<<"b", 11>>}}

\* For the claim about upgrades: projects in which everything is in order.
UpgradeCommands == {Ask("upgrade", <<p>>) : p \in {"a", "b", "t"}}
ConsistentProjects == {j \in MCProjects : IsApp(j) /\ Solved(j, Listed(j))}
NoOutage == {{}}
=============================================================================
