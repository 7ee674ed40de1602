--------------------------- MODULE MCPackageCache ---------------------------
(***************************************************************************)
(* Instances of PackageCache: one process with every command, or two at    *)
(* once with commands that compare hashes.                                 *)
(***************************************************************************)
EXTENDS PackageCache

CONSTANTS p1, p2

VARIABLE crew   \* the processes that run

MCDeps == [q \in {"a", "b"} |-> IF q = "a" THEN <<"b">> ELSE <<>>]

Run(kind, route, packages) ==
  [kind |-> kind, route |-> route, packages |-> packages,
   blacklist |-> {}, online |-> TRUE, ignore_hash |-> FALSE]

VerifiedCommands == {Run("cache", "v1", <<"b">>), Run("fix", "v1", <<>>)}

OtherCommands ==
  {Run("build", "v1", <<"a">>), Run("purge", "v1", <<>>), Run("cache", "v1", <<"b", "a">>), [Run("cache", "v1", <<"b">>) EXCEPT !.ignore_hash = TRUE],
   [Run("cache", "v1", <<"a">>) EXCEPT !.online = FALSE], Run("cache", "v2", <<"b">>), Run("cache", "own", <<"a">>),
   Run("file", "directory", <<"b">>), Run("file", "github", <<"b">>),
   Run("missing", "v1", <<"a", "b", "a">>),
   Run("all", "github", <<>>), [Run("all", "github", <<>>) EXCEPT !.blacklist = {"a"}]}

MCCommands == VerifiedCommands \cup OtherCommands

RegistryOrder == <<"a", "b">>

\* A directory that wrap debug mkpkg made, one that is whole, one that a crash
\* has left.
Made == [Absent EXCEPT !.present = TRUE, !.elmjson = "ok", !.src = "empty"]
Complete == [present |-> TRUE, endpoint |-> "ok", elmjson |-> "ok", docs |-> "ok",
             src |-> "full", tainted |-> FALSE]
Truncated == [Absent EXCEPT !.present = TRUE, !.endpoint = "torn"]

MCDirs ==
  {[q \in {"a", "b"} |-> IF q = "a" THEN d ELSE IF d = Made THEN Complete ELSE Absent] :
     d \in {Absent, Made, Truncated}}

MCInit ==
  /\ Init
  /\ crew \in {{p1}, {p1, p2}} \cap SUBSET Processes
  /\ crew = {p1, p2} => dir = [q \in {"a", "b"} |-> Absent]
  /\ \A p \in Processes : command[p].kind = "purge"

MCNext ==
  /\ UNCHANGED crew
  /\ \E p \in crew :
       \/ Start(p) /\ (crew = {p1} \/ command'[p] \in VerifiedCommands)
       \/ Step(p)
       \/ Crash(p)
  /\ crew = {p1, p2} => faults' <= 1

MCSpec == MCInit /\ [][MCNext]_<<vars, crew>> /\ \A p \in Processes : WF_vars(p \in crew /\ Step(p))
=============================================================================
