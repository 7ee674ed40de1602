------------------------------ MODULE Project ------------------------------
(***************************************************************************)
(* A project directory and the commands wrap install, upgrade and remove:  *)
(* elm.json is read, a plan of changes is computed and confirmed, the maps *)
(* in memory are edited and written back through a temporary file.  A      *)
(* crash may fall between any two steps, and a full disk may lose what is  *)
(* written without the command noticing.                                   *)
(***************************************************************************)
EXTENDS InstallPlan, FiniteSetsExt

CONSTANTS
  Commands,          \* what the user may ask for
  InitialProjects,   \* elm.json files to start from
  InitialCaches,     \* package versions whose own elm.json is in the cache
  Outages,           \* package versions that the server may fail to deliver
  MaxCommands        \* bound: how many commands are run

VARIABLES
  elm,       \* the file elm.json: a project, or Torn
  tmp,       \* the file elm.json.tmp: "none", "torn" or "whole"
  mem,       \* elm.json as the running command has it in memory
  ask,       \* the running command
  pc,        \* where it is
  todo,      \* which of the asked packages are still to be solved, as positions
  rung,      \* the strategy that is tried, as a position on the ladder
  plan,      \* [package -> new version]
  promoted,  \* packages that become direct without being solved
  reach,     \* package versions whose dependencies the solver gets to see
  cached,    \* package versions whose own elm.json is in the cache
  result,    \* how the last command ended
  issued     \* how many commands were started

vars == <<elm, tmp, mem, ask, pc, todo, rung, plan, promoted, reach, cached, result, issued>>
work == <<mem, ask, todo, rung, plan, promoted, reach>>

Command == [kind : {"none", "install", "file", "upgrade", "upgrade_all", "remove"},
            packages : Seq(Packages), version : [Packages -> Nat],
            is_test : BOOLEAN, upgrade_all : BOOLEAN, major : BOOLEAN, ignore_test : BOOLEAN,
            protocol : {"v1", "v2"}]
Single == {"upgrade", "file"}
AllReleases == UNION {{p} \X Versions(p) : p \in Packages}

\* A package that comes from a file is one that Published and Needs describe.
ASSUME CommandsAreSuch ==
  /\ Commands \subseteq Command
  /\ \A c \in Commands : c.kind \in Single => Len(c.packages) = 1
  /\ \A c \in Commands : c.kind = "file" => c.version[c.packages[1]] \in Versions(c.packages[1])

\* No package is direct and indirect of one sort at once.
Separate(j) ==
  \A p \in Packages :
    /\ ~(p \in DOMAIN j["direct"] /\ p \in DOMAIN j["indirect"])
    /\ ~(p \in DOMAIN j["test_direct"] /\ p \in DOMAIN j["test_indirect"])

ASSUME WorldIsSuch ==
  /\ InitialProjects \subseteq Project /\ \A j \in InitialProjects : Separate(j)
  /\ InitialCaches \subseteq SUBSET AllReleases /\ Outages \subseteq SUBSET AllReleases
  /\ MaxCommands \in Nat

\* An elm.json that is cut off somewhere: no project, and no command reads it.
Torn == [kind |-> "torn"]

NoCommand ==
  [kind |-> "none", packages |-> <<>>, version |-> [p \in Packages |-> NotSelected], is_test |-> FALSE,
   upgrade_all |-> FALSE, major |-> FALSE, ignore_test |-> FALSE, protocol |-> "v1"]

Asked == {ask.packages[i] : i \in DOMAIN ask.packages}
Only == ask.packages[1]

NoWork ==
  /\ mem = elm /\ ask = NoCommand /\ pc = "idle"
  /\ todo = {} /\ rung = 1 /\ plan = <<>> /\ promoted = {} /\ reach = {}

\* What a process that ends leaves behind: nothing but files.
Finish ==
  /\ mem' = elm' /\ ask' = NoCommand /\ pc' = "idle"
  /\ todo' = {} /\ rung' = 1 /\ plan' = <<>> /\ promoted' = {} /\ reach' = {}

Init ==
  /\ elm \in InitialProjects /\ cached \in InitialCaches
  /\ tmp = "none" /\ result = "none" /\ issued = 0 /\ NoWork

(***************************************************************************)
(* The command is read and elm.json is loaded.  A V2 registry knows every  *)
(* dependency; for V1 they are in the packages' own elm.json files, which  *)
(* are downloaded when needed.                                             *)
(***************************************************************************)

Start(c, lost) ==
  /\ pc = "idle" /\ issued < MaxCommands /\ elm # Torn
  /\ issued' = issued + 1
  /\ ask' = c /\ mem' = elm
  /\ reach' = IF c.protocol = "v2" THEN AllReleases ELSE (AllReleases \ lost) \cup cached
  /\ pc' = "begin" /\ result' = "running"
  /\ todo' = {} /\ rung' = 1 /\ plan' = <<>> /\ promoted' = {}
  /\ UNCHANGED <<elm, tmp, cached>>

\* What is left of a torn elm.json cannot be parsed.
StartTorn ==
  /\ pc = "idle" /\ issued < MaxCommands /\ elm = Torn
  /\ issued' = issued + 1 /\ result' = "failed"
  /\ UNCHANGED <<elm, tmp, pc, cached, work>>

End(how) == UNCHANGED <<elm, tmp, cached>> /\ Finish /\ result' = how
Goto(where) == pc' = where /\ UNCHANGED <<elm, tmp, cached, result>>

(***************************************************************************)
(* install: one package                                                    *)
(***************************************************************************)

AskedVersion(p) == ask.version[p]
AnyVersion(p) == AskedVersion(p) = NotSelected /\ ~ask.major
Incomplete == find_missing_dependencies(mem, cached) # {}
Present(p) == p \in Listed(mem)
Installing == pc = "begin" /\ ask.kind = "install" /\ Len(ask.packages) = 1 /\ ~IsItself(mem, Only)

InstallItself ==
  /\ pc = "begin" /\ ask.kind \in {"install"}
  /\ \E p \in Asked : IsItself(mem, p)
  /\ End("failed")

\* Nothing to do: the version that was asked for, or some version in the right
\* place, and no dependency of the project is missing.
InPlace(p) ==
  /\ Present(p)
  /\ \/ AskedVersion(p) # NotSelected /\ VersionIn(mem, p) = AskedVersion(p) /\ ~Incomplete
     \/ AnyVersion(p) /\ ask.is_test /\ p \in DOMAIN mem["test_direct"]
     \/ AnyVersion(p) /\ ~ask.is_test /\ elm_json_find_package(mem, p) = "none" /\ ~Incomplete

InstallKeeps == Installing /\ InPlace(Only) /\ End("ok")

\* --test: a package of production gets a second entry.
AddToTests(p) ==
  IF p \in DOMAIN mem["test_indirect"] THEN Move(mem, "test_indirect", "test_direct", p)
  ELSE package_map_add(mem, "test_direct", p, find_existing_package(mem, p))

InstallMovesToTests ==
  /\ Installing /\ Present(Only) /\ AnyVersion(Only)
  /\ ask.is_test /\ Only \notin DOMAIN mem["test_direct"]
  /\ mem' = AddToTests(Only)
  /\ Goto("write") /\ UNCHANGED <<ask, todo, rung, plan, promoted, reach>>

InstallPromotes ==
  /\ Installing /\ Present(Only) /\ AnyVersion(Only)
  /\ ~ask.is_test /\ elm_json_find_package(mem, Only) # "none"
  /\ mem' = elm_json_promote_package(mem, Only)
  /\ Goto("write") /\ UNCHANGED <<ask, todo, rung, plan, promoted, reach>>

NeedsSolver(p) ==
  \/ ~Present(p)
  \/ AskedVersion(p) # NotSelected /\ ~InPlace(p)
  \/ AskedVersion(p) = NotSelected /\ ask.major
  \/ ~ask.is_test /\ elm_json_find_package(mem, p) = "none" /\ Incomplete

InRegistry(p) ==
  IF AskedVersion(p) = NotSelected THEN Published[p] # <<>> ELSE AskedVersion(p) \in Versions(p)

InstallUnknown == Installing /\ NeedsSolver(Only) /\ ~InRegistry(Only) /\ End("failed")

Solve(positions) ==
  todo' = positions /\ Goto(IF positions = {} THEN "confirm" ELSE "solve")

InstallSolves ==
  /\ Installing /\ NeedsSolver(Only) /\ InRegistry(Only)
  /\ Solve({1}) /\ UNCHANGED <<mem, ask, rung, plan, promoted, reach>>

(***************************************************************************)
(* install: several packages                                               *)
(***************************************************************************)

InstallingMany ==
  /\ pc = "begin" /\ ask.kind = "install" /\ Len(ask.packages) > 1
  /\ ~\E p \in Asked : IsItself(mem, p)

Indirect(p) == elm_json_find_package(mem, p) = "direct" /\ find_package_map(mem, p) = "indirect"
\* A test dependency is skipped like one that is direct already.
ToSolve(p) == ~Indirect(p) /\ (elm_json_find_package(mem, p) = "none" \/ Incomplete)

UnknownAmong ==
  \E p \in Asked : ~InRegistry(p) /\ (AskedVersion(p) # NotSelected \/ ToSolve(p))

InstallManyUnknown == InstallingMany /\ UnknownAmong /\ End("failed")

InstallMany ==
  /\ InstallingMany /\ ~UnknownAmong
  /\ promoted' = {p \in Asked : Indirect(p)}
  /\ Solve({i \in DOMAIN ask.packages : ToSolve(ask.packages[i])})
  /\ UNCHANGED <<mem, ask, rung, plan, reach>>

(***************************************************************************)
(* install --from-file and --from-url: once confirmed, the package is      *)
(* copied into the cache and recorded as it is; nothing is solved.         *)
(***************************************************************************)

InstallFile ==
  /\ pc = "begin" /\ ask.kind = "file"
  /\ plan' = [p \in {Only} |-> AskedVersion(p)]
  /\ Goto("confirm") /\ UNCHANGED <<mem, ask, todo, rung, promoted, reach>>

\* The directory of the package is removed before the copy is made.
CopyFails ==
  /\ pc = "confirm" /\ ask.kind = "file"
  /\ cached' = cached \ {<<Only, AskedVersion(Only)>>}
  /\ UNCHANGED <<elm, tmp>> /\ Finish /\ result' = "failed"

(***************************************************************************)
(* upgrade                                                                 *)
(***************************************************************************)

Upgrading == pc = "begin" /\ ask.kind = "upgrade"
Newer == Latest(Only, VersionIn(mem, Only), ask.major)

UpgradeUnknown == Upgrading /\ (~Present(Only) \/ Published[Only] = <<>>) /\ End("failed")

UpgradeCurrent ==
  /\ Upgrading /\ Present(Only) /\ Published[Only] # <<>>
  /\ Newer \in {NotSelected, VersionIn(mem, Only)}
  /\ End("current")

Blocked == ask.major /\ BlocksMajorUpgrade(mem, Only, reach, ask.ignore_test)
Upgradable ==
  /\ Upgrading /\ Present(Only) /\ Published[Only] # <<>>
  /\ Newer \notin {NotSelected, VersionIn(mem, Only)}

\* For V1 the elm.json of every listed package is looked into, and downloaded
\* for that.
InspectsDependents ==
  cached' = cached \cup
    (IF ask.protocol = "v1" /\ ask.major /\ CrossesMajor(mem, Only)
     THEN {<<q, VersionIn(mem, q)>> : q \in Listed(mem) \ {Only}} \cap reach ELSE {})

UpgradeBlocked ==
  /\ Upgradable /\ Blocked /\ InspectsDependents
  /\ UNCHANGED <<elm, tmp>> /\ Finish /\ result' = "failed"

UpgradeSolves ==
  /\ Upgradable /\ ~Blocked /\ InspectsDependents
  /\ ask' = [ask EXCEPT !.is_test = InTest(mem, Only)]
  /\ todo' = {1} /\ pc' = "solve"
  /\ UNCHANGED <<elm, tmp, mem, rung, plan, promoted, reach, result>>

Current == ask.packages[Min(todo)]

\* For V1 the solver downloads what it reads, for V2 nothing is read from the
\* packages and only the requested one is downloaded.
Learn(s) ==
  cached' = cached \cup
    (IF ask.protocol # "v2" THEN {<<p, s[p]>> : p \in Selected(s)} \cap reach
     ELSE IF todo = {} THEN {} ELSE {<<Current, s[Current]>>})

UpgradeAllRootsNow == UpgradeAllRoots(mem, ask.major)

UpgradeAll ==
  /\ pc = "begin" /\ ask.kind = "upgrade_all"
  /\ \E s \in Solutions(UpgradeAllRootsNow, reach) :
       /\ UpgradeAllPlanOf(mem, s) # <<>>
       /\ plan' = UpgradeAllPlanOf(mem, s) /\ Learn(s)
  /\ pc' = "confirm"
  /\ UNCHANGED <<elm, tmp, mem, ask, todo, rung, promoted, reach, result>>

UpgradeAllCurrent ==
  /\ pc = "begin" /\ ask.kind = "upgrade_all"
  /\ \E s \in Solutions(UpgradeAllRootsNow, reach) : UpgradeAllPlanOf(mem, s) = <<>> /\ Learn(s)
  /\ UNCHANGED <<elm, tmp>> /\ Finish /\ result' = "current"

UpgradeAllFails == pc = "begin" /\ ask.kind = "upgrade_all" /\ End("failed")

(***************************************************************************)
(* The ladder of strategies, for each package that has to be solved.  The  *)
(* solver may miss a solution, and whatever else goes wrong ends the       *)
(* command.                                                                *)
(***************************************************************************)

Ladder == strategies(ask, AskedVersion(Current))
RungRoots ==
  Roots(mem, Ladder[rung], ask)
    \cup Target(Current, IF Ladder[rung] = "cross_major" THEN NotSelected ELSE AskedVersion(Current))

SolverFinds ==
  /\ pc = "solve"
  /\ \E s \in Solutions(RungRoots, reach) :
       /\ <<Current, s[Current]>> \in reach
       /\ plan' = install_plan_merge(plan, InstallPlanOf(mem, s))
       /\ Learn(s)
  /\ todo' = todo \ {Min(todo)} /\ rung' = 1
  /\ pc' = IF todo' = {} THEN "confirm" ELSE "solve"
  /\ UNCHANGED <<elm, tmp, mem, ask, promoted, reach, result>>

SolverFindsNone ==
  /\ pc = "solve" /\ rung < Len(Ladder)
  /\ rung' = rung + 1
  /\ Goto("solve") /\ UNCHANGED <<mem, ask, todo, plan, promoted, reach>>

SolverGivesUp == pc = "solve" /\ rung = Len(Ladder) /\ End("failed")
DownloadFails == pc = "solve" /\ End("failed")

(***************************************************************************)
(* remove                                                                  *)
(***************************************************************************)

RemoveUnknown == pc = "begin" /\ ask.kind = "remove" /\ ~(Asked \subseteq Listed(mem)) /\ End("failed")
RemovePlans ==
  /\ pc = "begin" /\ ask.kind = "remove" /\ Asked \subseteq Listed(mem)
  /\ Goto("confirm") /\ UNCHANGED work

(***************************************************************************)
(* The plan is shown.  Installing several packages stops here when there   *)
(* is nothing to change.                                                   *)
(***************************************************************************)

HasChanges ==
  \/ ask.kind # "install" \/ Len(ask.packages) = 1
  \/ promoted # {} \/ InstallChanges(mem, plan, Asked) # <<>>

NothingToDo == pc = "confirm" /\ ~HasChanges /\ End("ok")

\* What the user confirms is shown for each command in its own way.  The
\* command ends with an answer that is no, and fails where none can be read.
Confirming(kind) == pc = "confirm" /\ ask.kind = kind
NotConfirmed == End("declined") \/ End("failed")

DeclineInstall == Confirming("install") /\ Len(ask.packages) = 1 /\ NotConfirmed
DeclineInstallMany == Confirming("install") /\ Len(ask.packages) > 1 /\ HasChanges /\ NotConfirmed
DeclineFile == Confirming("file") /\ End("declined")
DeclineUpgrade == Confirming("upgrade") /\ NotConfirmed
DeclineUpgradeAll == Confirming("upgrade_all") /\ NotConfirmed
DeclineRemove == Confirming("remove") /\ NotConfirmed

Installed(j) == add_or_update(j, InstallChanges(j, plan, Asked), Asked, ask.is_test)

Upgraded ==
  IF ask.protocol = "v2" THEN apply_bare(mem, plan, Asked, ask.is_test)
  ELSE apply_preserving_location(mem,
         IF ask.kind = "upgrade" THEN UpgradeChanges(mem, plan, Asked) ELSE plan, Asked, ask.is_test)

Edited ==
  CASE ask.kind = "install" -> Installed(PromoteIndirect(mem, promoted))
    [] ask.kind = "file" -> add_or_update(mem, plan, Asked, ask.is_test)
    [] ask.kind \in {"upgrade", "upgrade_all"} -> Upgraded
    [] ask.kind = "remove" ->
         IF IsApp(mem) THEN RemoveFromApp(mem, Asked, cached) ELSE RemoveFromPackage(mem, Asked)

Accept ==
  /\ pc = "confirm" /\ HasChanges
  /\ mem' = Edited /\ pc' = "write"
  /\ cached' = IF ask.kind = "file" THEN cached \cup {<<Only, AskedVersion(Only)>>} ELSE cached
  /\ UNCHANGED <<elm, tmp, result, ask, todo, rung, plan, promoted, reach>>

(***************************************************************************)
(* elm_json_write: the file is read again for everything but its           *)
(* dependency maps, written next to itself and renamed.                    *)
(***************************************************************************)

\* Mutant of OpenTmp: elm.json itself is opened for writing.
OpenInPlace ==
  /\ pc = "write" /\ elm' = Torn /\ pc' = "fill"
  /\ UNCHANGED <<tmp, cached, result, work>>

OpenTmp ==
  /\ pc = "write" /\ tmp' = "torn" /\ pc' = "fill"
  /\ UNCHANGED <<elm, cached, result, work>>

\* Nobody looks at what fputs and fprintf, and then fflush, fsync and fclose
\* answer: a full disk leaves a part of the file, and the command goes on.
FillTmp ==
  /\ pc = "fill" /\ tmp' \in {"whole", "torn"} /\ pc' = "rename"
  /\ UNCHANGED <<elm, cached, result, work>>

Rename ==
  /\ pc = "rename" /\ tmp = "whole"
  /\ elm' = mem /\ tmp' = "none"
  /\ Finish /\ result' = "ok"
  /\ UNCHANGED cached

\* The part is renamed like the whole, and success is reported.
RenameTorn ==
  /\ pc = "rename" /\ tmp = "torn"
  /\ elm' = Torn /\ tmp' = "none"
  /\ Finish /\ result' = "ok"
  /\ UNCHANGED cached

\* The file cannot be opened or not be renamed, the two errors that are noticed:
\* what was written of the temporary file is removed.
WriteFails ==
  /\ pc \in {"write", "rename"}
  /\ tmp' = IF pc = "write" THEN tmp ELSE "none"
  /\ UNCHANGED <<elm, cached>> /\ Finish /\ result' = "failed"

Crash ==
  /\ pc # "idle"
  /\ UNCHANGED <<elm, tmp, cached>> /\ Finish /\ result' = "crashed"

Step ==
  \/ InstallItself \/ InstallKeeps \/ InstallMovesToTests \/ InstallPromotes
  \/ InstallUnknown \/ InstallSolves \/ InstallManyUnknown \/ InstallMany \/ InstallFile \/ CopyFails
  \/ UpgradeUnknown \/ UpgradeCurrent \/ UpgradeBlocked \/ UpgradeSolves
  \/ UpgradeAll \/ UpgradeAllCurrent \/ UpgradeAllFails
  \/ SolverFinds \/ SolverFindsNone \/ SolverGivesUp \/ DownloadFails
  \/ RemoveUnknown \/ RemovePlans
  \/ NothingToDo \/ DeclineInstall \/ DeclineInstallMany \/ DeclineFile
  \/ DeclineUpgrade \/ DeclineUpgradeAll \/ DeclineRemove \/ Accept
  \/ OpenTmp \/ FillTmp \/ Rename \/ RenameTorn \/ WriteFails

Next ==
  \/ StartTorn
  \/ \E c \in Commands, lost \in Outages : Start(c, lost)
  \/ (Step \/ Crash) /\ UNCHANGED issued

Spec == Init /\ [][Next]_vars

(***************************************************************************)
(* Properties                                                              *)
(***************************************************************************)

\* The types of all but the project.
WorkOK ==
  /\ tmp \in {"none", "torn", "whole"}
  /\ ask \in Command
  /\ pc \in {"idle", "begin", "solve", "confirm", "write", "fill", "rename"}
  /\ todo \subseteq DOMAIN ask.packages /\ rung \in 1..3
  /\ plan \in Partial(Packages, AllVersions) /\ promoted \subseteq Packages
  /\ reach \subseteq AllReleases /\ cached \subseteq AllReleases
  /\ issued \in 0..MaxCommands
  /\ result \in {"none", "running", "ok", "failed", "declined", "current", "crashed"}

\* Every variable has its type, and elm.json is a whole project from the start
\* of a command to the step that replaces it: what a crash leaves is whole.
TypeOK ==
  /\ WorkOK
  /\ {elm, mem} \subseteq Project \cup {Torn}
  /\ pc # "idle" => {elm, mem} \subseteq Project

\* A command has replaced elm.json by the project that it had in memory.
Written == pc = "rename" /\ result' = "ok" /\ elm' # Torn

\* What elm_json.h:65 says of elm_json_write_formatted_atomic ("Write an
\* already-parsed elm.json ... atomically"): elm.json is never seen in part.
ElmJsonIsWhole == elm # Torn

\* What elm itself demands of the maps: a package is listed once, or in an
\* application as an indirect and as a direct test dependency of one version.
Structured(j) ==
  \A p \in Listed(j) :
    \/ \E m \in MapNames : Homes(j, p) = {m}
    \/ IsApp(j) /\ Homes(j, p) = {"indirect", "test_direct"} /\ j["indirect"][p] = j["test_direct"][p]

ListedOnce(j) == \A p \in Listed(j) : \E m \in MapNames : Homes(j, p) = {m}

Production(j) == DOMAIN j["direct"] \cup DOMAIN j["indirect"]

\* Everything that these packages need is listed in a version that they accept.
Solved(j, packages) ==
  \A p \in packages :
    LET needs == NeedsOf(AllReleases, p, VersionIn(j, p)) IN
      \A d \in DOMAIN needs : d \in Listed(j) /\ VersionIn(j, d) \in needs[d]

ListedReleases(j) == {<<p, VersionIn(j, p)>> : p \in Listed(j)}
\* The direct packages and what they need, directly or not.
Wanted(j) == Reachable(UNION {DOMAIN j[m] : m \in DirectMaps}, Edges(j, AllReleases))
NoIndirectNamed == \A p \in Asked : find_package_map(elm, p) \in DirectMaps

\* Commands that do not put a package into the test maps (install_cmd.c,
\* upgrade_v1.c, remove_cmd.c) leave each package in one map: promotion,
\* demotion and new entries never duplicate one.
OneMapEach ==
  [][Written /\ ListedOnce(elm) /\ ~(ask.kind = "install" /\ ask.is_test) => ListedOnce(elm')]_vars

\* Installing one package, upgrading one within its major version and removing
\* direct dependencies leave production complete and consistent, when every
\* elm.json that matters can be read; a package that is new also repairs it.
ProductionSolved ==
  [][/\ Written /\ IsApp(elm)
     /\ \/ Solved(elm, Listed(elm))
        \/ ask.kind = "install" /\ Only \notin Listed(elm)
     /\ \/ ask.kind = "install" /\ ~ask.major /\ Len(ask.packages) = 1 /\ reach = AllReleases
        \/ ask.kind = "upgrade" /\ ~ask.major /\ reach = AllReleases
        \/ ask.kind = "remove" /\ NoIndirectNamed /\ ListedReleases(elm) \subseteq cached
     => Solved(elm', Production(elm'))]_vars

\* install --test without --upgrade-all and --major changes no version of
\* production (solver strategies with pin_prod), whatever the plan has to change.
TestsPinProduction ==
  [][Written /\ ask.kind = "install" /\ ask.is_test /\ ~ask.upgrade_all /\ ~ask.major =>
       \A p \in Production(elm) : p \in Production(elm') /\ find_existing_package(elm', p) = find_existing_package(elm, p)]_vars

\* Without --major no package of production crosses a major version, whichever
\* strategy answered and however plans were merged.
WithinMajor ==
  [][Written /\ ask.kind \in {"install", "upgrade", "upgrade_all"} /\ ~ask.major =>
       \A p \in Production(elm) \cap Listed(elm') : Major(VersionIn(elm', p)) = Major(VersionIn(elm, p))]_vars

\* In a package project install adds only what was asked for and keeps every
\* constraint that is there.
PackagesKeepConstraints ==
  [][Written /\ ask.kind = "install" /\ ~IsApp(elm) =>
       /\ Listed(elm') \subseteq Listed(elm) \cup Asked
       /\ \A p \in Listed(elm) : p \in Listed(elm') /\ find_existing_package(elm', p) = find_existing_package(elm, p)]_vars

\* remove leaves no indirect dependency that nothing needs, whatever can be
\* read, and takes no direct dependency that was not named.
RemoveCleansUp ==
  [][Written /\ ask.kind = "remove" /\ IsApp(elm) /\ NoIndirectNamed =>
        /\ Listed(elm') \subseteq Wanted(elm')
        /\ \A m \in DirectMaps : DOMAIN elm[m] \ Asked \subseteq DOMAIN elm'[m]]_vars

\* Upgrading one package within its major version gives a newer one ("Package
\* must transition to 1.0.5", doc/upgrade_policy.md:31).
UpgradeDelivers ==
  [][Written /\ ask.kind = "upgrade" /\ ~ask.major /\ IsApp(elm) => VersionIn(elm', Only) > VersionIn(elm, Only)]_vars

\* What elm accepts is what it accepts after the command.
StructureKept == [][Written /\ Structured(elm) => Structured(elm')]_vars
=============================================================================
