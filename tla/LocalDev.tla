------------------------------ MODULE LocalDev ------------------------------
(***************************************************************************)
(* Packages under local development: wrap install --local-dev puts a       *)
(* symbolic link to a source directory into the package cache, remembers   *)
(* the directory in a PATH file, enters the version into two registries    *)
(* and keeps, per version, a file for every application that uses it.      *)
(* Later commands restore links, refresh the applications when the package *)
(* gains or loses a dependency, and clear compiler caches before a build.  *)
(*                                                                         *)
(* A command is a sequence of steps, each of which changes one file; it    *)
(* may stop after any of them.  Developers edit between commands.          *)
(***************************************************************************)
EXTENDS FiniteSetsExt, SequencesExt

CONSTANTS
  Names,        \* packages with a source directory of their own
  Others,       \* published packages; each has one version and needs nothing
  Versions,     \* versions a local package may carry
  Apps,         \* applications
  Commands,     \* the commands and edits of a run
  Faults,       \* steps whose write may fail
  MaxCode,      \* bound: edits of a source
  MaxTroubles,  \* bound: crashes and failed writes
  InitialApps   \* the elm.json files applications start from

ASSUME VersionsAreBounded ==
  Versions # {} /\ Max(Versions) \in Nat /\ Versions \subseteq 1 .. Max(Versions)
ASSUME LocalIsNotPublished == Names \cap Others = {}
ASSUME AppsAreNamed == "" \notin Apps
ASSUME BoundsAreNumbers == MaxCode \in Nat \ {0} /\ MaxTroubles \in Nat

VARIABLES
  source,     \* per package: its directory's elm.json and code
  link,       \* per version: what the package cache has in its place
  dirs,       \* versions that have a tracking directory
  path,       \* per version: the PATH file in it
  tracked,    \* per version: the applications with a file in it
  text,       \* registry-local-dev.dat
  dat,        \* local versions in registry.dat
  app,        \* per application: its elm.json
  art,        \* per package: the code in its artifacts.dat, 0 if there is none
  stuff,      \* per application: the code in its elm-stuff, 0 if there is none
  kits,       \* what wrap kit keeps; only module Kit reads or changes it
  todo,       \* the steps the running command has left
  seen,       \* versions it has looked at
  excused,    \* versions, and applications as <<a>>, that a crash or a failure cut short
  troubles    \* how many of those there were

files == <<source, link, dirs, path, tracked, text, dat, app, art, stuff, kits>>
vars == <<files, todo, seen, excused, troubles>>

Packages == Names \cup Others
Keys == Names \X Versions
Places == {"direct", "indirect"}
Entries == Keys \cup Others \X {1}
Json == [Places -> SUBSET Entries]

ASSUME InitialAppsAreJson == InitialApps \subseteq Json

Listed(j) == {e[1] : e \in j.direct \cup j.indirect}
ListedKeys(j) == (j.direct \cup j.indirect) \cap Keys
VersionIn(j, n) == (CHOOSE e \in j.direct \cup j.indirect : e[1] = n)[2]

\* A step: what to do, for which version and application or tool, the elm.json
\* to write, the steps lost when it fails, 0 for the rest of the command, and for
\* a loop its rounds, each a sequence of steps.
NoKey == <<>>
NoJson == [p \in Places |-> {}]
Made(op, k, a, j, rounds) ==
  [op |-> op, k |-> k, a |-> a, j |-> j, loses |-> 0, rounds |-> rounds]
Do(op, k) == Made(op, k, "", NoJson, {})
For(op, k, a) == Made(op, k, a, NoJson, {})
Write(a, j) == Made("elm_json", NoKey, a, j, {})
Loop(rounds) == Made("loop", NoKey, "", NoJson, rounds)
Losing(n, step) == [step EXCEPT !.loses = n]
Try(op, k) == Losing(1, Do(op, k))

Each(op, S) == Loop({<<Do(op, k)>> : k \in S})

Idle == todo = <<>>
Step == Head(todo)
Doing(op) == ~Idle /\ Step.op = op
Done == todo' = Tail(todo)
Then(steps) == todo' = steps \o Tail(todo)
Stop == todo' = <<>> /\ seen' = {}

Init ==
  /\ source = [n \in Names |->
                 [there |-> TRUE, version |-> Min(Versions), needs |-> {}, code |-> 1]]
  /\ link = [k \in Keys |-> "none"] /\ path = [k \in Keys |-> "none"]
  /\ tracked = [k \in Keys |-> {}]
  /\ dirs = {} /\ text = {} /\ dat = {}
  /\ app \in [Apps -> InitialApps]
  /\ art = [n \in Names |-> 0] /\ stuff = [a \in Apps |-> [n \in Names |-> 0]]
  /\ todo = <<>> /\ seen = {} /\ excused = {} /\ troubles = 0

-----------------------------------------------------------------------------
(* What the solver sees *)

Linked(k) == link[k] = "source" /\ source[k[1]].there

\* find_package_info reads through the link.
NeedsSeen(k) == IF k \in Keys /\ Linked(k) THEN source[k[1]].needs ELSE {}

Known(n) == n \in Others \/ \E k \in dat : k[1] = n
Newest(n) == IF n \in Others THEN 1 ELSE Max({k[2] : k \in {l \in dat : l[1] = n}})
Chosen(j, n) == <<n, IF n \in Listed(j) THEN VersionIn(j, n) ELSE Newest(n)>>

\* The packages that a solution of j with S besides holds: S may only grow by
\* what a chosen version needs.
Closed(j, S) == \A n \in S : Known(n) \/ n \in Listed(j) => NeedsSeen(Chosen(j, n)) \subseteq S
Solution(j, S) == {n \in Packages : \A T \in SUBSET Packages :
                                      Listed(j) \cup S \subseteq T /\ Closed(j, T) => n \in T}

\* A version in the solution whose elm.json cannot be read ends the search.
Solvable(j, S) ==
  \A n \in Solution(j, S) :
    /\ n \in Listed(j) \/ Known(n)
    /\ n \in Names => Linked(Chosen(j, n))

Changes(j, S) == {Chosen(j, n) : n \in Solution(j, S) \ Listed(j)}

\* find_orphaned_packages, for an application: indirect entries that no direct
\* one reaches.
Reach(j, from) ==
  {n \in Packages : \A T \in SUBSET Packages :
     /\ from \subseteq T
     /\ \A e \in j.direct \cup j.indirect : e[1] \in T => NeedsSeen(e) \subseteq T
     => n \in T}
Orphans(j) == {e \in j.indirect : e[1] \notin Reach(j, {d[1] : d \in j.direct})}

-----------------------------------------------------------------------------
(* Files that steps write *)

Keep(written) == UNCHANGED written /\ UNCHANGED <<kits, excused, troubles>>

\* A loop takes its rounds in any order.
next_round ==
  /\ Doing("loop")
  /\ \/ Step.rounds = {} /\ Done
     \/ \E round \in Step.rounds : Then(round \o <<Loop(Step.rounds \ {round})>>)
  /\ UNCHANGED <<files, seen, excused, troubles>>

\* create_package_symlink removes what is there and links.
unlink_package ==
  /\ Doing("unlink") /\ Done
  /\ link' = [link EXCEPT ![Step.k] = "none"]
  /\ Keep(<<source, dirs, path, tracked, text, dat, app, art, stuff, seen>>)

create_package_symlink ==
  /\ Doing("symlink") /\ Done
  /\ link' = [link EXCEPT ![Step.k] = "source"]
  /\ Keep(<<source, dirs, path, tracked, text, dat, app, art, stuff, seen>>)

\* The directory and the truncated file come first, the line after.
open_source_path ==
  /\ Doing("open_path") /\ Done
  /\ dirs' = dirs \cup {Step.k}
  /\ path' = [path EXCEPT ![Step.k] = "empty"]
  /\ Keep(<<source, link, tracked, text, dat, app, art, stuff, seen>>)

save_local_dev_source_path ==
  /\ Doing("path") /\ Done
  /\ path' = [path EXCEPT ![Step.k] = "source"]
  /\ Keep(<<source, link, dirs, tracked, text, dat, app, art, stuff, seen>>)

register_local_dev_v2_text_registry ==
  /\ Doing("text") /\ Done
  /\ text' = text \cup {Step.k}
  /\ Keep(<<source, link, dirs, path, tracked, dat, app, art, stuff, seen>>)

ensure_local_dev_in_registry_dat ==
  /\ Doing("dat") /\ Done
  /\ dat' = dat \cup {Step.k}
  /\ Keep(<<source, link, dirs, path, tracked, text, app, art, stuff, seen>>)

register_dependency_tracking ==
  /\ Doing("track") /\ Done
  /\ dirs' = dirs \cup {Step.k}
  /\ tracked' = [tracked EXCEPT ![Step.k] = @ \cup {Step.a}]
  /\ Keep(<<source, link, path, text, dat, app, art, stuff, seen>>)

\* The compiler forgets elm-stuff when elm.json is newer.
elm_json_write ==
  /\ Doing("elm_json") /\ Done
  /\ app' = [app EXCEPT ![Step.a] = Step.j]
  /\ stuff' = [stuff EXCEPT ![Step.a] = [n \in Names |-> 0]]
  /\ Keep(<<source, link, dirs, path, tracked, text, dat, art, seen>>)

RegisterFiles(k) ==
  <<Losing(2, Do("open_path", k)), Try("path", k), Try("text", k), Try("dat", k)>>
RegisterSteps(k) == <<Do("unlink", k), Do("symlink", k)>> \o RegisterFiles(k)

(***************************************************************************)
(* ensure_local_dev_symlink: without a line in PATH the version is not     *)
(* local; a source that is gone is reported and nothing changes.           *)
(***************************************************************************)
ensure_local_dev_symlink ==
  /\ Doing("ensure")
  /\ IF path[Step.k] # "source" \/ (source[Step.k[1]].there /\ link[Step.k] = "source")
     THEN Done
     ELSE IF source[Step.k[1]].there
     THEN Then(<<Losing(3 * Step.loses, Do("unlink", Step.k)),
                 Losing(2 * Step.loses, Do("symlink", Step.k)), Try("dat", Step.k)>>)
     ELSE IF Step.loses = 0 THEN todo' = <<>> ELSE Done
  /\ UNCHANGED <<files, seen, excused, troubles>>

register_local_dev_tracking_if_needed ==
  /\ Doing("track_if")
  /\ IF Step.k \in text THEN Then(<<[Step EXCEPT !.op = "track"]>>) ELSE Done
  /\ UNCHANGED <<files, seen, excused, troubles>>

EnsureAndTrack(a, changes) ==
  Loop({<<Try("ensure", k), Losing(1, For("track_if", k, a))>> : k \in changes \cap Keys})

-----------------------------------------------------------------------------
(* Commands in an application *)

Begin(command, steps) == command \in Commands /\ Idle /\ todo' = steps /\ seen' = {}

\* add_or_update_package_in_elm_json for the package itself, in the map that
\* lists it already.
AddOrUpdate(j, k) ==
  IF k[1] \in Listed(j)
  THEN [p \in Places |-> {IF e[1] = k[1] THEN k ELSE e : e \in j[p]}]
  ELSE [j EXCEPT !.direct = @ \cup {k}]

\* wrap install --local-dev --from-path: everything the source needs is solved
\* before anything is written.
install_local_dev(a, n) ==
  LET k == <<n, source[n].version>>
      wanted == source[n].needs \ Listed(app[a])
      j == [app[a] EXCEPT !.indirect = @ \cup (IF wanted = {} THEN {} ELSE Changes(app[a], wanted))]
  IN  /\ source[n].there
      /\ wanted # {} => Solvable(app[a], wanted)
      /\ Begin("from path",
               RegisterSteps(k) \o <<Write(a, AddOrUpdate(j, k)),
                                     Losing(1, For("track", k, a))>>)
      /\ Keep(files)

\* wrap install of a package that the application does not list.
install_package(a, n) ==
  /\ n \notin Listed(app[a]) /\ Known(n) /\ Solvable(app[a], {n})
  /\ LET changes == Changes(app[a], {n})
         j == [direct |-> app[a].direct \cup {e \in changes : e[1] = n},
               indirect |-> app[a].indirect \cup {e \in changes : e[1] # n}]
     IN  Begin("install", <<Write(a, j), EnsureAndTrack(a, changes)>>)
  /\ Keep(files)

\* One that it lists: the link is checked, an indirect entry becomes direct.
install_listed(a, n) ==
  /\ n \in Listed(app[a]) \cap Names
  /\ LET k == <<n, VersionIn(app[a], n)>>
     IN  Begin("install", <<Do("ensure", k)>> \o
               IF k \in app[a].direct THEN <<>>
               ELSE <<Write(a, [direct |-> app[a].direct \cup {k},
                                indirect |-> app[a].indirect \ {k}])>>)
  /\ Keep(files)

\* wrap remove of a direct dependency: it stays as an indirect one while
\* something needs it, and orphans go.  Tracking files stay.
remove_package(a, n) ==
  /\ \E e \in app[a].direct : e[1] = n
  /\ LET e == <<n, VersionIn(app[a], n)>>
         demoted == [direct |-> app[a].direct \ {e}, indirect |-> app[a].indirect \cup {e}]
     IN  Begin("remove", <<Write(a, [demoted EXCEPT !.indirect = @ \ Orphans(demoted)])>>)
  /\ Keep(files)

-----------------------------------------------------------------------------
(* Commands in a package *)

\* wrap install --local-dev there, under the version of its elm.json or one
\* given on the command line; wrap package init and wrap kit end in the same call.
register_local_dev_package(k) ==
  /\ source[k[1]].there
  /\ Begin("register", RegisterSteps(k))
  /\ Keep(files)

VersionDirs(n) == {k \in dirs : k[1] = n}

\* Mutant of find_local_dev_package_info: only the version in elm.json is looked up.
OwnVersionOnly(n, k) == k = IF <<n, source[n].version>> \in dirs THEN <<n, source[n].version>> ELSE NoKey

\* find_local_dev_package_info takes the first version directory that readdir
\* returns; the applications that track another version are passed over.
find_local_dev_package_info(n, k) == k \in IF VersionDirs(n) = {} THEN {NoKey} ELSE VersionDirs(n)

PassedOver(n, k) ==
  {<<a>> : a \in UNION {tracked[l] : l \in IF k = NoKey THEN {} ELSE VersionDirs(n) \ {k}}}

\* local_dev_get_tracking_apps
Dependents(op, k) == <<Loop({<<For(op, k, a)>> : a \in IF k = NoKey THEN {} ELSE tracked[k]})>>

\* wrap install and wrap remove change the package's own elm.json, then the
\* applications.
refresh_local_dev_dependents(n, m) ==
  /\ source[n].there /\ m \in Packages \ (source[n].needs \cup {n}) /\ Known(m)
  /\ source' = [source EXCEPT ![n].needs = @ \cup {m}]
  /\ \E k \in dirs \cup {NoKey} :
       /\ find_local_dev_package_info(n, k)
       /\ Begin("add need", Dependents("refresh", k))
       /\ excused' = excused \cup PassedOver(n, k)
  /\ UNCHANGED <<link, dirs, path, tracked, text, dat, app, art, stuff, kits, troubles>>

prune_local_dev_dependents(n, m) ==
  /\ source[n].there /\ m \in source[n].needs
  /\ source' = [source EXCEPT ![n].needs = @ \ {m}]
  /\ \E k \in dirs \cup {NoKey} :
       find_local_dev_package_info(n, k) /\ Begin("drop need", Dependents("prune", k))
  /\ Keep(<<link, dirs, path, tracked, text, dat, app, art, stuff>>)

\* An application for which the solver finds nothing is skipped.
refresh_app_indirect_deps ==
  /\ Doing("refresh")
  /\ LET a == Step.a
         wanted == source[Step.k[1]].needs \ Listed(app[a])
         j == [app[a] EXCEPT !.indirect = @ \cup Changes(app[a], wanted)]
     IN  IF wanted = {} THEN Done /\ UNCHANGED excused
         ELSE IF Solvable(app[a], wanted) THEN Then(<<Losing(1, Write(a, j))>>) /\ UNCHANGED excused
         ELSE Done /\ excused' = excused \cup {<<a>>}
  /\ UNCHANGED <<files, seen, troubles>>

prune_app_orphaned_deps ==
  /\ Doing("prune")
  /\ LET a == Step.a
         j == [app[a] EXCEPT !.indirect = @ \ Orphans(app[a])]
     IN  IF j = app[a] THEN Done ELSE Then(<<Losing(1, Write(a, j))>>)
  /\ UNCHANGED <<files, seen, excused, troubles>>

\* wrap uninstall --local-dev; a directory that is gone already is no error.
unregister_local_dev_package(n) ==
  LET k == <<n, source[n].version>>
  IN  /\ source[n].there
      /\ Begin("unregister", (IF k \in dirs THEN <<Do("drop", k)>> ELSE <<>>) \o <<Do("undat", k)>>)
      /\ Keep(files)

-----------------------------------------------------------------------------
(* wrap repository local-dev *)

clear_package_tracking(k) ==
  /\ Begin("clear", (IF k \in dirs THEN <<Do("drop", k)>> ELSE <<>>)
                    \o <<Do("undat", k), Do("untext", k)>>)
  /\ Keep(files)

clear_all_tracking ==
  /\ dirs # {} \/ text # {}
  /\ Begin("clear", <<Each("undat", dirs), Do("drop_all", NoKey)>>)
  /\ Keep(files)

\* wrap kit, before it installs a kit again.
repository_clear_local_dev_registration(k) ==
  /\ Begin("clear", <<Do("undat", k), Do("untext", k)>>
                    \o (IF k \in dirs THEN <<Do("drop", k)>> ELSE <<>>))
  /\ Keep(files)

clear_path_tracking(k, a) ==
  /\ a \in tracked[k]
  /\ Begin("clear path", <<For("untrack", k, a)>>)
  /\ Keep(files)

\* Listing removes the connections of applications that do not, or no longer,
\* list the package as a direct dependency.
prune_stale_local_dev_connections ==
  /\ LET stale == {c \in Keys \X Apps : /\ c[2] \in tracked[c[1]]
                                        /\ \A e \in app[c[2]].direct : e[1] # c[1][1]}
     IN  Begin("list", <<Loop({<<For("untrack", c[1], c[2])>> : c \in stale})>>)
  /\ Keep(files)

\* Mutant of drop_tracking_dir: the PATH file stays behind.
DropTrackingKeepPath ==
  /\ Doing("drop") /\ Done
  /\ dirs' = dirs \ {Step.k}
  /\ tracked' = [tracked EXCEPT ![Step.k] = {}]
  /\ Keep(<<source, link, path, text, dat, app, art, stuff, seen>>)

drop_tracking_dir ==
  /\ Doing("drop") /\ Done
  /\ dirs' = dirs \ {Step.k}
  /\ path' = [path EXCEPT ![Step.k] = "none"]
  /\ tracked' = [tracked EXCEPT ![Step.k] = {}]
  /\ Keep(<<source, link, text, dat, app, art, stuff, seen>>)

\* The text registry lies in the tracking directory.
drop_all_tracking ==
  /\ Doing("drop_all") /\ Done
  /\ dirs' = {} /\ text' = {}
  /\ path' = [k \in Keys |-> "none"] /\ tracked' = [k \in Keys |-> {}]
  /\ Keep(<<source, link, dat, app, art, stuff, seen>>)

remove_local_dev_from_registry_dat ==
  /\ Doing("undat") /\ Done
  /\ dat' = dat \ {Step.k}
  /\ Keep(<<source, link, dirs, path, tracked, text, app, art, stuff, seen>>)

remove_local_dev_from_text_registry ==
  /\ Doing("untext") /\ Done
  /\ text' = text \ {Step.k}
  /\ Keep(<<source, link, dirs, path, tracked, dat, app, art, stuff, seen>>)

untrack ==
  /\ Doing("untrack") /\ Done
  /\ tracked' = [tracked EXCEPT ![Step.k] = @ \ {Step.a}]
  /\ Keep(<<source, link, dirs, path, text, dat, app, art, stuff, seen>>)

-----------------------------------------------------------------------------
(* wrap make, for an application *)

TrackedBy(a) == {k \in Keys : a \in tracked[k]}

cmd_make(a) ==
  /\ Begin("make", <<Each("fetch", ListedKeys(app[a])), Do("reinsert", NoKey),
                     Each("compile", TrackedBy(a)), Losing(1, For("clean", NoKey, a)),
                     For("build", NoKey, a)>>)
  /\ Keep(files)

\* A version is looked at once; its link is repaired first.
download_package_recursive ==
  /\ Doing("fetch")
  /\ IF Step.k \in seen THEN Done ELSE Then(<<Try("ensure", Step.k), Do("have", Step.k)>>)
  /\ seen' = seen \cup {Step.k}
  /\ UNCHANGED <<files, excused, troubles>>

\* What is not in the cache, a link to nowhere included, is downloaded; no
\* server has a local version.  The newest version of each need comes next.
continue_with_needs ==
  /\ Doing("have")
  /\ LET needs == NeedsSeen(Step.k)
     IN  IF link[Step.k] = "none" \/ (link[Step.k] = "source" /\ ~source[Step.k[1]].there)
            \/ \E n \in needs : ~Known(n)
         THEN Stop
         ELSE Then(<<Each("fetch", {<<n, Newest(n)>> : n \in needs \cap Names})>>) /\ UNCHANGED seen
  /\ UNCHANGED <<files, excused, troubles>>

\* Mutant of reinsert_local_dev: whatever was looked at goes in.
ReinsertAll ==
  /\ Doing("reinsert") /\ Done
  /\ dat' = dat \cup seen
  /\ Keep(<<source, link, dirs, path, tracked, text, app, art, stuff, seen>>)

\* A registry that was downloaded again has lost the local versions.
reinsert_local_dev ==
  /\ Doing("reinsert") /\ Done
  /\ dat' = dat \cup (seen \cap dirs)
  /\ Keep(<<source, link, dirs, path, tracked, text, app, art, stuff, seen>>)

\* What an application tracks is fetched and compiled by itself, whether the
\* application still lists it or not; code that does not compile ends the
\* command.  The compiler is asked for no output and leaves no artifacts.dat.
builder_compile_local_dev_packages ==
  /\ Doing("compile")
  /\ IF Linked(Step.k)
     THEN LET needs == source[Step.k[1]].needs
          IN  Stop \/ /\ \A n \in needs : Known(n)
                      /\ Then(<<Each("fetch", {<<n, Newest(n)>> : n \in needs \cap Names}),
                                Do("reinsert", NoKey)>>)
                      /\ UNCHANGED seen
     ELSE Done /\ UNCHANGED seen
  /\ UNCHANGED <<files, excused, troubles>>

\* Mutant of builder_clean_local_dev_artifacts: artifacts.dat stays.
CleanElmStuffOnly ==
  /\ Doing("clean") /\ Done
  /\ LET a == Step.a
     IN  stuff' = IF TrackedBy(a) = {} THEN stuff ELSE [stuff EXCEPT ![a] = [n \in Names |-> 0]]
  /\ Keep(<<source, link, dirs, path, tracked, text, dat, app, art, seen>>)

\* elm-stuff of the application and the artifacts of what it tracks go; whether
\* that works is not looked at.
builder_clean_local_dev_artifacts ==
  /\ Doing("clean") /\ Done
  /\ LET a == Step.a
     IN  IF TrackedBy(a) = {} THEN UNCHANGED <<art, stuff>>
         ELSE /\ stuff' = [stuff EXCEPT ![a] = [n \in Names |-> 0]]
              /\ art' = [n \in Names |-> IF \E k \in TrackedBy(a) : k[1] = n /\ Linked(k) THEN 0 ELSE art[n]]
  /\ Keep(<<source, link, dirs, path, tracked, text, dat, app, seen>>)

\* The compiler takes a package from elm-stuff, else from its artifacts.dat,
\* else it compiles the source and leaves an artifacts.dat.  What is no link is
\* a published copy, which counts as code 0.
compiler_make ==
  /\ Doing("build") /\ Done
  /\ LET a == Step.a
         linked == {n \in Names : \E k \in ListedKeys(app[a]) : k[1] = n /\ Linked(k)}
         code(n) == IF n \notin linked THEN 0
                    ELSE IF stuff[a][n] # 0 THEN stuff[a][n]
                    ELSE IF art[n] # 0 THEN art[n] ELSE source[n].code
     IN  /\ stuff' = [stuff EXCEPT ![a] = [n \in Names |-> code(n)]]
         /\ art' = [n \in Names |-> IF n \in linked /\ stuff[a][n] = 0 THEN code(n) ELSE art[n]]
  /\ seen' = {}
  /\ Keep(<<source, link, dirs, path, tracked, text, dat, app>>)

-----------------------------------------------------------------------------
(* What happens between and during commands *)

\* A developer edits code, raises or lowers the version, or moves the directory
\* away or back.
Edit(n) ==
  /\ Begin("edit", <<>>) /\ source[n].code < MaxCode
  /\ source' = [source EXCEPT ![n].code = @ + 1]
  /\ Keep(<<link, dirs, path, tracked, text, dat, app, art, stuff>>)

Bump(n, v) ==
  /\ Begin("bump", <<>>) /\ v # source[n].version
  /\ source' = [source EXCEPT ![n].version = v]
  /\ Keep(<<link, dirs, path, tracked, text, dat, app, art, stuff>>)

Listing(k) == {<<a>> : a \in {b \in Apps : k \in ListedKeys(app[b])}}

Troubled == troubles < MaxTroubles /\ troubles' = troubles + 1

Move(n) ==
  /\ Begin("move", <<>>) /\ Troubled
  /\ source' = [source EXCEPT ![n].there = ~@]
  /\ excused' = excused \cup (UNION {Listing(<<n, v>>) : v \in Versions})
  /\ UNCHANGED <<link, dirs, path, tracked, text, dat, app, art, stuff, kits>>

\* Another tool replaces a link by a copy, or removes it.
Replace(k, by) ==
  /\ Begin("replace", <<>>) /\ Troubled
  /\ link[k] = "source" /\ link' = [link EXCEPT ![k] = by]
  /\ excused' = excused \cup Listing(k)
  /\ UNCHANGED <<source, dirs, path, tracked, text, dat, app, art, stuff, kits>>

\* registry.dat is downloaded again (see RegistrySync).
ResetRegistry ==
  /\ Begin("reset", <<>>) /\ dat' = {}
  /\ Keep(<<source, link, dirs, path, tracked, text, app, art, stuff>>)

\* What the rest of the running command was about, and those it concerns.
CutStep(step) == {step.k, <<step.a>>} \cup Listing(step.k)
Cut(steps) ==
  (UNION {CutStep(steps[i]) : i \in DOMAIN steps})
  \cup (UNION {UNION {CutStep(round[i]) : i \in DOMAIN round} :
                round \in UNION {steps[i].rounds : i \in DOMAIN steps}})
Excuse(steps) == excused' = excused \cup (Cut(steps) \ {NoKey, <<"">>})

Crash ==
  /\ ~Idle /\ Troubled
  /\ Stop /\ Excuse(todo)
  /\ UNCHANGED files

Fail ==
  /\ ~Idle /\ Step.op \in Faults /\ Troubled
  /\ IF Step.loses = 0 THEN Stop /\ Excuse(todo)
     ELSE todo' = SubSeq(todo, Step.loses + 1, Len(todo)) /\ UNCHANGED seen /\ Excuse(<<Step>>)
  /\ UNCHANGED files

-----------------------------------------------------------------------------
Steps ==
  \/ next_round \/ unlink_package \/ create_package_symlink
  \/ open_source_path \/ save_local_dev_source_path
  \/ register_local_dev_v2_text_registry \/ ensure_local_dev_in_registry_dat
  \/ register_dependency_tracking \/ elm_json_write
  \/ ensure_local_dev_symlink \/ register_local_dev_tracking_if_needed
  \/ refresh_app_indirect_deps \/ prune_app_orphaned_deps
  \/ drop_tracking_dir \/ drop_all_tracking
  \/ remove_local_dev_from_registry_dat \/ remove_local_dev_from_text_registry \/ untrack
  \/ download_package_recursive \/ continue_with_needs \/ reinsert_local_dev
  \/ builder_compile_local_dev_packages \/ builder_clean_local_dev_artifacts \/ compiler_make

InApplication(a) ==
  \/ \E n \in Names : install_local_dev(a, n) \/ install_listed(a, n)
  \/ \E n \in Packages : install_package(a, n) \/ remove_package(a, n)
  \/ cmd_make(a)

InPackage(n) ==
  \/ \E v \in Versions : register_local_dev_package(<<n, v>>) \/ Bump(n, v)
  \/ \E m \in Packages : refresh_local_dev_dependents(n, m) \/ prune_local_dev_dependents(n, m)
  \/ unregister_local_dev_package(n) \/ Edit(n) \/ Move(n)

Anywhere ==
  \/ \E k \in Keys :
       \/ clear_package_tracking(k) \/ repository_clear_local_dev_registration(k)
       \/ \E a \in Apps : clear_path_tracking(k, a)
       \/ \E by \in {"copy", "none"} : Replace(k, by)
  \/ clear_all_tracking \/ prune_stale_local_dev_connections \/ ResetRegistry

Next ==
  \/ Steps \/ Crash \/ Fail
  \/ \E a \in Apps : InApplication(a)
  \/ \E n \in Names : InPackage(n)
  \/ Anywhere

Spec == Init /\ [][Next]_vars

-----------------------------------------------------------------------------
TypeOK ==
  /\ source \in [Names -> [there : BOOLEAN, version : Versions, needs : SUBSET Packages, code : 1 .. MaxCode]]
  /\ link \in [Keys -> {"none", "copy", "source"}] /\ path \in [Keys -> {"none", "empty", "source"}]
  /\ tracked \in [Keys -> SUBSET Apps] /\ \A k \in Keys \ dirs : path[k] = "none" /\ tracked[k] = {}
  /\ dirs \in SUBSET Keys /\ text \in SUBSET Keys /\ dat \in SUBSET Keys
  /\ app \in [Apps -> Json]
  /\ art \in [Names -> 0 .. MaxCode] /\ stuff \in [Apps -> [Names -> 0 .. MaxCode]]
  /\ seen \in SUBSET Keys /\ troubles \in 0 .. MaxTroubles
  /\ \A i \in DOMAIN todo : todo[i].k \in Keys \cup {NoKey} /\ todo[i].j \in Json

(***************************************************************************)
(* A local version in registry.dat has a tracking directory, through which *)
(* the clear commands find it, unless a command that removes both was cut  *)
(* short.                                                                  *)
(***************************************************************************)
RegisteredIsTracked == Idle => dat \subseteq dirs \cup excused

(***************************************************************************)
(* A build uses the code of the source directory as it is, for every       *)
(* package the application tracks whose PATH file leads there: the link    *)
(* was repaired and nothing compiled earlier was left to be picked up.     *)
(***************************************************************************)
BuildsUseTheSource ==
  [][\A a \in {b \in Apps : <<b>> \notin excused} :
       Doing("build") /\ Step.a = a /\ Done /\ troubles' = troubles =>
         \A k \in ListedKeys(app[a]) \ excused :
           k \in TrackedBy(a) /\ path[k] = "source" /\ source[k[1]].there =>
             stuff'[a][k[1]] = source[k[1]].code]_vars

(***************************************************************************)
(* An application that tracks a local package lists what that package      *)
(* needs, after every command, unless it was passed over or something was  *)
(* cut short.                                                              *)
(***************************************************************************)
DependentsFollow ==
  Idle => \A a \in {b \in Apps : <<b>> \notin excused} : \A k \in ListedKeys(app[a]) :
    /\ a \in tracked[k]
    /\ ListedKeys(app[a]) \cap excused = {}
    => source[k[1]].needs \subseteq Listed(app[a])
=============================================================================
