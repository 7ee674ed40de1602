# elm-wrap in TLA+

elm-wrap (`src/`) is a package manager for Elm written in C. It keeps a cache of
the package registry, solves for a consistent set of package versions, downloads
them into the Elm package cache and rewrites `elm.json`. This directory holds
TLA+ models of its core, the TLC configurations that check them, and theorems
about them that TLAPS proves.

## 1. The system

| Part | Code | State it keeps | Operations | Hard behaviour |
|---|---|---|---|---|
| PubGrub solver | `src/pgsolver/pg_core.c` | trail of assignments, incompatibilities and their per-package lists, changed-package stack, decision level, counters | add a root requirement, solve, read the selected versions | conflict resolution and backjumping, stale decision flags, lost propagations, budgets |
| Version ranges | `pg_core.c`, `commands/package/package_common.c` | none | intersect, subset, contains, exact, caret and tilde ranges, constraint parsing | inclusive against exclusive bounds, unbounded ends, 16-bit components that wrap |
| Provider adapters | `pgsolver/pg_elm.c`, `protocol_v2/solver/pg_elm_v2.c` | package ids, the registry it reads | versions of a package, dependencies of a version | failures half-way through a solve, fixed buffers |
| Registry synchronisation | `install_env.c`, `registry.c` | `registry.dat`, its since-count sidecar, its ETag; the copies in memory | load, repair, fetch, update, write | crashes between three files, failed writes, several processes |
| Package cache | `protocol_v1/package_fetch.c`, `cache.c`, `http_client.c`, `fileutil.c` | one directory per package version | fetch metadata and archive, verify, extract, check, repair | partial downloads and extractions taken for complete ones |
| Strategies and plans | `solver.c`, `protocol_v1/solver/solver.c` | an install plan | the ladder of solving strategies, several packages at once, merging plans | plans computed apart and merged |
| elm.json | `elm_json.c`, `elm_project.c` | direct, indirect and test dependency maps | read, add, promote, remove, write | a package in two maps, orphans after a removal |
| Local development packages | `commands/package/install_local_dev.c`, `local_dev/` | tracking directories, symlinks, a text registry, entries in `registry.dat` | register, install, refresh, prune, unregister | four places that must agree |
| V2 repositories | `protocol_v2/`, `commands/repository/` | an index and a text registry | load, merge, fetch | the V1 questions over another format |
| Cache commands, mirror, kits | `commands/cache/`, `commands/repository/mirror_cmd.c`, `commands/kit/` | the directories above | loops over download and check | failure of one item among many |
| Extraction, build plans | `commands/package/extract_cmd.c`, `build/`, `import_tree.c` | sources of two projects, two `elm.json` files | move modules into a package of their own, order modules and packages | a stop between two moves, cycles, modules of one name |
| Source analysis, review, publishing | `ast/`, `rulr/`, `commands/review/`, `commands/publish/` | syntax trees, rule databases | transformations and reports | pure computation |
| Front ends and wrappers | `main.c`, `commands/*`, `build/` | none of their own | argument parsing, running elm | process I/O |

The commands call the strategies, which build a provider over the registry in
memory (`install_env.c` loads and refreshes it) and run the solver; the plan
that comes out is downloaded into the package cache and written to `elm.json`.
Local development packages are spliced into the same registry file and cache.
What makes each part correct:

* the solver: what it returns satisfies every dependency and every requirement;
  it terminates; it says "no solution" only when there is none;
* the ranges: the operations are the set operations they are named for;
* the registry: the counter sent to the server never passes a version that the
  map lacks; the ETag never vouches for data that was not stored; what is on
  disk can be read back after a crash;
* the cache: a directory that is taken for complete is complete;
* the plan: applying it gives the versions that were solved for.

The hazards, with the line where each one bites and the properties that watch
it, are listed in `PROJECT.json`.

## 2. Modules

### VersionRange

The range algebra of the solver as operators: `pg_range_intersect`,
`pg_range_contains`, `pg_range_subset`, `pg_range_is_exact`, the constructors,
and what `version_parse_constraint` makes of an `elm.json` constraint. A version
is a triple of components below the constant `U16`, which stands for 2^16: the
cast of `version_parse` and the `major + 1` of a caret range wrap at it. The
fields of a bound that the code leaves alone when it is unbounded are zero, as
`pg_unbounded_bound` sets them.

### PubGrub

`pg_solver_solve` as a state machine. Its variables are the fields of `PgSolver`
(trail, incompatibilities, lists, changed stack, level, statistics) and of the
loops that the code keeps on the C stack: `pc` for the place in the main loop,
`scan` for the package popped and the list index reached, `todo` for the
dependencies still to register, `merge` for `pg_incompatibility_resolve_with`.
A pointer to an incompatibility is its index in `incs`, NULL is 0.

| Action | Code |
|---|---|
| `AddRootDependency` | `pg_solver_add_root_dependency`, 1999-2017 |
| `SeedRoot` | the start of `pg_solver_solve`, 2025-2058 |
| `RegisterDependency`, `RegisterDone` | one dependency of `pg_register_dependencies`, 1129-1173 |
| `CheckBudget` | `pg_solver_budget_check` in the main loop, 2060-2064 |
| `PopChanged`, `ScanSkip`, `ScanDerive`, `ScanConflict`, `PropagationDone` | `pg_unit_propagate`, 1195-1269 |
| `DecideError`, `DecideNoVersions`, `Decide`, `DecideComplete` | `pg_make_decision` with `pg_solver_evaluate_candidate`, 990-1384 |
| `ResolveRootFailure`, `ResolveNoSatisfier`, `ResolveRootLevel`, `ResolveNoCause`, `ResolveWithCause`, `MergeTerm`, `MergeDone`, `ResolveBackjump` | `pg_resolve_conflict`, 1630-1768, and the backtracking that follows it, 2093-2122 |
| `Done` | the return, 2125-2127 |

The provider is the pair of operators `get_versions` and `get_dependencies`
over a registry chosen in the initial state; it may answer an error, as the
callbacks may. Every `reg` in `Registries` is a package universe, so one run
checks the solver on thousands of them.

`SolutionValid` is the specification of the solver: what
`pg_solver_get_selected_version` returns after `PG_SOLVER_OK` holds the root,
only versions that the provider lists, and for every selected version all its
dependencies at versions inside their ranges. `RootRequirementsHonoured` is the
same for the requirements of the caller, `SelectionNeeded` says that nothing
else is selected, `NoInternalError` that a healthy provider never ends the
search with an error.

### RegistrySync

Three files that belong together and are written one after the other:
`registry.dat` (a count and a map), `registry.dat.since-count` (the count
again, "the sidecar") and the ETag of the last answer. The count is the number
sent to `/all-packages/since/<n>`: a version that is missing from the map while
the count says that it was seen is never asked for again. A version is its
position in the server's log, so versions `1 .. n` are what a server offers that
has published `n`, the ETag is `n`, and version 0 is one that only exists
locally. A process is one `wrap` command; `pc` says where it is.

| Action | Code |
|---|---|
| `LoadRegistry`, `LoadEtag`, `RepairHeader`, `HeaderAgrees` | `install_env_ensure_v1_registry` up to the connection, `install_env.c` 451-532 |
| `Offline`, `SkipUpdate`, `Online` | its three ways on, 534-577 |
| `FetchFails`, `FetchNotModified`, `Fetch` | `install_env_fetch_registry` with `parse_all_packages_json`, 666-751 |
| `HeadNotModified`, `Head`, `SinceFails`, `Since` | `install_env_update_registry` with `parse_since_response`, 753-848 |
| `WriteSidecar`, `WriteEtag` | the two small files, 197-226 and 61-91 |
| `OpenTmp`, `FillTmp`, `RenameTmp`, `WriteFails` | `registry_dat_write`, `registry.c` 338-437 |
| `Edit`, `NoEdit` | every command that loads the file, changes the map and writes it back: local-dev install, restore, uninstall and clear, the re-insertion by the compiler wrappers, the debug commands `add`, `remove`, `apply-since` |
| `ResetDat`, `ResetEtag`, `ResetSidecar`, `DeleteFails` | `wrap debug registry_v1 reset` |
| `Publish`, `ElmUpdate`, `Crash` | the server, the elm compiler (which shares `registry.dat`), the end of a process |

All writers share one temporary path. `tmp` is the file under that name and
`file[p]` says which path the file that process `p` has open has now, since a
rename by another process moves it: that is how a writer comes to write into
`registry.dat` itself. A file that was opened for writing and not finished is
`Torn`, and loading it gives no registry. The sidecar and the ETag are renamed
into place as well; they are small enough that each is one step here.

`Faults` says what may go wrong. A write that fails and is noticed ("dat",
"sidecar", "etag") leaves the old file. What no writer notices is "flush":
`fflush`, `fsync` and `fclose` are called (`registry.c` 425-427) and their results
ignored, so what stdio still holds may be lost there, and `FillTmp` leaves a `Torn`
file that `RenameTmp` puts in place with success; the two small files are lost in
the same way.

`Merged` are the versions of `registry-local-dev.dat` next to the registry (the
Lamdera registry is merged at the same place). `answered[p]` is history: how
many versions existed when the server last answered process `p`.

### The package cache (`PackageCache`, `PackageStore`)

State: `dir[q]`, the directory of one version of a package under
`ELM_HOME/packages` (`endpoint.json`, `elm.json`, `docs.json`, `src/`, each of
them missing, truncated or good), and per process the command, the work list
`todo` (the recursion of `cache_download_package_recursive` and
`download_package_recursive` flattened), the temporary archive and the number of
attempts. Every operation that may stop half-way is two steps: `Metadata`/
`Arrived` (`http_download_file_ex` opens the destination itself), `Extract`/
`Extracted`, `Copy`/`Copied`, `RemoveDirectory`/`DirectoryRemoved`. `Crash` falls
between any two of them; `faults` bounds how many operations fail.

A copy has a third outcome beside `Copied` and `NotCopied`. `copy_directory_selective` and
`copy_directory_recursive` take a read that ends in an error for the end of the file
and ignore `fclose` (`fileutil.c` 564-572, 664-672): `CopiedShort` leaves a part and
reports success, although fileutil.h:43 says "Returns true on success, false on
failure" (`CopiedIsWhole` states it, and fails when it is added to `MCPackageCache.cfg`). On the route "own", a V2 repository that is the cache itself,
`install_env_download_package` returns true without copying or looking
(`AlreadyPresent`, `install_env.c` 884-888), so a directory without sources is
reported as cached.

A command that goes through a list (`BrokenVersions`, `DownloadQueue`,
`MissingList`) takes the members of a set in the order of another list, each of
them once; `InOrder` says which list that is, in a form the proofs can use. Four
history variables say about a command what the code does not record and the
properties need: whether it has had the cache for itself since it started
(`alone`), whether moreover nothing has failed (`clean`), whether any command
has taken archives without comparing hashes (`unchecked`), and which packages it
reported after a copy that lost bytes of them (`shortened`).

`PackageStore` is the abstract promise (no command that has the cache for itself
loses a whole package, except by putting another copy in its place); `KeepsWhole`
is the refinement `INSTANCE PackageStore WITH whole <- WholePackages, shared <-
Overlap`.

What a crash leaves in `/tmp` is not modelled. Most names there are new each time;
`cache --from-url` uses the fixed `/tmp/wrap_cache_<author>_<name>`
(`cache_cmd.c:531`), which nothing removes: what an earlier run extracted there and
the new archive does not replace is copied into the cache along with it. That the
copy may hold more than the archive is below what `dir` tells apart.

What the model shows the code does, and no property contradicts: a package whose
extraction was cut has a non-empty `src/` and counts as fully downloaded ever
after (`cache_package_fully_downloaded`); a truncated `endpoint.json` or
`elm.json` is never fetched again, so that only `--fix-broken`, which removes the
directory first, heals it; and after a failed dependency a second
`wrap package cache` prints "and all dependencies already cached"
(`cache_cmd.c:739`) because a package that is there ends the recursion
(`CachedWithDependencies` states the claim; adding it as an invariant to
`MCPackageCache.cfg` makes TLC print that behaviour).

### The project and its elm.json (`ElmJson`, `InstallPlan`, `Project`)

State: the file `elm.json` (its four dependency maps, two in a package project),
the temporary file beside it, the maps in memory, and of the running command its
position, the packages still to be solved, the strategy that is tried and the
plan. `ElmJson` holds the edits of the maps (adding, updating, promoting,
demoting, removing, the search for orphans and for missing dependencies);
`InstallPlan` holds what each strategy of `solver.c` requires, the plan read off
a solution and how plans are merged. The solver is abstract: any selection that
meets the requirements and contains nothing without a reason, which is what
`PubGrubPromises` proves of it, or none, since it may give up. `Project` runs
the commands `install`, `install --from-file`, `upgrade` and `remove` step by
step; several packages are solved one by one, and `todo` holds the places on the
command line that are left; `Crash` falls between any two steps, and `OpenTmp`, `FillTmp`, `Rename` are
the three steps of `elm_json_write`. Of its errors the code notices two, a file
that cannot be opened and one that cannot be renamed (`WriteFails`): elm.json stays
as it is. `write_elm_json_formatted_to_file` looks at no `fputs` or `fprintf`
(`elm_json.c` 526-638) and its caller at none of `fflush`, `fsync` and `fclose`
(668-670), so `FillTmp` may leave a part, which `RenameTorn` puts in the place of
elm.json with success. No command reads such a file (`StartTorn`). elm_json.h:65
says "atomically"; `ElmJsonIsWhole` states it, and adding it as an invariant to
`MCProject.cfg` makes TLC print how it fails.

The constants carry three assumptions. Versions are listed newest first
(`NewestFirst`), and what a release needs are packages (`NeedsArePackages`).
Commands name packages, one of them for `upgrade` and `--from-file`, and a package
that comes from a file is one whose version and needs the constants describe
(`CommandsAreSuch`). The projects to start from are well formed: applications list
exact versions, package projects have no indirect maps, and no package is direct
and indirect of one sort at once (`WorldIsSuch`), all of which elm demands too.

What the model shows the code does, and no property contradicts:

- `install --test X` with `X` in production adds a second entry
  (`install_cmd.c:358`), which elm rejects (doc/elm_make_deps_check.md, "merge
  rules"); adding `StructureKept` to `MCProject.cfg` makes TLC print it.
- `--major` leaves the rest of production out of the problem
  (`protocol_v1/solver/solver.c:364`), so production may end up with versions
  that it does not accept; `upgrade --major all` states no requirement at all and
  finds the empty solution, where test-cases.md:559 expects version 3.0.0.
- `upgrade` of everything writes new versions but never adds a dependency that a
  new version needs (`solver.c` of either protocol, `existing &&`).
- `remove` deletes an indirect package that is named even when it is needed, and
  on a cache without the packages' elm.json files takes needed ones for orphans.
- `install --test` of several packages takes a test dependency for a direct one.

### Local development packages and kits (`LocalDev`, `Kit`)

State: per package the source directory (`elm.json`, version, code); per version
what the package cache has in its place, the tracking directory with its PATH
file and one file per application, the text registry and the entries of
`registry.dat`; per application its `elm.json` and `elm-stuff`; the compiler's
`artifacts.dat`. Five of these must agree and none is written together with
another.

A command is a sequence of steps, `todo`, each of which changes one file: the
action that starts it (`install_local_dev`, `register_local_dev_package`,
`refresh_local_dev_dependents`, `cmd_make`, ...) checks what the code checks
first and lays down the steps; an action named after the function that does the
work takes each. Steps that look before they act (`ensure_local_dev_symlink`,
`download_package_recursive`, `refresh_app_indirect_deps`) replace themselves by
what they find to do. A loop over a directory or a list is one step, `loop`, with
the set of its `rounds`; `next_round` takes one of them, any, and puts its steps
in front, since neither `readdir` nor the lists have an order to rely on. `Fail` lets the step at the head fail: `loses` says how
many steps the code then leaves out, all of them where it returns an error.
`Crash` falls between any two steps. Between commands `Edit`, `Bump`, `Move`,
`Replace` and `ResetRegistry` are what developers, other tools and a lost cache
do. `excused` remembers the versions and applications that a trouble concerned:
the properties say nothing of them and everything of the rest.

A write fails here only where the code notices it. That `elm_json_write` and
`registry_dat_write` may lose the end of a file without notice is left to `Project`
and `RegistrySync`, which show what comes of it.

The solver here is the least set that is closed under what the chosen versions
need; packages in `Others` are published, have one version and need nothing.

`Kit` extends `LocalDev` with the record `kits` (binaries, links in
`TOOL_BIN_PATH`, stored kitfiles, the link `current`) and three commands:
`cmd_kit_install`, `InstallOrReinstall` and `Update`. An update downloads and
stores first, then takes down what the old kitfile lists and puts up the new. It
ends in the calls of `LocalDev`, so a kit that dies half-way leaves the local
packages in the states that `LocalDev`'s commands then meet. `loose` are
installations that were cut short or that no kitfile records.

What the model shows the code does, and no property contradicts:

- An indirect package that `refresh_app_indirect_deps` adds to an application is
  not tracked even if it is local (`install_local_dev.c`, around 817): its new
  needs never reach that application.
- `find_local_dev_package_info` takes the first version directory `readdir`
  returns, so applications that use another version are passed over
  (`PassedOver`).
- `unregister_local_dev_package` removes the tracking of the version in the
  package's `elm.json`; after the version was raised the old one stays until a
  clear command names it.
- A kit's teardown removes a tool link by name, another kit's included; a failing
  unlink is not reported; after a crash between removing and making `current`
  the next update is a fresh install that removes nothing; tools that were found
  in the kit's folder are in no stored kitfile and are never taken down.

### Mirrors (`Mirror`)

State: what is released, the marker in WRAP_HOME, the manifest, the archives by
hash, the metadata, and the running command with its work queue. `Begin` is the
scan of `registry.dat`, which numbers the releases it looks at and skips those
whose number the marker has passed; `SkipItem`, `store_archive_by_hash`,
`finish_copy`, `store_metadata` and `mirror_manifest_add` handle one release;
`mirror_manifest_write_json` and `mirror_since_write` end the command. `Crash`
falls between any two.

The one claim that is checked is the code's own, that what the marker makes the
scan skip was mirrored before, and it fails (section 3). Without looking further
the model also shows that an item whose download failed is passed by the marker
of the items after it, that the archive of a copy that was cut is taken for whole
(`mirror_cmd.c:458`), that one marker serves every output directory and every set
of options, and that a manifest that could not be written does not keep the
marker from moving.

### Source trees, extraction and build plans (`SourceTree`, `Extract`, `BuildPlan`)

`SourceTree` has what both components read: which text lies at which place, what
it imports, whether `skeleton_parse` accepts it, the application's `elm.json` and
the packages in the cache. Parsing is abstracted to `imports` and `broken`.

`Extract` is `wrap package extract`: `cmd_extract` refuses a selection that
imports other modules of the application (`OutOfSelection`); then the directory,
the templates, the registration, the moves (`rename_file`, or `open_dest`,
`write_dest`, `unlink_source` where the package lies on another device),
`add_dependencies`, `write_exposed_modules`, `install_local_dev` and
`demote_unused_app_direct_dependencies`, each an action, with `Stop` after any of
them. `wrap package init` shares the first half.

`BuildPlan` is pure: `build_generate_plan` with its package order, crawl, depth-
first order, levels and batches, and `import_tree_analyze`, the redundant files
of a package. They are evaluated on every state in which no command runs, the
half-extracted ones included.

What the model shows the code does, and no property contradicts:

- A failure half-way through the moves leaves the sources in two places, and
  every further try is refused because the target directory exists. A path given
  twice, or a file and the directory it lies in, fails at the second move. Two
  selected files of one module name in two source directories end in one place.
- Unused packages are removed from the application rather than made indirect, so
  the list need not stay closed under dependencies. A module that two listed
  packages expose counts for the first by name, even if that one is indirect.
- Modules above a file that cannot be parsed are in no batch, and nothing reports
  it. `plan->roots` is read uninitialised when an entry point lies outside the
  source directories; the model gives entries that do not.

Import cycles are a matter of their own, since the code and its documents speak of
them. `compute_module_build_order` compares the modules it placed with those there
are and would report "Cycle detected in module dependencies" and fail
(`build_driver.c` 930-933), as doc/plans/build-driver.md plans (349-350, 736) and as
the guarantees of doc/build-ordering.md need (114, 139-148). But a depth-first order
that marks modules on the way in places every module, so the test never holds
(`problem` of a plan): the modules of a cycle, and those above it, are in the order and in no
batch. `PlanFollowsImports` says nothing of them (`Stuck`). The claim is
`CyclesAreReported`; adding it as an invariant to `MCSources.cfg` makes TLC print
two modules that import each other, an order in which one of them stands before its
import, and no problem.

## 3. Runs, bounds and fairness

| Run | Instance | Shows |
|---|---|---|
| `solver_ranges` | U16 = 4; layered registries of three packages with two versions each; requirements of the caller with exact, caret, tilde and unrestricted ranges over cyclic dependencies with exact, half-open and unrestricted ranges and one whose upper bound wraps, so that it is empty; failing providers; every conflict of up to three decisions occurs | the inductive invariant (accumulated ranges and final decisions are parts of it), valid solutions, nothing selected without a reason, complete propagation, requirements kept and honoured, no internal error |
| `solver_ends` | 8 registries that succeed, fail and loop, conflict budget 4 | the main loop ends |
| `solver_complete` (violation) | layered registries of three packages with two versions each | the solver answers "no solution" although there is one: a learned clause with one term ends the search |
| `registry_crashes` | one process, 3 published versions, local-dev packages of a version that stays local, of one that is published later and of one that is published already, debug commands that raise and lower the header up to 4; crashes between any two steps, sidecar and ETag that cannot be written; cache directories left by wrap | the ETag never vouches for what registry.dat lacks, "up to date" means complete, registry.dat is never half written, the cache catches up |
| `registry_failures` | no debug commands; registry.dat cannot be written either, and the end of any of the three files may be lost without notice; cache directories left by elm and by wrap, and none; either local edits, or resets with deletions that fail, not both on one cache | no published version is skipped, a running command holds what it does not ask for |
| `registry_failed_write` (violation) | registry.dat cannot be written | the ETag is stored all the same |
| `package_cache` | two packages, every directory that crashes and failures can leave, every command, up to two failures; two processes at once that repair and cache, with one failure, on an empty cache | what is reported downloaded is complete unless a copy lost bytes without notice, repairs repair, no command loses a whole package, every command ends |
| `project` | four packages, 9 projects (applications, packages, consistent ones and not), 29 commands, two after each other, any solution or none, downloads that fail, crashes, writes that fail with and without notice | elm.json is a whole project after every crash and every failure that is noticed; installing, upgrading and removing leave production solved; tests never move production; no major version is crossed unasked; package projects keep their constraints; removal cleans up |
| `project_upgrade` (violation) | consistent applications, `upgrade` of one package | the upgrade ends well and changes nothing |
| `local_dev` | one application, one local package in two versions, one published package, three kitfiles of two versions; every command; one crash, failed write, moved source or overwritten link | builds use the source as it is, what is registered can be found and cleared, applications follow the needs of what they track, linked tools exist and `current` leads somewhere, a kit delivers what it lists and an update leaves nothing of the old version |
| `mirror_incremental` (violation) | two packages with two versions, incremental runs without any failure | a release published in front of a mirrored one is skipped for good |
| `sources` | 54 import graphs of up to four files in two source directories, one file broken or none, three sets of packages, six selections; a stop after any step | no source is lost, the package stands alone, the application keeps its imports, build plans follow the imports of modules that reach no cycle and no broken file |

Versions need two values and a third beyond the range to tell every bound apart;
two versions per package and three packages are the least with which a decision
can be wrong, be learned from and be undone across another level. The budgets
(`MaxDecisions` and so on, the `PG_MAX_*` constants) are above what an instance
needs, except `MaxConflicts` in `solver_ends`, so that the budget itself ends
some searches. Buffers hold eight entries and are never full in the runs.

`FairSpec` gives weak fairness to the steps of `pg_solver_solve` once it is
called: the solver is one thread that blocks on nothing. Adding root
requirements is the caller's choice and has no fairness.


In `RegistrySync`, versions matter only by whether they were there before the
count that a file holds, so three published versions give every order of one
already cached, one that arrives while a command runs and one later. `MaxCount`
keeps the debug commands from raising the header for ever. `FairSpec` gives weak
fairness to the steps of a command that was started, since a command is one
thread whose requests time out; no fairness makes users start commands, the
server publish or machines stay up. `CatchesUp` therefore has a hypothesis: that
again and again some command gets an answer from a server that has published
everything.

Two properties are checked only where they hold.

- `NeverTorn` needs one process and a disk on which nothing is lost without notice.
  `registry_dat_write` writes "to temporary file first" (`registry.c` 341) and ends
  with an "Atomic rename" (429), but the temporary name is the fixed `<path>.tmp`,
  so that one process empties the file that the other is about to rename
  (`registry_failed_write` with `Processes = {p1, p2}` and `NeverTorn` shows it), and
  the results of the last three calls before the rename are ignored (`NeverTorn` in
  `registry_failures` shows that). `registry_crashes` has neither.
- `UpToDateMeansComplete` needs a cache without resets. `reset` deletes
  registry.dat before the ETag; with `Commands <- ResetCommands` and a crash in
  between, the next command sends the ETag that survived, is told "not
  modified", and `install_env_fetch_registry` counts an empty registry as
  success (`install_env.c` 695-709). A registry.dat whose end was lost has the same
  effect, so neither this property nor `EtagHonest` is checked with "flush".

`NothingSkipped` is checked in `registry_failures`, without the debug commands: one
that raises the header of a cache without a sidecar makes the next command skip
versions, as it is meant to, and so does a local-dev edit after a reset that died
between its deletions. The runs with debug commands start on caches that wrap
itself has written.

`NothingSkipped` also needs one process: with `Processes = {p1, p2}` one of them
may rename an older registry.dat under the newer sidecar of the other. And with
`uninstall` of a local-dev package whose version is published, the version is
removed for good (`install_local_dev.c` 1543), although the documentation says
that it only "reverts the local-only V1 registry cache mutation". `BackjumpDerives`
in `PubGrub` states the claim of doc/pubgrub-solver-spec.md:366 that a learned
incompatibility derives something at once; `pg_core.c` 1676 goes on without it
when it does not.

`Project` takes no lock and reads elm.json once, so one command at a time is
modelled. Two commands after each other reach every way in which one command
prepares the ground for another, since they start from nine projects. A version
is a number whose tens are its major version. The properties carry the conditions
under which the code keeps them: everything that matters can be read
(`ProductionSolved`), nothing indirect is named, no `--major`. `TestsPinProduction`
needs the last one too: with `--major` one package is solved without production,
and the plan may move what the package needs.

`PackageCache` has weak fairness for the steps of a command that was started, and
a bounded number of failures (`faults`); that is what `CommandsEnd` rests on. In
`Project`, `LocalDev`, `Kit`, `Mirror` and `Extract` a command is a finite list of
steps, so that nothing is asked of their liveness and no fairness is stated.

`MCLocalDev` cuts the behaviours down by an action constraint, `Orderly`: versions
only rise and are registered as they are, a source gets new code or new needs but
not both, code changes after it was built, the published package stays indirect,
and a kit is used on a machine without applications and packages of its own
(`Alone`). What is left are all orders of all commands with one trouble
(`MaxTroubles = 1`). A second trouble would only add versions and applications to
`excused`, of which the properties say nothing. Two versions are what it takes for
one to be registered and another to be in the source's `elm.json`; two kit
versions and three tools give one tool that stays, one that goes and one that
comes, and a kitfile that changes under the same version.

`MCSources` has the least graphs with a module in two directories, an import cycle,
a chain of two imports, a module that two packages expose, and a package that only
another one needs. `MCMirror` needs no failure and no second command option to
violate the claim.
## 4. What is proved

The first part of `PubGrubProofs` proves for every `U16` that intersection contains exactly
the versions both ranges contain (`IntersectIsMeet`), that the subset test is
sound (`SubsetIsSound`), that an exact range answers every satisfaction question
one way or the other (`ExactIsDecisive`), that the two tests of the code for "in
the range", `pg_range_contains` of the solver and `version_in_range` of the
commands, agree (`OneMeaningOfRanges`), and that a caret constraint means the same
major version from the one given on, except at the last major version, where the
bound wraps and the range is empty (`CaretIsMajor`). These replace runs: they hold
for all versions and not for 27 of them. The assumption on `U16` is evaluated by
every run of the solver.

The second part proves `Spec => []Inv` and from it
`SolutionValid`, for any packages, provider, registries and budgets. `SolutionValid`
alone says nothing of the states before the last one; `Inv` adds what the
search keeps true on the way:

* levels never decrease along the trail, so that popping to a level removes
  exactly what came later (`LevelsMonotone`);
* what is accumulated for a package lies in every range assigned to it
  (`RangesAccumulate`), a decision is exact, listed by the provider and final
  (`DecisionsFinal`, `DecisionsOffered`);
* every dependency of every decision is an attached clause
  (`DependenciesRegistered`, `ClausesListed`);
* a clause that calls for propagation mentions a package on the changed stack
  or lies ahead of the scan (`PropagationComplete`), the hard one: assignments,
  backjumps and the registration of new clauses all disturb it.

At `PG_SOLVER_OK` the stack is empty, so no dependency clause of a decision
calls for propagation; its first term is satisfied by the decision, so its
second is contradicted: the dependency has a positive range inside the required
one, nothing is left undecided, and its decision lies in that range. The proof
assumes `DependenciesFit`, that the provider's lists fit
`PG_DEPENDENCY_BUFFER` (a longer list is cut short by the code), and the named
assumptions on the constants. `RootRequirementsKeptAlways` proves that no step
touches an assignment of level 0.

`PubGrubPromises` adds what the caller may read besides versions.
`RequirementsHonoured` needs one more invariant, that below level 1 the trail holds
requirements and nothing derived (`RootsPositive`): backjumps stop at level 1, where
the root is, so propagation never derives anything below it. A requirement is then
a positive assignment, the package has a decision after it (`Undecided` is empty at
the end, and nothing positive follows a decision), and the decision lies in every
range accumulated before it. `InternalErrorsAreProviders` shows with
`RangesNotEmpty` that `make_decision` never meets an empty accumulated range: a
positive range comes from a requirement that was checked against what was there,
from a decision, or from a negative term that the trail leaves open, and negative
terms come only from parsed dependencies, through registration or merging. It
assumes `RequirementsNotEmpty`. `NoPropagationLost` names the conjunct of `Inv` that
is hardest to keep.

`SelectionIsNeeded` shows that nothing is selected without a reason, which is
about every clause the solver learns. Two invariants carry it. `ClausesExplained`:
a clause either has positive terms only, and then rules versions out, or it is a
positive term on one exact version and one negative term that the first
*entails*: whatever selection honours the dependencies read so far and contains
that version has a version inside the negated range, and some selected version
depends on its package. A parsed dependency is of that form, and so is what
`pg_incompatibility_resolve_with` makes of two such clauses: dropping the terms of
the satisfier's package leaves positive terms, or the first term of one clause and
the second of the other, which it entails in two steps (`ResolutionExplains`).
`TrailExplained`: accumulated ranges narrow, a package is required before it is
decided, and an assignment with a cause is what that cause, with the assignments
before it, asks for; clauses are only appended and the trail only loses its end,
so a cause stays what it was. An exact version is never ruled out of a package that already has an exact
requirement, without which merging could keep the wrong pair of terms. At
`PG_SOLVER_OK` the first positive assignment of a package is of level 0 or
derived; if derived, the version its cause names is selected, and the selection
honours every dependency read (`SolutionHonours`), so what the clause entails is
there.

`RegistrySyncProofs` proves about the registry cache, for any number of
versions, commands with local edits, crashes and faults, what the runs check on
three versions. The assumptions are `OneAtATime` (there is one process at a
time) and `LocalEditsOnly` (commands add local-dev versions and remove only
versions that are not published); section 3 says what two processes
and the `uninstall` of a published version do, so neither can be dropped.

`NothingSkipped` is not inductive: it speaks of the disk only, and a command
that was started earlier may overwrite what it speaks of. `CounterInv` adds that
the registry in memory covers the count on disk from the moment it is loaded to
the end of a write (`MemoryHonest`), that the file under the temporary name is
complete when it is renamed (`TmpReady`), and that the count about to be written
to the sidecar is covered too (`DiskHonest`). `CounterInvariance` proves it
action by action; `SinceCovers` is the arithmetic behind "advance by the length
of the answer". It follows that no crash, no write that fails and none whose end is
lost makes a command skip a version (`NothingIsSkipped`, `KnownVersionsAreHeld`).
A registry.dat that is torn reads as none: the command works on an empty registry
with a count of zero (`Empty`) and asks for everything, and whatever the counters say
that are left on disk (`Holds`), they are not ahead of the server
(`CountersPublished`). That `registry.dat` is never torn (`RegistryNeverTorn`)
assumes `"flush" \notin Faults`, which is necessary (section 3).

`EtagInv` relates the ETags on disk and in memory to registry.dat in the same
way. It needs that registry.dat can be written and that no write is lost
(`{"dat", "flush"} \cap Faults = {}`), which `registry_failed_write` shows to be
necessary; crashes and noticed failures to write the other two files are allowed. From it follow `EtagIsHonest` and `UpToDateIsComplete`.
`RegistryTypeCorrect` has no assumptions.

`ExtractProofs` proves about `wrap package extract`, for any files, imports,
selections and numbers of source directories, with a stop or a failed system
call after any step, what `sources` checks on one small project.
`SourcesAlwaysSurvive` rests on `ExtractInv`: a text is where it was or where the
package has it (`WhereTextsAre`); a place of the application holds its own text or
none, and the source of a copy that is being written is still whole
(`PlacesHoldTheirOwn`); a move writes only a selected place and its destination
(`MovesSelected`). `ExtractedStandsAlone` needs more, since it compares files after
the move with checks made before it: `AloneInv` says that what was checked still
describes the files, those that have moved and those that have not. That a package
which is listed provides an imported module is found by a search in order, whose
first hit exists by a least-number lemma. `TypeCorrect` adds the order of the
steps (`InOrder`): files move only when the template is complete, and only a
complete package is listed. `ImportsStay` is about what is left behind: an import
that was satisfied by a file is satisfied by that file or, if it was selected, by
the new package, which is among the direct dependencies before anything is demoted
(`AppInv`); one that was satisfied by a package keeps it, since demoting asks for the
first owner of every module that a file imports, and with one owner that is the
package. Proving it changed the property: which packages may compete for a module
includes those that installing the package adds to the application, not only
those it had, because the code looks through both maps. The assumption is
`StartsAreProjects`: at the start files import known modules, and elm.json and the
cache name packages.

`PackageCacheProofs` proves every safety property of the run `package_cache`, for
any packages and dependencies, commands, number of processes, attempts and
failures; what the run has in two packages and two failures holds for all of them.
`CacheAssumption` is the only assumption of four of its theorems: dependencies and
command lines name packages, what is not there has no contents, only caching from
a file takes a directory. The invariant is

* `TypeCorrect` with `PresentOrAbsent`, that a directory which is not there has no
  files, in every step of a removal, a transfer or a copy;
* `StageInv`: a command is where its kind and its route take it; a copy never
  comes from a V1 registry, a directory is only removed by those that repair;
* `AloneInv`: a command that has the cache for itself visits each package of its
  list once and has not taken any of them that was there as a whole; the package
  at hand is broken until the last of its files is written, and none that was
  reported is touched again; what copies shortened without notice, and what is found
  in a repository that is the cache itself, is left out of the last two. `AloneDownloadsWhole` and the refinement
  `CacheKeepsWhole` follow: the only packages that a step can take from the whole
  ones are those that a command puts another copy in the place of;
* `CleanInv`, for `CleanRunsDoRepair`: while nothing fails, the package at hand is
  in the exact state that its stage promises (`Arriving`: the files before it have
  arrived, the file at hand is torn, those after it are missing). That is why a
  torn `endpoint.json` is no obstacle to a repair: removal came first. What the
  list has come past is whole or gone;
* `VerifiedInv`, for `VerifiedAtOnce`: no process keeps an archive whose hash
  differs past the comparison, so that an extraction, also one that fails
  half-way, has only compared archives to take files from, however many processes
  write into one directory. This one assumes `CleanStart`, that no such source is
  there at the start.

`ProjectProofs` proves every property of the run `project`, for any packages,
releases, projects, commands and caches, any number of packages on a command line
and of commands after each other. The steps of the argument:

* what each edit of the maps does, as relations between the project before and
  after: `Keeps` (entries only move: promotion, demotion, the second entry for
  tests), `Wrote` (a plan is written: listed packages are updated where they are,
  new ones get one map), `OrphansApart` (what is listed is an orphan
  or reached from the direct dependencies, and not both);
* what a plan may change: every strategy but `cross_major` requires all of
  production (`ProductionRequired`), within its major versions, and exactly as it is
  when production is pinned; a selection that meets the requirements selects it,
  and merging keeps both restrictions because the first change of a package stays
  (`GentlePlans`, `MergeKeeps`);
* a selection that contains production and satisfies the needs of what it selects
  leaves production solved when its changes are written (`WroteSolved`): what the
  plan leaves out is what stands in elm.json already.

The properties are about the last step of a command, the renaming, and about what
several steps before it computed, so they are not inductive. `IInv` says what each
position knows: until it is written the project in memory is the file; before that
the plan is one that these restrictions allow (`PlanFor`) and, of a single install or
upgrade, one that is read off a selection with production (`Planned`); packages that
are promoted are indirect ones (`PromotedFor`); from `Accept` on the project in memory
is what `Leaves` promises, which is all properties at once. `TypeCorrect` says of the
file that it is a project or, after a write whose loss nobody noticed, `Torn`; the
other properties speak of the writes that arrive (`Written`), and no command starts
on a torn file. `Separate`, that no package is
direct and indirect of one sort, is kept by every edit and is what makes moving an
entry safe. The proof showed two premises to be wrong as they stood:
`TestsPinProduction` did not exclude `--major`, and `RemoveCleansUp` asked for a
full cache that it does not need: what the search for orphans reaches with the files
that it can read is reached with all of them.

`KitProofs` proves about `LocalDev` and `Kit` together, for any packages, versions,
applications and kitfiles, after any commands, crashes and failed steps, and
without the constraint under which the run explores them. `IInv` is three things:
`FilesOK`, the types; `Usable`, what is linked and stored; and `Left`, about the
steps that the running command has left, since a command that is cut short leaves
the first of them done and the others not. What a step relies on is on disk, or an
earlier step does it that takes the later one with it when it fails (`Tied`, from
the counts `loses`): a tool is linked after its download, `current` is made after
the kitfile is stored, a PATH file is written after its directory was opened.
Registering opens the directory before it writes `registry.dat`, clearing removes
the entry before the directory, and an update of a kit, which does both, has cleared
the old version before a registration of the new one is at the front. A loop takes its rounds
in any order, so this is asked of each round by itself (`RoundOK`) and of what
stands before and after the loop. Each action is a change to the front of the
queue (`Shifted`, `Dropped`), each command a queue that is well formed from the
start; from that follow `KitTypes`, `RegisteredStaysTracked` and `KitStaysUsable`.

`KitPromises` goes on from there. `KitAlwaysDelivers` is about commands of `wrap kit` that report success without
having met trouble, whatever earlier ones left behind. Its invariant is
`DeliverInv`: until there is trouble, everything the kitfile asks for (a tool linked, a package
installed, a local package linked, with its PATH file and in both registries) is
`Reached`, or a step or a round of a loop that makes it is `Coming`; and whatever a
step undoes, as an update does that takes down the old version, a later step makes
again (`Mending`). At the report nothing is left, so everything is reached.

`BuildsAlwaysUseTheSource` is about `wrap make`. The property speaks of the step that
builds, `BuildInv` of what is left of the command before it (`Making`): steps that
work (`Works`), one step that cleans (`Cleans`), the build. For each version that
the application lists and tracks, and whose PATH file leads to a source that is there,
the link is made or will be (`Linking`): a step to come repairs it, or fetches the
version and so looks at it for the first time, and what removes a link is followed by
what makes it again. Its compiled code is gone or the cleaning is to come
(`Clearing`). A failed step takes others with it only for its own version, which is
then excused; the cleaning that fails excuses the application. No other command
builds (`Buildless`), for which commands of `wrap kit` need `DeliverInv`: they end
with a report, and nothing that reports builds.

`DependentsFollowWithKits` is about `elm.json` files between commands, and the commands that
write them solve first, write later and enter the application in `tracked` last, while a
loop over dependents takes them one at a time. `FollowInv` says for each application and
version that are not excused (`FollowsOK`): what is tracked and listed is served, or the
application is in a `refresh` to come, or its file is the next thing written (`NowOK`); an
`elm.json` that waits to be written serves every version in it that is tracked or will
be (`ThenOK`); a version that waits to be entered is served by the file as it stands
(`SoonOK`). In all three cases the version can be read through its link or a step to come makes the
link (`Linkable`), and that is why the invariant is needed at all: the solver sees
what a version needs only through the link, so an application whose link is gone loses
as an orphan what its package needs. `ShapeOK` says what commands look like for this to
go on: before an `elm.json` come only steps for one version (`WritesOK`), so that a
failure that takes the write along ends what follows, too; nothing is linked after a
step with which the command may end (`HaltsOK`); a command that refreshes or prunes does
nothing else (`FollowOK`); and a link that is removed is made again (`RelinksOK`). About the solver
four facts suffice, proved from its definition as a least set: a solution contains
what was asked for, is closed under the needs of what it contains, holds only versions
under development that can be read, and the search for orphans keeps what a package that
stays needs.

One command takes away links without a look at who lists the versions: an update of a kit
(`kit_remove_cache_symlink`), for every local package of the old kitfile. The tracking files
of such a version, where it has any, go a few steps later, so that no application is promised
anything of it any more, provided that nothing is solved in between and that no step enters an
application once the link is gone. `GoneOK` says so: while an application tracks a version,
each step that is to take its link is followed by one that takes its tracking files, in the
same round or among the steps that are left (`EndsOK`), and what is to enter an application
takes no link of that version (`ToUncache`). For this the invariant of `KitProofs` says of each
round of a loop of `wrap kit` that it takes the link of a version with a tracking directory only
before the directory (`KitRound`). Where a failure or a crash comes between the two the version
is excused. The run keeps kits and applications on machines of their own (`Alone`); the theorem
does not.

The assumptions are `VersionsAreBounded`, `LocalIsNotPublished`, `BoundsAreNumbers`,
`AppsAreNamed` (an application is the path of its directory, never the empty text that
a step without an application carries) and `InitialAppsAreJson` of `LocalDev`, and `SourcesAreKitfiles` and
`VersionsAreNamed` of `Kit` (a kitfile is a kitfile, and no version is called
"none" or "folder").

## 5. What is only model-checked

Of the solver: termination (liveness is outside the prover's reach).

Of the registry cache: that it catches up (liveness), the repair after the debug
commands, the reset, and everything with more than one process.

Of the package cache: that every command ends (`CommandsEnd`, liveness).

Of kits: `KitLeavesNothing`. It is true of the behaviours that the run's
`ACTION_CONSTRAINT` leaves and is not stated for others. Of the mirror: everything.

`BuildPlan` is defined by recursion, which the prover cannot unfold; it stays with
TLC. That an upgrade is delivered, and what elm accepts (`StructureKept`), are
claims that the code does not keep.

### Not modelled

- The failure explanation of the solver: text. The sentence it prints about the
  budget reads a field that is never set, which is listed as a hazard.
- V2 repositories and their index: the questions of V1 over a text format that is
  fetched as a whole. `protocol_v2/solver/solver.c` 15-384 is a copy of the V1
  strategies, and `InstallPlan` stands for both.
- Front ends, prompts, dry runs, the compiler wrappers apart from what they do to
  caches, publishing checks: no state of their own.
- `ast/`, `qualify`, documentation: transformations of syntax trees.
- `rulr/` and `commands/review`: a Datalog evaluator and its rules.
- Two commands on one project or one kit at a time; only the registry and the
  package cache are modelled with several processes.
- The temporary files of the sidecar and the ETag, the format of `registry.dat`,
  the search for the server; the mirror's log of failures and its statistics; the
  fingerprints of artifacts and the JSON of a build plan; the grammar of kitfiles;
  in `Extract`, `LocalDev` and `Kit`, writes that are accepted and then lost when the
  file is flushed or closed (`Project`, `RegistrySync` and `PackageCache` have them).
- Vendored code.

## 6. Plan

Done: `VersionRange`, `PubGrub` and `RegistrySync` with their proofs;
`PackageCache` with the abstract `PackageStore`; `ElmJson`, `InstallPlan` and
`Project` with their proofs; `LocalDev` and `Kit` with their proofs; `Mirror`; `Extract` with its
proofs and `BuildPlan`.

Left, in this order:

1. a theorem about what an update of a kit leaves, under the conditions that the run's
   action constraint states for single steps;
2. an abstract registry store (a map and a counter that only a complete answer
   moves) that `RegistrySync` refines, and an invariant weak enough for resets;
3. V2 repositories: loading, merging and fetching the text index;
4. the rule engine, whose fixpoint has a reference definition of its own.
