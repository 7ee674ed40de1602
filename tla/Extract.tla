------------------------------ MODULE Extract ------------------------------
(***************************************************************************)
(* wrap package extract: modules of an application become a package of     *)
(* their own.  The command refuses a selection that imports other modules  *)
(* of the application, creates the package from a template, moves the      *)
(* files one by one, works out what the package exposes and depends on,    *)
(* installs it in the application, and takes packages that no file imports *)
(* any more out of the application's direct dependencies.                  *)
(*                                                                         *)
(* It may stop after any of its steps.  Every path it is given lies in a   *)
(* source directory; files that are not Elm modules are left out, and so   *)
(* are writes that fwrite accepts and that are lost later.                 *)
(***************************************************************************)
EXTENDS SourceTree

CONSTANTS
  Selections,   \* what the command may be given: files and whole directories
  Starts        \* imports, broken, app and cached at the start

ASSUME StartsAreProjects ==
  \A start \in Starts :
    /\ DOMAIN start.imports \subseteq Place
    /\ \A p \in DOMAIN start.imports : start.imports[p] \subseteq Modules
    /\ start.broken \subseteq DOMAIN start.imports
    /\ start.app \in [direct : SUBSET Published, indirect : SUBSET Published]
    /\ \A p \in DOMAIN start.cached : p \in Packages /\ start.cached[p] \in Json

VARIABLES
  package,      \* the new package: whether it has a directory, its elm.json, its registration
  command,      \* what runs: phase, options, modules moved, how it ended
  left,         \* how often each place is still to be moved
  copying,      \* the place whose text is being copied, if renaming was refused
  before        \* the application when the command started

vars == <<tree, package, command, left, copying, before>>

Nowhere == <<0, 0>>
Idle == command.phase = "idle"
At(phase) == command.phase = phase
Go(phase) == command' = [command EXCEPT !.phase = phase]
End(result) == command' = [command EXCEPT !.phase = "idle", !.result = result]
Moved == {p[2] : p \in command.selected}

NoPackage == [there |-> FALSE, json |-> "none", deps |-> {}, exposed |-> {}, registered |-> FALSE]

Init ==
  /\ \E start \in Starts :
       /\ imports = start.imports /\ broken = start.broken
       /\ app = start.app /\ cached = start.cached
  /\ file = [p \in (0 .. Dirs) \X Modules |-> IF p \in DOMAIN imports THEN p ELSE NoFile]
  /\ package = NoPackage
  /\ command = [phase |-> "idle", kind |-> "none", selected |-> {}, local_dev |-> TRUE,
                same_device |-> TRUE, result |-> "none"]
  /\ left = [p \in Place |-> 0] /\ copying = Nowhere
  /\ before = [app |-> app, file |-> file]

-----------------------------------------------------------------------------
(* Selection *)

\* A file that is named and lies in a directory that is named is listed twice.
selected_files_add(s, p) == (IF p \in s.files THEN 1 ELSE 0) + (IF p[1] \in s.dirs THEN 1 ELSE 0)
Chosen(s) == {p \in Place : There(p[1], p[2]) /\ selected_files_add(s, p) > 0}

\* Mutant of OutOfSelection: every module of the application may be imported.
NoneOut(S) == {}
\* Imports of a selected file that are files of the application and not selected.
OutOfSelection(S) ==
  {i \in S \X Modules : LET m == i[2]
                       IN  /\ m \in ImportsAt(i[1]) /\ IsLocal(AppDirs, m)
                           /\ <<Local(AppDirs, m), m>> \notin S}

cmd_extract(s, local_dev, same_device) ==
  /\ Idle /\ ~package.there
  /\ \A p \in s.files : There(p[1], p[2])
  /\ Chosen(s) # {}
  /\ \A p \in Chosen(s) : Readable(p)
  /\ OutOfSelection(Chosen(s)) = {}
  /\ command' = [phase |-> "make", kind |-> "extract", selected |-> Chosen(s),
                 local_dev |-> local_dev, same_device |-> same_device, result |-> "none"]
  /\ left' = [p \in Place |-> IF There(p[1], p[2]) THEN selected_files_add(s, p) ELSE 0]
  /\ before' = [app |-> app, file |-> file]
  /\ UNCHANGED <<tree, package, copying>>

-----------------------------------------------------------------------------
(* The package directory *)

\* wrap package init, in the directory a package will have.
cmd_package_init(local_dev) ==
  /\ Idle /\ package.json = "none"
  /\ command' = [command EXCEPT !.phase = "template", !.kind = "init",
                                !.local_dev = local_dev, !.result = "none"]
  /\ package' = [package EXCEPT !.there = TRUE]
  /\ UNCHANGED <<tree, left, copying, before>>

mkdir_p ==
  /\ At("make") /\ Go("template")
  /\ package' = [package EXCEPT !.there = TRUE]
  /\ UNCHANGED <<tree, left, copying, before>>

write_file_contents ==
  /\ At("template") /\ Go("name")
  /\ package' = [package EXCEPT !.json = "torn"]
  /\ UNCHANGED <<tree, left, copying, before>>

\* register_local_dev_package comes next, or the end of package init.
AfterTemplates ==
  CASE command.local_dev -> Go("register")
    [] command.kind = "init" -> End("done")
    [] OTHER -> Go("move")

extract_templates ==
  /\ At("name") /\ AfterTemplates
  /\ package' = [package EXCEPT !.json = "whole", !.deps = {Core}]
  /\ UNCHANGED <<tree, left, copying, before>>

register_local_dev_package ==
  /\ At("register")
  /\ IF command.kind = "init" THEN End("done") ELSE Go("move")
  /\ package' = [package EXCEPT !.registered = TRUE]
  /\ UNCHANGED <<tree, left, copying, before>>

-----------------------------------------------------------------------------
(* Moving the files *)

Dest(p) == <<Package, p[2]>>
Taken(p) == left' = [left EXCEPT ![p] = @ - 1]

\* Renaming takes the place of a file that is there.
rename_file(p) ==
  /\ At("move") /\ left[p] > 0 /\ command.same_device
  /\ There(p[1], p[2])
  /\ file' = [file EXCEPT ![Dest(p)] = file[p], ![p] = NoFile]
  /\ Taken(p)
  /\ UNCHANGED <<imports, broken, app, cached, package, command, copying, before>>

open_dest(p) ==
  /\ At("move") /\ left[p] > 0 /\ ~command.same_device
  /\ There(p[1], p[2]) /\ copying = Nowhere
  /\ file' = [file EXCEPT ![Dest(p)] = Torn] /\ copying' = p
  /\ UNCHANGED <<imports, broken, app, cached, package, command, left, before>>

\* Mutant of write_dest: the source goes before its copy is complete.
write_dest_late ==
  /\ copying # Nowhere /\ file[Dest(copying)] = Torn
  /\ file' = [file EXCEPT ![copying] = NoFile] /\ copying' = Nowhere /\ Taken(copying)
  /\ UNCHANGED <<imports, broken, app, cached, package, command, before>>
write_dest ==
  /\ copying # Nowhere /\ file[Dest(copying)] = Torn
  /\ file' = [file EXCEPT ![Dest(copying)] = file[copying]]
  /\ UNCHANGED <<imports, broken, app, cached, package, command, left, copying, before>>

unlink_source ==
  /\ copying # Nowhere /\ file[Dest(copying)] # Torn
  /\ file' = [file EXCEPT ![copying] = NoFile] /\ copying' = Nowhere /\ Taken(copying)
  /\ UNCHANGED <<imports, broken, app, cached, package, command, before>>

\* A file that was listed twice is gone the second time.
move_fails(p) ==
  /\ At("move") /\ left[p] > 0 /\ ~There(p[1], p[2]) /\ copying = Nowhere
  /\ End("failed") /\ left' = [q \in Place |-> 0]
  /\ UNCHANGED <<tree, package, copying, before>>

-----------------------------------------------------------------------------
(* elm.json of the package *)

\* A module belongs to the first listed package, by name, that exposes it.
Owners(S) == {Min(Exposing(m)) : m \in {k \in S : Exposing(k) # {}}}

\* What a file of the package imports from elsewhere.
Outside(m) == {n \in ImportsAt(<<Package, m>>) : ~IsLocal({Package}, n)}

compute_extracted_package_dependencies ==
  Owners(UNION {Outside(m) : m \in {l \in Moved : Readable(<<Package, l>>)}})

add_dependencies ==
  /\ At("move") /\ \A p \in Place : left[p] = 0
  /\ package' = [package EXCEPT !.deps = @ \cup compute_extracted_package_dependencies]
  /\ Go("expose")
  /\ UNCHANGED <<tree, left, copying, before>>

\* Mutant of write_exposed_modules: looks for the modules where they were.
write_exposed_modules_late ==
  /\ At("expose")
  /\ package' = [package EXCEPT !.exposed = {p[2] : p \in {q \in command.selected : Readable(q)}}]
  /\ IF command.local_dev THEN Go("install") ELSE End("done")
  /\ UNCHANGED <<tree, left, copying, before>>
write_exposed_modules ==
  /\ At("expose")
  /\ package' = [package EXCEPT !.exposed = {m \in Moved : Readable(<<Package, m>>)}]
  /\ IF command.local_dev THEN Go("install") ELSE End("done")
  /\ UNCHANGED <<tree, left, copying, before>>

-----------------------------------------------------------------------------
(* elm.json of the application *)

\* The solver adds what the new package needs and the application lacks.
Needed(S) ==
  {p \in Published : \A T \in SUBSET Published :
     S \subseteq T /\ (\A q \in T \cap DOMAIN cached : cached[q].deps \subseteq T) => p \in T}

install_local_dev ==
  /\ At("install") /\ Go("demote")
  /\ app' = [direct |-> app.direct \cup {New},
             indirect |-> app.indirect \cup (Needed(package.deps) \ Listed)]
  /\ cached' = [p \in DOMAIN cached \cup {New} |->
                  IF p = New THEN [exposed |-> package.exposed, deps |-> package.deps] ELSE cached[p]]
  /\ UNCHANGED <<file, imports, broken, package, left, copying, before>>

\* Packages that some file of the application imports from.
UsedByApp ==
  Owners({m \in UNION {ImportsAt(p) : p \in {q \in Place : Readable(q)}} : ~IsLocal(AppDirs, m)})

\* Mutant of Unused: asks what the package needs, not what the application imports.
UnusedByPackage == app.direct \ ({Core, New} \cup package.deps)
Unused == app.direct \ (UsedByApp \cup {Core, New})

\* The packages are removed; a file that cannot be written is left as it was.
demote_unused_app_direct_dependencies ==
  /\ At("demote") /\ End("done")
  /\ app' \in {[app EXCEPT !.direct = @ \ Unused], app}
  /\ UNCHANGED <<file, imports, broken, cached, package, left, copying, before>>

-----------------------------------------------------------------------------
\* The command is killed, or a step fails and it returns.
Stop ==
  /\ ~Idle
  /\ End("failed") /\ left' = [p \in Place |-> 0] /\ copying' = Nowhere
  /\ UNCHANGED <<tree, package, before>>

MoveStep == \E p \in Place : rename_file(p) \/ open_dest(p) \/ move_fails(p)
Next ==
  \/ \E s \in Selections, l, d \in BOOLEAN : cmd_extract(s, l, d)
  \/ \E l \in BOOLEAN : cmd_package_init(l)
  \/ mkdir_p \/ write_file_contents \/ extract_templates \/ register_local_dev_package
  \/ MoveStep \/ write_dest \/ unlink_source
  \/ add_dependencies \/ write_exposed_modules
  \/ install_local_dev \/ demote_unused_app_direct_dependencies
  \/ Stop

Spec == Init /\ [][Next]_vars

-----------------------------------------------------------------------------
(* Properties *)

\* Places hold texts, the directory of the package comes before its files, and
\* the application lists its own package only once that is complete.
TypeOK ==
  /\ file \in [(0 .. Dirs) \X Modules -> DOMAIN imports \cup {NoFile, Torn}]
  /\ DOMAIN imports \subseteq Place /\ broken \subseteq DOMAIN imports
  /\ app \in [direct : SUBSET Packages, indirect : SUBSET Packages]
  /\ \A p \in DOMAIN cached : p \in Packages /\ cached[p] \in Json
  /\ copying \in Place \cup {Nowhere} /\ left \in [Place -> 0 .. 2]
  /\ ~package.there => package = NoPackage
  /\ package.json # "whole" => \A m \in Modules : ~There(Package, m)
  /\ New \in Listed => command.selected # {} /\ Moved \subseteq cached[New].exposed

\* Two selected files of one name in different directories go to one place.
Contested(t) == \E d \in AppDirs \ {t[1]} : {t, <<d, t[2]>>} \subseteq command.selected

\* Wherever the command stops, every file of the application is whole in one
\* place: a failed, refused or interrupted move loses no source.  Files of one
\* name, of which only the last survives, are excepted.
SourcesSurvive == \A t \in DOMAIN imports : Contested(t) \/ \E p \in DOMAIN file : file[p] = t

Extracted == Idle /\ command.kind = "extract" /\ command.result = "done"

Provides(S, m) == \E p \in S \cap DOMAIN cached : m \in cached[p].exposed

\* What a file could import when the command started.
Known(m) ==
  \/ \E d \in AppDirs : before.file[<<d, m>>] # NoFile
  \/ Provides(before.app.direct, m)

\* Of the packages that the application listed, or lists since, one has the module.
OneOwner(m) == \A p, q \in before.app.direct \cup app.indirect :
                 Provides({p}, m) /\ Provides({q}, m) => p = q

\* A package that was extracted without an error has the modules selected,
\* exposes them, and finds everything they import in its own files or in the
\* packages that its elm.json names: nothing ties it to the application.
PackageStandsAlone ==
  Extracted =>
    /\ Moved \subseteq package.exposed
    /\ \A m \in Moved : Readable(<<Package, m>>)
    /\ \A m \in Moved : \A n \in ImportsAt(<<Package, m>>) :
         Known(n) => There(Package, n) \/ Provides(package.deps, n)

\* Moving modules out and taking unused packages from the direct dependencies
\* leaves the rest of the application what it imports: its own files, the
\* packages it lists as direct, or the new package.  A module that two packages
\* expose which the application lists, or has been given for the new package, is
\* excepted: the code takes the first, whichever map it is in.
AppKeepsImports ==
  Extracted /\ command.local_dev =>
    \A p \in {q \in Place : Readable(q)} : \A m \in ImportsAt(p) :
      Known(m) /\ OneOwner(m) =>
        IsLocal(AppDirs, m) \/ Provides(app.direct, m)
=============================================================================
