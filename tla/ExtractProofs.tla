---------------------------- MODULE ExtractProofs ----------------------------
(***************************************************************************)
(* Wherever wrap package extract stops, no source is lost; a package that  *)
(* was extracted without an error needs nothing from the application, and  *)
(* the application still finds what it imports: for any files, imports and *)
(* selections, on one device or two.                                       *)
(***************************************************************************)
EXTENDS Extract, WellFoundedInduction, TLAPS

-----------------------------------------------------------------------------
(* The inductive invariant *)

\* The records have the fields that the steps read.
Shaped ==
  /\ "there" \in DOMAIN package
  /\ {"phase", "selected", "same_device"} \subseteq DOMAIN command
  /\ DOMAIN file = (0 .. Dirs) \X Modules
  /\ DOMAIN imports \subseteq Place

\* Only what was selected is moved, and not before the package has a directory.
MovesSelected ==
  /\ left \in [Place -> Int]
  /\ command.selected \subseteq Place
  /\ \A p \in Place : left[p] > 0 => p \in command.selected
  /\ ~package.there => /\ command.phase \in {"idle", "make"}
                       /\ copying = Nowhere
                       /\ \A t \in DOMAIN imports : file[t] = t

\* A place in the application holds its own text or none, and so does one that
\* is being copied.
PlacesHoldTheirOwn ==
  /\ \A p \in Place : file[p] \in {p, NoFile}
  /\ copying # Nowhere => /\ copying \in command.selected /\ file[copying] = copying
                          /\ ~command.same_device
                          /\ file[Dest(copying)] \in {Torn, copying}

\* A text is where it was, or where the package has it.
WhereTextsAre ==
  \A t \in DOMAIN imports :
    Contested(t) \/ file[t] = t \/ (t \in command.selected /\ file[Dest(t)] = t)

ExtractInv == Shaped /\ MovesSelected /\ PlacesHoldTheirOwn /\ WhereTextsAre

-----------------------------------------------------------------------------
(* Places *)

\* The package's directory is none of the application's.
LEMMA DestApart ==
  ASSUME NEW p \in Place
  PROVE  /\ Dest(p) \in (0 .. Dirs) \X Modules
         /\ Dest(p) \notin Place
         /\ p \in (0 .. Dirs) \X Modules
         /\ p # NoFile /\ p # Torn /\ p # Nowhere
BY NumbersOrder DEF Dest, Package, Place, NoFile, Torn, Nowhere

\* Two selected places with one destination contest it.
LEMMA OneDestination ==
  ASSUME command.selected \subseteq Place,
         NEW p \in command.selected, NEW t \in command.selected,
         p # t, Dest(p) = Dest(t)
  PROVE  Contested(t)
<1>1. p[2] = t[2] /\ p = <<p[1], p[2]>> /\ t = <<t[1], t[2]>>
  BY DEF Dest, Place
<1>2. p[1] \in AppDirs \ {t[1]}
  BY <1>1 DEF AppDirs, Place
<1>3. {t, <<p[1], t[2]>>} \subseteq command.selected
  BY <1>1
<1> QED BY <1>2, <1>3 DEF Contested

\* Where every text is in one place, SourcesSurvive holds.
LEMMA InvSurvives == ExtractInv => SourcesSurvive
BY DestApart DEF ExtractInv, Shaped, WhereTextsAre, SourcesSurvive

-----------------------------------------------------------------------------
(* Steps that move a file *)

\* A step that writes only a selected place and its destination, and leaves the
\* text of that place in one of the two, loses no text.
LEMMA MovingKeepsTexts ==
  ASSUME ExtractInv,
         NEW p \in command.selected,
         \A q \in DOMAIN file \ {p, Dest(p)} : file'[q] = file[q],
         file'[p] = p \/ file'[Dest(p)] = p,
         command'.selected = command.selected, imports' = imports
  PROVE  WhereTextsAre'
<1> SUFFICES ASSUME NEW t \in DOMAIN imports, ~Contested(t)
             PROVE  file'[t] = t \/ (t \in command.selected /\ file'[Dest(t)] = t)
  BY DEF WhereTextsAre, Contested
<1> USE DEF ExtractInv, Shaped, MovesSelected
<1>1. t \in Place /\ p \in Place
  OBVIOUS
<1>2. CASE t = p
  BY <1>2
<1>3. CASE t # p
  <2>1. Dest(t) # Dest(p) \/ t \notin command.selected
    BY <1>3, OneDestination
  <2> QED BY <1>1, <1>3, <2>1, DestApart DEF WhereTextsAre
<1> QED BY <1>2, <1>3

\* The places of the application still hold their own texts or none.
LEMMA MovingKeepsPlaces ==
  ASSUME ExtractInv,
         NEW p \in command.selected,
         \A q \in DOMAIN file \ {p, Dest(p)} : file'[q] = file[q],
         file'[p] \in {p, NoFile}
  PROVE  \A q \in Place : file'[q] \in {q, NoFile}
BY DestApart DEF ExtractInv, Shaped, MovesSelected, PlacesHoldTheirOwn

LEMMA RenameInv ==
  ASSUME ExtractInv, NEW p \in Place, rename_file(p)
  PROVE  ExtractInv'
<1> USE DEF ExtractInv, Shaped, MovesSelected, rename_file, Taken, There, At
<1>1. p \in command.selected /\ file[p] = p /\ p = <<p[1], p[2]>>
  BY DEF PlacesHoldTheirOwn, Place
<1>2. /\ \A q \in DOMAIN file \ {p, Dest(p)} : file'[q] = file[q]
      /\ file'[p] = NoFile /\ file'[Dest(p)] = p
  BY <1>1, DestApart
<1>3. WhereTextsAre'
  BY <1>1, <1>2, MovingKeepsTexts
<1>4. PlacesHoldTheirOwn'
  BY <1>1, <1>2, MovingKeepsPlaces DEF PlacesHoldTheirOwn
<1>5. Shaped'
  OBVIOUS
<1>6. MovesSelected'
  BY <1>1
<1> QED BY <1>3, <1>4, <1>5, <1>6

LEMMA OpenInv ==
  ASSUME ExtractInv, NEW p \in Place, open_dest(p)
  PROVE  ExtractInv'
<1> USE DEF ExtractInv, Shaped, MovesSelected, open_dest, There, At
<1>1. p \in command.selected /\ file[p] = p /\ p = <<p[1], p[2]>>
  BY DEF PlacesHoldTheirOwn, Place
<1>2. /\ \A q \in DOMAIN file \ {p, Dest(p)} : file'[q] = file[q]
      /\ file'[p] = p /\ file'[Dest(p)] = Torn
  BY <1>1, DestApart
<1>3. WhereTextsAre'
  BY <1>1, <1>2, MovingKeepsTexts
<1>4. PlacesHoldTheirOwn'
  BY <1>1, <1>2, MovingKeepsPlaces DEF PlacesHoldTheirOwn, Dest
<1>5. MovesSelected'
  BY <1>1
<1> QED BY <1>3, <1>4, <1>5

LEMMA WriteInv ==
  ASSUME ExtractInv, write_dest
  PROVE  ExtractInv'
<1> USE DEF ExtractInv, Shaped, MovesSelected, write_dest
<1>1. copying \in command.selected /\ file[copying] = copying
  BY DEF PlacesHoldTheirOwn
<1>2. /\ \A q \in DOMAIN file \ {copying, Dest(copying)} : file'[q] = file[q]
      /\ file'[copying] = copying /\ file'[Dest(copying)] = copying
  BY <1>1, DestApart
<1>3. WhereTextsAre'
  BY <1>1, <1>2, MovingKeepsTexts
<1>4. PlacesHoldTheirOwn'
  BY <1>1, <1>2, MovingKeepsPlaces DEF PlacesHoldTheirOwn, Dest
<1>5. MovesSelected'
  BY <1>1
<1> QED BY <1>3, <1>4, <1>5

LEMMA UnlinkInv ==
  ASSUME ExtractInv, unlink_source
  PROVE  ExtractInv'
<1> USE DEF ExtractInv, Shaped, MovesSelected, unlink_source, Taken
<1>1. copying \in command.selected /\ file[Dest(copying)] = copying
  BY DEF PlacesHoldTheirOwn
<1>2. /\ \A q \in DOMAIN file \ {copying, Dest(copying)} : file'[q] = file[q]
      /\ file'[copying] = NoFile /\ file'[Dest(copying)] = copying
  BY <1>1, DestApart
<1>3. WhereTextsAre'
  BY <1>1, <1>2, MovingKeepsTexts
<1>4. PlacesHoldTheirOwn'
  BY <1>1, <1>2, MovingKeepsPlaces DEF PlacesHoldTheirOwn
<1>5. MovesSelected'
  BY <1>1
<1> QED BY <1>3, <1>4, <1>5

-----------------------------------------------------------------------------
(* The other steps *)

\* A selection is made where nothing was moved yet.
LEMMA SelectInv ==
  ASSUME ExtractInv, NEW s \in Selections, NEW l \in BOOLEAN, NEW d \in BOOLEAN,
         cmd_extract(s, l, d)
  PROVE  ExtractInv'
<1> USE DEF ExtractInv, Shaped, MovesSelected, cmd_extract
<1>1. command'.selected = Chosen(s) /\ command'.phase = "make"
  OBVIOUS
<1>2. left' \in [Place -> Int]
  BY DEF selected_files_add
<1>3. \A p \in Place : left'[p] > 0 => p \in Chosen(s)
  BY DEF Chosen
<1>4. MovesSelected'
  BY <1>1, <1>2, <1>3 DEF Chosen, tree
<1>5. Shaped'
  BY DEF tree
<1>6. PlacesHoldTheirOwn' /\ WhereTextsAre'
  BY DEF tree, PlacesHoldTheirOwn, WhereTextsAre
<1> QED BY <1>4, <1>5, <1>6

\* A step that leaves the files and the selection alone, stays or comes to rest
\* and gives the package its directory before it moves.
LEMMA OtherStepInv ==
  ASSUME ExtractInv,
         UNCHANGED <<file, imports, copying, left>>,
         command'.selected = command.selected,
         command'.same_device = command.same_device,
         {"phase", "selected", "same_device"} \subseteq DOMAIN command',
         "there" \in DOMAIN package',
         ~package'.there => ~package.there /\ command'.phase \in {"idle", "make"}
  PROVE  ExtractInv'
BY DEF ExtractInv, Shaped, MovesSelected, PlacesHoldTheirOwn, WhereTextsAre, Contested, Dest

\* A move that fails and a stop give up what is left.
LEMMA StopInv ==
  ASSUME ExtractInv,
         \/ Stop
         \/ \E p \in Place : move_fails(p)
  PROVE  ExtractInv'
<1> USE DEF ExtractInv, Shaped, MovesSelected
<1>1. /\ file' = file /\ imports' = imports /\ package' = package
      /\ command' = [command EXCEPT !.phase = "idle", !.result = "failed"]
      /\ left' = [p \in Place |-> 0] /\ copying' = Nowhere
  BY DEF Stop, move_fails, End, tree
<1>2. Shaped' /\ MovesSelected'
  BY <1>1
<1>3. PlacesHoldTheirOwn' /\ WhereTextsAre'
  BY <1>1 DEF PlacesHoldTheirOwn, WhereTextsAre, Contested, Dest
<1> QED BY <1>2, <1>3

-----------------------------------------------------------------------------
LEMMA InitExtractInv == Init => ExtractInv
<1> SUFFICES ASSUME Init PROVE ExtractInv
  OBVIOUS
<1>1. DOMAIN imports \subseteq Place
  BY StartsAreProjects DEF Init
<1>2. Place \subseteq (0 .. Dirs) \X Modules
  BY NumbersOrder DEF Place
<1>3. \A p \in Place : file[p] = IF p \in DOMAIN imports THEN p ELSE NoFile
  BY <1>2 DEF Init
<1> QED BY <1>1, <1>2, <1>3
        DEF Init, ExtractInv, Shaped, MovesSelected, PlacesHoldTheirOwn, WhereTextsAre, NoPackage

LEMMA StepExtractInv == ExtractInv /\ [Next]_vars => ExtractInv'
<1> SUFFICES ASSUME ExtractInv, [Next]_vars PROVE ExtractInv'
  OBVIOUS
<1> USE DEF tree, Go, End, At
<1>1. ASSUME NEW s \in Selections, NEW l \in BOOLEAN, NEW d \in BOOLEAN, cmd_extract(s, l, d)
      PROVE  ExtractInv'
  BY <1>1, SelectInv
<1>2. ASSUME NEW l \in BOOLEAN, cmd_package_init(l) PROVE ExtractInv'
  BY <1>2, OtherStepInv DEF cmd_package_init, ExtractInv, Shaped
<1>3. CASE mkdir_p
  BY <1>3, OtherStepInv DEF mkdir_p, ExtractInv, Shaped
<1>4. CASE write_file_contents
  BY <1>4, OtherStepInv DEF write_file_contents, ExtractInv, Shaped, MovesSelected
<1>5. CASE extract_templates
  BY <1>5, OtherStepInv DEF extract_templates, AfterTemplates, ExtractInv, Shaped, MovesSelected
<1>6. CASE register_local_dev_package
  BY <1>6, OtherStepInv DEF register_local_dev_package, ExtractInv, Shaped, MovesSelected
<1>7. CASE MoveStep
  BY <1>7, RenameInv, OpenInv, StopInv DEF MoveStep
<1>8. CASE write_dest
  BY <1>8, WriteInv
<1>9. CASE unlink_source
  BY <1>9, UnlinkInv
<1>10. CASE add_dependencies
  BY <1>10, OtherStepInv DEF add_dependencies, ExtractInv, Shaped, MovesSelected
<1>11. CASE write_exposed_modules
  BY <1>11, OtherStepInv DEF write_exposed_modules, ExtractInv, Shaped, MovesSelected
<1>12. CASE install_local_dev
  BY <1>12, OtherStepInv DEF install_local_dev, ExtractInv, Shaped, MovesSelected
<1>13. CASE demote_unused_app_direct_dependencies
  BY <1>13, OtherStepInv
     DEF demote_unused_app_direct_dependencies, ExtractInv, Shaped, MovesSelected
<1>14. CASE Stop
  BY <1>14, StopInv
<1>15. CASE UNCHANGED vars
  BY <1>15, OtherStepInv DEF vars, ExtractInv, Shaped, MovesSelected
<1> QED BY <1>1, <1>2, <1>3, <1>4, <1>5, <1>6, <1>7, <1>8, <1>9, <1>10, <1>11, <1>12,
           <1>13, <1>14, <1>15 DEF Next

\* Every source that no other selected file contests is whole in one place,
\* after every step and every stop of wrap package extract, for any project.
THEOREM SourcesAlwaysSurvive == Spec => []SourcesSurvive
<1>1. Spec => []ExtractInv
  BY InitExtractInv, StepExtractInv, PTL DEF Spec
<1> QED BY <1>1, InvSurvives, PTL

-----------------------------------------------------------------------------
(* The first package by name *)

Less == {ss \in Nat \X Nat : ss[1] < ss[2]}

LEMMA LessIsWellFounded == IsWellFoundedOn(Less, Nat)
<1>1. OpToRel(<, Nat) = Less
  BY Zenon DEF OpToRel, Less
<1> QED BY <1>1, NatLessThanWellFounded, Zenon

\* A set of numbers that is not empty has a least one, and Min returns it.
LEMMA LeastNumber ==
  ASSUME NEW S \in SUBSET Nat, S # {}
  PROVE  Min(S) \in S /\ \A y \in S : Min(S) =< y
<1>1. PICK x \in S : \A y \in S : ~ (<<y, x>> \in Less)
  BY WFMin, LessIsWellFounded
<1>2. ASSUME NEW y \in S, y < x PROVE FALSE
  <2>1. <<y, x>> \in Less
    BY <1>2 DEF Less
  <2> QED BY <1>1, <2>1
<1>3. \A y \in S : x =< y
  BY <1>2
<1> QED BY <1>3 DEF Min

\* A module is one of the application's if some directory has a file for it.
LEMMA LocalIsThere ==
  ASSUME NEW m, NEW d \in AppDirs, There(d, m)
  PROVE  IsLocal(AppDirs, m)
<1> DEFINE S == {e \in AppDirs : There(e, m)} \cup {Dirs + 1}
<1>1. S \in SUBSET Nat /\ d \in S /\ d < Dirs + 1
  BY NumbersOrder DEF AppDirs
<1>2. Min(S) \in S /\ Min(S) =< d
  BY <1>1, LeastNumber
<1>3. Min(S) \in AppDirs
  BY <1>1, <1>2, NumbersOrder DEF AppDirs
<1> QED BY <1>3 DEF IsLocal, Local

\* Without a file of its own for a module the package looks elsewhere.
LEMMA NotInPackage ==
  ASSUME NEW m, ~There(Package, m)
  PROVE  ~IsLocal({Package}, m)
<1>1. {d \in {Package} : There(d, m)} \cup {Dirs + 1} = {Dirs + 1}
  OBVIOUS
<1>2. Min({Dirs + 1}) = Dirs + 1
  BY LeastNumber, NumbersOrder
<1> QED BY <1>1, <1>2, NumbersOrder DEF IsLocal, Local, Package

-----------------------------------------------------------------------------
(* The invariant of an extraction that nothing has stopped *)

Going == command.kind = "extract" /\ (Idle => command.result = "done")

\* The phases in which every file has been moved.
Late == command.phase \in {"expose", "install", "demote", "idle"}

\* What does not depend on a command.
Projects ==
  /\ {"kind", "result", "local_dev"} \subseteq DOMAIN command
  /\ {"deps", "exposed"} \subseteq DOMAIN package
  /\ left \in [Place -> Nat]
  /\ copying # Nowhere => left[copying] > 0
  /\ \A p \in DOMAIN imports : imports[p] \subseteq Modules
  /\ ~package.there => Listed \subseteq Published

\* What was checked when the files were selected: they can be read, and import
\* each other or what the application's packages expose.
SelectionHolds ==
  /\ before.app.direct \cup before.app.indirect \subseteq Published
  /\ command.phase \notin {"demote", "idle"} => app = before.app
  /\ \A p \in command.selected :
       /\ p \in DOMAIN imports \ broken
       /\ \A n \in imports[p] : Known(n) => n \in Moved \/ Provides(before.app.direct, n)

\* A file that is no longer to be moved has arrived, or another one of its name.
Arriving ==
  /\ \A p \in command.selected :
       \/ left[p] > 0
       \/ file[Dest(p)] = Torn /\ copying # Nowhere /\ Dest(copying) = Dest(p)
       \/ \E x \in command.selected : x[2] = p[2] /\ file[Dest(p)] = x
  /\ Late => \A p \in Place : left[p] = 0

\* The package finds what its files import; Published, as the application's own
\* entry for the package may yet change.
Supplied ==
  Late => \A m \in Moved : \A n \in ImportsAt(<<Package, m>>) :
            Known(n) => There(Package, n) \/ Provides(package.deps \cap Published, n)

Exposed == command.phase \in {"install", "demote", "idle"} => Moved \subseteq package.exposed

AloneInv ==
  ExtractInv /\ Projects /\ (Going => SelectionHolds /\ Arriving /\ Supplied /\ Exposed)

\* When every file is moved, each name is in the package with a text that was
\* selected, and can be read.
LEMMA AllArrived ==
  ASSUME AloneInv, Going, \A p \in Place : left[p] = 0, NEW m \in Moved
  PROVE  \E x \in command.selected : file[<<Package, m>>] = x /\ x \in DOMAIN imports \ broken
<1>1. PICK p \in command.selected : p[2] = m
  BY DEF Moved
<1>2. p \in Place
  BY DEF AloneInv, ExtractInv, MovesSelected
<1>3. copying = Nowhere
  BY DEF AloneInv, ExtractInv, MovesSelected, PlacesHoldTheirOwn, Projects
<1>4. PICK x \in command.selected : file[Dest(p)] = x
  BY <1>2, <1>3 DEF AloneInv, Arriving
<1> QED BY <1>1, <1>4 DEF Dest, AloneInv, SelectionHolds

LEMMA AllReadable ==
  ASSUME AloneInv, Going, \A p \in Place : left[p] = 0, NEW m \in Moved
  PROVE  There(Package, m) /\ Readable(<<Package, m>>)
<1>1. PICK x \in command.selected : file[<<Package, m>>] = x /\ x \in DOMAIN imports \ broken
  BY AllArrived
<1>2. x # NoFile
  BY <1>1, DestApart DEF AloneInv, ExtractInv, MovesSelected
<1> QED BY <1>1, <1>2 DEF There, Readable

LEMMA InvStandsAlone == AloneInv => PackageStandsAlone
<1> SUFFICES ASSUME AloneInv, Extracted PROVE PackageStandsAlone
  BY DEF PackageStandsAlone
<1>1. Going /\ Idle
  BY DEF Going, Extracted
<1>2. Moved \subseteq package.exposed
  BY <1>1 DEF AloneInv, Exposed, Idle
<1>3. \A p \in Place : left[p] = 0
  BY <1>1 DEF AloneInv, Arriving, Late, Idle
<1>4. \A m \in Moved : Readable(<<Package, m>>)
  BY <1>1, <1>3, AllReadable
<1>5. \A m \in Moved : \A n \in ImportsAt(<<Package, m>>) :
        Known(n) => There(Package, n) \/ Provides(package.deps, n)
  BY <1>1 DEF AloneInv, Supplied, Late, Idle, Provides
<1> QED BY <1>2, <1>4, <1>5 DEF PackageStandsAlone

\* What the package imports from elsewhere is exposed by a package the
\* application lists, and that package becomes a dependency.
LEMMA ComputedSupplies ==
  ASSUME AloneInv, Going, ~Idle, command.phase # "demote",
         \A p \in Place : left[p] = 0,
         NEW m \in Moved, NEW n \in ImportsAt(<<Package, m>>), Known(n), ~There(Package, n)
  PROVE  Provides(compute_extracted_package_dependencies \cap Published, n)
<1>1. PICK x \in command.selected : file[<<Package, m>>] = x /\ x \in DOMAIN imports \ broken
  BY AllArrived
<1>2. n \in Moved \/ Provides(before.app.direct, n)
  BY <1>1 DEF ImportsAt, AloneInv, SelectionHolds
<1>3. n \notin Moved
  BY AllReadable
<1>4. app = before.app /\ Listed \subseteq Published
  BY DEF AloneInv, SelectionHolds, Idle, Listed
<1>5. Exposing(n) # {} /\ Exposing(n) \subseteq Published /\ Exposing(n) \in SUBSET Nat
  BY <1>2, <1>3, <1>4, NumbersOrder DEF Provides, Exposing, Listed
<1>6. Min(Exposing(n)) \in Exposing(n)
  BY <1>5, LeastNumber
<1>7. n \in Outside(m)
  BY NotInPackage DEF Outside
<1>8. Min(Exposing(n)) \in compute_extracted_package_dependencies
  BY <1>5, <1>7, AllReadable DEF compute_extracted_package_dependencies, Owners
<1> QED BY <1>5, <1>6, <1>8 DEF Provides, Exposing

-----------------------------------------------------------------------------
(* The steps of an extraction *)

\* The fields that no step drops, and what only changes with the others.
LEMMA ProjectsKept ==
  ASSUME AloneInv, ExtractInv', [Next]_vars
  PROVE  Projects'
<1> USE DEF AloneInv, Projects, Listed
<1>1. /\ {"kind", "result", "local_dev"} \subseteq DOMAIN command'
      /\ {"deps", "exposed"} \subseteq DOMAIN package'
  BY DEF Next, vars, tree, MoveStep, cmd_extract, cmd_package_init, mkdir_p, write_file_contents,
         extract_templates, AfterTemplates, register_local_dev_package, rename_file, open_dest,
         move_fails, write_dest, unlink_source, add_dependencies, write_exposed_modules,
         install_local_dev, demote_unused_app_direct_dependencies, Stop, Go, End
<1>2. imports' = imports
  BY DEF Next, vars, tree, MoveStep, cmd_extract, cmd_package_init, mkdir_p, write_file_contents,
         extract_templates, register_local_dev_package, rename_file, open_dest,
         move_fails, write_dest, unlink_source, add_dependencies, write_exposed_modules,
         install_local_dev, demote_unused_app_direct_dependencies, Stop
<1>3. left' \in [Place -> Nat]
  <2>1. CASE \E s \in Selections, l, d \in BOOLEAN : cmd_extract(s, l, d)
    BY <2>1 DEF cmd_extract, selected_files_add
  <2>2. CASE (\E p \in Place : move_fails(p)) \/ Stop
    BY <2>2 DEF move_fails, Stop
  <2>3. CASE \E p \in Place : rename_file(p)
    BY <2>3 DEF rename_file, Taken
  <2>4. CASE unlink_source
    BY <2>4 DEF unlink_source, Taken, ExtractInv, MovesSelected, PlacesHoldTheirOwn
  <2> QED BY <2>1, <2>2, <2>3, <2>4
          DEF Next, vars, MoveStep, cmd_package_init, mkdir_p, write_file_contents,
              extract_templates, register_local_dev_package, open_dest, write_dest,
              add_dependencies, write_exposed_modules, install_local_dev,
              demote_unused_app_direct_dependencies
<1>4. ~package'.there => ~package.there /\ app' = app
  BY DEF Next, vars, tree, MoveStep, cmd_extract, cmd_package_init, mkdir_p, write_file_contents,
         extract_templates, register_local_dev_package, rename_file, open_dest,
         move_fails, write_dest, unlink_source, add_dependencies, write_exposed_modules,
         install_local_dev, demote_unused_app_direct_dependencies, Stop, At,
         ExtractInv, Shaped, MovesSelected
<1>5. copying' # Nowhere => left'[copying'] > 0
  <2>1. CASE \E s \in Selections, l, d \in BOOLEAN : cmd_extract(s, l, d)
    BY <2>1 DEF cmd_extract, ExtractInv, MovesSelected
  <2>2. CASE (\E p \in Place : move_fails(p)) \/ Stop
    BY <2>2 DEF move_fails, Stop
  <2>3. CASE \E p \in Place : rename_file(p)
    BY <2>3 DEF rename_file, ExtractInv, PlacesHoldTheirOwn
  <2>4. CASE (\E p \in Place : open_dest(p)) \/ unlink_source
    BY <2>4 DEF open_dest, unlink_source
  <2> QED BY <2>1, <2>2, <2>3, <2>4
          DEF Next, vars, MoveStep, cmd_package_init, mkdir_p, write_file_contents,
              extract_templates, register_local_dev_package, write_dest,
              add_dependencies, write_exposed_modules, install_local_dev,
              demote_unused_app_direct_dependencies
<1> QED BY <1>1, <1>2, <1>3, <1>4, <1>5

\* What AloneInv says of an extraction that is going.
Part == SelectionHolds /\ Arriving /\ Supplied /\ Exposed

\* Selecting checks what SelectionHolds says, and moves nothing.
LEMMA SelectAlone ==
  ASSUME AloneInv, NEW s \in Selections, NEW l \in BOOLEAN, NEW d \in BOOLEAN,
         cmd_extract(s, l, d)
  PROVE  Part'
<1> USE DEF AloneInv, ExtractInv, MovesSelected, PlacesHoldTheirOwn, Projects
<1>1. /\ command'.selected = Chosen(s) /\ command'.phase = "make" /\ before' = [app |-> app, file |-> file]
      /\ file' = file /\ imports' = imports /\ broken' = broken /\ app' = app /\ cached' = cached
      /\ Moved' = {p[2] : p \in Chosen(s)}
  BY DEF cmd_extract, tree, Moved
<1>2. ASSUME NEW p \in Chosen(s)
      PROVE  file[p] = p /\ p \in DOMAIN imports \ broken /\ left'[p] > 0
  <2>1. p \in Place /\ There(p[1], p[2]) /\ selected_files_add(s, p) > 0
    BY DEF Chosen
  <2>2. file[p] \in DOMAIN imports \ broken
    BY DEF cmd_extract, Readable
  <2>3. p = <<p[1], p[2]>>
    BY <2>1 DEF Place
  <2>4. file[p] = p
    BY <2>1, <2>3 DEF There
  <2>5. left'[p] > 0
    BY <2>1 DEF cmd_extract
  <2> QED BY <2>2, <2>4, <2>5
<1>3. ASSUME NEW p \in Chosen(s), NEW n \in imports[p], Known(n)'
      PROVE  n \in Moved' \/ Provides(before.app.direct, n)'
  <2>1. CASE Provides(app.direct, n)
    BY <1>1, <2>1 DEF Provides
  <2>2. CASE \E e \in AppDirs : There(e, n)
    <3>1. IsLocal(AppDirs, n)
      BY <2>2, LocalIsThere
    <3>2. n \in ImportsAt(p) /\ n \in Modules
      BY <1>2, <1>3 DEF ImportsAt
    <3>3. <<Local(AppDirs, n), n>> \in Chosen(s)
      <4> DEFINE i == <<p, n>>
      <4>1. i \in Chosen(s) \X Modules /\ i[1] = p /\ i[2] = n
        BY <3>2
      <4>2. i \notin OutOfSelection(Chosen(s))
        BY DEF cmd_extract
      <4> QED BY <3>1, <3>2, <4>1, <4>2 DEF OutOfSelection
    <3> QED BY <1>1, <3>3
  <2> QED BY <1>1, <1>3, <2>1, <2>2 DEF Known, Provides, There
<1>4. SelectionHolds'
  <2>1. before'.app = app /\ app.direct \cup app.indirect \subseteq Published
    BY <1>1 DEF cmd_extract, Listed
  <2>2. ASSUME NEW p \in Chosen(s)
        PROVE  p \in DOMAIN imports' \ broken'
    BY <1>1, <1>2
  <2>3. ASSUME NEW p \in Chosen(s), NEW n \in imports'[p], Known(n)'
        PROVE  n \in Moved' \/ Provides(before.app.direct, n)'
    BY <1>1, <1>3, <2>3
  <2> QED BY <1>1, <2>1, <2>2, <2>3 DEF SelectionHolds
<1>5. Arriving'
  BY <1>1, <1>2 DEF Arriving, Late
<1> QED BY <1>1, <1>4, <1>5 DEF Part, Supplied, Exposed, Late

\* What was known and provided stays so while the application's packages do.
LEMMA KnownKept ==
  ASSUME before' = before, before.app.direct \subseteq Published,
         \A q \in Published : /\ q \in DOMAIN cached' <=> q \in DOMAIN cached
                              /\ q \in DOMAIN cached => cached'[q] = cached[q],
         NEW n
  PROVE  /\ Known(n)' = Known(n)
         /\ Provides(before.app.direct, n)' = Provides(before.app.direct, n)
<1>1. Provides(before.app.direct, n)' = Provides(before.app.direct, n)
  BY DEF Provides
<1> QED BY <1>1 DEF Known, Provides

\* One step of moving p: its destination holds it or is being written.
LEMMA MovingAlone ==
  ASSUME AloneInv, Going, NEW p \in command.selected, left[p] > 0,
         UNCHANGED <<imports, broken, app, cached, before, command>>,
         \A q \in DOMAIN file \ {p, Dest(p)} : file'[q] = file[q],
         \A q \in Place \ {p} : left'[q] = left[q],
         \/ file'[Dest(p)] = p /\ copying' = Nowhere
         \/ file'[Dest(p)] \in {p, Torn} /\ copying' = p,
         copying \in {p, Nowhere}
  PROVE  Part'
<1> USE DEF AloneInv, ExtractInv, Shaped, MovesSelected
<1>1. p \in Place /\ ~Late /\ p # Nowhere
  BY DestApart DEF Arriving
<1>2. ASSUME NEW q \in command.selected
      PROVE  \/ left'[q] > 0
             \/ file'[Dest(q)] = Torn /\ copying' # Nowhere /\ Dest(copying') = Dest(q)
             \/ \E x \in command.selected : x[2] = q[2] /\ file'[Dest(q)] = x
  <2>1. q \in Place
    OBVIOUS
  <2>2. CASE Dest(q) = Dest(p)
    BY <1>1, <2>2 DEF Dest
  <2>3. CASE Dest(q) # Dest(p)
    <3>1. q # p /\ left'[q] = left[q] /\ file'[Dest(q)] = file[Dest(q)]
      BY <1>1, <2>1, <2>3, DestApart
    <3> QED BY <2>3, <3>1 DEF Arriving
  <2> QED BY <2>2, <2>3
<1>3. Arriving'
  BY <1>1, <1>2 DEF Arriving, Late, Dest
<1>4. SelectionHolds'
  BY DEF SelectionHolds, Known, Provides, Moved
<1> QED BY <1>1, <1>3, <1>4 DEF Part, Supplied, Exposed, Late

LEMMA MoveStepsAlone ==
  ASSUME AloneInv, Going,
         \/ \E p \in Place : rename_file(p) \/ open_dest(p)
         \/ write_dest
         \/ unlink_source
  PROVE  Part'
<1> USE DEF AloneInv, ExtractInv, Shaped, MovesSelected, PlacesHoldTheirOwn, Projects
<1>1. ASSUME NEW p \in Place, rename_file(p) \/ open_dest(p)
      PROVE  Part'
  <2>1. p \in command.selected /\ file[p] = p /\ left[p] > 0 /\ copying = Nowhere
    BY <1>1 DEF rename_file, open_dest, There, Place
  <2>2. /\ \A q \in DOMAIN file \ {p, Dest(p)} : file'[q] = file[q]
        /\ \A q \in Place \ {p} : left'[q] = left[q]
    BY <1>1, <2>1, DestApart DEF rename_file, open_dest, Taken
  <2>3. \/ file'[Dest(p)] = p /\ copying' = Nowhere
        \/ file'[Dest(p)] \in {p, Torn} /\ copying' = p
    BY <1>1, <2>1, DestApart DEF rename_file, open_dest
  <2>4. UNCHANGED <<imports, broken, app, cached, before, command>>
    BY <1>1 DEF rename_file, open_dest
  <2> QED BY <2>1, <2>2, <2>3, <2>4, MovingAlone
<1>2. CASE write_dest \/ unlink_source
  <2>1. copying \in command.selected /\ copying \in Place /\ left[copying] > 0 /\ file[copying] = copying
    BY <1>2 DEF write_dest, unlink_source
  <2>2. /\ \A q \in DOMAIN file \ {copying, Dest(copying)} : file'[q] = file[q]
        /\ \A q \in Place \ {copying} : left'[q] = left[q]
    BY <1>2, <2>1, DestApart DEF write_dest, unlink_source, Taken
  <2>3. \/ file'[Dest(copying)] = copying /\ copying' = Nowhere
        \/ file'[Dest(copying)] \in {copying, Torn} /\ copying' = copying
    BY <1>2, <2>1, DestApart DEF write_dest, unlink_source
  <2>4. UNCHANGED <<imports, broken, app, cached, before, command>>
    BY <1>2 DEF write_dest, unlink_source
  <2> QED BY <2>1, <2>2, <2>3, <2>4, MovingAlone
<1> QED BY <1>1, <1>2

\* A step before the moves.
LEMMA EarlyAlone ==
  ASSUME AloneInv, Going, command.phase \notin {"demote", "idle"}, ~Late',
         UNCHANGED <<file, imports, broken, app, cached, left, copying, before>>,
         command'.selected = command.selected
  PROVE  Part'
<1>1. SelectionHolds'
  BY DEF AloneInv, SelectionHolds, Known, Provides, Moved
<1>2. Arriving'
  BY DEF AloneInv, Arriving, Dest
<1> QED BY <1>1, <1>2 DEF Part, Supplied, Exposed, Late

\* A step after the moves.
LEMMA LateAlone ==
  ASSUME AloneInv, Going, Late',
         UNCHANGED <<file, imports, broken, left, copying, before>>,
         command'.selected = command.selected,
         \A p \in Place : left[p] = 0,
         \A q \in Published : /\ q \in DOMAIN cached' <=> q \in DOMAIN cached
                              /\ q \in DOMAIN cached => cached'[q] = cached[q],
         command'.phase \in {"demote", "idle"}
           \/ (command.phase \notin {"demote", "idle"} /\ app' = app),
         \A m \in Moved : \A n \in ImportsAt(<<Package, m>>) :
           Known(n) => There(Package, n) \/ Provides(package'.deps \cap Published, n),
         Exposed'
  PROVE  Part'
<1> USE DEF AloneInv
<1>1. before.app.direct \subseteq Published
  BY DEF SelectionHolds
<1>2. \A n : /\ Known(n)' = Known(n)
             /\ Provides(before.app.direct, n)' = Provides(before.app.direct, n)
  BY <1>1, KnownKept
<1>3. Moved' = Moved
  BY DEF Moved
<1>4. SelectionHolds'
  BY <1>2, <1>3 DEF SelectionHolds
<1>5. Arriving'
  BY DEF Arriving, Dest
<1>6. ASSUME NEW m \in Moved, NEW n \in ImportsAt(<<Package, m>>)', Known(n)'
      PROVE  There(Package, n)' \/ Provides(package.deps \cap Published, n)'
  <2>1. n \in ImportsAt(<<Package, m>>) /\ Known(n)
    BY <1>2, <1>6 DEF ImportsAt
  <2>2. CASE There(Package, n)
    BY <2>2 DEF There
  <2>3. CASE Provides(package'.deps \cap Published, n)
    BY <2>3 DEF Provides
  <2> QED BY <2>1, <2>2, <2>3
<1>7. Supplied'
  BY <1>3, <1>6 DEF Supplied
<1> QED BY <1>4, <1>5, <1>7 DEF Part

\* The four steps that end an extraction.
LEMMA LateStepsAlone ==
  ASSUME AloneInv, Going,
         \/ add_dependencies \/ write_exposed_modules
         \/ install_local_dev \/ demote_unused_app_direct_dependencies
  PROVE  Part'
<1> USE DEF AloneInv, Projects, ExtractInv, Shaped, At, Go, End
<1>1. CASE add_dependencies
  <2>1. /\ \A p \in Place : left[p] = 0
        /\ command.phase = "move" /\ command'.phase = "expose" /\ ~Idle
        /\ package'.deps = package.deps \cup compute_extracted_package_dependencies
    BY <1>1 DEF add_dependencies, Idle
  <2>2. ASSUME NEW m \in Moved, NEW n \in ImportsAt(<<Package, m>>), Known(n)
        PROVE  There(Package, n) \/ Provides(package'.deps \cap Published, n)
    BY <2>1, <2>2, ComputedSupplies DEF Provides
  <2>3. Exposed' /\ Late'
    BY <2>1 DEF Exposed, Late
  <2>4. UNCHANGED <<file, imports, broken, app, cached, left, copying, before>>
        /\ command'.selected = command.selected
    BY <1>1 DEF add_dependencies, tree
  <2> QED BY <2>1, <2>2, <2>3, <2>4, LateAlone
<1>2. CASE write_exposed_modules
  <2>1. /\ command.phase = "expose" /\ command'.phase \in {"install", "idle"}
        /\ package'.deps = package.deps /\ Late /\ Late'
        /\ package'.exposed = {m \in Moved : Readable(<<Package, m>>)}
        /\ command'.selected = command.selected
    BY <1>2 DEF write_exposed_modules, Late
  <2>2. \A p \in Place : left[p] = 0
    BY <2>1 DEF Arriving
  <2>3. Moved' = Moved /\ Moved \subseteq package'.exposed
    BY <2>1, <2>2, AllReadable DEF Moved
  <2>4. Exposed'
    BY <2>3 DEF Exposed
  <2>5. UNCHANGED <<file, imports, broken, app, cached, left, copying, before>>
    BY <1>2 DEF write_exposed_modules, tree
  <2> QED BY <2>1, <2>2, <2>4, <2>5, LateAlone DEF Supplied
<1>3. CASE install_local_dev
  <2>1. /\ command.phase = "install" /\ command'.phase = "demote"
        /\ package' = package /\ Late /\ Late' /\ command'.selected = command.selected
    BY <1>3 DEF install_local_dev, Late
  <2>2. \A p \in Place : left[p] = 0
    BY <2>1 DEF Arriving
  <2>3. \A q \in Published : /\ q \in DOMAIN cached' <=> q \in DOMAIN cached
                             /\ q \in DOMAIN cached => cached'[q] = cached[q]
    BY <1>3, NumbersOrder DEF install_local_dev
  <2>4. Exposed'
    BY <2>1 DEF Exposed, Moved
  <2>5. UNCHANGED <<file, imports, broken, left, copying, before>>
    BY <1>3 DEF install_local_dev
  <2> QED BY <2>1, <2>2, <2>3, <2>4, <2>5, LateAlone DEF Supplied
<1>4. CASE demote_unused_app_direct_dependencies
  <2>1. /\ command.phase = "demote" /\ command'.phase = "idle"
        /\ package' = package /\ Late /\ Late' /\ command'.selected = command.selected
    BY <1>4 DEF demote_unused_app_direct_dependencies, Late
  <2>2. \A p \in Place : left[p] = 0
    BY <2>1 DEF Arriving
  <2>3. Exposed'
    BY <2>1 DEF Exposed, Moved
  <2>4. UNCHANGED <<file, imports, broken, cached, left, copying, before>>
    BY <1>4 DEF demote_unused_app_direct_dependencies
  <2> QED BY <2>1, <2>2, <2>3, <2>4, LateAlone DEF Supplied
<1> QED BY <1>1, <1>2, <1>3, <1>4

LEMMA StepAlone ==
  ASSUME AloneInv, [Next]_vars
  PROVE  Going' => Part'
<1> SUFFICES ASSUME Going' PROVE Part'
  OBVIOUS
<1> USE DEF At, Go, End, Going, Idle
<1>1. {"phase", "kind", "result"} \subseteq DOMAIN command
  BY DEF AloneInv, Projects, ExtractInv, Shaped
<1>2. CASE \E s \in Selections, l, d \in BOOLEAN : cmd_extract(s, l, d)
  BY <1>2, SelectAlone
<1>3. CASE (\E l \in BOOLEAN : cmd_package_init(l)) \/ (\E p \in Place : move_fails(p)) \/ Stop
  BY <1>1, <1>3 DEF cmd_package_init, move_fails, Stop
<1>4. CASE mkdir_p \/ write_file_contents \/ extract_templates \/ register_local_dev_package
  <2>1. Going /\ command.phase \in {"make", "template", "name", "register"}
        /\ command'.selected = command.selected
        /\ command'.phase \in {"template", "name", "register", "move"}
    BY <1>1, <1>4
       DEF mkdir_p, write_file_contents, extract_templates, AfterTemplates, register_local_dev_package,
           AloneInv, Projects, ExtractInv, Shaped
  <2>2. UNCHANGED <<file, imports, broken, app, cached, left, copying, before>>
    BY <1>4
       DEF tree, mkdir_p, write_file_contents, extract_templates, register_local_dev_package
  <2> QED BY <2>1, <2>2, EarlyAlone DEF Late
<1>5. CASE (\E p \in Place : rename_file(p) \/ open_dest(p)) \/ write_dest \/ unlink_source
  <2>1. Going
    BY <1>5 DEF rename_file, open_dest, write_dest, unlink_source
  <2> QED BY <1>5, <2>1, MoveStepsAlone
<1>6. CASE add_dependencies \/ write_exposed_modules
           \/ install_local_dev \/ demote_unused_app_direct_dependencies
  <2>1. Going
    BY <1>1, <1>6 DEF add_dependencies, write_exposed_modules, install_local_dev,
                      demote_unused_app_direct_dependencies
  <2> QED BY <1>6, <2>1, LateStepsAlone
<1>7. CASE UNCHANGED vars
  BY <1>7 DEF vars, tree, AloneInv, Part, SelectionHolds, Arriving, Supplied, Exposed, Late,
              Known, Provides, Moved, Dest, There, ImportsAt
<1> QED BY <1>2, <1>3, <1>4, <1>5, <1>6, <1>7 DEF Next, MoveStep

LEMMA InitAloneInv == Init => AloneInv
<1> SUFFICES ASSUME Init PROVE AloneInv
  OBVIOUS
<1>1. ~Going
  BY DEF Init, Going
<1>2. Projects
  BY StartsAreProjects DEF Init, Projects, NoPackage, Listed
<1> QED BY <1>1, <1>2, InitExtractInv DEF AloneInv

LEMMA StepAloneInv == AloneInv /\ [Next]_vars => AloneInv'
<1> SUFFICES ASSUME AloneInv, [Next]_vars PROVE AloneInv'
  OBVIOUS
<1>1. ExtractInv'
  BY StepExtractInv DEF AloneInv
<1>2. Projects'
  BY <1>1, ProjectsKept
<1> QED BY <1>1, <1>2, StepAlone DEF AloneInv, Part

\* Whatever project it comes from, a package that was extracted without an error
\* has and exposes the modules selected, and its elm.json names packages that
\* provide everything else they import: the checks made before anything was
\* moved still hold when the last file has arrived.
THEOREM ExtractedStandsAlone == Spec => []PackageStandsAlone
<1>1. Spec => []AloneInv
  BY InitAloneInv, StepAloneInv, PTL DEF Spec
<1> QED BY <1>1, InvStandsAlone, PTL

-----------------------------------------------------------------------------
(* Types *)

Phases == {"idle", "make", "template", "name", "register", "move", "expose", "install", "demote"}
PackageType ==
  [there : BOOLEAN, json : {"none", "torn", "whole"}, deps : SUBSET Packages,
   exposed : SUBSET Modules, registered : BOOLEAN]

\* The order of the steps: nothing is moved before the template is complete, and
\* only a package that was complete is listed.
InOrder ==
  /\ command.phase \in Phases /\ package \in PackageType
  /\ command.phase = "make" => ~package.there
  /\ command.phase = "template" => package.json = "none"
  /\ command.phase \in {"register", "move", "expose", "install", "demote"} => package.json = "whole"
  /\ command.phase \in {"move", "expose", "install", "demote"} => command.kind = "extract"
  /\ ~Idle => command.kind \in {"init", "extract"}
  /\ ~Idle /\ command.kind = "extract" => command.selected # {}
  /\ copying # Nowhere => command.phase = "move"
  /\ New \in Listed => package.json = "whole"

TypeInv == AloneInv /\ InOrder /\ TypeOK

\* A package that owns a module is one of those the application lists.
LEMMA OwnersAreListed ==
  ASSUME TypeOK, NEW S
  PROVE  Owners(S) \subseteq Packages
<1> SUFFICES ASSUME NEW m \in S, Exposing(m) # {} PROVE Min(Exposing(m)) \in Packages
  BY DEF Owners
<1>1. Exposing(m) \subseteq Packages /\ Packages \subseteq Nat
  BY NumbersOrder DEF TypeOK, Exposing, Listed, Packages
<1>2. Min(Exposing(m)) \in Exposing(m)
  BY <1>1, LeastNumber
<1> QED BY <1>1, <1>2

\* What the last clauses of TypeOK say of a step that leaves the lists alone.
LEMMA ListsKept ==
  ASSUME TypeInv, UNCHANGED <<imports, broken, app, cached>>, command'.selected = command.selected
  PROVE  /\ DOMAIN imports' \subseteq Place /\ broken' \subseteq DOMAIN imports'
         /\ app' \in [direct : SUBSET Packages, indirect : SUBSET Packages]
         /\ \A p \in DOMAIN cached' : p \in Packages /\ cached'[p] \in Json
         /\ (New \in Listed => command.selected # {} /\ Moved \subseteq cached[New].exposed)'
         /\ Listed' = Listed
BY DEF TypeInv, TypeOK, Listed, Moved

\* A step that moves a file puts a text into the package, which is complete.
LEMMA MovesTyped ==
  ASSUME TypeInv,
         \/ \E p \in Place : rename_file(p) \/ open_dest(p)
         \/ write_dest
         \/ unlink_source
  PROVE  (InOrder /\ TypeOK)'
<1> USE DEF TypeInv, InOrder, Idle, At
<1>1. TypeOK /\ DOMAIN imports \subseteq Place /\ command.phase = "move" /\ package.json = "whole"
      /\ package.there
  <2>1. TypeOK /\ DOMAIN imports \subseteq Place
    BY DEF TypeOK
  <2>2. command.phase = "move"
    <3>1. CASE copying # Nowhere
      BY <3>1
    <3>2. CASE copying = Nowhere
      BY <3>2 DEF rename_file, open_dest, write_dest, unlink_source
    <3> QED BY <3>1, <3>2
  <2>3. package.json = "whole"
    BY <2>2
  <2>4. package # NoPackage
    BY <2>3 DEF NoPackage
  <2>5. package.there
    BY <2>1, <2>4 DEF TypeOK
  <2> QED BY <2>1, <2>2, <2>3, <2>5
<1>2. UNCHANGED <<imports, broken, app, cached, package, command>>
  BY DEF rename_file, open_dest, write_dest, unlink_source
<1> DEFINE Typed ==
      /\ file' \in [(0 .. Dirs) \X Modules -> DOMAIN imports \cup {NoFile, Torn}]
      /\ copying' \in Place \cup {Nowhere} /\ left' \in [Place -> 0 .. 2]
<1>3. Typed
  <2>1. /\ file \in [(0 .. Dirs) \X Modules -> DOMAIN imports \cup {NoFile, Torn}]
        /\ copying \in Place \cup {Nowhere} /\ left \in [Place -> 0 .. 2]
    BY <1>1 DEF TypeOK
  <2>2. ASSUME NEW p \in Place, rename_file(p)
        PROVE  Typed
    BY <2>1, <2>2, DestApart DEF rename_file, Taken
  <2>3. ASSUME NEW p \in Place, open_dest(p)
        PROVE  Typed
    BY <2>1, <2>3, DestApart DEF open_dest
  <2>4. CASE write_dest
    BY <2>1, <2>4, DestApart DEF write_dest
  <2>5. CASE unlink_source
    <3>1. copying \in Place /\ left[copying] > 0
      BY <2>1, <2>5 DEF unlink_source, AloneInv, Projects
    <3> QED BY <2>1, <2>5, <3>1, DestApart DEF unlink_source, Taken
  <2> QED BY <2>2, <2>3, <2>4, <2>5
<1>4. TypeOK'
  BY <1>1, <1>2, <1>3, ListsKept DEF TypeOK
<1>5. InOrder'
  BY <1>1, <1>2 DEF Listed
<1> QED BY <1>4, <1>5

\* A step that changes the package, and never takes its elm.json back.
LEMMA PackageTyped ==
  ASSUME TypeInv, UNCHANGED <<file, imports, broken, app, cached, copying, left>>,
         command'.selected = command.selected,
         package' \in PackageType, package'.there,
         package.json = "whole" => package'.json = "whole"
  PROVE  TypeOK' /\ Listed' = Listed
<1>1. TypeOK
  BY DEF TypeInv
<1>2. \A m \in Modules : There(Package, m)' = There(Package, m)
  BY DEF There
<1>3. Listed' = Listed
  BY ListsKept
<1>4. package'.json # "whole" => \A m \in Modules : ~There(Package, m)'
  BY <1>1, <1>2 DEF TypeOK
<1> QED BY <1>1, <1>3, <1>4, ListsKept DEF TypeOK

\* A step that leaves files, lists and the package alone.
LEMMA RestTyped ==
  ASSUME TypeInv, UNCHANGED <<file, imports, broken, app, cached, package>>,
         command'.selected = command.selected,
         left' \in [Place -> 0 .. 2], copying' \in {copying, Nowhere}
  PROVE  TypeOK' /\ Listed' = Listed
<1>1. TypeOK
  BY DEF TypeInv
<1>2. \A m \in Modules : There(Package, m)' = There(Package, m)
  BY DEF There
<1> QED BY <1>1, <1>2, ListsKept DEF TypeOK

\* The steps before the moves, those of wrap package init among them.
LEMMA TemplateTyped ==
  ASSUME TypeInv,
         \/ \E l \in BOOLEAN : cmd_package_init(l)
         \/ mkdir_p \/ write_file_contents \/ extract_templates \/ register_local_dev_package
  PROVE  (InOrder /\ TypeOK)'
<1> USE DEF TypeInv, InOrder, Idle, At, Go, End
<1>0. /\ {"phase", "selected", "kind", "result", "local_dev"} \subseteq DOMAIN command
      /\ Core \in Packages /\ TypeOK
      /\ ~package.there => command.phase \in {"idle", "make"} /\ copying = Nowhere
  BY NumbersOrder DEF Packages, AloneInv, ExtractInv, Shaped, MovesSelected, Projects
<1>1. ASSUME NEW l \in BOOLEAN, cmd_package_init(l) PROVE (InOrder /\ TypeOK)'
  <2>1. /\ package' \in PackageType /\ package'.there /\ package'.json = package.json
        /\ package.json = "none" /\ package.json # "whole"
    BY <1>1 DEF cmd_package_init, PackageType
  <2>2. /\ command'.phase = "template" /\ command'.kind = "init"
        /\ command'.selected = command.selected /\ copying' = copying
    BY <1>0, <1>1 DEF cmd_package_init
  <2>3. TypeOK' /\ Listed' = Listed
    BY <1>1, <2>1, <2>2, PackageTyped DEF cmd_package_init, tree
  <2>4. New \notin Listed /\ copying = Nowhere
    BY <1>1, <2>1 DEF cmd_package_init
  <2> QED BY <2>1, <2>2, <2>3, <2>4 DEF Phases
<1>2. CASE mkdir_p
  <2>1. /\ package' \in PackageType /\ package'.there /\ package'.json = package.json
        /\ ~package.there
    BY <1>2 DEF mkdir_p, PackageType
  <2>2. package.json = "none"
    BY <1>0, <2>1 DEF TypeOK, NoPackage
  <2>3. /\ command'.phase = "template" /\ command'.kind = command.kind
        /\ command'.selected = command.selected /\ copying' = copying /\ command.phase = "make"
    BY <1>0, <1>2 DEF mkdir_p
  <2>4. TypeOK' /\ Listed' = Listed
    BY <1>2, <2>1, <2>3, PackageTyped DEF mkdir_p, tree
  <2> QED BY <2>1, <2>2, <2>3, <2>4 DEF Phases
<1>3. CASE write_file_contents
  <2>1. package.json = "none" /\ package.there
    BY <1>0, <1>3 DEF write_file_contents
  <2>2. package' \in PackageType /\ package'.there /\ package'.json = "torn"
    BY <1>3, <2>1 DEF write_file_contents, PackageType
  <2>3. /\ command'.phase = "name" /\ command'.kind = command.kind
        /\ command'.selected = command.selected /\ copying' = copying /\ command.phase = "template"
    BY <1>0, <1>3 DEF write_file_contents
  <2>4. TypeOK' /\ Listed' = Listed
    BY <1>3, <2>1, <2>2, <2>3, PackageTyped DEF write_file_contents, tree
  <2> QED BY <2>1, <2>2, <2>3, <2>4 DEF Phases
<1>4. CASE extract_templates
  <2>1. package.there /\ command.phase = "name"
    BY <1>0, <1>4 DEF extract_templates
  <2>2. package' \in PackageType /\ package'.there /\ package'.json = "whole"
    BY <1>0, <1>4, <2>1 DEF extract_templates, PackageType
  <2>3. /\ command'.phase \in {"register", "move", "idle"} /\ command'.kind = command.kind
        /\ command'.phase = "move" => command.kind # "init"
        /\ command'.selected = command.selected /\ copying' = copying
    BY <1>0, <1>4 DEF extract_templates, AfterTemplates
  <2>4. TypeOK' /\ Listed' = Listed
    BY <1>4, <2>1, <2>2, <2>3, PackageTyped DEF extract_templates, tree
  <2> QED BY <2>1, <2>2, <2>3, <2>4 DEF Phases
<1>5. CASE register_local_dev_package
  <2>1. package.there /\ command.phase = "register" /\ package.json = "whole"
    BY <1>0, <1>5 DEF register_local_dev_package
  <2>2. package' \in PackageType /\ package'.there /\ package'.json = "whole"
    BY <1>5, <2>1 DEF register_local_dev_package, PackageType
  <2>3. /\ command'.phase \in {"move", "idle"} /\ command'.kind = command.kind
        /\ command'.phase = "move" => command.kind # "init"
        /\ command'.selected = command.selected /\ copying' = copying
    BY <1>0, <1>5 DEF register_local_dev_package
  <2>4. TypeOK' /\ Listed' = Listed
    BY <1>5, <2>1, <2>2, <2>3, PackageTyped DEF register_local_dev_package, tree
  <2> QED BY <2>1, <2>2, <2>3, <2>4 DEF Phases
<1> QED BY <1>1, <1>2, <1>3, <1>4, <1>5

\* Selecting, where the package is not there yet.
LEMMA SelectTyped ==
  ASSUME TypeInv, NEW s \in Selections, NEW l \in BOOLEAN, NEW d \in BOOLEAN, cmd_extract(s, l, d)
  PROVE  (InOrder /\ TypeOK)'
<1> USE DEF TypeInv, InOrder, Idle
<1>1. TypeOK /\ package = NoPackage /\ package.json = "none" /\ ~package.there /\ copying = Nowhere
  BY DEF cmd_extract, TypeOK, NoPackage
<1>2. /\ command'.phase = "make" /\ command'.kind = "extract" /\ command'.selected # {}
      /\ UNCHANGED <<file, imports, broken, app, cached, package, copying>>
  BY DEF cmd_extract, tree
<1>3. left' \in [Place -> 0 .. 2]
  BY DEF cmd_extract, selected_files_add
<1>4. New \notin Listed /\ Listed' = Listed
  BY <1>1, <1>2 DEF Listed
<1>5. TypeOK'
  BY <1>1, <1>2, <1>3, <1>4 DEF TypeOK, There
<1> QED BY <1>1, <1>2, <1>4, <1>5 DEF Phases

\* The steps after the moves.
LEMMA LateTyped ==
  ASSUME TypeInv,
         \/ add_dependencies \/ write_exposed_modules
         \/ install_local_dev \/ demote_unused_app_direct_dependencies
  PROVE  (InOrder /\ TypeOK)'
<1> USE DEF TypeInv, InOrder, Idle, At, Go, End
<1>0. /\ {"phase", "selected", "kind", "result", "local_dev"} \subseteq DOMAIN command
      /\ TypeOK /\ command.selected \subseteq Place /\ Moved \subseteq Modules
      /\ New \in Packages /\ Published \subseteq Packages
  BY DEF Packages, AloneInv, ExtractInv, Shaped, MovesSelected, Projects, Moved, Place
<1>1. /\ command.phase \in {"move", "expose", "install", "demote"} /\ command.kind = "extract"
      /\ package.json = "whole" /\ command.selected # {}
  BY DEF add_dependencies, write_exposed_modules, install_local_dev,
         demote_unused_app_direct_dependencies
<1>2. package # NoPackage
  BY <1>1 DEF NoPackage
<1>3. package.there
  BY <1>0, <1>2 DEF TypeOK
<1>4. CASE add_dependencies
  <2>1. compute_extracted_package_dependencies \subseteq Packages
    BY <1>0, OwnersAreListed DEF compute_extracted_package_dependencies
  <2>2. package' \in PackageType /\ package'.there /\ package'.json = "whole"
    BY <1>1, <1>3, <1>4, <2>1 DEF add_dependencies, PackageType
  <2>3. /\ command'.phase = "expose" /\ command'.kind = "extract"
        /\ command'.selected = command.selected /\ copying' = copying
        /\ \A p \in Place : left[p] = 0
    BY <1>0, <1>1, <1>4 DEF add_dependencies
  <2>4. copying = Nowhere
    BY <1>0, <2>3 DEF AloneInv, Projects, ExtractInv, MovesSelected, PlacesHoldTheirOwn
  <2>5. TypeOK' /\ Listed' = Listed
    BY <1>4, <2>2, <2>3, PackageTyped DEF add_dependencies, tree
  <2> QED BY <1>1, <2>2, <2>3, <2>4, <2>5 DEF Phases
<1>5. CASE write_exposed_modules
  <2>1. package'.there /\ package'.json = "whole" /\ package' \in PackageType
    <3>1. package' = [package EXCEPT !.exposed = {m \in Moved : Readable(<<Package, m>>)}]
      BY <1>5 DEF write_exposed_modules
    <3>2. {m \in Moved : Readable(<<Package, m>>)} \subseteq Modules
      BY <1>0
    <3> QED BY <1>1, <1>3, <3>1, <3>2 DEF PackageType
  <2>2. /\ command'.phase \in {"install", "idle"} /\ command'.kind = "extract"
        /\ command'.selected = command.selected /\ copying' = copying /\ copying = Nowhere
    BY <1>0, <1>1, <1>5 DEF write_exposed_modules
  <2>3. TypeOK' /\ Listed' = Listed
    BY <1>5, <2>1, <2>2, PackageTyped DEF write_exposed_modules, tree
  <2> QED BY <1>1, <2>1, <2>2, <2>3 DEF Phases
<1>6. CASE install_local_dev
  <2>1. /\ command.phase = "install" /\ command'.phase = "demote" /\ command'.kind = "extract"
        /\ command'.selected = command.selected /\ copying' = copying /\ copying = Nowhere
        /\ UNCHANGED <<file, imports, broken, package, left>>
    BY <1>0, <1>1, <1>6 DEF install_local_dev
  <2>2. package.deps \subseteq Packages /\ package.exposed \subseteq Modules
    BY DEF PackageType
  <2>3. [exposed |-> package.exposed, deps |-> package.deps] \in Json
    BY <2>2 DEF Json
  <2>4. /\ DOMAIN cached' = DOMAIN cached \cup {New}
        /\ \A p \in DOMAIN cached' :
             cached'[p] = IF p = New THEN [exposed |-> package.exposed, deps |-> package.deps]
                                     ELSE cached[p]
    BY <1>6 DEF install_local_dev
  <2>5. \A p \in DOMAIN cached' : p \in Packages /\ cached'[p] \in Json
    BY <1>0, <2>3, <2>4 DEF TypeOK
  <2>6. app' \in [direct : SUBSET Packages, indirect : SUBSET Packages]
    <3>1. Needed(package.deps) \subseteq Packages
      BY <1>0 DEF Needed
    <3> QED BY <1>0, <1>6, <3>1 DEF install_local_dev, TypeOK
  <2>7. Moved' = Moved /\ Moved \subseteq package.exposed
    BY <1>1, <2>1 DEF Moved, AloneInv, Going, Exposed
  <2>8. Moved' \subseteq cached'[New].exposed
    BY <2>4, <2>7
  <2>9. \A m \in Modules : There(Package, m)' = There(Package, m)
    BY <2>1 DEF There
  <2>10. TypeOK'
    BY <1>0, <1>1, <1>3, <2>1, <2>5, <2>6, <2>8, <2>9 DEF TypeOK
  <2> QED BY <1>1, <2>1, <2>10 DEF Phases
<1>7. CASE demote_unused_app_direct_dependencies
  <2>1. /\ command.phase = "demote" /\ command'.phase = "idle" /\ command'.kind = "extract"
        /\ command'.selected = command.selected /\ copying' = copying /\ copying = Nowhere
        /\ UNCHANGED <<file, imports, broken, cached, package, left>>
    BY <1>0, <1>1, <1>7 DEF demote_unused_app_direct_dependencies
  <2>2. app' \in [direct : SUBSET Packages, indirect : SUBSET Packages] /\ Listed' \subseteq Listed
    BY <1>0, <1>7 DEF demote_unused_app_direct_dependencies, TypeOK, Listed
  <2>3. \A m \in Modules : There(Package, m)' = There(Package, m)
    BY <2>1 DEF There
  <2>4. (New \in Listed => command.selected # {} /\ Moved \subseteq cached[New].exposed)'
    BY <1>0, <2>1, <2>2 DEF TypeOK, Moved
  <2>5. TypeOK'
    BY <1>0, <1>1, <1>3, <2>1, <2>2, <2>3, <2>4 DEF TypeOK
  <2> QED BY <1>1, <2>1, <2>2, <2>5 DEF Phases
<1> QED BY <1>4, <1>5, <1>6, <1>7

\* A move that fails, a stop, and a step of something else.
LEMMA StopTyped ==
  ASSUME TypeInv, (\E p \in Place : move_fails(p)) \/ Stop \/ UNCHANGED vars
  PROVE  (InOrder /\ TypeOK)'
<1> USE DEF TypeInv, InOrder, Idle, End
<1>1. {"phase", "selected", "kind", "result"} \subseteq DOMAIN command /\ TypeOK
  BY DEF AloneInv, ExtractInv, Shaped, Projects
<1>2. /\ UNCHANGED <<file, imports, broken, app, cached, package>>
      /\ command'.selected = command.selected /\ command'.kind = command.kind
      /\ command'.phase \in {"idle", command.phase}
      /\ left' \in [Place -> 0 .. 2] /\ copying' \in {copying, Nowhere}
      /\ copying' # Nowhere => command'.phase = command.phase
  <2>1. left \in [Place -> 0 .. 2] /\ [p \in Place |-> 0] \in [Place -> 0 .. 2]
    BY <1>1 DEF TypeOK
  <2>2. CASE \E p \in Place : move_fails(p)
    BY <1>1, <2>1, <2>2 DEF move_fails, tree
  <2>3. CASE Stop
    BY <1>1, <2>1, <2>3 DEF Stop, tree
  <2>4. CASE UNCHANGED vars
    BY <1>1, <2>1, <2>4 DEF vars, tree
  <2> QED BY <2>2, <2>3, <2>4
<1>3. TypeOK' /\ Listed' = Listed
  BY <1>2, RestTyped
<1> QED BY <1>1, <1>2, <1>3 DEF Phases

LEMMA StepTyped == TypeInv /\ [Next]_vars => TypeInv'
<1> SUFFICES ASSUME TypeInv, [Next]_vars PROVE TypeInv'
  OBVIOUS
<1>1. AloneInv'
  BY StepAloneInv DEF TypeInv
<1>2. (InOrder /\ TypeOK)'
  BY SelectTyped, TemplateTyped, MovesTyped, LateTyped, StopTyped DEF Next, MoveStep
<1> QED BY <1>1, <1>2 DEF TypeInv

LEMMA InitTyped == Init => TypeInv
<1> SUFFICES ASSUME Init PROVE TypeInv
  OBVIOUS
<1>1. PICK start \in Starts :
        imports = start.imports /\ broken = start.broken /\ app = start.app /\ cached = start.cached
  BY DEF Init
<1>2. /\ DOMAIN imports \subseteq Place /\ broken \subseteq DOMAIN imports
      /\ app \in [direct : SUBSET Published, indirect : SUBSET Published]
      /\ \A p \in DOMAIN cached : p \in Packages /\ cached[p] \in Json
  BY <1>1, StartsAreProjects
<1>3. app \in [direct : SUBSET Packages, indirect : SUBSET Packages] /\ New \notin Listed
  BY <1>2, NumbersOrder DEF Packages, Listed
<1>4. \A m \in Modules : ~There(Package, m)
  <2>1. \A m \in Modules : <<Package, m>> \in (0 .. Dirs) \X Modules /\ <<Package, m>> \notin Place
    BY NumbersOrder DEF Package, Place
  <2> QED BY <1>2, <2>1 DEF Init, There
<1>5. file \in [(0 .. Dirs) \X Modules -> DOMAIN imports \cup {NoFile, Torn}]
  BY DEF Init
<1>6. TypeOK
  BY <1>2, <1>3, <1>4, <1>5 DEF Init, TypeOK, NoPackage
<1>7. InOrder
  BY <1>3 DEF Init, InOrder, Idle, Phases, NoPackage, PackageType
<1> QED BY <1>6, <1>7, InitAloneInv DEF TypeInv

\* For any project and selection: nothing is in the package before its elm.json is
\* whole, and the application lists the package only with the modules moved to it.
THEOREM TypeCorrect == Spec => []TypeOK
<1>1. TypeInv => TypeOK
  BY DEF TypeInv
<1> QED BY <1>1, InitTyped, StepTyped, PTL DEF Spec

-----------------------------------------------------------------------------
(* What the application keeps *)

\* While modules move, the other files of the application are those it had; then
\* its elm.json has the new package beside what it had.
AppInv ==
  /\ ~Idle /\ command.kind = "extract" =>
       \A q \in Place \ command.selected : file[q] = before.file[q]
  /\ command.phase = "demote" =>
       /\ app.direct = before.app.direct \cup {New}
       /\ New \in DOMAIN cached /\ Moved \subseteq cached[New].exposed
  /\ AppKeepsImports

\* A module the application had a file for is there, or in the new package.
LEMMA FilesAreSomewhere ==
  ASSUME TypeInv, AppInv, command.phase = "demote",
         NEW m \in Modules, NEW d \in AppDirs, before.file[<<d, m>>] # NoFile
  PROVE  IsLocal(AppDirs, m) \/ (New \in DOMAIN cached /\ m \in cached[New].exposed)
<1>1. <<d, m>> \in Place /\ ~Idle /\ command.kind = "extract"
  BY DEF AppDirs, Place, Idle, TypeInv, InOrder
<1>2. CASE <<d, m>> \in command.selected
  <2>1. m \in Moved
    BY <1>2 DEF Moved
  <2> QED BY <2>1 DEF AppInv
<1>3. CASE <<d, m>> \notin command.selected
  <2>1. There(d, m)
    BY <1>1, <1>3 DEF AppInv, There
  <2> QED BY <2>1, LocalIsThere
<1> QED BY <1>2, <1>3

\* A module that a file imports and that one listed package alone exposes has that
\* package among those the application uses; or the new one has the module.
LEMMA OwnerIsUsed ==
  ASSUME TypeInv, AppInv, command.phase = "demote",
         NEW p \in Place, Readable(p), NEW m \in ImportsAt(p), ~IsLocal(AppDirs, m), OneOwner(m),
         NEW q \in before.app.direct \cap DOMAIN cached, m \in cached[q].exposed
  PROVE  q \in UsedByApp \/ (New \in DOMAIN cached /\ m \in cached[New].exposed)
<1> DEFINE o == Min(Exposing(m))
<1>1. app.direct = before.app.direct \cup {New} /\ TypeOK
  BY DEF AppInv, TypeInv
<1>2. q \in Exposing(m)
  BY <1>1 DEF Exposing, Listed
<1>3. Exposing(m) \in SUBSET Nat
  BY <1>1, NumbersOrder DEF TypeOK, Exposing, Listed, Packages
<1>4. o \in Exposing(m)
  BY <1>2, <1>3, LeastNumber
<1>5. o \in UsedByApp
  BY <1>2 DEF UsedByApp, Owners
<1> HIDE DEF o
<1>6. o \in Listed /\ o \in DOMAIN cached /\ m \in cached[o].exposed
  BY <1>4 DEF Exposing
<1>7. CASE o = New
  BY <1>6, <1>7
<1>8. CASE o # New
  <2>1. o \in before.app.direct \cup app.indirect /\ q \in before.app.direct \cup app.indirect
    BY <1>1, <1>6, <1>8 DEF Listed
  <2>2. Provides({o}, m) /\ Provides({q}, m)
    BY <1>6 DEF Provides
  <2>3. o = q
    BY <2>1, <2>2 DEF OneOwner
  <2> QED BY <1>5, <2>3
<1> QED BY <1>7, <1>8

\* Taking packages out that nothing uses keeps what files import.
LEMMA DemoteKeepsImports ==
  ASSUME TypeInv, AppInv, demote_unused_app_direct_dependencies
  PROVE  AppKeepsImports'
<1>1. /\ command.phase = "demote"
      /\ UNCHANGED <<file, imports, broken, cached, before>>
      /\ app' = app \/ app' = [app EXCEPT !.direct = @ \ Unused]
      /\ app \in [direct : SUBSET Packages, indirect : SUBSET Packages]
  BY DEF demote_unused_app_direct_dependencies, At, TypeInv, TypeOK
<1>2. app'.indirect = app.indirect /\ app.direct \ Unused \subseteq app'.direct
  BY <1>1
<1>3. New \in app'.direct /\ app.direct = before.app.direct \cup {New}
  BY <1>1, <1>2 DEF AppInv, Unused
<1> SUFFICES ASSUME NEW p \in Place, Readable(p)', NEW m \in ImportsAt(p)', Known(m)', OneOwner(m)'
             PROVE  IsLocal(AppDirs, m)' \/ Provides(app.direct, m)'
  BY DEF AppKeepsImports
<1>4. Readable(p) /\ m \in ImportsAt(p) /\ IsLocal(AppDirs, m)' = IsLocal(AppDirs, m)
  BY <1>1 DEF Readable, ImportsAt, IsLocal, Local, There
<1>5. Known(m) /\ OneOwner(m)
  BY <1>1, <1>2 DEF Known, OneOwner, Provides
<1>6. m \in Modules
  BY <1>4 DEF Readable, ImportsAt, TypeInv, AloneInv, Projects
<1>7. CASE New \in DOMAIN cached /\ m \in cached[New].exposed
  BY <1>1, <1>3, <1>7 DEF Provides
<1>8. CASE \E d \in AppDirs : before.file[<<d, m>>] # NoFile
  BY <1>1, <1>4, <1>6, <1>7, <1>8, FilesAreSomewhere
<1>9. CASE Provides(before.app.direct, m)
  <2>1. PICK q \in before.app.direct \cap DOMAIN cached : m \in cached[q].exposed
    BY <1>9 DEF Provides
  <2>2. CASE q \in UsedByApp
    <3>1. q \in app'.direct
      BY <1>2, <1>3, <2>2 DEF Unused
    <3> QED BY <1>1, <2>1, <3>1 DEF Provides
  <2> QED BY <1>1, <1>4, <1>5, <1>7, <2>1, <2>2, OwnerIsUsed
<1> QED BY <1>5, <1>8, <1>9 DEF Known

\* No step of an extraction touches a file that was not selected.
LEMMA OthersUntouched ==
  ASSUME TypeInv, AppInv, [Next]_vars, ~Idle', command'.kind = "extract"
  PROVE  (\A q \in Place \ command.selected : file[q] = before.file[q])'
<1> USE DEF TypeInv, AloneInv, ExtractInv, Shaped, MovesSelected, PlacesHoldTheirOwn, Idle, Projects
<1>1. CASE \E s \in Selections, l, d \in BOOLEAN : cmd_extract(s, l, d)
  BY <1>1 DEF cmd_extract, tree
<1>2. ASSUME NEW p \in Place, rename_file(p) \/ open_dest(p)
      PROVE  (\A q \in Place \ command.selected : file[q] = before.file[q])'
  <2>1. p \in command.selected /\ ~Idle /\ command' = command /\ before' = before
    BY <1>2 DEF rename_file, open_dest, At
  <2>2. \A q \in Place \ {p} : file'[q] = file[q]
    BY <1>2, DestApart DEF rename_file, open_dest
  <2> QED BY <2>1, <2>2 DEF AppInv
<1>3. CASE write_dest \/ unlink_source
  <2>1. copying \in command.selected /\ copying \in Place /\ command' = command /\ before' = before
    BY <1>3 DEF write_dest, unlink_source
  <2>2. \A q \in Place \ {copying} : file'[q] = file[q]
    BY <1>3, <2>1, DestApart DEF write_dest, unlink_source
  <2> QED BY <2>1, <2>2 DEF AppInv
<1>4. CASE (\E l \in BOOLEAN : cmd_package_init(l)) \/ (\E p \in Place : move_fails(p)) \/ Stop
  BY <1>4 DEF cmd_package_init, move_fails, Stop, End
<1>5. CASE mkdir_p \/ write_file_contents \/ extract_templates \/ register_local_dev_package
           \/ add_dependencies \/ write_exposed_modules
           \/ install_local_dev \/ demote_unused_app_direct_dependencies
  <2>1. /\ ~Idle /\ command.kind = "extract" /\ command'.selected = command.selected
        /\ file' = file /\ before' = before
    BY <1>5 DEF mkdir_p, write_file_contents, extract_templates, AfterTemplates,
                register_local_dev_package, add_dependencies, write_exposed_modules,
                install_local_dev, demote_unused_app_direct_dependencies, At, Go, End, tree
  <2> QED BY <2>1 DEF AppInv
<1>6. CASE UNCHANGED vars
  BY <1>6 DEF vars, tree, AppInv
<1> QED BY <1>1, <1>2, <1>3, <1>4, <1>5, <1>6 DEF Next, MoveStep

\* Only installing leads to the last step, and lists the package with its modules.
LEMMA InstallLists ==
  ASSUME TypeInv, AppInv, [Next]_vars, command'.phase = "demote"
  PROVE  (/\ app.direct = before.app.direct \cup {New}
          /\ New \in DOMAIN cached /\ Moved \subseteq cached[New].exposed)'
<1> USE DEF TypeInv, AloneInv, ExtractInv, Shaped, Projects
<1>1. CASE install_local_dev
  <2>1. /\ command.phase = "install" /\ command.kind = "extract" /\ ~Idle /\ Going
        /\ command'.selected = command.selected /\ before' = before
    BY <1>1 DEF install_local_dev, At, Go, Idle, InOrder, Going
  <2>2. app = before.app /\ Moved \subseteq package.exposed
    BY <2>1 DEF SelectionHolds, Exposed
  <2>3. New \in DOMAIN cached' /\ cached'[New].exposed = package.exposed
    BY <1>1 DEF install_local_dev
  <2>4. app'.direct = app.direct \cup {New}
    BY <1>1 DEF install_local_dev
  <2> QED BY <2>1, <2>2, <2>3, <2>4 DEF Moved
<1>2. CASE UNCHANGED vars
  BY <1>2 DEF vars, tree, AppInv, Moved
<1>3. CASE (\E p \in Place : rename_file(p) \/ open_dest(p)) \/ write_dest \/ unlink_source
  BY <1>3 DEF rename_file, open_dest, write_dest, unlink_source, At, InOrder
<1>4. ~ \E s \in Selections, l, d \in BOOLEAN : cmd_extract(s, l, d)
  BY DEF cmd_extract
<1>5. ~ \/ (\E l \in BOOLEAN : cmd_package_init(l)) \/ (\E p \in Place : move_fails(p)) \/ Stop
        \/ mkdir_p \/ write_file_contents \/ extract_templates \/ register_local_dev_package
        \/ add_dependencies \/ write_exposed_modules \/ demote_unused_app_direct_dependencies
  BY DEF cmd_package_init, move_fails, Stop, mkdir_p, write_file_contents, extract_templates,
         AfterTemplates, register_local_dev_package, add_dependencies, write_exposed_modules,
         demote_unused_app_direct_dependencies, At, Go, End
<1> QED BY <1>1, <1>2, <1>3, <1>4, <1>5 DEF Next, MoveStep

\* An extraction ends with its last step and stays ended.
LEMMA KeepsImportsStep ==
  ASSUME TypeInv, AppInv, [Next]_vars
  PROVE  AppKeepsImports'
<1> DEFINE Ended == (Extracted /\ command.local_dev)'
<1>0. {"phase", "kind", "result", "local_dev"} \subseteq DOMAIN command
  BY DEF TypeInv, AloneInv, ExtractInv, Shaped, Projects
<1>1. CASE demote_unused_app_direct_dependencies
  BY <1>1, DemoteKeepsImports
<1>2. CASE UNCHANGED vars
  <2>1. UNCHANGED <<file, imports, broken, app, cached, command, before>>
    BY <1>2 DEF vars, tree
  <2> SUFFICES ASSUME Ended, NEW p \in Place, Readable(p)', NEW m \in ImportsAt(p)', Known(m)', OneOwner(m)'
               PROVE  IsLocal(AppDirs, m)' \/ Provides(app.direct, m)'
    BY DEF AppKeepsImports
  <2>2. Extracted /\ command.local_dev
    BY <2>1 DEF Extracted, Idle
  <2>3. Readable(p) /\ m \in ImportsAt(p) /\ Known(m) /\ OneOwner(m)
    BY <2>1 DEF Readable, ImportsAt, Known, OneOwner, Provides
  <2>4. IsLocal(AppDirs, m) \/ Provides(app.direct, m)
    BY <2>2, <2>3 DEF AppInv, AppKeepsImports
  <2> QED BY <2>1, <2>4 DEF IsLocal, Local, There, Provides
<1>3. CASE \E s \in Selections, l, d \in BOOLEAN : cmd_extract(s, l, d)
  <2>1. ~Ended
    BY <1>3 DEF cmd_extract, Extracted, Idle
  <2> QED BY <2>1 DEF AppKeepsImports
<1>4. CASE (\E p \in Place : rename_file(p) \/ open_dest(p)) \/ write_dest \/ unlink_source
  <2>1. ~Ended
    BY <1>4 DEF rename_file, open_dest, write_dest, unlink_source, At, InOrder, TypeInv, Extracted, Idle
  <2> QED BY <2>1 DEF AppKeepsImports
<1>5. CASE \/ (\E l \in BOOLEAN : cmd_package_init(l)) \/ (\E p \in Place : move_fails(p)) \/ Stop
           \/ mkdir_p \/ write_file_contents \/ add_dependencies \/ install_local_dev
  <2>1. ~Ended
    BY <1>0, <1>5 DEF cmd_package_init, move_fails, Stop, mkdir_p, write_file_contents,
                      add_dependencies, install_local_dev, At, Go, End, Extracted, Idle
  <2> QED BY <2>1 DEF AppKeepsImports
<1>6. CASE extract_templates \/ register_local_dev_package \/ write_exposed_modules
  <2>1. ~Ended
    BY <1>0, <1>6 DEF extract_templates, AfterTemplates, register_local_dev_package,
                      write_exposed_modules, At, Go, End, Extracted, Idle
  <2> QED BY <2>1 DEF AppKeepsImports
<1> QED BY <1>1, <1>2, <1>3, <1>4, <1>5, <1>6 DEF Next, MoveStep

\* When modules have become a package without an error, the rest of the application
\* still finds what it imports, whatever was demoted: for any project whose
\* packages do not compete for a module.
THEOREM ImportsStay == Spec => []AppKeepsImports
<1>1. Init => AppInv
  BY DEF Init, AppInv, Idle, AppKeepsImports, Extracted
<1>2. TypeInv /\ AppInv /\ [Next]_vars => AppInv'
  BY OthersUntouched, InstallLists, KeepsImportsStep DEF AppInv
<1>3. AppInv => AppKeepsImports
  BY DEF AppInv
<1> QED BY <1>1, <1>2, <1>3, InitTyped, StepTyped, PTL DEF Spec
=============================================================================
