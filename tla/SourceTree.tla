----------------------------- MODULE SourceTree -----------------------------
(***************************************************************************)
(* The Elm files of a project: which file a module name stands for, what   *)
(* the files import, and which packages expose the other modules.          *)
(*                                                                         *)
(* Directories and modules are numbers: directory d is the d-th entry of   *)
(* "source-directories", module names are ordered as the code sorts them,  *)
(* and so are package names.  A text is known by the place that it had at  *)
(* first; imports says what it imports.                                    *)
(***************************************************************************)
EXTENDS FiniteSetsExt, SequencesExt

CONSTANTS
  Dirs,         \* how many source directories the application has
  Modules,      \* the modules that files may hold or import
  Published,    \* the packages that the application may list
  New,          \* a package made of modules of the application
  Core          \* elm/core

ASSUME NumbersOrder ==
  /\ Dirs \in Nat \ {0} /\ Modules \subseteq Nat
  /\ Published \subseteq Nat /\ New \in Nat \ Published /\ Core \in Published

VARIABLES
  file,       \* per place: the text there
  imports,    \* per text: the modules it imports
  broken,     \* texts that skeleton_parse rejects
  app,        \* the application's elm.json: packages per map
  cached      \* per package in the cache: its elm.json

Packages == Published \cup {New}
Json == [exposed : SUBSET Modules, deps : SUBSET Packages]
tree == <<file, imports, broken, app, cached>>

\* Directory 0 is the src directory of a package that is extracted.
Package == 0
Place == (1 .. Dirs) \X Modules
NoFile == <<0, 0>>
Torn == <<0, 1>>

There(d, m) == file[<<d, m>>] # NoFile
Readable(p) == file[p] \in DOMAIN imports \ broken
ImportsAt(p) == imports[file[p]]

\* The first of the directories that has a file for the module, or Dirs + 1.
Local(ds, m) == Min({d \in ds : There(d, m)} \cup {Dirs + 1})
IsLocal(ds, m) == Local(ds, m) \in ds
AppDirs == 1 .. Dirs

Listed == app.direct \cup app.indirect
Exposing(m) == {p \in Listed \cap DOMAIN cached : m \in cached[p].exposed}
=============================================================================
