--------------------------- MODULE MCRegistrySync ---------------------------
(***************************************************************************)
(* Instances of RegistrySync: which commands run, what the cache directory *)
(* holds at first and what may fail, one choice per configuration.         *)
(***************************************************************************)
EXTENDS RegistrySync

MCCommand(init, edit, version) ==
  [init |-> init, edit |-> edit, version |-> version]

Sync == MCCommand(TRUE, "none", 0)

\* Version 0 stays local, version 2 or 3 is published later, or already is.
LocalCommands ==
  {Sync} \cup {MCCommand(TRUE, "local_add", v) : v \in {0, 2, 3}}
         \cup {MCCommand(i, "local_remove", 0) : i \in BOOLEAN}
         \cup {MCCommand(TRUE, "reinsert", 2)}

DebugCommands ==
  {Sync} \cup {MCCommand(FALSE, "debug_add", v) : v \in {0, 3}}
         \cup {MCCommand(FALSE, "debug_remove", 0), MCCommand(FALSE, "apply_since", 0)}

MaintenanceCommands == LocalCommands \cup DebugCommands

\* A user who resets does nothing else but synchronise; version 9 marks what
\* that user runs.  (A reset that dies half-way leaves a sidecar behind, and a
\* local version added offline then skips everything that it counts.)
ResetCommands == {MCCommand(TRUE, "none", 9), MCCommand(FALSE, "reset", 9)}
Resets(c) == c.version = 9

EveryCommand == LocalCommands \cup ResetCommands

OneUser == \A p \in Processes : Resets(command'[p]) = Resets(command[p])

SyncCommands == {Sync}

Cache(d, s, e) == [dat |-> d, sidecar |-> s, etag |-> e]

Contents(n) == [count |-> n, map |-> 1 .. n]

Fresh == Cache(NoFile, NoFile, NoFile)
FromElm == Cache(Contents(1), NoFile, NoFile)
FromWrap == Cache(Contents(1), 1, 1)
NoSecondEtag == Cache(Contents(2), 2, 1)

AnyCache == {Fresh, FromElm, FromWrap, NoSecondEtag}
WrapCache == {FromWrap, NoSecondEtag}

MCMerged == {3}
=============================================================================
