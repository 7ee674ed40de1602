------------------------------- MODULE Mirror -------------------------------
(***************************************************************************)
(* wrap repository mirror: walks registry.dat, downloads the releases that *)
(* the mirror does not have and writes a manifest.  Between runs it        *)
(* remembers the highest position in the walk that it has processed.       *)
(***************************************************************************)
EXTENDS Integers, FiniteSetsExt, SequencesExt

CONSTANTS
  Packages,     \* author/name pairs, as numbers: the registry is sorted
  Hash(_),      \* the archive of a release
  Blacklist,    \* releases never to mirror
  Commands,     \* the options a run is started with
  MaxVersions,  \* bound: releases of a package
  MaxTroubles   \* bound: failed downloads and crashes

VARIABLES
  released,     \* per package: its versions are 1 .. released
  since,        \* the marker in WRAP_HOME, 0 if there is none
  manifest,     \* releases in manifest.json
  archives,     \* per hash: what archives/ holds
  metadata,     \* releases with files under packages/
  run,          \* the running command
  troubles

disk == <<since, manifest, archives, metadata>>
vars == <<released, disk, run, troubles>>

Releases == Packages \X (1 .. MaxVersions)
Hashes == {Hash(r) : r \in Releases}
Command == [full : BOOLEAN, latest : BOOLEAN, only : SUBSET Packages]

NoRun == [on |-> FALSE]

Init ==
  /\ released \in [Packages -> 0 .. 1]
  /\ since = 0 /\ manifest = {} /\ metadata = {}
  /\ archives = [h \in Hashes |-> "none"]
  /\ run = NoRun /\ troubles = 0

\* A package is published for the first time or in a new version.
Publish(p) ==
  /\ ~run.on /\ released[p] < MaxVersions
  /\ released' = [released EXCEPT ![p] = @ + 1]
  /\ UNCHANGED <<disk, run, troubles>>

-----------------------------------------------------------------------------
(* The scan *)

\* Versions are checked newest first; numbers are given only to what is looked
\* at, so they depend on the options.
Looked(c, p) ==
  CASE c.only # {} /\ p \notin c.only -> 0
    [] released[p] = 0                -> 0
    [] c.latest                       -> 1
    [] OTHER                          -> released[p]

Before(c, p) == MapThenSumSet(LAMBDA q : Looked(c, q), {o \in Packages : o < p})
Position(c, r) == Before(c, r[1]) + released[r[1]] - r[2] + 1

Scanned(c) == {r \in Releases : /\ r[2] \in 1 .. released[r[1]]
                                /\ r[2] > released[r[1]] - Looked(c, r[1])}

is_processed(c, r) == ~c.full /\ Position(c, r) <= since

Queue(c) ==
  SetToSortSeq({r \in Scanned(c) : /\ r \notin Blacklist
                                   /\ ~is_processed(c, r)
                                   /\ c.full \/ r \notin manifest},
               LAMBDA a, b : Position(c, a) < Position(c, b))

\* A dry run and a run with nothing to do change nothing.
Begin(c) ==
  /\ ~run.on /\ Queue(c) # <<>>
  /\ run' = [on |-> TRUE, command |-> c, queue |-> Queue(c), manifest |-> manifest,
             highest |-> since, at |-> "item"]
  /\ UNCHANGED <<released, disk, troubles>>

-----------------------------------------------------------------------------
(* One release after the other *)

Item == Head(run.queue)
At(place) == run.on /\ run.at = place
Go(place) == run' = [run EXCEPT !.at = place]

\* Metadata, endpoint or archive could not be had; the next one comes.
SkipItem ==
  /\ At("item") /\ run.queue # <<>> /\ troubles < MaxTroubles
  /\ run' = [run EXCEPT !.queue = Tail(@)]
  /\ troubles' = troubles + 1
  /\ UNCHANGED <<released, disk>>

\* An archive that is there is not written again.
store_archive_by_hash ==
  /\ At("item") /\ run.queue # <<>>
  /\ IF archives[Hash(Item)] = "none"
     THEN archives' = [archives EXCEPT ![Hash(Item)] = "torn"] /\ Go("copying")
     ELSE Go("stored") /\ UNCHANGED archives
  /\ UNCHANGED <<released, since, manifest, metadata, troubles>>

finish_copy ==
  /\ At("copying") /\ Go("stored")
  /\ archives' = [archives EXCEPT ![Hash(Item)] = "whole"]
  /\ UNCHANGED <<released, since, manifest, metadata, troubles>>

\* Files of the package cache that cannot be read are not copied.
store_metadata ==
  /\ At("stored") /\ Go("add")
  /\ metadata' \in {metadata, metadata \cup {Item}}
  /\ UNCHANGED <<released, since, manifest, archives, troubles>>

mirror_manifest_add ==
  /\ At("add")
  /\ run' = [run EXCEPT !.manifest = @ \cup {Item}, !.queue = Tail(@), !.at = "item",
                        !.highest = Max({@, Position(run.command, Item)})]
  /\ UNCHANGED <<released, disk, troubles>>

\* The manifest is replaced as a whole.  A failure is logged and not reported.
mirror_manifest_write_json ==
  /\ At("item") /\ run.queue = <<>> /\ Go("marker")
  /\ \/ manifest' = run.manifest /\ UNCHANGED troubles
     \/ troubles < MaxTroubles /\ troubles' = troubles + 1 /\ UNCHANGED manifest
  /\ UNCHANGED <<released, since, archives, metadata>>

mirror_since_write ==
  /\ At("marker") /\ run' = NoRun
  /\ since' = IF run.highest > since THEN run.highest ELSE since
  /\ UNCHANGED <<released, manifest, archives, metadata, troubles>>

Crash ==
  /\ run.on /\ troubles < MaxTroubles
  /\ run' = NoRun /\ troubles' = troubles + 1
  /\ UNCHANGED <<released, disk>>

Next ==
  \/ \E p \in Packages : Publish(p)
  \/ \E c \in Commands : Begin(c)
  \/ SkipItem \/ store_archive_by_hash \/ finish_copy \/ store_metadata
  \/ mirror_manifest_add \/ mirror_manifest_write_json \/ mirror_since_write \/ Crash

Spec == Init /\ [][Next]_vars
=============================================================================
