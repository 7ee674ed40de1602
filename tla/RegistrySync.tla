---------------------------- MODULE RegistrySync ----------------------------
(***************************************************************************)
(* How elm-wrap keeps registry.dat, its since-count sidecar and its ETag   *)
(* in step with the package server (src/install_env.c, src/registry.c),    *)
(* and how local development packages and the debug commands edit the same *)
(* file.  A process is one wrap command; between any two steps of it other *)
(* processes run, the server publishes, or the process dies.               *)
(*                                                                         *)
(* A version is its position in the server's log, so a server that has     *)
(* published n versions offers 1 .. n; 0 is a version that nobody ever     *)
(* publishes.  The ETag of /all-packages is the number of versions in it.  *)
(***************************************************************************)
EXTENDS Naturals, FiniteSets

CONSTANTS
  Processes,
  NoFile, Torn,      \* what a path holds: nothing, or a file that is only
                     \* partly written; otherwise its contents
  Commands,          \* the commands that users run
  Merged,            \* versions of registry-local-dev.dat beside registry.dat
  InitialFiles,      \* the contents of the cache directory to begin with
  Faults,            \* which of "crash", "dat", "sidecar", "etag", "delete"
                     \* (a process dying, a write or a deletion failing) and
                     \* "flush" (a write lost when the file is flushed and
                     \* closed, which no writer looks at) occur
  MaxPublished,      \* bound: versions that the server ever publishes
  MaxCount           \* bound: how far the debug commands raise the header

\* registry.dat: the header's since_count and the versions in the map.
Content == [count : Nat, map : SUBSET Nat]

\* The commands: whether they begin with install_env_init (the rest edit the
\* file at once or reset it), what they do to registry.dat then, and to which
\* version.
Command ==
  [init : BOOLEAN, version : Nat,
   edit : {"none", "local_add", "reinsert", "local_remove", "debug_add",
           "debug_remove", "apply_since", "reset"}]

ASSUME CommandsAssumption == Commands \subseteq Command
ASSUME MergedAssumption == Merged \subseteq Nat
ASSUME FilesDistinct ==
  /\ NoFile \notin Content /\ Torn \notin Content /\ NoFile # Torn
  /\ NoFile \notin Nat
ASSUME BoundAssumption == MaxPublished \in Nat /\ MaxCount \in Nat
\* The number that stands for the contents of registry.dat when the server is
\* asked for more: the sidecar's, or the header's if there is none.
Counter(d, s) == IF s = NoFile THEN d.count ELSE s

\* Every version that the server will not be asked for again is in the map.
Complete(d, n) == 1 .. n \subseteq d.map

\* A cache directory as elm-wrap or the elm compiler leaves it.
ASSUME InitialAssumption ==
  /\ InitialFiles \subseteq [dat : Content \cup {NoFile}, sidecar : Nat \cup {NoFile},
                             etag : Nat \cup {NoFile}]
  /\ \A f \in InitialFiles :
       IF f.dat = NoFile THEN f.sidecar = NoFile /\ f.etag = NoFile
       ELSE \A n \in {f.dat.count, f.sidecar, f.etag} \ {NoFile} : Complete(f.dat, n)

VARIABLES
  published,  \* the server: versions 1 .. published exist
  dat,        \* registry.dat
  tmp,        \* registry.dat.tmp, the same path for every process
  sidecar,    \* registry.dat.since-count
  etag,       \* the ETag file
  pc, command,
  file,       \* the path that the file a process is writing has now: "tmp",
              \* "dat" once somebody renamed it, "none" if it has no path
  registry, count,  \* env->registry: its map and its since_count
  known,            \* env->known_version_count
  tag,              \* env->registry_etag
  answered    \* history: how many versions existed when the server last told
              \* the process that it was current or brought it up to date

disk == <<dat, tmp, sidecar, etag>>
memory == <<registry, count, known, tag>>
vars == <<published, disk, pc, command, file, memory, answered>>

Init ==
  /\ published \in 1 .. MaxPublished
  /\ \E files \in InitialFiles :
       /\ dat = files.dat /\ sidecar = files.sidecar /\ etag = files.etag
       /\ dat # NoFile => \A n \in {dat.count, sidecar, etag} \ {NoFile} : n <= published
  /\ tmp = NoFile
  /\ pc = [p \in Processes |-> "idle"]
  /\ command \in [Processes -> Commands]
  /\ file = [p \in Processes |-> "none"]
  /\ registry = [p \in Processes |-> {}]
  /\ count = [p \in Processes |-> 0]
  /\ known = [p \in Processes |-> 0]
  /\ tag = [p \in Processes |-> NoFile]
  /\ answered = [p \in Processes |-> 0]

Goto(p, l) == pc' = [pc EXCEPT ![p] = l]

Readable(f) == f \notin {NoFile, Torn}

\* registry.dat as a command that edits it finds it: what is missing is as good
\* as empty.
Stored == IF dat = NoFile THEN [count |-> 0, map |-> {}] ELSE dat

\* What /all-packages/since/<n> answers.
News(n) == (n + 1) .. published

-----------------------------------------------------------------------------
(* The environment *)

Publish ==
  /\ published < MaxPublished
  /\ published' = published + 1
  /\ UNCHANGED <<disk, pc, command, file, memory, answered>>

\* The elm compiler shares registry.dat: it asks for what came after the
\* header's count and rewrites the file, knowing nothing of the other two.
ElmUpdate ==
  /\ dat # Torn /\ Stored.count < published
  /\ dat' = [count |-> published, map |-> Stored.map \cup News(Stored.count)]
  /\ UNCHANGED <<published, tmp, sidecar, etag, pc, command, file, memory, answered>>

\* A process dies: what it holds in memory is gone, the files stay.
Crash(p) ==
  /\ "crash" \in Faults /\ pc[p] # "idle"
  /\ Goto(p, "idle")
  /\ file' = [file EXCEPT ![p] = "none"]
  /\ UNCHANGED <<published, disk, command, memory, answered>>

Start(p) ==
  /\ pc[p] = "idle"
  /\ \E c \in Commands :
       /\ command' = [command EXCEPT ![p] = c]
       /\ Goto(p, IF c.edit = "reset" THEN "reset_dat"
                  ELSE IF c.init THEN "load" ELSE "edit")
  /\ answered' = [answered EXCEPT ![p] = 0]
  /\ UNCHANGED <<published, disk, file, memory>>

-----------------------------------------------------------------------------
(* install_env_ensure_v1_registry *)

\* Mutant of LoadRegistry: the versions in the map are counted, local ones too.
LoadRegistryCounting(p) ==
  /\ pc[p] = "load"
  /\ IF Readable(dat)
     THEN LET map == dat.map \cup Merged IN
          /\ registry' = [registry EXCEPT ![p] = map]
          /\ count' = [count EXCEPT ![p] = Cardinality(map)]
          /\ known' = [known EXCEPT ![p] = Cardinality(map)]
          /\ Goto(p, "load_etag")
     ELSE /\ registry' = [registry EXCEPT ![p] = {}]
          /\ count' = [count EXCEPT ![p] = 0]
          /\ known' = [known EXCEPT ![p] = 0]
          /\ Goto(p, "load_etag_only")
  /\ UNCHANGED <<published, disk, command, file, tag, answered>>

\* registry_load_from_dat: a missing or a torn file gives an empty registry.
\* Only a registry that was loaded takes in registry-local-dev.dat.
LoadRegistry(p) ==
  /\ pc[p] = "load"
  /\ IF Readable(dat)
     THEN /\ registry' = [registry EXCEPT ![p] = dat.map \cup Merged]
          /\ count' = [count EXCEPT ![p] = dat.count]
          /\ known' = [known EXCEPT ![p] = dat.count]
          /\ Goto(p, "load_etag")
     ELSE /\ registry' = [registry EXCEPT ![p] = {}]
          /\ count' = [count EXCEPT ![p] = 0]
          /\ known' = [known EXCEPT ![p] = 0]
          /\ Goto(p, "load_etag_only")
  /\ UNCHANGED <<published, disk, command, file, tag, answered>>

LoadEtag(p) ==
  /\ pc[p] \in {"load_etag", "load_etag_only"}
  /\ tag' = [tag EXCEPT ![p] = etag]
  /\ Goto(p, IF pc[p] = "load_etag" THEN "repair" ELSE "connect")
  /\ UNCHANGED <<published, disk, command, file, registry, count, known, answered>>

\* The header disagrees with the sidecar: the sidecar is right.
RepairHeader(p) ==
  /\ pc[p] = "repair" /\ sidecar \notin {NoFile, count[p]}
  /\ count' = [count EXCEPT ![p] = sidecar]
  /\ known' = [known EXCEPT ![p] = sidecar]
  /\ Goto(p, "open_repair")
  /\ UNCHANGED <<published, disk, command, file, registry, tag, answered>>

HeaderAgrees(p) ==
  /\ pc[p] = "repair" /\ sidecar \in {NoFile, count[p]}
  /\ Goto(p, "connect")
  /\ UNCHANGED <<published, disk, command, file, memory, answered>>

\* Offline, a cached registry will do.
Offline(p) ==
  /\ pc[p] = "connect"
  /\ Goto(p, IF known[p] = 0 THEN "idle" ELSE "ready")
  /\ UNCHANGED <<published, disk, command, file, memory, answered>>

\* WRAP_SKIP_REGISTRY_UPDATE=1
SkipUpdate(p) ==
  /\ pc[p] = "connect" /\ known[p] # 0
  /\ Goto(p, "ready")
  /\ UNCHANGED <<published, disk, command, file, memory, answered>>

Online(p) ==
  /\ pc[p] = "connect"
  /\ Goto(p, CASE known[p] = 0 -> "fetch"
               [] known[p] # 0 /\ tag[p] # NoFile -> "head"
               [] OTHER -> "since")
  /\ UNCHANGED <<published, disk, command, file, memory, answered>>

-----------------------------------------------------------------------------
(* install_env_fetch_registry: GET /all-packages *)

\* The registry that the process holds is current as of now.
Current(p) == answered' = [answered EXCEPT ![p] = published]

FetchFails(p) ==
  /\ pc[p] = "fetch"
  /\ Goto(p, "idle")
  /\ UNCHANGED <<published, disk, command, file, memory, answered>>

\* 304 counts as success whatever the process holds.
FetchNotModified(p) ==
  /\ pc[p] = "fetch" /\ tag[p] = published
  /\ Goto(p, "etag")
  /\ Current(p)
  /\ UNCHANGED <<published, disk, command, file, memory>>

\* The map of all versions and, as the count, how many the answer lists.
parse_all_packages_json == [count |-> published, map |-> 1 .. published]

Fetch(p) ==
  /\ pc[p] = "fetch" /\ tag[p] # published
  /\ registry' = [registry EXCEPT ![p] = @ \cup parse_all_packages_json.map]
  /\ count' = [count EXCEPT ![p] = parse_all_packages_json.count]
  /\ tag' = [tag EXCEPT ![p] = published]
  /\ Goto(p, "open_refresh")
  /\ Current(p)
  /\ UNCHANGED <<published, disk, command, file, known>>

-----------------------------------------------------------------------------
(* install_env_update_registry: HEAD /all-packages, GET /all-packages/since *)

\* Mutant of HeadNotModified: any answer counts as "not modified".
HeadAnswered(p) ==
  /\ pc[p] = "head"
  /\ Goto(p, "etag")
  /\ Current(p)
  /\ UNCHANGED <<published, disk, command, file, memory>>

HeadNotModified(p) ==
  /\ pc[p] = "head" /\ tag[p] = published
  /\ Goto(p, "etag")
  /\ Current(p)
  /\ UNCHANGED <<published, disk, command, file, memory>>

\* Mutant of Head: the new ETag is not kept for later.
HeadSavesEtag(p) ==
  /\ pc[p] = "head"
  /\ \/ /\ tag[p] # published
        /\ tag' = [tag EXCEPT ![p] = published] /\ etag' = published
     \/ UNCHANGED <<tag, etag>>
  /\ Goto(p, "since")
  /\ UNCHANGED <<published, dat, tmp, sidecar, command, file, registry, count, known,
                 answered>>

\* The new ETag is kept for later, or the request failed and the old one is.
Head(p) ==
  /\ pc[p] = "head"
  /\ \/ tag[p] # published /\ tag' = [tag EXCEPT ![p] = published]
     \/ UNCHANGED tag
  /\ Goto(p, "since")
  /\ UNCHANGED <<published, disk, command, file, registry, count, known, answered>>

\* Only a warning: the cached registry is used.
SinceFails(p) ==
  /\ pc[p] = "since"
  /\ Goto(p, "ready")
  /\ UNCHANGED <<published, disk, command, file, memory, answered>>

\* Mutant of Since: a single new version does not count as an update.
SinceSeveral(p) ==
  /\ pc[p] = "since"
  /\ registry' = [registry EXCEPT ![p] = @ \cup News(known[p])]
  /\ count' = [count EXCEPT ![p] = @ + Cardinality(News(known[p]))]
  /\ Goto(p, IF count'[p] > known[p] + 1 THEN "open_refresh" ELSE "ready")
  /\ Current(p)
  /\ UNCHANGED <<published, disk, command, file, known, tag>>

\* parse_since_response advances the count by the length of the answer,
\* whether or not the versions are in the map already.
Since(p) ==
  /\ pc[p] = "since"
  /\ registry' = [registry EXCEPT ![p] = @ \cup News(known[p])]
  /\ count' = [count EXCEPT ![p] = @ + Cardinality(News(known[p]))]
  /\ Goto(p, IF count'[p] > known[p] THEN "open_refresh" ELSE "etag")
  /\ Current(p)
  /\ UNCHANGED <<published, disk, command, file, known, tag>>

\* A number that is lost when the file is closed leaves an empty file, which
\* counts as none.
WriteSidecar(p) ==
  /\ pc[p] = "sidecar"
  /\ \/ sidecar' = known[p]
     \/ "sidecar" \in Faults /\ UNCHANGED sidecar
     \/ "flush" \in Faults /\ sidecar' = NoFile
  /\ Goto(p, "etag")
  /\ UNCHANGED <<published, dat, tmp, etag, command, file, memory, answered>>

WriteEtag(p) ==
  /\ pc[p] = "etag"
  /\ \/ tag[p] # NoFile /\ etag' = tag[p]
     \/ tag[p] = NoFile /\ UNCHANGED etag
     \/ "etag" \in Faults /\ UNCHANGED etag
     \/ tag[p] # NoFile /\ "flush" \in Faults /\ etag' = NoFile
  /\ Goto(p, "ready")
  /\ UNCHANGED <<published, dat, tmp, sidecar, command, file, memory, answered>>

-----------------------------------------------------------------------------
(* registry_dat_write: the caller is the part of pc after "open_" *)

Opening == {"open_repair", "open_refresh", "open_edit"}
Filling == {"fill_repair", "fill_refresh", "fill_edit"}
Renaming == {"rename_repair", "rename_refresh", "rename_edit"}

Caller(p) ==
  CASE pc[p] \in {"open_repair", "fill_repair", "rename_repair"} -> "repair"
    [] pc[p] \in {"open_refresh", "fill_refresh", "rename_refresh"} -> "refresh"
    [] OTHER -> "edit"

\* What the callers do with the result: only a refresh takes note of it.
Written(p) ==
  /\ known' = [known EXCEPT ![p] = IF Caller(p) = "refresh" THEN count[p] ELSE @]
  /\ Goto(p, CASE Caller(p) = "repair" -> "connect"
               [] Caller(p) = "refresh" -> "sidecar"
               [] OTHER -> "idle")

NotWritten(p) ==
  /\ Goto(p, CASE Caller(p) = "repair" -> "connect"
               [] Caller(p) = "refresh" -> "etag"
               [] OTHER -> "idle")
  /\ UNCHANGED known

\* The path "from" no longer leads to the file that processes have open.
Repath(from, to) == [q \in Processes |-> IF file[q] = from THEN to ELSE file[q]]

\* Mutant of OpenTmp: registry.dat is written in place.
OpenInPlace(p) ==
  /\ pc[p] \in Opening
  /\ dat' = Torn
  /\ file' = [file EXCEPT ![p] = "dat"]
  /\ Goto(p, CASE Caller(p) = "repair" -> "fill_repair"
               [] Caller(p) = "refresh" -> "fill_refresh"
               [] OTHER -> "fill_edit")
  /\ UNCHANGED <<published, tmp, sidecar, etag, command, memory, answered>>

\* fopen(tmp_path, "wb") empties the file, also one that somebody else fills.
OpenTmp(p) ==
  /\ pc[p] \in Opening
  /\ tmp' = Torn
  /\ file' = [file EXCEPT ![p] = "tmp"]
  /\ Goto(p, CASE Caller(p) = "repair" -> "fill_repair"
               [] Caller(p) = "refresh" -> "fill_refresh"
               [] OTHER -> "fill_edit")
  /\ UNCHANGED <<published, dat, sidecar, etag, command, memory, answered>>

\* All of it is written, synced and closed, wherever the file is by now; or the
\* end of it is lost at fflush, fsync or fclose, whose results nobody looks at.
FillTmp(p) ==
  /\ pc[p] \in Filling
  /\ \E content \in {[count |-> count[p], map |-> registry[p]], Torn} :
       /\ content = Torn => "flush" \in Faults
       /\ tmp' = IF file[p] = "tmp" THEN content ELSE tmp
       /\ dat' = IF file[p] = "dat" THEN content ELSE dat
  /\ file' = [file EXCEPT ![p] = "none"]
  /\ Goto(p, CASE Caller(p) = "repair" -> "rename_repair"
               [] Caller(p) = "refresh" -> "rename_refresh"
               [] OTHER -> "rename_edit")
  /\ UNCHANGED <<published, sidecar, etag, command, memory, answered>>

RenameTmp(p) ==
  /\ pc[p] \in Renaming /\ tmp # NoFile
  /\ dat' = tmp /\ tmp' = NoFile
  /\ file' = [q \in Processes |-> IF file[q] = "tmp" THEN "dat"
                                  ELSE IF file[q] = "dat" THEN "none" ELSE file[q]]
  /\ Written(p)
  /\ UNCHANGED <<published, sidecar, etag, command, registry, count, tag, answered>>

\* Somebody else renamed the file, or fopen, fwrite or the rename fails, which
\* is noticed; a file that was opened is unlinked by its path.
WriteFails(p) ==
  /\ \/ pc[p] \in Renaming /\ tmp = NoFile
     \/ "dat" \in Faults /\ pc[p] \in Opening \cup Filling \cup Renaming
  /\ IF pc[p] \in Opening
     THEN UNCHANGED <<tmp, file>>
     ELSE /\ tmp' = NoFile
          /\ file' = [Repath("tmp", "none") EXCEPT ![p] = "none"]
  /\ NotWritten(p)
  /\ UNCHANGED <<published, dat, sidecar, etag, command, registry, count, tag, answered>>

-----------------------------------------------------------------------------
(* What commands do to registry.dat once the environment is ready *)

Ready(p) ==
  /\ pc[p] = "ready"
  /\ Goto(p, IF command[p].edit \in {"none", "reset"} THEN "idle" ELSE "edit")
  /\ UNCHANGED <<published, disk, command, file, memory, answered>>

\* wrap debug registry_v1 keeps the count in step with the map, and apply-since
\* with the length of the file it reads, here one line.
cmd_registry_v1_add(c, v) == [count |-> c.count + 1, map |-> c.map \cup {v}]

cmd_registry_v1_apply_since(c, v) == [count |-> c.count + 1, map |-> c.map \cup {v}]

cmd_registry_v1_remove(c, v) ==
  [count |-> IF c.count > 0 THEN c.count - 1 ELSE 0, map |-> c.map \ {v}]

\* Mutant of Edited: local-dev versions are counted like published ones.
EditedCounting(c, edit, v) ==
  CASE edit \in {"local_add", "reinsert", "debug_add", "apply_since"} -> cmd_registry_v1_add(c, v)
    [] OTHER -> cmd_registry_v1_remove(c, v)

\* registry_add_version_ex, registry_remove_version_ex and their callers: the
\* local-dev edits leave the count alone, the debug commands do not.
Edited(c, edit, v) ==
  CASE edit \in {"local_add", "reinsert"} ->
         [count |-> c.count, map |-> c.map \cup {v}]
    [] edit = "local_remove" -> [count |-> c.count, map |-> c.map \ {v}]
    [] edit = "debug_add" -> cmd_registry_v1_add(c, v)
    [] edit = "apply_since" -> cmd_registry_v1_apply_since(c, v)
    [] OTHER -> cmd_registry_v1_remove(c, v)

\* The edit has something to do; download_all_packages puts a local-dev version
\* back only into a file that exists.
Applies(c, edit, v) ==
  \/ edit \in {"local_add", "debug_add"} /\ v \notin c.map
  \/ edit = "reinsert" /\ dat # NoFile /\ v \notin c.map
  \/ edit \in {"local_remove", "debug_remove"} /\ v \in c.map
  \/ edit = "apply_since"

\* registry.dat is loaded afresh, into a registry of the edit's own.
Edit(p) ==
  /\ pc[p] = "edit" /\ dat # Torn
  /\ LET edit == command[p].edit
         v == command[p].version
     IN /\ Applies(Stored, edit, v)
        /\ edit \in {"debug_add", "apply_since"} => Stored.count < MaxCount
        /\ registry' = [registry EXCEPT ![p] = Edited(Stored, edit, v).map]
        /\ count' = [count EXCEPT ![p] = Edited(Stored, edit, v).count]
  /\ Goto(p, "open_edit")
  /\ UNCHANGED <<published, disk, command, file, known, tag, answered>>

NoEdit(p) ==
  /\ pc[p] = "edit"
  /\ dat # Torn =>
       \/ ~Applies(Stored, command[p].edit, command[p].version)
       \/ command[p].edit \in {"debug_add", "apply_since"} /\ Stored.count >= MaxCount
  /\ Goto(p, "idle")
  /\ UNCHANGED <<published, disk, command, file, memory, answered>>

\* wrap debug registry_v1 reset: delete the three files in this order, give up
\* at the first that cannot be deleted, then begin as on the first day, or end
\* when offline or told to skip updates.
ResetDat(p) ==
  /\ pc[p] = "reset_dat"
  /\ dat' = NoFile
  /\ file' = Repath("dat", "none")
  /\ Goto(p, "reset_etag")
  /\ UNCHANGED <<published, tmp, sidecar, etag, command, memory, answered>>

ResetEtag(p) ==
  /\ pc[p] = "reset_etag"
  /\ etag' = NoFile
  /\ Goto(p, "reset_sidecar")
  /\ UNCHANGED <<published, dat, tmp, sidecar, command, file, memory, answered>>

ResetSidecar(p) ==
  /\ pc[p] = "reset_sidecar"
  /\ sidecar' = NoFile
  /\ Goto(p, "load") \/ Goto(p, "idle")
  /\ UNCHANGED <<published, dat, tmp, etag, command, file, memory, answered>>

DeleteFails(p) ==
  /\ "delete" \in Faults
  /\ pc[p] \in {"reset_dat", "reset_etag", "reset_sidecar"}
  /\ Goto(p, "idle")
  /\ UNCHANGED <<published, disk, command, file, memory, answered>>

-----------------------------------------------------------------------------
Step(p) ==
  \/ LoadRegistry(p) \/ LoadEtag(p) \/ RepairHeader(p) \/ HeaderAgrees(p)
  \/ Offline(p) \/ SkipUpdate(p) \/ Online(p)
  \/ FetchFails(p) \/ FetchNotModified(p) \/ Fetch(p)
  \/ HeadNotModified(p) \/ Head(p) \/ SinceFails(p) \/ Since(p)
  \/ WriteSidecar(p) \/ WriteEtag(p)
  \/ OpenTmp(p) \/ FillTmp(p) \/ RenameTmp(p) \/ WriteFails(p)
  \/ Ready(p) \/ Edit(p) \/ NoEdit(p)
  \/ ResetDat(p) \/ ResetEtag(p) \/ ResetSidecar(p) \/ DeleteFails(p)

Next ==
  \/ Publish \/ ElmUpdate
  \/ \E p \in Processes : Start(p) \/ Step(p) \/ Crash(p)

Spec == Init /\ [][Next]_vars

\* A command that was started runs on; nothing makes users start one, servers
\* publish or machines stay up.
FairSpec == Spec /\ \A p \in Processes : WF_vars(Step(p))

-----------------------------------------------------------------------------
(* Invariants *)

\* Where a process can be.
Location ==
  {"idle", "load", "load_etag", "load_etag_only", "repair", "connect", "fetch",
   "head", "since", "sidecar", "etag", "ready", "edit", "reset_dat", "reset_etag",
   "reset_sidecar"} \cup Opening \cup Filling \cup Renaming

\* Every variable has its type, and only a reset resets.
TypeOK ==
  /\ published \in 0 .. MaxPublished
  /\ dat \in Content \cup {NoFile, Torn}
  /\ tmp \in Content \cup {NoFile, Torn}
  /\ sidecar \in Nat \cup {NoFile}
  /\ etag \in Nat \cup {NoFile}
  /\ pc \in [Processes -> Location]
  /\ command \in [Processes -> Commands]
  /\ file \in [Processes -> {"none", "tmp", "dat"}]
  /\ registry \in [Processes -> SUBSET Nat]
  /\ count \in [Processes -> Nat]
  /\ known \in [Processes -> Nat]
  /\ tag \in [Processes -> Nat \cup {NoFile}]
  /\ answered \in [Processes -> Nat]
  /\ \A p \in Processes :
       pc[p] \in {"reset_dat", "reset_etag", "reset_sidecar"} =>
         command[p].edit = "reset"

\* No published version is lost: whatever the next command will take for the
\* number of versions seen (the sidecar, or else the header of registry.dat),
\* the map holds all of them, since the server is never asked for them again.
NothingSkipped == Readable(dat) => Complete(dat, Counter(dat, sidecar))

\* The same for a running command: when it has the server's number in hand, it
\* holds every version up to it, whatever the header said.
KnownIsHonest ==
  \A p \in Processes :
    pc[p] \in {"connect", "head", "since"} => 1 .. known[p] \subseteq registry[p]

\* "Registry is up to date": a command that was told so, or was brought up to
\* date, works on every version that existed when the server answered.
UpToDateMeansComplete ==
  \A p \in Processes : pc[p] = "ready" => 1 .. answered[p] \subseteq registry[p]

\* The stored ETag never vouches for more than registry.dat holds, also after a
\* crash between the two writes ("Keep new ETag; will write after successful
\* update").
EtagHonest == etag # NoFile => Readable(dat) /\ Complete(dat, etag)

\* registry.dat is replaced in one piece ("Atomic rename"), wherever commands die
\* and whatever errors they notice; neither two commands at once nor a write
\* that is lost when the file is closed leave it so.
NeverTorn == dat # Torn

-----------------------------------------------------------------------------
(* What one command at a time keeps true between its steps, as long as versions *)
(* that the server publishes are never removed                                  *)

OneAtATime == \A p, q \in Processes : p = q

LocalEditsOnly ==
  \A c \in Commands :
    /\ c.edit \in {"none", "local_add", "reinsert", "local_remove"}
    /\ c.edit = "local_remove" => c.version = 0

Repairing == {"open_repair", "fill_repair", "rename_repair"}
Refreshing == {"open_refresh", "fill_refresh", "rename_refresh"}
Writing == Opening \cup Filling \cup Renaming

\* Where the registry in memory is that of the command, and where it has not
\* been told of anything new.
Loaded == {"load_etag", "repair", "connect", "fetch", "head", "since"}
Asking == {"load_etag", "repair", "connect", "head", "since"} \cup Repairing

\* Nothing was loaded: registry.dat was missing or torn.
Empty(p) == known[p] = 0 /\ pc[p] \in {"connect", "fetch"}

\* From the moment it is loaded to the end of a write, the registry in memory
\* makes up for the counters on disk and for its own.
MemoryHonest ==
  \A p \in Processes :
    /\ pc[p] \in Loaded \cup Writing =>
         /\ 1 .. count[p] \subseteq registry[p]
         /\ sidecar # NoFile /\ ~Empty(p) => 1 .. sidecar \subseteq registry[p]
    /\ pc[p] = "load_etag_only" => count[p] = 0 /\ known[p] = 0 /\ registry[p] = {}
    /\ pc[p] \in Asking => known[p] = count[p]
    /\ pc[p] = "fetch" => known[p] = 0

\* The file under the temporary name is the one to be renamed.
TmpReady ==
  \A p \in Processes :
    /\ pc[p] \in Filling => file[p] = "tmp"
    /\ pc[p] \in Renaming =>
         \/ tmp = [count |-> count[p], map |-> registry[p]]
         \/ tmp = Torn /\ "flush" \in Faults
    /\ pc[p] \notin Filling => file[p] = "none"

\* registry.dat holds every version up to n, or a lost write has emptied it.
Holds(n) == dat = Torn \/ (Readable(dat) /\ Complete(dat, n))

\* The counters on disk and the one about to be written are covered by
\* registry.dat, if it can be read.
DiskHonest ==
  /\ "flush" \notin Faults => NeverTorn
  /\ Readable(dat) => Complete(dat, dat.count)
  /\ sidecar # NoFile => Holds(sidecar)
  /\ \A p \in Processes : pc[p] = "sidecar" => Holds(known[p])

\* No counter runs ahead of the server: a registry that is fetched anew, after
\* registry.dat was lost, covers the sidecar that outlived it.
CountersPublished ==
  /\ sidecar # NoFile => sidecar <= published
  /\ Readable(dat) => dat.count <= published
  /\ \A p \in Processes :
       /\ pc[p] \in Loaded \cup Writing => count[p] <= published
       /\ pc[p] = "sidecar" => known[p] <= published

\* The inductive invariant of the proof that nothing is skipped.
CounterInv ==
  TypeOK /\ MemoryHonest /\ TmpReady /\ DiskHonest /\ CountersPublished

\* The ETag on disk speaks for registry.dat and for the registry in memory, the
\* one in memory only for what a refresh has brought or is about to bring.
EtagCovered ==
  \A p \in Processes :
    /\ pc[p] \in Asking \cup {"load", "load_etag_only", "fetch"} => answered[p] = 0
    /\ pc[p] \in Refreshing \cup {"sidecar", "etag", "ready"} =>
         1 .. answered[p] \subseteq registry[p]
    /\ pc[p] \in Loaded \cup Writing /\ etag # NoFile => 1 .. etag \subseteq registry[p]
    /\ pc[p] = "load_etag_only" => etag = NoFile
    /\ pc[p] \in {"repair", "connect", "fetch", "head"} \cup Repairing => tag[p] = etag
    /\ pc[p] \in Asking /\ known[p] # 0 => Readable(dat) /\ Complete(dat, known[p])
    /\ pc[p] \in {"head", "since"} => known[p] # 0
    /\ pc[p] = "since" /\ tag[p] # NoFile => tag[p] <= published \/ tag[p] = etag
    /\ pc[p] \in Refreshing /\ tag[p] # NoFile => 1 .. tag[p] \subseteq registry[p]
    /\ pc[p] \in {"sidecar", "etag"} /\ tag[p] # NoFile =>
         Readable(dat) /\ Complete(dat, tag[p])

\* The inductive invariant of the proof that the ETag is honest.
EtagInv == CounterInv /\ EtagHonest /\ EtagCovered

-----------------------------------------------------------------------------
\* If commands keep getting answers from the server, registry.dat ends up with
\* all that it published, in spite of crashes and of sidecars and ETags that
\* could not be written.
CatchesUp ==
  (\A p \in Processes : []<>(pc[p] = "ready" /\ answered[p] = MaxPublished))
    => <>[](Readable(dat) /\ Complete(dat, MaxPublished))
=============================================================================
