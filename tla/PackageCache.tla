---------------------------- MODULE PackageCache ----------------------------
(***************************************************************************)
(* The package directories of ELM_HOME and the commands that fill, repair  *)
(* and empty them.  A package stands for one version of it; its directory  *)
(* holds endpoint.json, elm.json, docs.json and src/.  Nothing is written  *)
(* beside its place and moved there: downloads, extraction, copying and    *)
(* removal all work on the directory itself, so that whatever stops one of *)
(* them half-way leaves its traces to the commands that follow.            *)
(***************************************************************************)
EXTENDS Naturals, Sequences, SequencesExt

CONSTANTS
  Processes,
  Registry,      \* the packages, as a sequence in the registry's order
  Deps,          \* package -> its dependencies, resolved, in elm.json's order
  Commands,
  InitialDirs,   \* the contents of the cache to begin with
  MaxRetries,    \* attempts per package of download-all
  MaxFaults      \* bound: transfers, extractions, copies, deletions that fail

Packages == Range(Registry)

File == {"none", "torn", "ok"}
MetadataFiles == <<"endpoint", "elmjson", "docs">>
IndexOf(f) == CHOOSE i \in DOMAIN MetadataFiles : MetadataFiles[i] = f

\* src/ is missing, empty, lacks some of its files or some of their bytes, or
\* is complete.
Source == {"none", "empty", "part", "full"}

Directory ==
  [present : BOOLEAN, endpoint : File, elmjson : File, docs : File,
   src : Source,
   tainted : BOOLEAN]   \* src has a file of an archive with a wrong hash

Absent == [present |-> FALSE, endpoint |-> "none", elmjson |-> "none",
           docs |-> "none", src |-> "none", tainted |-> FALSE]

\* cache = wrap package cache, build = the compiler wrappers, file = caching
\* from a directory or URL; missing, all = download-missing, download-all;
\* fix, purge = cache check.  The route is where packages come from: the network,
\* a V2 repository, one whose packages/ is the cache's own, GitHub, a directory.
Command ==
  [kind : {"cache", "build", "file", "missing", "all", "fix", "purge"},
   route : {"v1", "v2", "own", "github", "directory"},
   packages : Seq(Packages), blacklist : SUBSET Packages,
   online : BOOLEAN, ignore_hash : BOOLEAN]

\* What is not there has no contents; wrap package cache is given packages;
\* only wrap package cache takes a directory, and it takes packages from there
\* or from GitHub when it is told to take them from a file; download-all asks no
\* repository.
ASSUME CacheAssumption ==
  /\ Registry \in Seq(Packages)
  /\ Deps \in [Packages -> Seq(Packages)]
  /\ Commands \subseteq Command
  /\ \A c \in Commands :
       /\ c.kind \in {"cache", "file"} => c.packages # <<>>
       /\ c.kind = "file" => c.route \in {"github", "directory"}
       /\ c.route = "directory" => c.kind = "file"
       /\ c.kind = "all" => c.route # "own"
  /\ InitialDirs \subseteq [Packages -> Directory]
  /\ \A d \in InitialDirs : \A q \in Packages : d[q].present \/ d[q] = Absent
  /\ MaxRetries \in Nat \ {0}
  /\ MaxFaults \in Nat

VARIABLES
  dir,       \* package -> its directory
  faults,    \* how many operations have failed
  pc, command,
  roots,     \* packages of the command line that are still to come
  todo,      \* packages to visit, with the rest of the recursion's work
  broken,    \* packages that the scan found broken
  processed, \* packages that download_package_recursive has visited
  tries,     \* attempts made for the package at the head of todo
  ok,        \* no package has failed
  temp,      \* the archive in its temporary file
  fetched,   \* history: packages that the command has reported downloaded
  alone,     \* history: nobody else has run since the command started
  clean,     \* history: nor has anything failed
  unchecked, \* history: some command has taken archives without a hash
  shortened  \* history: reported as downloaded by a copy that lost bytes of them

local == <<pc, command, roots, todo, broken, processed, tries, ok, temp, fetched>>
history == <<alone, clean, unchecked, shortened>>
vars == <<dir, faults, local, history>>

Init ==
  /\ dir \in InitialDirs
  /\ faults = 0
  /\ pc = [p \in Processes |-> "idle"]
  /\ command \in [Processes -> Commands]
  /\ roots = [p \in Processes |-> <<>>]
  /\ todo = [p \in Processes |-> <<>>]
  /\ broken = [p \in Processes |-> {}]
  /\ processed = [p \in Processes |-> {}]
  /\ tries = [p \in Processes |-> 0]
  /\ ok = [p \in Processes |-> TRUE]
  /\ temp = [p \in Processes |-> "none"]
  /\ fetched = [p \in Processes |-> {}]
  /\ alone = [p \in Processes |-> FALSE]
  /\ clean = [p \in Processes |-> FALSE]
  /\ unchecked = FALSE
  /\ shortened = [p \in Processes |-> {}]

-----------------------------------------------------------------------------
(* What the commands ask of the cache *)

package_metadata_exists(d) ==
  d.endpoint # "none" /\ d.elmjson # "none" /\ d.docs # "none"

\* Mutant of FullyDownloaded: an empty src/ will do.
SrcExists(q) == dir[q].present /\ dir[q].src # "none"

FullyDownloaded(q) == dir[q].present /\ dir[q].src \in {"part", "full"}

\* Mutant of Broken: whatever is there is taken for broken.
PresentAtAll(q) == dir[q].present

Broken(q) == dir[q].present /\ ~FullyDownloaded(q)

\* wrap package cache full-scan judges by itself, whatever the registry says.
scan_package(q) ==
  IF ~dir[q].present THEN "missing"
  ELSE IF dir[q].src \in {"none", "empty"} THEN "broken" ELSE "good"

FullScan == [status \in {"good", "broken", "missing"} |-> {q \in Packages : scan_package(q) = status}]

\* The members of S one after another, as a list goes through them: each of them
\* once, where the list first names it.
InOrder(list, S) ==
  {s \in SeqOf(S, Len(list)) :
     /\ Range(s) = S
     /\ \A i, j \in DOMAIN s : i < j =>
          \E k \in DOMAIN list : list[k] = s[i] /\ s[j] \notin {list[l] : l \in 1 .. k}}

\* cache check: the versions in the registry that are there without sources.
BrokenVersions == InOrder(Registry, {q \in Packages : Broken(q)})

\* download-all: all that the registry knows, without what is listed as failed
\* before.
DownloadQueue(c) ==
  InOrder(Registry, {q \in Packages \ c.blacklist : ~FullyDownloaded(q)})

\* download-missing: the dependencies in elm.json, each of them once.
MissingList(c) ==
  InOrder(c.packages, {q \in Range(c.packages) : ~FullyDownloaded(q)})

Goto(p, l) == pc' = [pc EXCEPT ![p] = l]
Set(var, p, v) == [var EXCEPT ![p] = v]
Pkg(p) == Head(todo[p])

-----------------------------------------------------------------------------
(* The loops of the commands *)

\* Command c sets out to visit these packages, and those in rest one by one
\* after them.
Launch(p, c, packages, rest) ==
  /\ pc[p] = "idle" /\ Goto(p, "next")
  /\ command' = Set(command, p, c)
  /\ todo' = Set(todo, p, packages)
  /\ roots' = Set(roots, p, rest)
  /\ broken' = Set(broken, p, {q \in Range(packages) : Broken(q)})
  /\ processed' = Set(processed, p, {})
  /\ tries' = Set(tries, p, 0)
  /\ ok' = Set(ok, p, TRUE)
  /\ fetched' = Set(fetched, p, {})
  /\ alone' = [q \in Processes |-> q = p /\ \A r \in Processes \ {p} : pc[r] = "idle"]
  /\ clean' = alone'
  /\ unchecked' = (unchecked \/ c.ignore_hash \/ c.route = "github")
  /\ shortened' = Set(shortened, p, {})
  /\ UNCHANGED <<dir, faults, temp>>

cmd_cache_check(p, c) ==
  c.kind \in {"fix", "purge"} /\ \E list \in BrokenVersions : Launch(p, c, list, <<>>)
cmd_cache_download_all(p, c) ==
  c.kind = "all" /\ \E list \in DownloadQueue(c) : Launch(p, c, list, <<>>)
cmd_cache_download_missing(p, c) ==
  c.kind = "missing" /\ \E list \in MissingList(c) : Launch(p, c, list, <<>>)
cmd_cache(p, c) == c.kind = "cache" /\ Launch(p, c, <<Head(c.packages)>>, Tail(c.packages))
cmd_cache_from(p, c) == c.kind = "file" /\ Launch(p, c, <<Head(c.packages)>>, <<>>)
\* The compiler wrappers visit every package that elm.json lists.
download_all_packages(p, c) == c.kind = "build" /\ Launch(p, c, c.packages, <<>>)

Start(p) ==
  \E c \in Commands :
    \/ cmd_cache_check(p, c) \/ cmd_cache_download_all(p, c) \/ cmd_cache_download_missing(p, c)
    \/ cmd_cache(p, c) \/ cmd_cache_from(p, c) \/ download_all_packages(p, c)

\* A package is done: its dependencies come next where the command follows
\* them and its elm.json can be read.
Visited(p, follow) ==
  /\ todo' = Set(todo, p, (IF follow THEN Deps[Pkg(p)] ELSE <<>>) \o Tail(todo[p]))
  /\ processed' = Set(processed, p, processed[p] \cup {Pkg(p)})
  /\ tries' = Set(tries, p, 0)
  /\ Goto(p, "next")
  /\ UNCHANGED <<command, roots, broken>>

\* Mutant of Skip: the loop does not go on to the next package.
SkipAndStay(p) ==
  /\ pc[p] = "next" /\ todo[p] # <<>>
  /\ \/ command[p].kind = "cache" /\ FullyDownloaded(Pkg(p))
     \/ command[p].kind = "build" /\ (Pkg(p) \in processed[p] \/ dir[Pkg(p)].present)
  /\ UNCHANGED vars

Skip(p) ==
  /\ pc[p] = "next" /\ todo[p] # <<>>
  /\ \/ /\ command[p].kind = "cache" /\ FullyDownloaded(Pkg(p))
        /\ Visited(p, FALSE)
     \/ /\ command[p].kind = "build" /\ Pkg(p) \in processed[p]
        /\ Visited(p, FALSE)
     \/ /\ command[p].kind = "build" /\ Pkg(p) \notin processed[p]
        /\ dir[Pkg(p)].present
        /\ Visited(p, dir[Pkg(p)].elmjson = "ok")
  /\ UNCHANGED <<dir, faults, ok, temp, fetched, history>>

\* Where the download of a package begins.
Fetching(p) ==
  [v1 |-> "metadata", v2 |-> "repository", own |-> "repository",
   github |-> "github", directory |-> "file"][command[p].route]

Begin(p) ==
  LET q == Pkg(p) IN
  /\ pc[p] = "next" /\ todo[p] # <<>>
  /\ ~(command[p].kind = "cache" /\ FullyDownloaded(q))
  /\ ~(command[p].kind = "build" /\ (dir[q].present \/ q \in processed[p]))
  /\ Goto(p, IF command[p].kind \in {"fix", "purge", "all"} /\ q \in broken[p]
             THEN "remove" ELSE Fetching(p))
  /\ UNCHANGED <<dir, faults, command, roots, todo, broken, processed, tries, ok,
                 temp, fetched, history>>

\* cmd_cache goes from one package of its command line to the next as long as
\* they and all they depend on could be cached.
NextRoot(p) ==
  /\ pc[p] = "next" /\ todo[p] = <<>> /\ roots[p] # <<>> /\ ok[p]
  /\ todo' = Set(todo, p, <<Head(roots[p])>>)
  /\ roots' = Set(roots, p, Tail(roots[p]))
  /\ UNCHANGED <<dir, faults, pc, command, broken, processed, tries, ok, temp,
                 fetched, history>>

Finish(p) ==
  /\ pc[p] = "next" /\ todo[p] = <<>> /\ (roots[p] = <<>> \/ ~ok[p])
  /\ Goto(p, "idle")
  /\ UNCHANGED <<dir, faults, command, roots, todo, broken, processed, tries, ok,
                 temp, fetched, history>>

\* Mutant of TriesAgain: one attempt too many.
TriesOnceMore(p) == command[p].kind = "all" /\ tries[p] < MaxRetries

TriesAgain(p) == command[p].kind = "all" /\ tries[p] + 1 < MaxRetries

StopsAtFailure(p) == command[p].kind \in {"missing", "build", "file"}

\* What a command does when a package could not be had: it tries again, stops,
\* or goes on with the next one.
Failed(p) ==
  /\ \/ /\ TriesAgain(p)
        /\ tries' = Set(tries, p, tries[p] + 1)
        /\ Goto(p, "remove")
        /\ UNCHANGED <<todo, ok>>
     \/ /\ StopsAtFailure(p)
        /\ todo' = Set(todo, p, <<>>)
        /\ ok' = Set(ok, p, FALSE)
        /\ Goto(p, "next")
        /\ UNCHANGED tries
     \/ /\ ~TriesAgain(p) /\ ~StopsAtFailure(p)
        /\ todo' = Set(todo, p, Tail(todo[p]))
        /\ ok' = Set(ok, p, FALSE)
        /\ tries' = Set(tries, p, 0)
        /\ Goto(p, "next")
  /\ UNCHANGED <<command, roots, broken, processed, fetched>>

Succeeded(p) ==
  /\ Visited(p, command[p].kind \in {"cache", "build"} /\ dir'[Pkg(p)].elmjson = "ok")
  /\ fetched' = Set(fetched, p, fetched[p] \cup {Pkg(p)})
  /\ UNCHANGED ok

Fault ==
  /\ faults < MaxFaults
  /\ faults' = faults + 1
  /\ clean' = [p \in Processes |-> FALSE]
  /\ UNCHANGED <<alone, unchecked>>

Noticed == Fault /\ UNCHANGED shortened

NoFault == UNCHANGED <<faults, history>>

-----------------------------------------------------------------------------
(* remove_directory_recursive: entry by entry, going on past those that      *)
(* cannot be removed                                                         *)

SourceLeftovers(s) ==
  {s, "none"} \cup IF s \in {"part", "full"} THEN {"part", "empty"} ELSE {}

\* What a directory may look like while it is being removed.
Leftovers(d) ==
  {Absent} \cup
  {[present |-> TRUE, endpoint |-> e, elmjson |-> m, docs |-> c, src |-> s,
    tainted |-> d.tainted /\ s \in {"part", "full"}] :
      e \in {d.endpoint, "none"}, m \in {d.elmjson, "none"},
      c \in {d.docs, "none"}, s \in SourceLeftovers(d.src)}

Removing(p, q, from, during) ==
  /\ pc[p] = from
  /\ \E d \in IF dir[q].present THEN Leftovers(dir[q]) ELSE {Absent} :
       dir' = [dir EXCEPT ![q] = d]
  /\ Goto(p, during)
  /\ NoFault /\ UNCHANGED <<command, roots, todo, broken, processed, tries, ok,
                            temp, fetched>>

RemoveDirectory(p) == todo[p] # <<>> /\ Removing(p, Pkg(p), "remove", "removing")

\* cache check goes on with the next broken package after a removal, or
\* downloads the package again; download-all downloads it in any case.
DirectoryRemoved(p) ==
  /\ pc[p] = "removing"
  /\ \/ dir' = [dir EXCEPT ![Pkg(p)] = Absent] /\ NoFault
     \/ Noticed /\ UNCHANGED dir
  /\ IF command[p].kind = "purge" THEN Visited(p, FALSE)
     ELSE Goto(p, Fetching(p)) /\ UNCHANGED <<command, roots, todo, broken,
                                              processed, tries>>
  /\ UNCHANGED <<ok, temp, fetched>>

-----------------------------------------------------------------------------
(* install_env_download_package, protocol V1 *)

\* The metadata files after the i-th that are still missing.
Following(d, i) == {j \in DOMAIN MetadataFiles : j > i /\ d[MetadataFiles[j]] = "none"}

\* The next missing file is opened for writing in its place.
OpenNext(p, d, i) ==
  IF Following(d, i) = {}
  THEN dir' = [dir EXCEPT ![Pkg(p)] = d] /\ Goto(p, "archive")
  ELSE LET next == MetadataFiles[Min(Following(d, i))]
       IN  /\ dir' = [dir EXCEPT ![Pkg(p)] = [d EXCEPT !.present = TRUE, ![next] = "torn"]]
           /\ Goto(p, next)

Offline(p) ==
  /\ pc[p] = "metadata" /\ ~command[p].online
  /\ Failed(p)
  /\ NoFault /\ UNCHANGED <<dir, temp>>

Metadata(p) ==
  /\ pc[p] = "metadata" /\ command[p].online
  /\ IF package_metadata_exists(dir[Pkg(p)]) THEN Goto(p, "archive") /\ UNCHANGED dir
     ELSE OpenNext(p, dir[Pkg(p)], 0)
  /\ NoFault /\ UNCHANGED <<command, roots, todo, broken, processed, tries, ok,
                            temp, fetched>>

\* A file has arrived; if somebody removed it meanwhile, its name is gone.
Arrived(p) ==
  LET f == pc[p]
      d == dir[Pkg(p)]
  IN
  /\ f \in Range(MetadataFiles)
  /\ f = "elmjson" => d.elmjson # "none"
  /\ OpenNext(p, IF d[f] = "none" THEN d ELSE [d EXCEPT ![f] = "ok"], IndexOf(f))
  /\ NoFault /\ UNCHANGED <<command, roots, todo, broken, processed, tries, ok,
                            temp, fetched>>

\* The answer is something else than the file.  Only elm.json is looked at.
ArrivedWrong(p) ==
  /\ pc[p] \in {"endpoint", "docs"}
  /\ OpenNext(p, dir[Pkg(p)], IndexOf(pc[p]))
  /\ Noticed /\ UNCHANGED <<command, roots, todo, broken, processed, tries, ok,
                          temp, fetched>>

\* The transfer fails, or elm.json is no JSON: the file is removed, except
\* when the server's answer was neither a success nor an error.
NotArrived(p) ==
  LET f == pc[p] IN
  /\ f \in Range(MetadataFiles)
  /\ \E left \in {"none", "torn"} :
       /\ left = "torn" => dir[Pkg(p)][f] = "torn"
       /\ dir' = [dir EXCEPT ![Pkg(p)][f] = left]
  /\ Failed(p)
  /\ IF f = "elmjson" /\ dir[Pkg(p)].elmjson = "none" THEN NoFault ELSE Noticed
  /\ UNCHANGED temp

\* An endpoint.json that cannot be parsed stays where it is.
BadEndpoint(p) ==
  /\ pc[p] = "archive" /\ dir[Pkg(p)].endpoint # "ok"
  /\ Failed(p)
  /\ NoFault /\ UNCHANGED <<dir, temp>>

OpenArchive(p) ==
  /\ pc[p] = "archive" /\ dir[Pkg(p)].endpoint = "ok"
  /\ temp' = Set(temp, p, "torn")
  /\ Goto(p, "download")
  /\ NoFault /\ UNCHANGED <<dir, command, roots, todo, broken, processed, tries,
                            ok, fetched>>

\* Mutant of Accepts: nobody looks at the hash.
AcceptsAny(p, archive) == archive \in {"good", "bad"}

\* verify_file_sha1, unless --ignore-hash
Accepts(p, archive) == archive = "good" \/ command[p].ignore_hash

\* The temporary file is removed.
Discard(p, archive) == temp' = Set(temp, p, "none")

Download(p) ==
  /\ pc[p] = "download"
  /\ \E archive \in {"good", "bad", "none"} :
       /\ IF archive # "none" /\ Accepts(p, archive)
          THEN /\ temp' = Set(temp, p, archive)
               /\ Goto(p, "extract")
               /\ UNCHANGED <<command, roots, todo, broken, processed, tries, ok,
                              fetched>>
          ELSE Discard(p, archive) /\ Failed(p)
       /\ IF archive = "good" THEN NoFault ELSE Noticed
  /\ UNCHANGED dir

Others(p) == \E r \in Processes \ {p} : pc[r] # "idle"

\* src/ once the first of its entries are written, and when all of them are.
Filling(s) == IF s \in {"none", "empty"} THEN {"empty", "part"} ELSE {"part"}

Filled(p) == IF Others(p) THEN {"part", "full"} ELSE {"full"}

Tainted(p, d) == d.tainted \/ temp[p] = "bad"

\* extract_zip_selective: elm.json and docs.json are not overwritten.
Extract(p) ==
  LET d == dir[Pkg(p)] IN
  /\ pc[p] = "extract"
  /\ \E s \in Filling(d.src) :
       dir' = [dir EXCEPT ![Pkg(p)] =
                 [d EXCEPT !.present = TRUE,
                           !.elmjson = IF @ = "none" THEN "ok" ELSE @,
                           !.docs = IF @ = "none" THEN "ok" ELSE @,
                           !.src = s, !.tainted = Tainted(p, d)]]
  /\ Goto(p, "extracting")
  /\ NoFault /\ UNCHANGED <<command, roots, todo, broken, processed, tries, ok,
                            temp, fetched>>

\* All of src/ is there, from this archive.
Fill(p, d, s) ==
  [d EXCEPT !.present = TRUE, !.src = s,
            !.tainted = IF s = "full" THEN temp[p] = "bad" ELSE Tainted(p, d)]

Extracted(p) ==
  /\ pc[p] = "extracting"
  /\ \E s \in Filled(p) : dir' = [dir EXCEPT ![Pkg(p)] = Fill(p, @, s)]
  /\ temp' = Set(temp, p, "none")
  /\ Succeeded(p)
  /\ NoFault

\* Mutant of NotExtracted: the result of the extraction is ignored.
ExtractedAnyway(p) ==
  /\ pc[p] \in {"extract", "extracting"}
  /\ temp' = Set(temp, p, "none")
  /\ UNCHANGED dir
  /\ Succeeded(p)
  /\ Noticed

\* Extraction stops at the first file that fails and leaves the others.
NotExtracted(p) ==
  /\ pc[p] \in {"extract", "extracting"}
  /\ temp' = Set(temp, p, "none")
  /\ Failed(p)
  /\ Noticed /\ UNCHANGED dir

-----------------------------------------------------------------------------
(* cache_download_from_github and install_from_file; the copy is also what   *)
(* install_env_download_package does with a V2 repository                    *)

\* The archive is unpacked in a temporary directory; nobody checks a hash.
GitHub(p) ==
  /\ pc[p] = "github"
  /\ \E archive \in {"good", "bad", "none"} :
       /\ IF archive = "none" THEN Failed(p)
          ELSE /\ Goto(p, IF command[p].kind = "file" THEN "file" ELSE "replace")
               /\ UNCHANGED <<command, roots, todo, broken, processed, tries, ok,
                              fetched>>
       /\ temp' = Set(temp, p, archive)
       /\ IF archive = "good" THEN NoFault ELSE Noticed
  /\ UNCHANGED dir

\* --from-file and --from-url: the directory may have no elm.json, or that of
\* another version than the one asked for.
FromFile(p) ==
  /\ pc[p] = "file"
  /\ \/ /\ Goto(p, "replace")
        /\ UNCHANGED <<command, roots, todo, broken, processed, tries, ok, temp,
                       fetched>>
     \/ Failed(p) /\ temp' = Set(temp, p, "none")
  /\ NoFault /\ UNCHANGED dir

\* install_env_download_package, protocol V2: the repository may lack the
\* package, and lacks it, when its packages/ is the cache's own, if the cache does.
FromRepository(p) ==
  /\ pc[p] = "repository"
  /\ \/ /\ command[p].route = "v2" /\ Goto(p, "copy")
        /\ UNCHANGED <<command, roots, todo, broken, processed, tries, ok, fetched>>
     \/ /\ command[p].route = "v2" \/ ~dir[Pkg(p)].present
        /\ Failed(p)
  /\ NoFault /\ UNCHANGED <<dir, temp>>

\* "already present in repository cache": a directory that is source and
\* destination in one is taken as it is, with sources or without.
AlreadyPresent(p) ==
  /\ pc[p] = "repository" /\ command[p].route = "own" /\ dir[Pkg(p)].present
  /\ UNCHANGED <<dir, temp>>
  /\ Succeeded(p)
  /\ NoFault

\* The package that is in the way is removed first.
Replace(p) == todo[p] # <<>> /\ Removing(p, Pkg(p), "replace", "replacing")

Replaced(p) ==
  /\ pc[p] = "replacing"
  /\ \/ dir' = [dir EXCEPT ![Pkg(p)] = Absent] /\ NoFault
     \/ Noticed /\ UNCHANGED dir
  /\ Goto(p, "copy")
  /\ UNCHANGED <<command, roots, todo, broken, processed, tries, ok, temp, fetched>>

\* copy_directory_selective writes elm.json and docs.json first, then src/.
Copy(p) ==
  LET d == dir[Pkg(p)] IN
  /\ pc[p] = "copy"
  /\ \E s \in Filling(d.src), c \in {d.docs, "ok"} :
       dir' = [dir EXCEPT ![Pkg(p)] =
                 [d EXCEPT !.present = TRUE, !.elmjson = "ok", !.docs = c, !.src = s,
                           !.tainted = Tainted(p, d)]]
  /\ Goto(p, "copying")
  /\ NoFault /\ UNCHANGED <<command, roots, todo, broken, processed, tries, ok,
                            temp, fetched>>

Copied(p) ==
  /\ pc[p] = "copying"
  /\ \E s \in Filled(p) : dir' = [dir EXCEPT ![Pkg(p)] = Fill(p, @, s)]
  /\ temp' = Set(temp, p, "none")
  /\ Succeeded(p)
  /\ NoFault

\* What may come of a file in a copy that loses bytes.
Shortened(f) == IF f = "ok" THEN {"ok", "torn"} ELSE {f}

\* No copy asks whether a read ended in an error or whether closing the file
\* brought all of it to the disk: one that has lost bytes is done all the same.
CopiedShort(p) ==
  LET d == dir[Pkg(p)] IN
  /\ pc[p] = "copying"
  /\ \E s \in {"part", "full"}, f \in Shortened(d.elmjson), c \in Shortened(d.docs) :
       /\ s = "part" \/ f # d.elmjson \/ c # d.docs
       /\ dir' = [dir EXCEPT ![Pkg(p)] = [Fill(p, d, s) EXCEPT !.elmjson = f, !.docs = c]]
  /\ temp' = Set(temp, p, "none")
  /\ Succeeded(p)
  /\ Fault /\ shortened' = Set(shortened, p, shortened[p] \cup {Pkg(p)})

\* Some file cannot be opened, or a write to it fails and is noticed; copying goes
\* on with the others.
NotCopied(p) ==
  /\ pc[p] = "copying"
  /\ \E s \in {dir[Pkg(p)].src, "full"}, f \in File, c \in {"torn", "ok"} :
       /\ s # "full" \/ f # "ok" \/ c # "ok"
       /\ dir' = [dir EXCEPT ![Pkg(p)] =
                    [@ EXCEPT !.present = TRUE, !.src = s, !.elmjson = f, !.docs = c]]
  /\ temp' = Set(temp, p, "none")
  /\ Failed(p)
  /\ Noticed

-----------------------------------------------------------------------------

\* The process dies, and all that it knew is gone.  What it leaves in /tmp has a
\* name of its own, except after --from-url, where the next one for the package
\* unpacks its archive beside what is there already: the leftovers then are part
\* of the directory that the user asked to be copied.
Crash(p) ==
  /\ pc[p] # "idle" /\ Goto(p, "idle")
  /\ temp' = Set(temp, p, "none")
  /\ roots' = Set(roots, p, <<>>)
  /\ todo' = Set(todo, p, <<>>)
  /\ broken' = Set(broken, p, {})
  /\ processed' = Set(processed, p, {})
  /\ tries' = Set(tries, p, 0)
  /\ fetched' = Set(fetched, p, {})
  /\ ok' = Set(ok, p, FALSE)
  /\ Noticed /\ UNCHANGED <<dir, command>>

Step(p) ==
  \/ Skip(p) \/ Begin(p) \/ NextRoot(p) \/ Finish(p)
  \/ RemoveDirectory(p) \/ DirectoryRemoved(p)
  \/ Offline(p) \/ Metadata(p) \/ Arrived(p) \/ ArrivedWrong(p) \/ NotArrived(p)
  \/ BadEndpoint(p) \/ OpenArchive(p) \/ Download(p)
  \/ Extract(p) \/ Extracted(p) \/ NotExtracted(p)
  \/ GitHub(p) \/ FromFile(p) \/ FromRepository(p) \/ AlreadyPresent(p)
  \/ Replace(p) \/ Replaced(p)
  \/ Copy(p) \/ Copied(p) \/ CopiedShort(p) \/ NotCopied(p)

Next == \E p \in Processes : Start(p) \/ Step(p) \/ Crash(p)

Spec == Init /\ [][Next]_vars

Fairness == \A p \in Processes : WF_vars(Step(p))
FairSpec == Spec /\ Fairness

-----------------------------------------------------------------------------
(* Properties *)

Stage ==
  {"idle", "next", "remove", "removing",
   "metadata", "endpoint", "elmjson", "docs", "archive", "download", "extract", "extracting",
   "github", "file", "repository", "replace", "replacing", "copy", "copying"}

LocalTypeOK ==
  /\ pc \in [Processes -> Stage]
  /\ command \in [Processes -> Commands]
  /\ roots \in [Processes -> Seq(Packages)]
  /\ todo \in [Processes -> Seq(Packages)]
  /\ \A p \in Processes : pc[p] \notin {"idle", "next"} => todo[p] # <<>>
  /\ broken \in [Processes -> SUBSET Packages]
  /\ processed \in [Processes -> SUBSET Packages]
  /\ tries \in [Processes -> 0 .. MaxRetries - 1]
  /\ ok \in [Processes -> BOOLEAN]
  /\ fetched \in [Processes -> SUBSET Packages]

TypeOK ==
  /\ dir \in [Packages -> Directory]
  /\ faults \in 0 .. MaxFaults
  /\ LocalTypeOK
  /\ temp \in [Processes -> {"none", "torn", "good", "bad"}]
  /\ alone \in [Processes -> BOOLEAN]
  /\ clean \in [Processes -> BOOLEAN]
  /\ unchecked \in BOOLEAN
  /\ shortened \in [Processes -> SUBSET Packages]

\* A package that elm can compile with, as its author published it.
Whole(q) == dir[q].src = "full" /\ dir[q].elmjson = "ok" /\ dir[q].docs = "ok"

\* What wrap reports as downloaded is complete when no other command has run
\* since: no failure that it can notice, and no leftover of an earlier command, is
\* taken for a success, and no later step of the command spoils it.  (A copy that
\* lost bytes goes unnoticed; nothing is fetched into a repository of its own.)
AloneDownloadedIsWhole ==
  \A p \in Processes : alone[p] /\ command[p].route # "own" =>
    \A q \in fetched[p] \ shortened[p] : dir[q].src = "full"

\* "Returns true on success, false on failure" (fileutil.h, of the functions that
\* copy directories): what a copy is reported to have brought into the cache is
\* there as a whole.
CopiedIsWhole ==
  \A p \in Processes : alone[p] /\ command[p].route # "own" =>
    \A q \in fetched[p] : dir[q].src = "full"

\* A repair during which nothing fails does not fail, an unreadable
\* endpoint.json is no obstacle to it, and repairs: cache check --fix-broken
\* leaves every package whole that it found broken, download-all leaves none
\* missing or broken, whatever earlier crashes and failures have left there.
\* (A V2 repository may lack the package, and the archive of GitHub docs.json.)
CleanRunsRepair ==
  \A p \in Processes : clean[p] =>
    LET c == command[p] IN
    /\ c.kind = "purge" \/ (c.kind \in {"fix", "all"} /\ c.online /\ c.route \notin {"v2", "own"}) => ok[p]
    /\ pc[p] = "idle" /\ ok[p] =>
         /\ c.kind = "fix" /\ c.route = "v1" => \A q \in broken[p] : Whole(q)
         /\ c.kind = "all" => FullScan.broken \cup FullScan.missing \subseteq c.blacklist
         /\ c.kind = "purge" => \A q \in broken[p] : dir[q] = Absent

\* As long as every command has compared hashes nothing of a wrong archive is
\* in src/, also when several processes download the same package at once.
VerifiedSource == ~unchecked => \A q \in Packages : ~dir[q].tainted

\* The packages that some command puts a copy of the user's in the place of.
Replaceable == {Head(c.packages) : c \in {x \in Commands : x.kind = "file"}}

WholePackages == {q \in Packages : Whole(q)}

\* Some command at work has not had the cache for itself.
Overlap == \E p \in Processes : pc[p] # "idle" /\ ~alone[p]

\* While one command at a time is at work no package is lost that is whole,
\* except where it is replaced: removal strikes only what is broken.
Store == INSTANCE PackageStore WITH whole <- WholePackages, shared <- Overlap

KeepsWhole == Store!Spec

\* "Package ... and all dependencies already cached": a command that caches a
\* package without an error has cached what the package depends on.
CachedWithDependencies ==
  \A p \in Processes :
    pc[p] = "idle" /\ command[p].kind = "cache" /\ ok[p] =>
      \A q \in processed[p] : \A r \in Range(Deps[q]) : FullyDownloaded(r)

\* Every command ends: retries and recursion are bounded.
CommandsEnd == \A p \in Processes : (pc[p] # "idle") ~> (pc[p] = "idle")
=============================================================================
