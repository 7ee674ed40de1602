------------------------- MODULE PackageCacheProofs -------------------------
(***************************************************************************)
(* What the commands on the package cache achieve and keep, for any        *)
(* packages, dependencies, commands, number of processes, retries and      *)
(* failures, and whatever is in the cache to begin with.                   *)
(***************************************************************************)
EXTENDS PackageCache, SequenceTheorems, TLAPS

-----------------------------------------------------------------------------
(* The inductive invariant *)

Active(p) == pc[p] \notin {"idle", "next"}

\* The packages that a command has not come to yet.
Pending(p) == IF Active(p) THEN Range(Tail(todo[p])) ELSE Range(todo[p])

\* The commands that draw up a list of the packages to visit when they start.
Lists(p) == command[p].kind \in {"fix", "purge", "all", "missing"}

Distinct(s) == \A i, j \in DOMAIN s : s[i] = s[j] => i = j

\* What is not there has no contents.
PresentOrAbsent == \A q \in Packages : dir[q].present \/ dir[q] = Absent

MetadataStages ==
  {"metadata", "endpoint", "elmjson", "docs", "archive", "download", "extract", "extracting"}

\* What is taken for downloaded, and what is whole.
DownloadedDir(d) == d.present /\ d.src \in {"part", "full"}
WholeDir(d) == d.src = "full" /\ d.elmjson = "ok" /\ d.docs = "ok"

\* A command is where its kind and its route take it.
StageOK(p) ==
  LET c == command[p] IN
  /\ pc[p] = "idle" => todo[p] = <<>>
  /\ pc[p] \in MetadataStages => c.route = "v1"
  /\ pc[p] = "github" => c.route = "github"
  /\ pc[p] = "repository" => c.route \in {"v2", "own"}
  /\ pc[p] = "file" => c.kind = "file"
  /\ pc[p] \in {"file", "replace", "replacing"} => c.route \in {"github", "directory"}
  /\ pc[p] \in {"copy", "copying"} => c.route # "v1"
  /\ pc[p] \in {"remove", "removing"} => c.kind \in {"fix", "purge", "all"}
  /\ c.kind # "cache" => roots[p] = <<>>
  /\ c.kind = "file" /\ todo[p] # <<>> => todo[p] = <<Head(c.packages)>> /\ fetched[p] = {}

StageInv == \A p \in Processes : StageOK(p)

\* Who is alone has nobody beside him, and takes packages only when they are not
\* there as a whole.
AloneOK(p) ==
  /\ \A r \in Processes \ {p} : pc[r] = "idle"
  /\ command[p].route # "own" => \A q \in fetched[p] \ shortened[p] : dir[q].src = "full"
  /\ Lists(p) => Distinct(todo[p]) /\ \A q \in Pending(p) : ~DownloadedDir(dir[q])
  /\ Active(p) /\ command[p].route # "own" => Pkg(p) \notin fetched[p] \ shortened[p]
  /\ Active(p) /\ command[p].kind # "file" =>
       /\ ~WholeDir(dir[Pkg(p)])
       /\ command[p].route = "v1" \/ pc[p] = "copying" => dir[Pkg(p)].src # "full"

AloneInv == \A p \in Processes : (clean[p] => alone[p]) /\ (alone[p] => AloneOK(p))

\* The directory of a package whose metadata files arrive one after the other.
Arriving(d, stage) ==
  IF stage = "metadata" THEN d = Absent
  ELSE /\ d.endpoint = IF stage = "endpoint" THEN "torn" ELSE "ok"
       /\ d.elmjson = IF stage = "endpoint" THEN "none"
                      ELSE IF stage = "elmjson" THEN "torn" ELSE "ok"
       /\ d.docs = IF stage \in {"endpoint", "elmjson"} THEN "none"
                   ELSE IF stage = "docs" THEN "torn" ELSE "ok"

\* Whether a command repairs and cannot lack anything for it.
Repairs(c) == c.kind = "purge" \/ (c.kind \in {"fix", "all"} /\ c.online /\ c.route \notin {"v2", "own"})

\* A repair in which nothing fails gets on: what it has come past is repaired.
CleanOK(p) ==
  LET c == command[p] IN
  /\ Repairs(c) => ok[p]
  /\ c.kind \in {"fix", "purge"} => Range(todo[p]) \subseteq broken[p]
  /\ c.kind \in {"fix", "purge", "all"} =>
       /\ \A q \in Pending(p) \ broken[p] : dir[q] = Absent
       /\ pc[p] \in MetadataStages => Arriving(dir[Pkg(p)], pc[p])
  /\ c.kind = "purge" => pc[p] \in {"idle", "next", "remove", "removing"}
  /\ c.kind = "purge" => \A q \in broken[p] \ Range(todo[p]) : dir[q] = Absent
  /\ ok[p] /\ c.kind = "fix" /\ c.route = "v1" => \A q \in broken[p] \ Range(todo[p]) : WholeDir(dir[q])
  /\ ok[p] /\ c.kind = "all" =>
       \A q \in Packages \ c.blacklist : q \in Range(todo[p]) \/ DownloadedDir(dir[q])

CleanInv == \A p \in Processes : clean[p] => CleanOK(p)

\* As long as every command compares hashes, none keeps a wrong archive.
VerifiedInv ==
  ~unchecked =>
    /\ \A q \in Packages : dir[q].tainted = FALSE
    /\ \A p \in Processes :
         /\ pc[p] # "idle" => command[p].ignore_hash = FALSE /\ command[p].route # "github"
         /\ temp[p] # "bad"

-----------------------------------------------------------------------------
(* Sequences *)

\* A sequence is its head and its tail.
LEMMA HeadAndTail ==
  ASSUME NEW S, NEW s \in Seq(S), s # <<>>
  PROVE  /\ Head(s) \in S
         /\ Tail(s) \in Seq(S)
         /\ Range(s) = {Head(s)} \cup Range(Tail(s))
         /\ Distinct(s) => Distinct(Tail(s)) /\ Head(s) \notin Range(Tail(s))
<1>1. /\ Head(s) \in S /\ Head(s) = s[1] /\ Tail(s) \in Seq(S)
      /\ Len(s) \in Nat /\ Len(s) >= 1 /\ Len(Tail(s)) = Len(s) - 1
      /\ DOMAIN s = 1 .. Len(s) /\ DOMAIN Tail(s) = 1 .. Len(s) - 1
      /\ \A i \in 1 .. Len(s) - 1 : Tail(s)[i] = s[i + 1]
  OBVIOUS
<1>2. \A i \in 1 .. Len(s) : i = 1 \/ (i - 1 \in 1 .. Len(s) - 1 /\ s[i] = Tail(s)[i - 1])
  BY <1>1
<1>3. Range(s) = {Head(s)} \cup Range(Tail(s))
  <2>1. ASSUME NEW x \in Range(s) PROVE x = Head(s) \/ x \in Range(Tail(s))
    <3>1. PICK i \in 1 .. Len(s) : x = s[i]
      BY <1>1, <2>1 DEF Range
    <3> QED BY <1>1, <1>2, <3>1 DEF Range
  <2>2. ASSUME NEW x \in Range(Tail(s)) PROVE x \in Range(s)
    <3>1. PICK i \in 1 .. Len(s) - 1 : x = s[i + 1]
      BY <1>1, <2>2 DEF Range
    <3>2. i + 1 \in DOMAIN s
      BY <1>1, <3>1
    <3> QED BY <3>1, <3>2 DEF Range
  <2>3. Head(s) \in Range(s)
    BY <1>1 DEF Range
  <2> QED BY <2>1, <2>2, <2>3
<1>4. ASSUME Distinct(s)
      PROVE  Distinct(Tail(s)) /\ Head(s) \notin Range(Tail(s))
  <2>1. \A i, j \in 1 .. Len(s) : s[i] = s[j] => i = j
    BY <1>1, <1>4 DEF Distinct
  <2>2. \A i \in 1 .. Len(s) - 1 : i + 1 \in 1 .. Len(s) /\ Tail(s)[i] = s[i + 1]
    BY <1>1
  <2>3. Distinct(Tail(s))
    BY <1>1, <2>1, <2>2 DEF Distinct
  <2>4. Head(s) \notin Range(Tail(s))
    BY <1>1, <2>1, <2>2 DEF Range
  <2> QED BY <2>3, <2>4
<1> QED BY <1>1, <1>3, <1>4

\* The members of a set in the order of a list are each of them once there.
LEMMA InOrderListsOnce ==
  ASSUME NEW T, NEW list \in Seq(T), NEW S, NEW s \in InOrder(list, S)
  PROVE  s \in Seq(S) /\ Range(s) = S /\ Distinct(s)
<1>1. Len(list) \in Nat /\ DOMAIN list = 1 .. Len(list)
  OBVIOUS
<1>2. PICK n \in 0 .. Len(list) : s \in [1 .. n -> S]
  BY <1>1 DEF InOrder, SeqOf
<1>3. s \in Seq(S) /\ DOMAIN s = 1 .. n /\ n \in Nat
  BY <1>1, <1>2
<1>4. \A i, j \in DOMAIN s : i < j => s[i] # s[j]
  <2>1. TAKE i, j \in DOMAIN s
  <2>2. HAVE i < j
  <2>3. PICK k \in DOMAIN list : list[k] = s[i] /\ s[j] \notin {list[l] : l \in 1 .. k}
    BY <2>2 DEF InOrder
  <2>4. k \in 1 .. k
    BY <1>1
  <2> QED BY <2>3, <2>4
<1>5. Distinct(s)
  BY <1>3, <1>4 DEF Distinct
<1> QED BY <1>3, <1>5 DEF InOrder

-----------------------------------------------------------------------------
(* Types *)

LEMMA InitTyped == Init => TypeOK
<1> USE CacheAssumption DEF Stage
<1>1. ASSUME Init PROVE LocalTypeOK
  BY <1>1 DEF Init, LocalTypeOK
<1>2. ASSUME Init PROVE dir \in [Packages -> Directory] /\ faults \in 0 .. MaxFaults
  BY <1>2 DEF Init
<1>3. ASSUME Init PROVE TypeOK
  BY <1>1, <1>2, <1>3 DEF Init, TypeOK
<1> QED BY <1>3

\* Only the place where a command is changes.
LEMMA MovesTyped ==
  ASSUME LocalTypeOK, NEW p \in Processes, NEW l \in Stage,
         l \notin {"idle", "next"} => todo[p] # <<>>,
         Goto(p, l), UNCHANGED <<command, roots, todo, broken, processed, tries, ok, fetched>>
  PROVE  LocalTypeOK'
BY DEF LocalTypeOK, Goto

\* Where a download begins, by the route.
LEMMA FetchingByRoute ==
  ASSUME TypeOK, NEW p \in Processes
  PROVE  /\ Fetching(p) \in {"metadata", "repository", "github", "file"}
         /\ Fetching(p) = "metadata" => command[p].route = "v1"
         /\ Fetching(p) = "repository" => command[p].route \in {"v2", "own"}
         /\ Fetching(p) = "github" => command[p].route = "github"
         /\ Fetching(p) = "file" => command[p].route = "directory"
<1>1. command[p] \in Command
  BY CacheAssumption DEF TypeOK, LocalTypeOK
<1> QED BY <1>1 DEF Fetching, Command

LEMMA VisitedTyped ==
  ASSUME TypeOK, NEW p \in Processes, NEW follow \in BOOLEAN, todo[p] # <<>>, Visited(p, follow),
         ok' \in [Processes -> BOOLEAN], fetched' \in [Processes -> SUBSET Packages]
  PROVE  LocalTypeOK'
<1> USE DEF TypeOK, LocalTypeOK
<1>1. Pkg(p) \in Packages /\ Tail(todo[p]) \in Seq(Packages)
  BY HeadAndTail DEF Pkg
<1>2. (IF follow THEN Deps[Pkg(p)] ELSE <<>>) \in Seq(Packages)
  BY <1>1, CacheAssumption
<1>3. todo' \in [Processes -> Seq(Packages)]
  BY <1>1, <1>2 DEF Visited, Set
<1>4. processed' \in [Processes -> SUBSET Packages]
  BY <1>1 DEF Visited, Set
<1>5. tries' \in [Processes -> 0 .. MaxRetries - 1]
  BY CacheAssumption DEF Visited, Set
<1>6. pc' \in [Processes -> Stage] /\ \A r \in Processes : pc'[r] \notin {"idle", "next"} => todo'[r] # <<>>
  BY <1>3 DEF Visited, Goto, Set, Stage
<1> QED BY <1>3, <1>4, <1>5, <1>6 DEF Visited

LEMMA FailedTyped ==
  ASSUME TypeOK, NEW p \in Processes, todo[p] # <<>>, Failed(p)
  PROVE  LocalTypeOK'
<1> USE DEF TypeOK, LocalTypeOK, Set
<1>1. Tail(todo[p]) \in Seq(Packages)
  BY HeadAndTail
<1>2. CASE command[p].kind = "all" /\ tries[p] + 1 < MaxRetries
  <2>1. tries[p] + 1 \in 0 .. MaxRetries - 1
    BY <1>2, CacheAssumption
  <2>2. /\ tries' = [tries EXCEPT ![p] = tries[p] + 1] /\ pc' = [pc EXCEPT ![p] = "remove"]
        /\ UNCHANGED <<todo, ok, command, roots, broken, processed, fetched>>
    BY <1>2 DEF Failed, TriesAgain, StopsAtFailure, Goto
  <2>3. tries' \in [Processes -> 0 .. MaxRetries - 1] /\ pc' \in [Processes -> Stage]
    BY <2>1, <2>2 DEF Stage
  <2> QED BY <2>2, <2>3
<1>3. CASE ~(command[p].kind = "all" /\ tries[p] + 1 < MaxRetries)
  <2>1. /\ ok' = [ok EXCEPT ![p] = FALSE] /\ pc' = [pc EXCEPT ![p] = "next"]
        /\ todo' = [todo EXCEPT ![p] = <<>>] \/ todo' = [todo EXCEPT ![p] = Tail(todo[p])]
        /\ tries' = tries \/ tries' = [tries EXCEPT ![p] = 0]
        /\ UNCHANGED <<command, roots, broken, processed, fetched>>
    BY <1>3 DEF Failed, TriesAgain, Goto
  <2>2. todo' \in [Processes -> Seq(Packages)]
    <3>1. \E s \in Seq(Packages) : todo' = [todo EXCEPT ![p] = s]
      BY <1>1, <2>1, EmptySeq
    <3> QED BY <3>1
  <2>5. tries' \in [Processes -> 0 .. MaxRetries - 1]
    <3>1. 0 \in 0 .. MaxRetries - 1
      BY CacheAssumption
    <3> QED BY <2>1, <3>1
  <2>3. pc' \in [Processes -> Stage] /\ ok' \in [Processes -> BOOLEAN]
    BY <2>1 DEF Stage
  <2>4. \A r \in Processes : pc'[r] \notin {"idle", "next"} => todo'[r] # <<>>
    BY <2>1
  <2> QED BY <2>1, <2>2, <2>3, <2>4, <2>5
<1> QED BY <1>2, <1>3

\* A history of who is alone and what has failed.
HistoryTypeOK ==
  /\ faults \in 0 .. MaxFaults
  /\ alone \in [Processes -> BOOLEAN]
  /\ clean \in [Processes -> BOOLEAN]
  /\ unchecked \in BOOLEAN
  /\ shortened \in [Processes -> SUBSET Packages]

LEMMA FaultsTyped ==
  ASSUME TypeOK, NoFault \/ Noticed \/ (Fault /\ shortened' \in [Processes -> SUBSET Packages])
  PROVE  HistoryTypeOK'
<1>1. MaxFaults \in Nat
  BY CacheAssumption
<1>2. CASE NoFault
  BY <1>2 DEF TypeOK, HistoryTypeOK, NoFault, history
<1>3. CASE Fault /\ shortened' \in [Processes -> SUBSET Packages]
  BY <1>1, <1>3 DEF TypeOK, HistoryTypeOK, Fault
<1>4. CASE Noticed
  BY <1>3, <1>4 DEF TypeOK, Noticed
<1> QED BY <1>2, <1>3, <1>4

\* What each command sets out to visit.
SetsOut(c, list, rest) ==
  /\ list \in Seq(Packages) /\ rest \in Seq(Packages)
  /\ c.kind \in {"fix", "purge"} => Distinct(list) /\ Range(list) = {q \in Packages : Broken(q)}
  /\ c.kind = "all" =>
       Distinct(list) /\ Range(list) = {q \in Packages \ c.blacklist : ~FullyDownloaded(q)}
  /\ c.kind = "missing" => Distinct(list) /\ \A q \in Range(list) : ~FullyDownloaded(q)
  /\ c.kind = "file" => list = <<Head(c.packages)>>
  /\ c.kind # "cache" => rest = <<>>

LEMMA StartSetsOut ==
  ASSUME TypeOK, NEW p \in Processes, Start(p)
  PROVE  \E c, list, rest : c \in Commands /\ Launch(p, c, list, rest) /\ SetsOut(c, list, rest)
<1>1. PICK c \in Commands :
        \/ cmd_cache_check(p, c) \/ cmd_cache_download_all(p, c) \/ cmd_cache_download_missing(p, c)
        \/ cmd_cache(p, c) \/ cmd_cache_from(p, c) \/ download_all_packages(p, c)
  BY DEF Start
<1>2. c \in Command /\ c.packages \in Seq(Packages) /\ (c.kind \in {"cache", "file"} => c.packages # <<>>)
  BY <1>1, CacheAssumption DEF Command
<1>3. ASSUME NEW list, Launch(p, c, list, <<>>), SetsOut(c, list, <<>>)
      PROVE  \E l, rest : Launch(p, c, l, rest) /\ SetsOut(c, l, rest)
  BY <1>3
<1>4. <<>> \in Seq(Packages) /\ Registry \in Seq(Packages)
  BY CacheAssumption, EmptySeq
<1>5. ASSUME NEW T, NEW S, T \in Seq(Packages), S \subseteq Packages, NEW s \in InOrder(T, S)
      PROVE  s \in Seq(Packages) /\ Range(s) = S /\ Distinct(s)
  <2>1. s \in Seq(S) /\ Range(s) = S /\ Distinct(s)
    BY <1>5, InOrderListsOnce
  <2> QED BY <1>5, <2>1, SeqMonotonic
<1>6. CASE cmd_cache_check(p, c)
  <2>1. PICK list \in BrokenVersions : Launch(p, c, list, <<>>)
    BY <1>6 DEF cmd_cache_check
  <2>2. list \in Seq(Packages) /\ Range(list) = {q \in Packages : Broken(q)} /\ Distinct(list)
    BY <1>4, <1>5 DEF BrokenVersions
  <2>3. SetsOut(c, list, <<>>)
    BY <1>4, <1>6, <2>2 DEF SetsOut, cmd_cache_check
  <2> QED BY <1>3, <2>1, <2>3
<1>7. CASE cmd_cache_download_all(p, c)
  <2>1. PICK list \in DownloadQueue(c) : Launch(p, c, list, <<>>)
    BY <1>7 DEF cmd_cache_download_all
  <2>2. /\ list \in Seq(Packages) /\ Distinct(list)
        /\ Range(list) = {q \in Packages \ c.blacklist : ~FullyDownloaded(q)}
    BY <1>4, <1>5 DEF DownloadQueue
  <2>3. SetsOut(c, list, <<>>)
    BY <1>4, <1>7, <2>2 DEF SetsOut, cmd_cache_download_all
  <2> QED BY <1>3, <2>1, <2>3
<1>8. CASE cmd_cache_download_missing(p, c)
  <2>1. PICK list \in MissingList(c) : Launch(p, c, list, <<>>)
    BY <1>8 DEF cmd_cache_download_missing
  <2>2. Range(c.packages) \subseteq Packages
    BY <1>2 DEF Range
  <2>3. /\ list \in Seq(Packages) /\ Distinct(list)
        /\ Range(list) = {q \in Range(c.packages) : ~FullyDownloaded(q)}
    BY <1>2, <1>5, <2>2 DEF MissingList
  <2>4. SetsOut(c, list, <<>>)
    BY <1>4, <1>8, <2>3 DEF SetsOut, cmd_cache_download_missing
  <2> QED BY <1>3, <2>1, <2>4
<1>9. CASE cmd_cache(p, c)
  <2>1. Head(c.packages) \in Packages /\ Tail(c.packages) \in Seq(Packages)
    BY <1>2, <1>9, HeadAndTail DEF cmd_cache
  <2>2. SetsOut(c, <<Head(c.packages)>>, Tail(c.packages))
    BY <1>9, <2>1 DEF SetsOut, cmd_cache
  <2> QED BY <1>9, <2>2 DEF cmd_cache
<1>10. CASE cmd_cache_from(p, c)
  <2>1. Head(c.packages) \in Packages
    BY <1>2, <1>10, HeadAndTail DEF cmd_cache_from
  <2>2. SetsOut(c, <<Head(c.packages)>>, <<>>)
    BY <1>4, <1>10, <2>1 DEF SetsOut, cmd_cache_from
  <2> QED BY <1>3, <1>10, <2>2 DEF cmd_cache_from
<1>11. CASE download_all_packages(p, c)
  <2>1. SetsOut(c, c.packages, <<>>)
    BY <1>2, <1>4, <1>11 DEF SetsOut, download_all_packages
  <2> QED BY <1>3, <1>11, <2>1 DEF download_all_packages
<1> QED BY <1>1, <1>6, <1>7, <1>8, <1>9, <1>10, <1>11

LEMMA StartTyped ==
  ASSUME TypeOK, NEW p \in Processes, Start(p)
  PROVE  TypeOK'
<1> USE DEF TypeOK, LocalTypeOK, Set
<1>1. PICK c, list, rest : c \in Commands /\ Launch(p, c, list, rest) /\ SetsOut(c, list, rest)
  BY StartSetsOut
<1>2. list \in Seq(Packages) /\ rest \in Seq(Packages)
  BY <1>1 DEF SetsOut
<1>3. todo' \in [Processes -> Seq(Packages)] /\ roots' \in [Processes -> Seq(Packages)]
  BY <1>1, <1>2 DEF Launch
<1>4. {q \in Range(list) : Broken(q)} \subseteq Packages
  BY <1>2 DEF Range
<1>5. /\ broken' \in [Processes -> SUBSET Packages] /\ processed' \in [Processes -> SUBSET Packages]
      /\ fetched' \in [Processes -> SUBSET Packages]
  BY <1>1, <1>4 DEF Launch
<1>6. /\ tries' \in [Processes -> 0 .. MaxRetries - 1] /\ ok' \in [Processes -> BOOLEAN]
      /\ command' \in [Processes -> Commands]
  BY <1>1, CacheAssumption DEF Launch
<1>7. pc' \in [Processes -> Stage] /\ \A r \in Processes : pc'[r] \notin {"idle", "next"} => todo'[r] # <<>>
  BY <1>1 DEF Launch, Goto, Stage
<1>8. LocalTypeOK'
  BY <1>3, <1>5, <1>6, <1>7
<1>9. c.ignore_hash \in BOOLEAN
  BY <1>1, CacheAssumption DEF Command
<1>10. unchecked' \in BOOLEAN
  BY <1>1, <1>9 DEF Launch
<1>11. /\ alone' \in [Processes -> BOOLEAN] /\ clean' \in [Processes -> BOOLEAN]
       /\ shortened' \in [Processes -> SUBSET Packages]
  BY <1>1 DEF Launch
<1> QED BY <1>1, <1>8, <1>10, <1>11 DEF Launch

LEMMA LoopTyped ==
  ASSUME TypeOK, NEW p \in Processes, Skip(p) \/ Begin(p) \/ NextRoot(p) \/ Finish(p) \/ Crash(p)
  PROVE  TypeOK'
<1>1. CASE Skip(p)
  <2>1. PICK follow \in BOOLEAN : Visited(p, follow)
    BY <1>1 DEF Skip
  <2>2. LocalTypeOK'
    BY <1>1, <2>1, VisitedTyped DEF Skip, TypeOK, LocalTypeOK
  <2> QED BY <1>1, <2>2 DEF Skip, TypeOK, history
<1>2. CASE Begin(p)
  <2>1. PICK l \in {"remove", "metadata", "repository", "github", "file"} : Goto(p, l)
    BY <1>2, FetchingByRoute DEF Begin
  <2>2. LocalTypeOK'
    <3>1. l \in Stage
      BY DEF Stage
    <3> QED BY <1>2, <2>1, <3>1, MovesTyped DEF Begin, TypeOK
  <2> QED BY <1>2, <2>2 DEF Begin, TypeOK, history
<1>3. CASE NextRoot(p)
  <2>1. Head(roots[p]) \in Packages /\ Tail(roots[p]) \in Seq(Packages)
    BY <1>3, HeadAndTail DEF NextRoot, TypeOK, LocalTypeOK
  <2>2. todo' \in [Processes -> Seq(Packages)] /\ roots' \in [Processes -> Seq(Packages)]
    BY <1>3, <2>1 DEF NextRoot, Set, TypeOK, LocalTypeOK
  <2>3. \A r \in Processes : pc'[r] \notin {"idle", "next"} => todo'[r] # <<>>
    BY <1>3 DEF NextRoot, Set, TypeOK, LocalTypeOK
  <2>4. LocalTypeOK'
    BY <1>3, <2>2, <2>3 DEF NextRoot, TypeOK, LocalTypeOK
  <2> QED BY <1>3, <2>4 DEF NextRoot, TypeOK, history
<1>4. CASE Finish(p)
  <2>1. LocalTypeOK'
    BY <1>4, MovesTyped DEF Finish, TypeOK, Stage
  <2> QED BY <1>4, <2>1 DEF Finish, TypeOK, history
<1>5. CASE Crash(p)
  <2>1. /\ todo' \in [Processes -> Seq(Packages)] /\ roots' \in [Processes -> Seq(Packages)]
        /\ pc' \in [Processes -> Stage]
        /\ \A r \in Processes : pc'[r] \notin {"idle", "next"} => todo'[r] # <<>>
    <3>1. <<>> \in Seq(Packages)
      BY EmptySeq
    <3> QED BY <1>5, <3>1 DEF Crash, Goto, Set, TypeOK, LocalTypeOK, Stage
  <2>2. /\ broken' \in [Processes -> SUBSET Packages] /\ processed' \in [Processes -> SUBSET Packages]
        /\ fetched' \in [Processes -> SUBSET Packages] /\ ok' \in [Processes -> BOOLEAN]
    BY <1>5 DEF Crash, Set, TypeOK, LocalTypeOK
  <2>3. tries' \in [Processes -> 0 .. MaxRetries - 1]
    BY <1>5, CacheAssumption DEF Crash, Set, TypeOK, LocalTypeOK
  <2>4. LocalTypeOK'
    BY <1>5, <2>1, <2>2, <2>3 DEF Crash, TypeOK, LocalTypeOK
  <2> QED BY <1>5, <2>4, FaultsTyped DEF Crash, TypeOK, Set, HistoryTypeOK
<1> QED BY <1>1, <1>2, <1>3, <1>4, <1>5

-----------------------------------------------------------------------------
(* The steps of a download touch the directory of its package and no other *)

Touches(p) ==
  /\ pc[p] \notin {"idle", "next"}
  /\ \E d \in Directory : dir' = [dir EXCEPT ![Pkg(p)] = d]

LEMMA ActiveWorks ==
  ASSUME TypeOK, NEW p \in Processes, pc[p] \notin {"idle", "next"}
  PROVE  /\ todo[p] # <<>> /\ Pkg(p) \in Packages /\ dir[Pkg(p)] \in Directory
         /\ UNCHANGED dir => Touches(p)
<1>1. todo[p] # <<>> /\ Pkg(p) \in Packages
  BY HeadAndTail DEF TypeOK, LocalTypeOK, Pkg
<1>2. dir[Pkg(p)] \in Directory /\ dir = [dir EXCEPT ![Pkg(p)] = dir[Pkg(p)]]
  BY <1>1 DEF TypeOK
<1> QED BY <1>1, <1>2 DEF Touches

LEMMA TouchesTyped ==
  ASSUME TypeOK, NEW p \in Processes, Touches(p), LocalTypeOK', HistoryTypeOK',
         temp' = temp \/ \E x \in {"none", "torn", "good", "bad"} : temp' = Set(temp, p, x)
  PROVE  TypeOK'
<1>1. dir' \in [Packages -> Directory]
  BY DEF TypeOK, Touches
<1>2. temp' \in [Processes -> {"none", "torn", "good", "bad"}]
  BY DEF TypeOK, Set
<1> QED BY <1>1, <1>2 DEF TypeOK, HistoryTypeOK

LEMMA LeftoversTyped ==
  ASSUME NEW d \in Directory, NEW e \in Leftovers(d)
  PROVE  /\ e \in Directory /\ (e.present \/ e = Absent)
         /\ e.src \in SourceLeftovers(d.src) /\ e.elmjson \in {d.elmjson, "none"}
         /\ e.docs \in {d.docs, "none"} /\ (~d.tainted => ~e.tainted)
<1> USE DEF Directory, Absent, Source, File
<1>1. CASE e = Absent
  BY <1>1 DEF SourceLeftovers
<1>2. CASE e # Absent
  <2>1. PICK f \in {d.endpoint, "none"}, g \in {d.elmjson, "none"}, h \in {d.docs, "none"},
             s \in SourceLeftovers(d.src) :
               e = [present |-> TRUE, endpoint |-> f, elmjson |-> g, docs |-> h, src |-> s,
                    tainted |-> d.tainted /\ s \in {"part", "full"}]
    BY <1>2 DEF Leftovers
  <2>2. s \in Source /\ f \in File /\ g \in File /\ h \in File
    BY DEF SourceLeftovers
  <2>3. (d.tainted /\ s \in {"part", "full"}) \in BOOLEAN
    OBVIOUS
  <2> QED BY <2>1, <2>2, <2>3
<1> QED BY <1>1, <1>2

\* The directory that is being removed looks in between like some of its leftovers.
LEMMA RemovingLeaves ==
  ASSUME TypeOK, NEW p \in Processes, NEW from, NEW during, Removing(p, Pkg(p), from, during),
         from \notin {"idle", "next"}
  PROVE  /\ Touches(p)
         /\ \E e \in Directory :
              /\ dir' = [dir EXCEPT ![Pkg(p)] = e] /\ (e.present \/ e = Absent)
              /\ \/ e = Absent
                 \/ /\ e.src \in SourceLeftovers(dir[Pkg(p)].src)
                    /\ e.elmjson \in {dir[Pkg(p)].elmjson, "none"}
                    /\ e.docs \in {dir[Pkg(p)].docs, "none"}
                    /\ ~dir[Pkg(p)].tainted => ~e.tainted
<1>1. Pkg(p) \in Packages /\ dir[Pkg(p)] \in Directory /\ pc[p] = from
  BY ActiveWorks DEF Removing
<1>2. PICK e \in IF dir[Pkg(p)].present THEN Leftovers(dir[Pkg(p)]) ELSE {Absent} :
        dir' = [dir EXCEPT ![Pkg(p)] = e]
  BY DEF Removing
<1>3. Absent \in Directory
  BY DEF Absent, Directory, File, Source
<1>4. CASE e = Absent
  BY <1>1, <1>2, <1>3, <1>4 DEF Touches
<1>5. CASE e # Absent
  <2>1. e \in Leftovers(dir[Pkg(p)])
    BY <1>2, <1>5
  <2> QED BY <1>1, <1>2, <2>1, LeftoversTyped DEF Touches
<1> QED BY <1>4, <1>5

LEMMA RemovalTyped ==
  ASSUME TypeOK, NEW p \in Processes,
         RemoveDirectory(p) \/ DirectoryRemoved(p) \/ Replace(p) \/ Replaced(p)
  PROVE  TypeOK' /\ Touches(p)
<1>1. CASE RemoveDirectory(p)
  <2>1. Removing(p, Pkg(p), "remove", "removing")
    BY <1>1 DEF RemoveDirectory
  <2>2. Touches(p)
    BY <2>1, RemovingLeaves
  <2>3. LocalTypeOK'
    BY <1>1, <2>1, MovesTyped DEF RemoveDirectory, Removing, TypeOK, Stage
  <2> QED BY <2>1, <2>2, <2>3, TouchesTyped, FaultsTyped DEF Removing
<1>2. CASE Replace(p)
  <2>1. Removing(p, Pkg(p), "replace", "replacing")
    BY <1>2 DEF Replace
  <2>2. Touches(p)
    BY <2>1, RemovingLeaves
  <2>3. LocalTypeOK'
    BY <1>2, <2>1, MovesTyped DEF Replace, Removing, TypeOK, Stage
  <2> QED BY <2>1, <2>2, <2>3, TouchesTyped, FaultsTyped DEF Removing
<1>3. Absent \in Directory
  BY DEF Absent, Directory, File, Source
<1>4. CASE DirectoryRemoved(p)
  <2>1. pc[p] = "removing" /\ todo[p] # <<>>
    BY <1>4, ActiveWorks DEF DirectoryRemoved
  <2>2. Touches(p)
    BY <1>3, <1>4, <2>1, ActiveWorks DEF DirectoryRemoved, Touches
  <2>3. LocalTypeOK'
    <3>1. CASE command[p].kind = "purge"
      BY <1>4, <2>1, <3>1, VisitedTyped DEF DirectoryRemoved, TypeOK, LocalTypeOK
    <3>2. CASE command[p].kind # "purge"
      <4>1. Fetching(p) \in Stage
        BY FetchingByRoute DEF Stage
      <4> QED BY <1>4, <2>1, <3>2, <4>1, MovesTyped DEF DirectoryRemoved, TypeOK
    <3> QED BY <3>1, <3>2
  <2> QED BY <1>4, <2>2, <2>3, TouchesTyped, FaultsTyped DEF DirectoryRemoved
<1>5. CASE Replaced(p)
  <2>1. pc[p] = "replacing" /\ todo[p] # <<>>
    BY <1>5, ActiveWorks DEF Replaced
  <2>2. Touches(p)
    BY <1>3, <1>5, <2>1, ActiveWorks DEF Replaced, Touches
  <2>3. LocalTypeOK'
    BY <1>5, <2>1, MovesTyped DEF Replaced, TypeOK, Stage
  <2> QED BY <1>5, <2>2, <2>3, TouchesTyped, FaultsTyped DEF Replaced
<1> QED BY <1>1, <1>2, <1>4, <1>5

-----------------------------------------------------------------------------
(* The metadata files *)

\* The file that is opened next, or else the archive.
Opens(d, i) ==
  IF i < 1 /\ d.endpoint = "none" THEN "endpoint"
  ELSE IF i < 2 /\ d.elmjson = "none" THEN "elmjson"
  ELSE IF i < 3 /\ d.docs = "none" THEN "docs"
  ELSE "archive"

\* A file is opened in its place.
Opened(d, l) == [d EXCEPT !.present = TRUE, ![l] = "torn"]

LEMMA OpensNext ==
  ASSUME NEW p \in Processes, NEW d \in Directory, NEW i \in 0 .. 3, OpenNext(p, d, i)
  PROVE  /\ Goto(p, Opens(d, i))
         /\ Opens(d, i) = "archive" => dir' = [dir EXCEPT ![Pkg(p)] = d]
         /\ Opens(d, i) # "archive" =>
              dir' = [dir EXCEPT ![Pkg(p)] = Opened(d, Opens(d, i))]
<1> DEFINE F == Following(d, i)
<1>1. /\ 1 \in F <=> i < 1 /\ d.endpoint = "none"
      /\ 2 \in F <=> i < 2 /\ d.elmjson = "none"
      /\ 3 \in F <=> i < 3 /\ d.docs = "none"
      /\ F \subseteq {1, 2, 3}
  BY DEF Following, MetadataFiles, Directory
<1>2. CASE F = {}
  <2>1. Opens(d, i) = "archive"
    BY <1>1, <1>2 DEF Opens
  <2> QED BY <1>2, <2>1 DEF OpenNext
<1>3. CASE F # {}
  <2> DEFINE m == Min(F)
  <2>1. \E x \in F : \A y \in F : x =< y
    BY <1>1, <1>3
  <2>2. m \in F /\ \A y \in F : m =< y
    BY <2>1 DEF Min
  <2>3. MetadataFiles[m] = Opens(d, i)
    <3> HIDE DEF m, F
    <3>1. CASE m = 1
      BY <1>1, <2>2, <3>1 DEF Opens, MetadataFiles
    <3>2. CASE m = 2
      BY <1>1, <2>2, <3>2 DEF Opens, MetadataFiles
    <3>3. CASE m = 3
      BY <1>1, <2>2, <3>3 DEF Opens, MetadataFiles
    <3> QED BY <1>1, <2>2, <3>1, <3>2, <3>3
  <2>4. Opens(d, i) # "archive"
    BY <1>1, <1>3 DEF Opens
  <2> QED BY <1>3, <2>3, <2>4 DEF OpenNext, Opened
<1> QED BY <1>2, <1>3

\* One file less is missing.
LEMMA OpensTyped ==
  ASSUME TypeOK, NEW p \in Processes, NEW d \in Directory, NEW i \in 0 .. 3, OpenNext(p, d, i),
         d.present \/ d = Absent, pc[p] \notin {"idle", "next"}
  PROVE  /\ Touches(p) /\ Goto(p, Opens(d, i))
         /\ Opens(d, i) \in {"endpoint", "elmjson", "docs", "archive"}
         /\ \E e \in Directory : 
              /\ dir' = [dir EXCEPT ![Pkg(p)] = e] /\ (e.present \/ e = Absent)
              /\ e.src = d.src /\ e.tainted = d.tainted
<1> DEFINE l == Opens(d, i)
<1>1. l \in {"endpoint", "elmjson", "docs", "archive"}
  BY DEF Opens
<1>2. Goto(p, l)
  BY OpensNext
<1>3. \E e \in Directory : 
              /\ dir' = [dir EXCEPT ![Pkg(p)] = e] /\ (e.present \/ e = Absent)
              /\ e.src = d.src /\ e.tainted = d.tainted
  <2>1. CASE l = "archive"
    BY <2>1, OpensNext
  <2>2. CASE l # "archive"
    <3> DEFINE e == Opened(d, l)
    <3>1. dir' = [dir EXCEPT ![Pkg(p)] = e]
      BY <2>2, OpensNext
    <3>2. e \in Directory /\ e.present /\ e.src = d.src /\ e.tainted = d.tainted
      <4> HIDE DEF l
      <4> QED BY <1>1, <2>2 DEF Directory, File, Opened
    <3> HIDE DEF e
    <3> QED BY <3>1, <3>2
  <2> QED BY <2>1, <2>2
<1> QED BY <1>1, <1>2, <1>3 DEF Touches

LEMMA StageOfFile ==
  ASSUME NEW f \in Range(MetadataFiles)
  PROVE  /\ f \in {"endpoint", "elmjson", "docs"}
         /\ IndexOf(f) = IF f = "endpoint" THEN 1 ELSE IF f = "elmjson" THEN 2 ELSE 3
<1>1. f \in {"endpoint", "elmjson", "docs"}
  BY DEF Range, MetadataFiles
<1>2. DOMAIN MetadataFiles = 1 .. 3 /\ MetadataFiles[1] = "endpoint" /\ MetadataFiles[2] = "elmjson"
      /\ MetadataFiles[3] = "docs"
  BY DEF MetadataFiles
<1>3. \E i \in DOMAIN MetadataFiles : MetadataFiles[i] = f
  BY <1>1, <1>2
<1>4. IndexOf(f) \in 1 .. 3 /\ MetadataFiles[IndexOf(f)] = f
  BY <1>2, <1>3 DEF IndexOf
<1> QED BY <1>1, <1>2, <1>4

LEMMA OpeningTyped ==
  ASSUME TypeOK, NEW p \in Processes, pc[p] \notin {"idle", "next"}, NEW d \in Directory,
         d.present \/ d = Absent, NEW i \in 0 .. 3, OpenNext(p, d, i), NoFault \/ Noticed,
         UNCHANGED <<command, roots, todo, broken, processed, tries, ok, temp, fetched>>
  PROVE  TypeOK' /\ Touches(p)
<1>1. Touches(p) /\ Goto(p, Opens(d, i)) /\ Opens(d, i) \in Stage /\ todo[p] # <<>>
  BY OpensTyped, ActiveWorks DEF Stage
<1>2. LocalTypeOK'
  BY <1>1, MovesTyped DEF TypeOK
<1> QED BY <1>1, <1>2, TouchesTyped, FaultsTyped

\* What has arrived is there; a directory that was removed meanwhile is not.
ArrivedDir(d, f) == IF d[f] = "none" THEN d ELSE [d EXCEPT ![f] = "ok"]

LEMMA ArrivedDirTyped ==
  ASSUME NEW d \in Directory, NEW f \in {"endpoint", "elmjson", "docs"}, d.present \/ d = Absent
  PROVE  /\ ArrivedDir(d, f) \in Directory
         /\ ArrivedDir(d, f).present \/ ArrivedDir(d, f) = Absent
         /\ ArrivedDir(d, f).src = d.src /\ ArrivedDir(d, f).tainted = d.tainted
<1>1. CASE f = "endpoint"
  <2>1. ArrivedDir(d, f) = IF d.endpoint = "none" THEN d ELSE [d EXCEPT !.endpoint = "ok"]
    BY <1>1 DEF ArrivedDir
  <2>2. CASE d.endpoint = "none"
    BY <2>1, <2>2
  <2>3. CASE d.endpoint # "none"
    <3>1. d.present
      BY <2>3 DEF Absent
    <3> QED BY <2>1, <2>3, <3>1 DEF Directory, File
  <2> QED BY <2>2, <2>3
<1>2. CASE f = "elmjson"
  <2>1. ArrivedDir(d, f) = IF d.elmjson = "none" THEN d ELSE [d EXCEPT !.elmjson = "ok"]
    BY <1>2 DEF ArrivedDir
  <2>2. CASE d.elmjson = "none"
    BY <2>1, <2>2
  <2>3. CASE d.elmjson # "none"
    <3>1. d.present
      BY <2>3 DEF Absent
    <3> QED BY <2>1, <2>3, <3>1 DEF Directory, File
  <2> QED BY <2>2, <2>3
<1>3. CASE f = "docs"
  <2>1. ArrivedDir(d, f) = IF d.docs = "none" THEN d ELSE [d EXCEPT !.docs = "ok"]
    BY <1>3 DEF ArrivedDir
  <2>2. CASE d.docs = "none"
    BY <2>1, <2>2
  <2>3. CASE d.docs # "none"
    <3>1. d.present
      BY <2>3 DEF Absent
    <3> QED BY <2>1, <2>3, <3>1 DEF Directory, File
  <2> QED BY <2>2, <2>3
<1> QED BY <1>1, <1>2, <1>3

LEMMA ArrivedOpens ==
  ASSUME TypeOK, NEW p \in Processes, Arrived(p)
  PROVE  /\ pc[p] \in {"endpoint", "elmjson", "docs"} /\ IndexOf(pc[p]) \in 0 .. 3
         /\ pc[p] = "elmjson" => dir[Pkg(p)].elmjson # "none"
         /\ OpenNext(p, ArrivedDir(dir[Pkg(p)], pc[p]), IndexOf(pc[p]))
BY StageOfFile DEF Arrived, ArrivedDir

\* A file that did not arrive is removed or left torn.
LEMMA NotArrivedLeaves ==
  ASSUME TypeOK, PresentOrAbsent, NEW p \in Processes, NotArrived(p)
  PROVE  \E e \in Directory :
           /\ dir' = [dir EXCEPT ![Pkg(p)] = e] /\ (e.present \/ e = Absent)
           /\ e.src = dir[Pkg(p)].src /\ e.tainted = dir[Pkg(p)].tainted
           /\ e.elmjson = "ok" => dir[Pkg(p)].elmjson = "ok"
<1>1. /\ pc[p] \in {"endpoint", "elmjson", "docs"} /\ Pkg(p) \in Packages
      /\ dir[Pkg(p)] \in Directory /\ dir \in [Packages -> Directory]
      /\ dir[Pkg(p)].present \/ dir[Pkg(p)] = Absent
  BY StageOfFile, ActiveWorks DEF NotArrived, TypeOK, PresentOrAbsent
<1>2. PICK left \in {"none", "torn"} :
        /\ left = "torn" => dir[Pkg(p)][pc[p]] = "torn"
        /\ dir' = [dir EXCEPT ![Pkg(p)][pc[p]] = left]
  BY DEF NotArrived
<1> DEFINE d == dir[Pkg(p)]
           e == [d EXCEPT ![pc[p]] = left]
<1>3. dir' = [dir EXCEPT ![Pkg(p)] = e]
  BY <1>1, <1>2
<1>4. /\ e \in Directory /\ (e.present \/ e = Absent)
      /\ e.src = d.src /\ e.tainted = d.tainted /\ (e.elmjson = "ok" => d.elmjson = "ok")
  <2> HIDE DEF d
  <2>1. d \in Directory /\ (d.present \/ d = Absent) /\ (left = "torn" => d[pc[p]] = "torn")
    BY <1>1, <1>2 DEF d
  <2>2. CASE pc[p] = "endpoint"
    <3>1. e = [d EXCEPT !.endpoint = left] /\ (left = "torn" => d.endpoint = "torn")
      BY <2>1, <2>2
    <3>2. d.present \/ (left = "none" /\ d = Absent)
      BY <2>1, <3>1 DEF Absent
    <3> HIDE DEF e
    <3>3. e \in Directory /\ e.src = d.src /\ e.tainted = d.tainted /\ (e.elmjson = "ok" => d.elmjson = "ok")
      BY <2>1, <3>1 DEF Directory, File
    <3>4. CASE d.present
      BY <2>1, <3>1, <3>3, <3>4 DEF Directory
    <3>5. CASE d = Absent /\ left = "none"
      <4>1. e = Absent
        BY <3>1, <3>5 DEF Absent
      <4> QED BY <3>3, <4>1
    <3> QED BY <3>2, <3>3, <3>4, <3>5
  <2>3. CASE pc[p] = "elmjson"
    <3>1. e = [d EXCEPT !.elmjson = left] /\ (left = "torn" => d.elmjson = "torn")
      BY <2>1, <2>3
    <3>2. d.present \/ (left = "none" /\ d = Absent)
      BY <2>1, <3>1 DEF Absent
    <3> HIDE DEF e
    <3>3. e \in Directory /\ e.src = d.src /\ e.tainted = d.tainted /\ (e.elmjson = "ok" => d.elmjson = "ok")
      BY <2>1, <3>1 DEF Directory, File
    <3>4. CASE d.present
      BY <2>1, <3>1, <3>3, <3>4 DEF Directory
    <3>5. CASE d = Absent /\ left = "none"
      <4>1. e = Absent
        BY <3>1, <3>5 DEF Absent
      <4> QED BY <3>3, <4>1
    <3> QED BY <3>2, <3>3, <3>4, <3>5
  <2>4. CASE pc[p] = "docs"
    <3>1. e = [d EXCEPT !.docs = left] /\ (left = "torn" => d.docs = "torn")
      BY <2>1, <2>4
    <3>2. d.present \/ (left = "none" /\ d = Absent)
      BY <2>1, <3>1 DEF Absent
    <3> HIDE DEF e
    <3>3. e \in Directory /\ e.src = d.src /\ e.tainted = d.tainted /\ (e.elmjson = "ok" => d.elmjson = "ok")
      BY <2>1, <3>1 DEF Directory, File
    <3>4. CASE d.present
      BY <2>1, <3>1, <3>3, <3>4 DEF Directory
    <3>5. CASE d = Absent /\ left = "none"
      <4>1. e = Absent
        BY <3>1, <3>5 DEF Absent
      <4> QED BY <3>3, <4>1
    <3> QED BY <3>2, <3>3, <3>4, <3>5
  <2> QED BY <1>1, <2>2, <2>3, <2>4
<1> HIDE DEF e
<1> QED BY <1>3, <1>4

LEMMA MetadataTyped ==
  ASSUME TypeOK, PresentOrAbsent, NEW p \in Processes,
         Offline(p) \/ Metadata(p) \/ Arrived(p) \/ ArrivedWrong(p) \/ NotArrived(p) \/ BadEndpoint(p)
  PROVE  TypeOK' /\ Touches(p)
<1>1. /\ pc[p] \notin {"idle", "next"} /\ todo[p] # <<>> /\ Pkg(p) \in Packages
      /\ dir[Pkg(p)] \in Directory /\ (dir[Pkg(p)].present \/ dir[Pkg(p)] = Absent)
  <2>1. pc[p] \notin {"idle", "next"}
    BY StageOfFile DEF Offline, Metadata, Arrived, ArrivedWrong, NotArrived, BadEndpoint
  <2> QED BY <2>1, ActiveWorks DEF PresentOrAbsent
<1>2. CASE Offline(p) \/ BadEndpoint(p)
  <2>1. LocalTypeOK'
    BY <1>1, <1>2, FailedTyped DEF Offline, BadEndpoint
  <2>2. Touches(p)
    BY <1>1, <1>2, ActiveWorks DEF Offline, BadEndpoint
  <2> QED BY <1>2, <2>1, <2>2, TouchesTyped, FaultsTyped DEF Offline, BadEndpoint
<1>3. CASE Metadata(p)
  <2>1. CASE Goto(p, "archive") /\ UNCHANGED dir
    <3>1. LocalTypeOK'
      BY <1>1, <1>3, <2>1, MovesTyped DEF Metadata, TypeOK, Stage
    <3> QED BY <1>1, <1>3, <2>1, <3>1, ActiveWorks, TouchesTyped, FaultsTyped DEF Metadata
  <2>2. CASE OpenNext(p, dir[Pkg(p)], 0)
    BY <1>1, <1>3, <2>2, OpeningTyped DEF Metadata
  <2> QED BY <1>3, <2>1, <2>2 DEF Metadata
<1>4. CASE Arrived(p)
  <2>1. /\ pc[p] \in {"endpoint", "elmjson", "docs"} /\ IndexOf(pc[p]) \in 0 .. 3
        /\ OpenNext(p, ArrivedDir(dir[Pkg(p)], pc[p]), IndexOf(pc[p]))
    BY <1>4, ArrivedOpens
  <2>2. /\ ArrivedDir(dir[Pkg(p)], pc[p]) \in Directory
        /\ ArrivedDir(dir[Pkg(p)], pc[p]).present \/ ArrivedDir(dir[Pkg(p)], pc[p]) = Absent
    BY <1>1, <2>1, ArrivedDirTyped
  <2> QED BY <1>1, <1>4, <2>1, <2>2, OpeningTyped DEF Arrived
<1>5. CASE ArrivedWrong(p)
  <2>1. IndexOf(pc[p]) \in 0 .. 3
    <3>1. pc[p] \in Range(MetadataFiles)
      <4>1. MetadataFiles[1] = "endpoint" /\ MetadataFiles[3] = "docs" /\ {1, 3} \subseteq DOMAIN MetadataFiles
        BY DEF MetadataFiles
      <4> QED BY <1>5, <4>1 DEF ArrivedWrong, Range
    <3> QED BY <3>1, StageOfFile
  <2> QED BY <1>1, <1>5, <2>1, OpeningTyped DEF ArrivedWrong
<1>6. CASE NotArrived(p)
  <2>1. LocalTypeOK'
    BY <1>1, <1>6, FailedTyped DEF NotArrived
  <2>2. Touches(p)
    BY <1>1, <1>6, NotArrivedLeaves DEF Touches
  <2> QED BY <1>6, <2>1, <2>2, TouchesTyped, FaultsTyped DEF NotArrived
<1> QED BY <1>2, <1>3, <1>4, <1>5, <1>6

-----------------------------------------------------------------------------
(* The archive and the files in it *)

LEMMA ArchiveTyped ==
  ASSUME TypeOK, NEW p \in Processes,
         OpenArchive(p) \/ Download(p) \/ GitHub(p) \/ FromFile(p) \/ FromRepository(p) \/ NotExtracted(p)
  PROVE  TypeOK' /\ Touches(p)
<1>1. pc[p] \notin {"idle", "next"} /\ todo[p] # <<>> /\ Touches(p)
  <2>1. pc[p] \notin {"idle", "next"} /\ UNCHANGED dir
    BY DEF OpenArchive, Download, GitHub, FromFile, FromRepository, NotExtracted
  <2> QED BY <2>1, ActiveWorks
<1>2. HistoryTypeOK'
  BY FaultsTyped DEF OpenArchive, Download, GitHub, FromFile, FromRepository, NotExtracted
<1>3. temp' = temp \/ \E x \in {"none", "torn", "good", "bad"} : temp' = Set(temp, p, x)
  BY DEF OpenArchive, Download, Discard, GitHub, FromFile, FromRepository, NotExtracted
<1>4. \/ Failed(p)
      \/ /\ \E l \in {"download", "extract", "file", "replace", "copy"} : Goto(p, l)
         /\ UNCHANGED <<command, roots, todo, broken, processed, tries, ok, fetched>>
  BY DEF OpenArchive, Download, GitHub, FromFile, FromRepository, NotExtracted
<1>5. LocalTypeOK'
  BY <1>1, <1>4, FailedTyped, MovesTyped DEF TypeOK, Stage
<1> QED BY <1>1, <1>2, <1>3, <1>5, TouchesTyped

LEMMA SucceededTyped ==
  ASSUME TypeOK, NEW p \in Processes, todo[p] # <<>>, Succeeded(p)
  PROVE  LocalTypeOK'
<1>1. PICK follow \in BOOLEAN : Visited(p, follow)
  BY DEF Succeeded
<1>2. Pkg(p) \in Packages
  BY HeadAndTail DEF TypeOK, LocalTypeOK, Pkg
<1>3. fetched' \in [Processes -> SUBSET Packages] /\ ok' \in [Processes -> BOOLEAN]
  BY <1>2 DEF Succeeded, Set, TypeOK, LocalTypeOK
<1> QED BY <1>1, <1>3, VisitedTyped

\* What Extract and Copy write first.
LEMMA WritingLeaves ==
  ASSUME TypeOK, NEW p \in Processes, Extract(p) \/ Copy(p)
  PROVE  \E e \in Directory :
           /\ dir' = [dir EXCEPT ![Pkg(p)] = e] /\ e.present /\ e.src \in {"empty", "part"}
           /\ e.tainted = Tainted(p, dir[Pkg(p)]) /\ e.endpoint = dir[Pkg(p)].endpoint
           /\ Extract(p) =>
                /\ e.elmjson = IF dir[Pkg(p)].elmjson = "none" THEN "ok" ELSE dir[Pkg(p)].elmjson
                /\ e.docs = IF dir[Pkg(p)].docs = "none" THEN "ok" ELSE dir[Pkg(p)].docs
<1>1. Pkg(p) \in Packages /\ dir[Pkg(p)] \in Directory
  BY ActiveWorks DEF Extract, Copy
<1>2. Tainted(p, dir[Pkg(p)]) \in BOOLEAN
  BY <1>1 DEF Tainted, Directory
<1>3. \A s \in Filling(dir[Pkg(p)].src) : s \in {"empty", "part"} /\ s \in Source
  BY DEF Filling, Source
<1> DEFINE d == dir[Pkg(p)]
           t == Tainted(p, dir[Pkg(p)])
<1>4. CASE Extract(p)
  <2>1. PICK s \in Filling(d.src) :
          dir' = [dir EXCEPT ![Pkg(p)] =
                    [d EXCEPT !.present = TRUE, !.elmjson = IF @ = "none" THEN "ok" ELSE @,
                              !.docs = IF @ = "none" THEN "ok" ELSE @, !.src = s, !.tainted = t]]
    BY <1>4 DEF Extract
  <2> HIDE DEF d, t
  <2>2. d \in Directory /\ t \in BOOLEAN /\ s \in {"empty", "part"} /\ s \in Source
    BY <1>1, <1>2, <1>3 DEF d, t
  <2> DEFINE e == [d EXCEPT !.present = TRUE, !.elmjson = IF @ = "none" THEN "ok" ELSE @,
                            !.docs = IF @ = "none" THEN "ok" ELSE @, !.src = s, !.tainted = t]
  <2>3. /\ e \in Directory /\ e.present /\ e.src \in {"empty", "part"} /\ e.tainted = t
        /\ e.endpoint = d.endpoint
        /\ e.elmjson = IF d.elmjson = "none" THEN "ok" ELSE d.elmjson
        /\ e.docs = IF d.docs = "none" THEN "ok" ELSE d.docs
    BY <2>2 DEF Directory, File
  <2>4. dir' = [dir EXCEPT ![Pkg(p)] = e]
    BY <2>1
  <2> HIDE DEF e
  <2> QED BY <2>3, <2>4 DEF d, t
<1>5. CASE Copy(p)
  <2>1. PICK s \in Filling(d.src), c \in {d.docs, "ok"} :
          dir' = [dir EXCEPT ![Pkg(p)] =
                    [d EXCEPT !.present = TRUE, !.elmjson = "ok", !.docs = c, !.src = s, !.tainted = t]]
    BY <1>5 DEF Copy
  <2>5. ~Extract(p)
    BY <1>5 DEF Copy, Extract
  <2> HIDE DEF d, t
  <2>2. d \in Directory /\ t \in BOOLEAN /\ s \in {"empty", "part"} /\ s \in Source
    BY <1>1, <1>2, <1>3 DEF d, t
  <2> DEFINE e == [d EXCEPT !.present = TRUE, !.elmjson = "ok", !.docs = c, !.src = s, !.tainted = t]
  <2>3. /\ e \in Directory /\ e.present /\ e.src \in {"empty", "part"} /\ e.tainted = t
        /\ e.endpoint = d.endpoint
    BY <2>2 DEF Directory, File
  <2>4. dir' = [dir EXCEPT ![Pkg(p)] = e]
    BY <2>1
  <2> HIDE DEF e
  <2> QED BY <2>3, <2>4, <2>5 DEF d, t
<1> QED BY <1>4, <1>5

\* All of src/ is there, or another process has interfered.
LEMMA FilledLeaves ==
  ASSUME TypeOK, NEW p \in Processes, Extracted(p) \/ Copied(p)
  PROVE  \E e \in Directory :
           /\ dir' = [dir EXCEPT ![Pkg(p)] = e] /\ e.present /\ e.src \in {"part", "full"}
           /\ ~Others(p) => e.src = "full"
           /\ dir[Pkg(p)].tainted = FALSE /\ temp[p] # "bad" => e.tainted = FALSE
           /\ e.endpoint = dir[Pkg(p)].endpoint /\ e.elmjson = dir[Pkg(p)].elmjson
           /\ e.docs = dir[Pkg(p)].docs
<1>1. Pkg(p) \in Packages /\ dir[Pkg(p)] \in Directory
  BY ActiveWorks DEF Extracted, Copied
<1>2. PICK s \in Filled(p) : dir' = [dir EXCEPT ![Pkg(p)] = Fill(p, dir[Pkg(p)], s)]
  BY DEF Extracted, Copied
<1>3. s \in {"part", "full"} /\ (~Others(p) => s = "full")
  BY DEF Filled
<1> DEFINE d == dir[Pkg(p)]
           t == IF s = "full" THEN temp[p] = "bad" ELSE Tainted(p, d)
           e == [d EXCEPT !.present = TRUE, !.src = s, !.tainted = t]
<1>4. t \in BOOLEAN /\ (d.tainted = FALSE /\ temp[p] # "bad" => t = FALSE)
  BY <1>1 DEF Tainted, Directory
<1>5. dir' = [dir EXCEPT ![Pkg(p)] = e]
  BY <1>2 DEF Fill
<1>6. /\ e \in Directory /\ e.present /\ e.src = s /\ e.tainted = t /\ e.endpoint = d.endpoint
      /\ e.elmjson = d.elmjson /\ e.docs = d.docs
  <2> HIDE DEF d, t
  <2>1. d \in Directory
    BY <1>1 DEF d
  <2> QED BY <1>3, <1>4, <2>1 DEF Directory, Source
<1> HIDE DEF e, t
<1> QED BY <1>3, <1>4, <1>5, <1>6

LEMMA NotCopiedLeaves ==
  ASSUME TypeOK, NEW p \in Processes, NotCopied(p)
  PROVE  \E e \in Directory :
           /\ dir' = [dir EXCEPT ![Pkg(p)] = e] /\ e.present
           /\ e.src # "full" \/ e.elmjson # "ok" \/ e.docs # "ok"
           /\ e.tainted = dir[Pkg(p)].tainted
<1>1. Pkg(p) \in Packages /\ dir[Pkg(p)] \in Directory
  BY ActiveWorks DEF NotCopied
<1> DEFINE d == dir[Pkg(p)]
<1>2. PICK s \in {d.src, "full"}, f \in File, c \in {"torn", "ok"} :
        /\ s # "full" \/ f # "ok" \/ c # "ok"
        /\ dir' = [dir EXCEPT ![Pkg(p)] = [d EXCEPT !.present = TRUE, !.src = s, !.elmjson = f, !.docs = c]]
  BY DEF NotCopied
<1> DEFINE e == [d EXCEPT !.present = TRUE, !.src = s, !.elmjson = f, !.docs = c]
<1>3. /\ e \in Directory /\ e.present /\ e.tainted = d.tainted
      /\ e.src # "full" \/ e.elmjson # "ok" \/ e.docs # "ok"
  <2>1. d \in Directory /\ s \in Source /\ c \in File
    BY <1>1 DEF Directory, Source, File
  <2> HIDE DEF d
  <2> QED BY <1>2, <2>1 DEF Directory
<1>4. dir' = [dir EXCEPT ![Pkg(p)] = e]
  BY <1>2
<1> HIDE DEF e
<1> QED BY <1>3, <1>4

\* What a copy leaves that has lost bytes.
LEMMA ShortLeaves ==
  ASSUME TypeOK, NEW p \in Processes, CopiedShort(p)
  PROVE  \E e \in Directory :
           /\ dir' = [dir EXCEPT ![Pkg(p)] = e] /\ e.present
           /\ dir[Pkg(p)].tainted = FALSE /\ temp[p] # "bad" => e.tainted = FALSE
<1>1. Pkg(p) \in Packages /\ dir[Pkg(p)] \in Directory
  BY ActiveWorks DEF CopiedShort
<1> DEFINE d == dir[Pkg(p)]
<1>2. PICK s \in {"part", "full"}, f \in Shortened(d.elmjson), c \in Shortened(d.docs) :
        dir' = [dir EXCEPT ![Pkg(p)] = [Fill(p, d, s) EXCEPT !.elmjson = f, !.docs = c]]
  BY DEF CopiedShort
<1>3. f \in File /\ c \in File /\ s \in Source
  BY <1>1, <1>2 DEF Shortened, File, Directory, Source
<1> DEFINE t == IF s = "full" THEN temp[p] = "bad" ELSE Tainted(p, d)
           g == [d EXCEPT !.present = TRUE, !.src = s, !.tainted = t]
           e == [g EXCEPT !.elmjson = f, !.docs = c]
<1>4. t \in BOOLEAN /\ (d.tainted = FALSE /\ temp[p] # "bad" => t = FALSE)
  BY <1>1 DEF Tainted, Directory
<1>5. dir' = [dir EXCEPT ![Pkg(p)] = e]
  BY <1>2 DEF Fill
<1>6. g \in Directory /\ g.present /\ g.tainted = t
  <2> HIDE DEF d, t
  <2>1. d \in Directory
    BY <1>1 DEF d
  <2> QED BY <1>3, <1>4, <2>1 DEF Directory
<1>7. e \in Directory /\ e.present /\ e.tainted = t
  <2> HIDE DEF g, t
  <2> QED BY <1>3, <1>6 DEF Directory
<1> HIDE DEF e, t
<1> QED BY <1>4, <1>5, <1>7

LEMMA WritingTyped ==
  ASSUME TypeOK, NEW p \in Processes,
         Extract(p) \/ Extracted(p) \/ Copy(p) \/ Copied(p) \/ CopiedShort(p) \/ NotCopied(p)
  PROVE  TypeOK' /\ Touches(p)
<1>1. pc[p] \notin {"idle", "next"} /\ todo[p] # <<>> /\ Pkg(p) \in Packages
  <2>1. pc[p] \notin {"idle", "next"}
    BY DEF Extract, Extracted, Copy, Copied, CopiedShort, NotCopied
  <2> QED BY <2>1, ActiveWorks
<1>2. Touches(p)
  <2>1. \E e \in Directory : dir' = [dir EXCEPT ![Pkg(p)] = e]
    BY WritingLeaves, FilledLeaves, ShortLeaves, NotCopiedLeaves
  <2> QED BY <1>1, <2>1 DEF Touches
<1>3. HistoryTypeOK'
  <2>1. CASE CopiedShort(p)
    <3>1. shortened' \in [Processes -> SUBSET Packages]
      BY <1>1, <2>1 DEF CopiedShort, Set, TypeOK
    <3> QED BY <2>1, <3>1, FaultsTyped DEF CopiedShort
  <2>2. CASE Extract(p) \/ Extracted(p) \/ Copy(p) \/ Copied(p) \/ NotCopied(p)
    BY <2>2, FaultsTyped DEF Extract, Extracted, Copy, Copied, NotCopied
  <2> QED BY <2>1, <2>2
<1>4. temp' = temp \/ temp' = Set(temp, p, "none")
  BY DEF Extract, Extracted, Copy, Copied, CopiedShort, NotCopied
<1>5. \/ Failed(p) \/ Succeeded(p)
      \/ /\ \E l \in {"extracting", "copying"} : Goto(p, l)
         /\ UNCHANGED <<command, roots, todo, broken, processed, tries, ok, fetched>>
  BY DEF Extract, Extracted, Copy, Copied, CopiedShort, NotCopied
<1>6. LocalTypeOK'
  BY <1>1, <1>5, FailedTyped, SucceededTyped, MovesTyped DEF TypeOK, Stage
<1> QED BY <1>2, <1>3, <1>4, <1>6, TouchesTyped

LEMMA AlreadyPresentTyped ==
  ASSUME TypeOK, NEW p \in Processes, AlreadyPresent(p)
  PROVE  TypeOK' /\ Touches(p)
<1>1. pc[p] \notin {"idle", "next"} /\ todo[p] # <<>> /\ Touches(p)
  BY ActiveWorks DEF AlreadyPresent
<1>2. HistoryTypeOK' /\ temp' = temp /\ LocalTypeOK'
  BY <1>1, FaultsTyped, SucceededTyped DEF AlreadyPresent
<1> QED BY <1>1, <1>2, TouchesTyped

-----------------------------------------------------------------------------
(* All that a command does to a package *)

Work(p) ==
  \/ RemoveDirectory(p) \/ DirectoryRemoved(p)
  \/ Offline(p) \/ Metadata(p) \/ Arrived(p) \/ ArrivedWrong(p) \/ NotArrived(p)
  \/ BadEndpoint(p) \/ OpenArchive(p) \/ Download(p)
  \/ Extract(p) \/ Extracted(p) \/ NotExtracted(p)
  \/ GitHub(p) \/ FromFile(p) \/ FromRepository(p) \/ AlreadyPresent(p)
  \/ Replace(p) \/ Replaced(p)
  \/ Copy(p) \/ Copied(p) \/ CopiedShort(p) \/ NotCopied(p)

LEMMA PresentStays ==
  ASSUME TypeOK, PresentOrAbsent, NEW p,
         \E e \in Directory : dir' = [dir EXCEPT ![Pkg(p)] = e] /\ (e.present \/ e = Absent)
  PROVE  PresentOrAbsent'
BY DEF TypeOK, PresentOrAbsent

LEMMA WorkTyped ==
  ASSUME TypeOK, PresentOrAbsent, NEW p \in Processes, Work(p)
  PROVE  TypeOK' /\ Touches(p) /\ PresentOrAbsent'
<1>1. TypeOK' /\ Touches(p)
  BY RemovalTyped, MetadataTyped, ArchiveTyped, WritingTyped, AlreadyPresentTyped DEF Work
<1> SUFFICES PresentOrAbsent'
  BY <1>1
<1>2. Pkg(p) \in Packages /\ dir[Pkg(p)] \in Directory /\ pc[p] \notin {"idle", "next"}
      /\ (dir[Pkg(p)].present \/ dir[Pkg(p)] = Absent)
  BY <1>1, ActiveWorks DEF Touches, PresentOrAbsent
<1>3. CASE UNCHANGED dir
  BY <1>3 DEF PresentOrAbsent
<1>4. CASE RemoveDirectory(p) \/ Replace(p)
  BY <1>4, RemovingLeaves, PresentStays DEF RemoveDirectory, Replace
<1>5. CASE DirectoryRemoved(p) \/ Replaced(p)
  <2>1. Absent \in Directory
    BY DEF Absent, Directory, File, Source
  <2> QED BY <1>3, <1>5, <2>1, PresentStays DEF DirectoryRemoved, Replaced
<1>6. CASE Metadata(p)
  BY <1>2, <1>3, <1>6, OpensTyped, PresentStays DEF Metadata
<1>7. CASE Arrived(p)
  <2>1. /\ OpenNext(p, ArrivedDir(dir[Pkg(p)], pc[p]), IndexOf(pc[p])) /\ IndexOf(pc[p]) \in 0 .. 3
        /\ ArrivedDir(dir[Pkg(p)], pc[p]) \in Directory
        /\ ArrivedDir(dir[Pkg(p)], pc[p]).present \/ ArrivedDir(dir[Pkg(p)], pc[p]) = Absent
    BY <1>2, <1>7, ArrivedOpens, ArrivedDirTyped
  <2> QED BY <1>2, <2>1, OpensTyped, PresentStays
<1>8. CASE ArrivedWrong(p)
  <2>1. IndexOf(pc[p]) \in 0 .. 3 /\ OpenNext(p, dir[Pkg(p)], IndexOf(pc[p]))
    <3>1. pc[p] \in Range(MetadataFiles)
      <4>1. MetadataFiles[1] = "endpoint" /\ MetadataFiles[3] = "docs" /\ {1, 3} \subseteq DOMAIN MetadataFiles
        BY DEF MetadataFiles
      <4> QED BY <1>8, <4>1 DEF ArrivedWrong, Range
    <3> QED BY <1>8, <3>1, StageOfFile DEF ArrivedWrong
  <2> QED BY <1>2, <2>1, OpensTyped, PresentStays
<1>9. CASE NotArrived(p)
  BY <1>9, NotArrivedLeaves, PresentStays
<1>10. CASE Extract(p) \/ Copy(p)
  BY <1>10, WritingLeaves, PresentStays
<1>11. CASE Extracted(p) \/ Copied(p)
  BY <1>11, FilledLeaves, PresentStays
<1>12. CASE CopiedShort(p) \/ NotCopied(p)
  BY <1>12, ShortLeaves, NotCopiedLeaves, PresentStays
<1>13. CASE \/ Offline(p) \/ BadEndpoint(p) \/ OpenArchive(p) \/ Download(p) \/ GitHub(p)
            \/ FromFile(p) \/ FromRepository(p) \/ AlreadyPresent(p) \/ NotExtracted(p)
  BY <1>3, <1>13 DEF Offline, BadEndpoint, OpenArchive, Download, GitHub, FromFile, FromRepository,
     AlreadyPresent, NotExtracted
<1> QED BY <1>4, <1>5, <1>6, <1>7, <1>8, <1>9, <1>10, <1>11, <1>12, <1>13 DEF Work

LEMMA TypeStep ==
  TypeOK /\ PresentOrAbsent /\ [Next]_vars => TypeOK' /\ PresentOrAbsent'
<1> SUFFICES ASSUME TypeOK, PresentOrAbsent, [Next]_vars PROVE TypeOK' /\ PresentOrAbsent'
  OBVIOUS
<1>1. CASE UNCHANGED vars
  BY <1>1 DEF vars, local, history, TypeOK, LocalTypeOK, PresentOrAbsent
<1>2. ASSUME NEW p \in Processes, Start(p) PROVE TypeOK' /\ PresentOrAbsent'
  <2>1. UNCHANGED dir
    BY <1>2, StartSetsOut DEF Launch
  <2> QED BY <1>2, <2>1, StartTyped DEF PresentOrAbsent
<1>3. ASSUME NEW p \in Processes, Skip(p) \/ Begin(p) \/ NextRoot(p) \/ Finish(p) \/ Crash(p)
      PROVE  TypeOK' /\ PresentOrAbsent'
  <2>1. UNCHANGED dir
    BY <1>3 DEF Skip, Begin, NextRoot, Finish, Crash
  <2> QED BY <1>3, <2>1, LoopTyped DEF PresentOrAbsent
<1>4. ASSUME NEW p \in Processes, Work(p) PROVE TypeOK' /\ PresentOrAbsent'
  BY <1>4, WorkTyped
<1> QED BY <1>1, <1>2, <1>3, <1>4 DEF Next, Step, Work

LEMMA InitPresent == Init => PresentOrAbsent
BY CacheAssumption DEF Init, PresentOrAbsent

\* The cache holds directories and the commands go through their stages, however
\* many run at once and wherever they fail or die.
THEOREM TypeCorrect == Spec => []TypeOK
<1>1. Init => TypeOK /\ PresentOrAbsent
  BY InitTyped, InitPresent
<1>2. TypeOK /\ PresentOrAbsent /\ [Next]_vars => (TypeOK /\ PresentOrAbsent)'
  BY TypeStep
<1> QED BY <1>1, <1>2, PTL DEF Spec

-----------------------------------------------------------------------------
(* What a step changes *)

\* The ways in which a command is done with a package that it reports.
Done(p) == Extracted(p) \/ Copied(p) \/ CopiedShort(p) \/ AlreadyPresent(p)

\* Nobody changes what another process knows.
LEMMA OthersKeepTheirs ==
  ASSUME TypeOK, NEW p \in Processes, Start(p) \/ Step(p) \/ Crash(p), NEW r \in Processes \ {p}
  PROVE  /\ pc'[r] = pc[r] /\ command'[r] = command[r] /\ roots'[r] = roots[r] /\ todo'[r] = todo[r]
         /\ broken'[r] = broken[r] /\ ok'[r] = ok[r] /\ fetched'[r] = fetched[r] /\ temp'[r] = temp[r]
<1> USE DEF TypeOK, LocalTypeOK, Goto, Set
<1>1. CASE Start(p)
  <2>1. PICK c, list, rest : Launch(p, c, list, rest)
    BY <1>1, StartSetsOut
  <2> QED BY <2>1 DEF Launch
<1>2. CASE Skip(p) \/ Begin(p) \/ NextRoot(p) \/ Finish(p) \/ Crash(p)
  BY <1>2 DEF Skip, Visited, Begin, NextRoot, Finish, Crash
<1>3. ASSUME Failed(p)
      PROVE  /\ pc'[r] = pc[r] /\ command'[r] = command[r] /\ roots'[r] = roots[r] /\ todo'[r] = todo[r]
             /\ broken'[r] = broken[r] /\ ok'[r] = ok[r] /\ fetched'[r] = fetched[r]
  BY <1>3 DEF Failed
<1>4. ASSUME Succeeded(p)
      PROVE  /\ pc'[r] = pc[r] /\ command'[r] = command[r] /\ roots'[r] = roots[r] /\ todo'[r] = todo[r]
             /\ broken'[r] = broken[r] /\ ok'[r] = ok[r] /\ fetched'[r] = fetched[r]
  BY <1>4 DEF Succeeded, Visited
<1>5. ASSUME NEW l, Goto(p, l), UNCHANGED <<command, roots, todo, broken, ok, fetched>>
      PROVE  /\ pc'[r] = pc[r] /\ command'[r] = command[r] /\ roots'[r] = roots[r] /\ todo'[r] = todo[r]
             /\ broken'[r] = broken[r] /\ ok'[r] = ok[r] /\ fetched'[r] = fetched[r]
  BY <1>5
<1>6. ASSUME NEW d, NEW i, OpenNext(p, d, i) PROVE \E l : Goto(p, l)
  BY <1>6 DEF OpenNext
<1>7. CASE RemoveDirectory(p) \/ Replace(p) \/ Replaced(p)
  BY <1>5, <1>7 DEF RemoveDirectory, Replace, Removing, Replaced
<1>8. CASE DirectoryRemoved(p)
  BY <1>8 DEF DirectoryRemoved, Visited
<1>9. CASE Offline(p) \/ NotArrived(p) \/ BadEndpoint(p) \/ NotExtracted(p) \/ NotCopied(p)
  <2>1. Failed(p) /\ (temp' = temp \/ temp' = [temp EXCEPT ![p] = "none"])
    BY <1>9 DEF Offline, NotArrived, BadEndpoint, NotExtracted, NotCopied
  <2> QED BY <1>3, <2>1
<1>10. CASE Metadata(p) \/ Arrived(p) \/ ArrivedWrong(p) \/ OpenArchive(p) \/ Extract(p) \/ Copy(p)
  <2>1. /\ \E l : Goto(p, l)
        /\ UNCHANGED <<command, roots, todo, broken, ok, fetched>>
        /\ temp' = temp \/ temp' = [temp EXCEPT ![p] = "torn"]
    BY <1>6, <1>10 DEF Metadata, Arrived, ArrivedWrong, OpenArchive, Extract, Copy
  <2> QED BY <1>5, <2>1
<1>11. CASE Done(p)
  <2>1. Succeeded(p) /\ (temp' = temp \/ temp' = [temp EXCEPT ![p] = "none"])
    BY <1>11 DEF Done, Extracted, Copied, CopiedShort, AlreadyPresent
  <2> QED BY <1>4, <2>1
<1>12. CASE Download(p) \/ GitHub(p) \/ FromFile(p) \/ FromRepository(p)
  <2>1. /\ \/ Failed(p)
           \/ (\E l : Goto(p, l)) /\ UNCHANGED <<command, roots, todo, broken, ok, fetched>>
        /\ temp' = temp \/ \E x : temp' = [temp EXCEPT ![p] = x]
    BY <1>12 DEF Download, Discard, GitHub, FromFile, FromRepository
  <2>2. temp'[r] = temp[r]
    BY <2>1
  <2> QED BY <1>3, <1>5, <2>1, <2>2
<1> QED BY <1>1, <1>2, <1>7, <1>8, <1>9, <1>10, <1>11, <1>12 DEF Step, Done

\* Where a command goes on when all is well.
LeadsTo(p, l) ==
  \/ pc[p] = "remove" /\ l = "removing"
  \/ pc[p] = "removing" /\ l = Fetching(p) /\ command[p].kind # "purge"
  \/ pc[p] \in MetadataStages /\ l \in MetadataStages \ {"metadata"}
  \/ pc[p] = "github" /\ l = IF command[p].kind = "file" THEN "file" ELSE "replace"
  \/ pc[p] = "file" /\ l = "replace"
  \/ pc[p] = "repository" /\ l = "copy"
  \/ pc[p] = "replace" /\ l = "replacing"
  \/ pc[p] = "replacing" /\ l = "copy"
  \/ pc[p] = "copy" /\ l = "copying"

GoesOn(p) ==
  /\ \E l : Goto(p, l) /\ LeadsTo(p, l)
  /\ UNCHANGED <<command, roots, todo, broken, processed, tries, ok, fetched>>

\* Work goes on, fails, is done, or has emptied the directory.
LEMMA WorkOutcome ==
  ASSUME TypeOK, PresentOrAbsent, NEW p \in Processes, Work(p)
  PROVE  \/ GoesOn(p)
         \/ Failed(p)
         \/ pc[p] \in {"extracting", "copying", "repository"} /\ Succeeded(p) /\ Done(p)
         \/ /\ pc[p] = "removing" /\ command[p].kind = "purge" /\ DirectoryRemoved(p)
            /\ Visited(p, FALSE) /\ UNCHANGED <<ok, fetched>>
<1> USE DEF LeadsTo, GoesOn, MetadataStages
<1>1. CASE RemoveDirectory(p) \/ Replace(p) \/ Replaced(p)
  BY <1>1 DEF RemoveDirectory, Replace, Removing, Replaced
<1>2. CASE DirectoryRemoved(p)
  BY <1>2 DEF DirectoryRemoved
<1>3. CASE Offline(p) \/ NotArrived(p) \/ BadEndpoint(p) \/ NotExtracted(p) \/ NotCopied(p)
  BY <1>3 DEF Offline, NotArrived, BadEndpoint, NotExtracted, NotCopied
<1>4. CASE Metadata(p) \/ Arrived(p) \/ ArrivedWrong(p)
  <2>1. pc[p] \in {"metadata", "endpoint", "elmjson", "docs"}
    BY <1>4, ArrivedOpens DEF Metadata, ArrivedWrong
  <2>2. ASSUME NEW d, NEW i, OpenNext(p, d, i)
        PROVE  \E l \in {"endpoint", "elmjson", "docs", "archive"} : Goto(p, l)
    <3>1. CASE Following(d, i) = {}
      BY <2>2, <3>1 DEF OpenNext
    <3>2. CASE Following(d, i) # {}
      <4>1. Following(d, i) \subseteq {1, 2, 3}
        BY DEF Following, MetadataFiles
      <4>2. \E x \in Following(d, i) : \A y \in Following(d, i) : x =< y
        BY <3>2, <4>1
      <4>3. Min(Following(d, i)) \in {1, 2, 3}
        BY <4>1, <4>2 DEF Min
      <4>4. MetadataFiles[Min(Following(d, i))] \in {"endpoint", "elmjson", "docs"}
        BY <4>3 DEF MetadataFiles
      <4> QED BY <2>2, <3>2, <4>4 DEF OpenNext
    <3> QED BY <3>1, <3>2
  <2>3. \E l \in {"endpoint", "elmjson", "docs", "archive"} : Goto(p, l)
    BY <1>4, <2>2 DEF Metadata, Arrived, ArrivedWrong
  <2>4. UNCHANGED <<command, roots, todo, broken, processed, tries, ok, fetched>>
    BY <1>4 DEF Metadata, Arrived, ArrivedWrong
  <2> QED BY <2>1, <2>3, <2>4
<1>5. CASE OpenArchive(p) \/ Extract(p) \/ Copy(p)
  <2>1. CASE OpenArchive(p)
    BY <2>1 DEF OpenArchive
  <2>2. CASE Extract(p)
    BY <2>2 DEF Extract
  <2>3. CASE Copy(p)
    BY <2>3 DEF Copy
  <2> QED BY <1>5, <2>1, <2>2, <2>3
<1>6. CASE Download(p)
  BY <1>6 DEF Download
<1>7. CASE GitHub(p)
  BY <1>7 DEF GitHub
<1>8. CASE FromFile(p) \/ FromRepository(p)
  BY <1>8 DEF FromFile, FromRepository
<1>9. CASE Done(p)
  BY <1>9 DEF Done, Extracted, Copied, CopiedShort, AlreadyPresent
<1> QED BY <1>1, <1>2, <1>3, <1>4, <1>5, <1>6, <1>7, <1>8, <1>9 DEF Work, Done

-----------------------------------------------------------------------------
(* Every command is where its kind and its route take it *)

LEMMA StageOfStart ==
  ASSUME TypeOK, NEW p \in Processes, Start(p)
  PROVE  StageOK(p)'
<1>1. PICK c, list, rest : c \in Commands /\ Launch(p, c, list, rest) /\ SetsOut(c, list, rest)
  BY StartSetsOut
<1>2. /\ pc'[p] = "next" /\ command'[p] = c /\ todo'[p] = list /\ roots'[p] = rest /\ fetched'[p] = {}
  BY <1>1 DEF Launch, Goto, Set, TypeOK, LocalTypeOK
<1> QED BY <1>1, <1>2 DEF SetsOut, StageOK, MetadataStages

LEMMA StageOfLoop ==
  ASSUME TypeOK, NEW p \in Processes, StageOK(p),
         Skip(p) \/ Begin(p) \/ NextRoot(p) \/ Finish(p) \/ Crash(p)
  PROVE  StageOK(p)'
<1> USE DEF TypeOK, LocalTypeOK, StageOK, MetadataStages
<1>1. CASE Skip(p)
  <2>1. /\ pc'[p] = "next" /\ command'[p] = command[p] /\ roots'[p] = roots[p] /\ fetched'[p] = fetched[p]
        /\ command[p].kind \in {"cache", "build"}
    BY <1>1 DEF Skip, Visited, Goto
  <2> QED BY <2>1
<1>2. CASE Begin(p)
  <2>1. PICK l : pc'[p] = l /\ \/ l = "remove" /\ command[p].kind \in {"fix", "purge", "all"}
                               \/ l = Fetching(p)
    BY <1>2 DEF Begin, Goto
  <2>2. command[p].route = "directory" => command[p].kind = "file"
    BY CacheAssumption
  <2>3. command'[p] = command[p] /\ roots'[p] = roots[p] /\ todo'[p] = todo[p] /\ fetched'[p] = fetched[p]
    BY <1>2 DEF Begin
  <2> QED BY <2>1, <2>2, <2>3, FetchingByRoute
<1>3. CASE NextRoot(p)
  <2>1. /\ pc'[p] = "next" /\ command'[p] = command[p] /\ roots[p] # <<>>
    BY <1>3 DEF NextRoot
  <2> QED BY <2>1
<1>4. CASE Finish(p)
  <2>1. /\ pc'[p] = "idle" /\ command'[p] = command[p] /\ todo[p] = <<>> /\ todo'[p] = todo[p]
        /\ roots'[p] = roots[p]
    BY <1>4 DEF Finish, Goto
  <2> QED BY <2>1
<1>5. CASE Crash(p)
  <2>1. pc'[p] = "idle" /\ command'[p] = command[p] /\ todo'[p] = <<>> /\ roots'[p] = <<>>
    BY <1>5 DEF Crash, Goto, Set
  <2> QED BY <2>1
<1> QED BY <1>1, <1>2, <1>3, <1>4, <1>5

LEMMA StageOfWork ==
  ASSUME TypeOK, PresentOrAbsent, NEW p \in Processes, StageOK(p), Work(p)
  PROVE  StageOK(p)'
<1> USE DEF TypeOK, LocalTypeOK, StageOK, MetadataStages
<1>1. CASE GoesOn(p)
  <2>1. PICK l : pc'[p] = l /\ LeadsTo(p, l)
    BY <1>1 DEF GoesOn, Goto
  <2>2. command'[p] = command[p] /\ roots'[p] = roots[p] /\ todo'[p] = todo[p] /\ fetched'[p] = fetched[p]
    BY <1>1 DEF GoesOn
  <2>3. /\ command[p].route = "directory" => command[p].kind = "file"
        /\ command[p].kind = "file" => command[p].route \in {"github", "directory"}
    BY CacheAssumption
  <2>4. \/ pc[p] = "removing" /\ l \in {"metadata", "repository", "github", "file"}
        \/ l \in {"removing", "replacing", "copy", "copying", "file", "replace"}
        \/ l \in MetadataStages
    BY <2>1, FetchingByRoute DEF LeadsTo
  <2> QED BY <2>1, <2>2, <2>3, <2>4, FetchingByRoute DEF LeadsTo
<1>2. CASE Failed(p)
  <2>1. /\ command'[p] = command[p] /\ roots'[p] = roots[p] /\ fetched'[p] = fetched[p]
        /\ \/ pc'[p] = "remove" /\ command[p].kind = "all" /\ todo'[p] = todo[p]
           \/ pc'[p] = "next" /\ (command[p].kind = "file" => todo'[p] = <<>>)
    BY <1>2 DEF Failed, TriesAgain, StopsAtFailure, Goto, Set
  <2> QED BY <2>1
<1>3. CASE pc[p] \in {"extracting", "copying", "repository"} /\ Succeeded(p)
  <2>1. /\ command'[p] = command[p] /\ roots'[p] = roots[p] /\ pc'[p] = "next"
    BY <1>3 DEF Succeeded, Visited, Goto
  <2>2. command[p].kind = "file" => todo'[p] = <<>>
    <3>1. HAVE command[p].kind = "file"
    <3>2. todo'[p] = <<>> \o Tail(todo[p])
      BY <1>3, <3>1 DEF Succeeded, Visited, Set
    <3>3. todo[p] # <<>>
      BY <1>3, ActiveWorks
    <3>4. Tail(todo[p]) = <<>>
      <4>1. PICK x : todo[p] = <<x>>
        BY <3>1, <3>3
      <4>2. Tail(<<x>>) = <<>>
        OBVIOUS
      <4> QED BY <4>1, <4>2
    <3> QED BY <3>2, <3>4
  <2> QED BY <2>1, <2>2
<1>4. CASE pc[p] = "removing" /\ command[p].kind = "purge" /\ Visited(p, FALSE) /\ UNCHANGED <<ok, fetched>>
  <2>1. command'[p] = command[p] /\ pc'[p] = "next" /\ roots'[p] = roots[p]
    BY <1>4 DEF Visited, Goto
  <2> QED BY <1>4, <2>1
<1> QED BY <1>1, <1>2, <1>3, <1>4, WorkOutcome

LEMMA StageStep ==
  ASSUME TypeOK, PresentOrAbsent, StageInv, NEW p \in Processes, Start(p) \/ Step(p) \/ Crash(p)
  PROVE  StageInv'
<1>1. StageOK(p)'
  BY StageOfStart, StageOfLoop, StageOfWork DEF StageInv, Step, Work
<1>2. ASSUME NEW r \in Processes \ {p} PROVE StageOK(r)'
  BY OthersKeepTheirs DEF StageInv, StageOK
<1> QED BY <1>1, <1>2 DEF StageInv

-----------------------------------------------------------------------------
(* Who is alone *)

LEMMA HistoryKept ==
  ASSUME TypeOK, NoFault \/ Noticed \/ Fault
  PROVE  /\ alone' = alone /\ unchecked' = unchecked /\ \A r \in Processes : clean'[r] => clean[r]
         /\ NoFault \/ Noticed => shortened' = shortened
BY DEF NoFault, Noticed, Fault, history, TypeOK

LEMMA StepKeepsHistory ==
  ASSUME TypeOK, PresentOrAbsent, NEW p \in Processes, Step(p) \/ Crash(p)
  PROVE  /\ pc[p] # "idle" /\ alone' = alone /\ unchecked' = unchecked
         /\ \A r \in Processes : clean'[r] => clean[r]
         /\ shortened' = shortened \/ CopiedShort(p)
<1>1. CASE Skip(p) \/ Begin(p) \/ NextRoot(p) \/ Finish(p)
  BY <1>1 DEF Skip, Begin, NextRoot, Finish, history
<1>2. CASE Crash(p)
  BY <1>2, HistoryKept DEF Crash
<1>3. CASE Work(p)
  <2>1. pc[p] # "idle"
    BY <1>3, WorkTyped DEF Touches
  <2>2. NoFault \/ Noticed \/ (Fault /\ CopiedShort(p))
    <3>1. CASE \/ RemoveDirectory(p) \/ DirectoryRemoved(p) \/ Replace(p) \/ Replaced(p)
      BY <3>1 DEF RemoveDirectory, DirectoryRemoved, Replace, Replaced, Removing
    <3>2. CASE \/ Offline(p) \/ Metadata(p) \/ Arrived(p) \/ ArrivedWrong(p) \/ NotArrived(p) \/ BadEndpoint(p)
      BY <3>2 DEF Offline, Metadata, Arrived, ArrivedWrong, NotArrived, BadEndpoint
    <3>3. CASE \/ OpenArchive(p) \/ Download(p) \/ GitHub(p) \/ FromFile(p) \/ FromRepository(p)
               \/ AlreadyPresent(p)
      BY <3>3 DEF OpenArchive, Download, GitHub, FromFile, FromRepository, AlreadyPresent
    <3>4. CASE \/ Extract(p) \/ Extracted(p) \/ NotExtracted(p)
               \/ Copy(p) \/ Copied(p) \/ CopiedShort(p) \/ NotCopied(p)
      BY <3>4 DEF Extract, Extracted, NotExtracted, Copy, Copied, CopiedShort, NotCopied
    <3> QED BY <1>3, <3>1, <3>2, <3>3, <3>4 DEF Work
  <2> QED BY <2>1, <2>2, HistoryKept
<1> QED BY <1>1, <1>2, <1>3 DEF Step, Work

\* Work on a package disturbs no other one.
LEMMA WorkElsewhere ==
  ASSUME TypeOK, PresentOrAbsent, NEW p \in Processes, Work(p), NEW q \in Packages, q # Pkg(p)
  PROVE  dir'[q] = dir[q]
<1>1. PICK d : dir' = [dir EXCEPT ![Pkg(p)] = d]
  BY WorkTyped DEF Touches
<1> QED BY <1>1 DEF TypeOK

\* A list is worked off from its head.
LEMMA WorkPending ==
  ASSUME TypeOK, PresentOrAbsent, NEW p \in Processes, Work(p)
  PROVE  /\ Active(p)
         /\ Active(p)' => todo'[p] = todo[p]
         /\ Lists(p) =>
              /\ Range(todo'[p]) \subseteq Range(todo[p])
              /\ Pending(p)' \subseteq Range(Tail(todo[p]))
              /\ Distinct(todo[p]) => Distinct(todo'[p]) /\ Pkg(p) \notin Range(Tail(todo[p]))
<1>1. /\ Active(p) /\ todo[p] # <<>> /\ todo[p] \in Seq(Packages) /\ Tail(todo[p]) \in Seq(Packages)
      /\ Range(todo[p]) = {Pkg(p)} \cup Range(Tail(todo[p]))
      /\ Distinct(todo[p]) => Distinct(Tail(todo[p])) /\ Pkg(p) \notin Range(Tail(todo[p]))
  <2>1. pc[p] \notin {"idle", "next"}
    BY WorkTyped DEF Touches
  <2> QED BY <2>1, ActiveWorks, HeadAndTail DEF Active, TypeOK, LocalTypeOK, Pkg
<1>2. Range(<<>>) = {} /\ Distinct(<<>>)
  BY DEF Range, Distinct
<1>3. CASE todo'[p] = todo[p] /\ pc'[p] \notin {"idle", "next"}
  BY <1>1, <1>3 DEF Pending, Active
<1>4. CASE pc'[p] = "next" /\ (Lists(p) => todo'[p] = <<>> \/ todo'[p] = Tail(todo[p]))
  BY <1>1, <1>2, <1>4 DEF Pending, Active
<1>5. CASE GoesOn(p)
  <2>1. PICK l : Goto(p, l) /\ LeadsTo(p, l)
    BY <1>5 DEF GoesOn
  <2>2. pc'[p] = l /\ todo'[p] = todo[p]
    BY <1>5, <2>1 DEF GoesOn, Goto, TypeOK, LocalTypeOK
  <2>3. l \notin {"idle", "next"}
    BY <2>1, FetchingByRoute DEF LeadsTo, MetadataStages
  <2> QED BY <1>3, <2>2, <2>3
<1>6. CASE Failed(p)
  <2>1. \/ todo'[p] = todo[p] /\ pc'[p] = "remove"
        \/ pc'[p] = "next" /\ (todo'[p] = <<>> \/ todo'[p] = Tail(todo[p]))
    BY <1>6 DEF Failed, Goto, Set, TypeOK, LocalTypeOK
  <2> QED BY <1>3, <1>4, <2>1
<1>7. ASSUME NEW follow \in BOOLEAN, Visited(p, follow), follow => ~Lists(p)
      PROVE  pc'[p] = "next" /\ (Lists(p) => todo'[p] = <<>> \/ todo'[p] = Tail(todo[p]))
  <2>1. <<>> \o Tail(todo[p]) = Tail(todo[p])
    BY <1>1, ConcatEmptySeq
  <2>2. pc'[p] = "next" /\ (~follow => todo'[p] = <<>> \o Tail(todo[p]))
    BY <1>7 DEF Visited, Goto, Set, TypeOK, LocalTypeOK
  <2> QED BY <1>7, <2>1, <2>2
<1>8. CASE Succeeded(p)
  <2>1. PICK follow \in BOOLEAN : Visited(p, follow) /\ (follow => command[p].kind \in {"cache", "build"})
    BY <1>8 DEF Succeeded
  <2>2. follow => ~Lists(p)
    BY <2>1 DEF Lists
  <2> QED BY <1>4, <1>7, <2>1, <2>2
<1>9. CASE Visited(p, FALSE)
  BY <1>4, <1>7, <1>9
<1> QED BY <1>5, <1>6, <1>8, <1>9, WorkOutcome

\* Until it is done, work on a package that is not whole leaves it so.
LEMMA WorkKeepsBroken ==
  ASSUME TypeOK, PresentOrAbsent, NEW p \in Processes, StageOK(p), Work(p),
         ~Done(p), command[p].kind # "file", ~WholeDir(dir[Pkg(p)]),
         command[p].route = "v1" \/ pc[p] = "copying" => dir[Pkg(p)].src # "full"
  PROVE  /\ ~WholeDir(dir'[Pkg(p)])
         /\ command[p].route = "v1" \/ pc'[p] = "copying" => dir'[Pkg(p)].src # "full"
<1>1. Pkg(p) \in Packages /\ dir \in [Packages -> Directory] /\ pc[p] \notin {"idle", "next"}
      /\ pc \in [Processes -> Stage] /\ dir[Pkg(p)] \in Directory
      /\ (dir[Pkg(p)].present \/ dir[Pkg(p)] = Absent)
  BY WorkTyped, ActiveWorks DEF Touches, TypeOK, LocalTypeOK, PresentOrAbsent
<1>2. ASSUME dir'[Pkg(p)].src # "full"
      PROVE  /\ ~WholeDir(dir'[Pkg(p)])
             /\ command[p].route = "v1" \/ pc'[p] = "copying" => dir'[Pkg(p)].src # "full"
  BY <1>2 DEF WholeDir
<1>3. ASSUME ~WholeDir(dir'[Pkg(p)]), dir'[Pkg(p)].src = "full" => dir[Pkg(p)].src = "full",
             \E l : Goto(p, l) /\ l # "copying"
      PROVE  /\ ~WholeDir(dir'[Pkg(p)])
             /\ command[p].route = "v1" \/ pc'[p] = "copying" => dir'[Pkg(p)].src # "full"
  BY <1>1, <1>3 DEF Goto
<1>4. ASSUME Failed(p) PROVE \E l : Goto(p, l) /\ l # "copying"
  <2>1. Goto(p, "remove") \/ Goto(p, "next")
    BY <1>4 DEF Failed
  <2> QED BY <2>1
<1>5. CASE RemoveDirectory(p) \/ Replace(p)
  <2>1. PICK from \in {"remove", "replace"}, during \in {"removing", "replacing"} :
          Removing(p, Pkg(p), from, during)
    BY <1>5 DEF RemoveDirectory, Replace
  <2>2. PICK e \in Directory :
          /\ dir' = [dir EXCEPT ![Pkg(p)] = e]
          /\ \/ e = Absent
             \/ /\ e.src \in SourceLeftovers(dir[Pkg(p)].src)
                /\ e.elmjson \in {dir[Pkg(p)].elmjson, "none"}
                /\ e.docs \in {dir[Pkg(p)].docs, "none"}
    BY <2>1, RemovingLeaves
  <2>3. e.src = "full" => /\ dir[Pkg(p)].src = "full" /\ e.elmjson \in {dir[Pkg(p)].elmjson, "none"}
                          /\ e.docs \in {dir[Pkg(p)].docs, "none"}
    BY <2>2 DEF SourceLeftovers, Absent
  <2>4. dir'[Pkg(p)] = e
    BY <1>1, <2>2
  <2>5. Goto(p, during)
    BY <2>1 DEF Removing
  <2> QED BY <1>3, <2>3, <2>4, <2>5 DEF WholeDir
<1>6. CASE DirectoryRemoved(p) \/ Replaced(p)
  <2>1. dir'[Pkg(p)] = Absent \/ dir'[Pkg(p)] = dir[Pkg(p)]
    BY <1>1, <1>6 DEF DirectoryRemoved, Replaced
  <2>2. \E l : Goto(p, l) /\ l # "copying"
    BY <1>6, FetchingByRoute DEF DirectoryRemoved, Replaced, Visited
  <2> QED BY <1>2, <1>3, <2>1, <2>2 DEF Absent
<1>7. CASE Metadata(p) \/ Arrived(p) \/ ArrivedWrong(p) \/ NotArrived(p)
  <2>1. pc[p] \in {"metadata", "endpoint", "elmjson", "docs"} /\ command[p].route = "v1"
    <3>1. pc[p] \in {"metadata", "endpoint", "elmjson", "docs"}
      BY <1>7, StageOfFile, ArrivedOpens DEF Metadata, ArrivedWrong, NotArrived
    <3> QED BY <3>1 DEF StageOK, MetadataStages
  <2>2. dir'[Pkg(p)].src = dir[Pkg(p)].src
    <3>1. ASSUME \E e \in Directory : dir' = [dir EXCEPT ![Pkg(p)] = e] /\ e.src = dir[Pkg(p)].src
          PROVE  dir'[Pkg(p)].src = dir[Pkg(p)].src
      BY <1>1, <3>1
    <3>2. CASE NotArrived(p)
      BY <3>1, <3>2, NotArrivedLeaves
    <3>3. CASE Metadata(p)
      BY <1>1, <3>1, <3>3, OpensTyped DEF Metadata
    <3>4. CASE Arrived(p)
      <4>1. /\ OpenNext(p, ArrivedDir(dir[Pkg(p)], pc[p]), IndexOf(pc[p])) /\ IndexOf(pc[p]) \in 0 .. 3
            /\ ArrivedDir(dir[Pkg(p)], pc[p]) \in Directory
            /\ ArrivedDir(dir[Pkg(p)], pc[p]).present \/ ArrivedDir(dir[Pkg(p)], pc[p]) = Absent
            /\ ArrivedDir(dir[Pkg(p)], pc[p]).src = dir[Pkg(p)].src
        BY <1>1, <3>4, ArrivedOpens, ArrivedDirTyped
      <4> QED BY <1>1, <3>1, <4>1, OpensTyped
    <3>5. CASE ArrivedWrong(p)
      <4>1. pc[p] \in Range(MetadataFiles)
        <5>1. MetadataFiles[1] = "endpoint" /\ MetadataFiles[3] = "docs" /\ {1, 3} \subseteq DOMAIN MetadataFiles
          BY DEF MetadataFiles
        <5> QED BY <3>5, <5>1 DEF ArrivedWrong, Range
      <4>2. IndexOf(pc[p]) \in 0 .. 3 /\ OpenNext(p, dir[Pkg(p)], IndexOf(pc[p]))
        BY <3>5, <4>1, StageOfFile DEF ArrivedWrong
      <4> QED BY <1>1, <3>1, <4>2, OpensTyped
    <3> QED BY <1>7, <3>2, <3>3, <3>4, <3>5
  <2> QED BY <1>2, <2>1, <2>2
<1>8. CASE Extract(p) \/ Copy(p)
  <2>1. PICK e \in Directory : dir' = [dir EXCEPT ![Pkg(p)] = e] /\ e.src \in {"empty", "part"}
    BY <1>8, WritingLeaves
  <2> QED BY <1>1, <1>2, <2>1
<1>9. CASE NotCopied(p)
  <2>1. PICK e \in Directory : /\ dir' = [dir EXCEPT ![Pkg(p)] = e]
                               /\ e.src # "full" \/ e.elmjson # "ok" \/ e.docs # "ok"
    BY <1>9, NotCopiedLeaves
  <2>2. command[p].route # "v1"
    BY <1>9 DEF NotCopied, StageOK
  <2>3. pc'[p] # "copying"
    BY <1>1, <1>4, <1>9 DEF NotCopied, Goto
  <2> QED BY <1>1, <2>1, <2>2, <2>3 DEF WholeDir
<1>10. CASE \/ Offline(p) \/ BadEndpoint(p) \/ OpenArchive(p) \/ Download(p) \/ GitHub(p)
            \/ FromFile(p) \/ FromRepository(p) \/ NotExtracted(p)
  <2>1. UNCHANGED dir /\ \E l : Goto(p, l) /\ l # "copying"
    BY <1>4, <1>10 DEF Offline, BadEndpoint, OpenArchive, Download, GitHub, FromFile, FromRepository,
       NotExtracted
  <2> QED BY <1>3, <2>1
<1> QED BY <1>5, <1>6, <1>7, <1>8, <1>9, <1>10 DEF Work, Done

LEMMA AloneOfStart ==
  ASSUME TypeOK, NEW p \in Processes, Start(p)
  PROVE  AloneInv'
<1>1. PICK c, list, rest : c \in Commands /\ Launch(p, c, list, rest) /\ SetsOut(c, list, rest)
  BY StartSetsOut
<1>2. /\ pc'[p] = "next" /\ command'[p] = c /\ todo'[p] = list /\ fetched'[p] = {}
      /\ \A r \in Processes : alone'[r] => r = p /\ \A o \in Processes \ {p} : pc[o] = "idle"
      /\ clean' = alone' /\ dir' = dir
  BY <1>1 DEF Launch, Goto, Set, TypeOK, LocalTypeOK
<1>3. \A o \in Processes \ {p} : pc'[o] = pc[o]
  BY OthersKeepTheirs
<1>4. ~Active(p)' /\ Pending(p)' = Range(list)
  BY <1>2 DEF Active, Pending
<1>5. Lists(p)' => Distinct(list) /\ \A q \in Range(list) : ~DownloadedDir(dir[q])
  BY <1>1, <1>2 DEF Lists, SetsOut, Broken, FullyDownloaded, DownloadedDir
<1>7. alone'[p] => AloneOK(p)'
  BY <1>2, <1>3, <1>4, <1>5 DEF AloneOK
<1> QED BY <1>2, <1>7 DEF AloneInv

\* A package with all its sources is there, and counts as downloaded.
LEMMA WholeIsThere ==
  ASSUME TypeOK, PresentOrAbsent, NEW q \in Packages, dir[q].src = "full"
  PROVE  DownloadedDir(dir[q]) /\ dir[q].present
BY DEF DownloadedDir, PresentOrAbsent, Absent

LEMMA AloneOfLoop ==
  ASSUME TypeOK, PresentOrAbsent, NEW p \in Processes, StageOK(p), AloneOK(p),
         Skip(p) \/ Begin(p) \/ NextRoot(p) \/ Finish(p) \/ Crash(p)
  PROVE  AloneOK(p)'
<1>1. \A r \in Processes \ {p} : pc'[r] = "idle"
  BY OthersKeepTheirs DEF AloneOK, Step
<1>2. dir' = dir
  BY DEF Skip, Begin, NextRoot, Finish, Crash
<1>4. command'[p] = command[p] /\ (Lists(p)' <=> Lists(p)) /\ shortened' = shortened
  BY DEF Skip, Visited, Begin, NextRoot, Finish, Crash, Lists, history, Noticed
<1>5. CASE Skip(p)
  <2>1. pc'[p] = "next" /\ fetched'[p] = fetched[p] /\ ~Lists(p)
    BY <1>5 DEF Skip, Visited, Goto, Lists, TypeOK, LocalTypeOK
  <2>2. ~Active(p)'
    BY <2>1 DEF Active
  <2> QED BY <1>1, <1>2, <1>4, <2>1, <2>2 DEF AloneOK
<1>6. CASE Begin(p)
  <2>1. /\ pc[p] = "next" /\ todo[p] # <<>> /\ todo'[p] = todo[p] /\ fetched'[p] = fetched[p]
        /\ todo[p] \in Seq(Packages)
    BY <1>6 DEF Begin, TypeOK, LocalTypeOK
  <2>2. PICK l : pc'[p] = l /\ (l = "remove" \/ l = Fetching(p))
    BY <1>6 DEF Begin, Goto, TypeOK, LocalTypeOK
  <2>3. l # "copying" /\ Active(p)'
    BY <2>2, FetchingByRoute DEF Active
  <2>4. Range(todo[p]) = {Pkg(p)} \cup Range(Tail(todo[p])) /\ Pkg(p) \in Packages
    BY <2>1, HeadAndTail DEF Pkg
  <2>5. Pending(p)' = Range(Tail(todo[p])) /\ Pending(p) = Range(todo[p]) /\ Pkg(p)' = Pkg(p)
    BY <2>1, <2>3 DEF Pending, Active, Pkg
  <2>6. command[p].kind # "file" => ~DownloadedDir(dir[Pkg(p)]) \/ ~dir[Pkg(p)].present
    <3>1. command[p] \in Command
      BY CacheAssumption DEF TypeOK, LocalTypeOK
    <3>2. CASE Lists(p)
      BY <2>4, <2>5, <3>2 DEF AloneOK
    <3>3. CASE ~Lists(p)
      BY <1>6, <3>1, <3>3 DEF Begin, Lists, Command, FullyDownloaded, DownloadedDir
    <3> QED BY <3>2, <3>3
  <2>7. command[p].kind # "file" => dir[Pkg(p)].src # "full" /\ ~WholeDir(dir[Pkg(p)])
    BY <2>4, <2>6, WholeIsThere DEF WholeDir
  <2>8. command[p].route # "own" => Pkg(p) \notin fetched[p] \ shortened[p]
    <3>1. CASE command[p].kind = "file"
      <4>1. fetched[p] = {}
        BY <2>1, <3>1 DEF StageOK
      <4> QED BY <4>1
    <3>2. CASE command[p].kind # "file"
      <4>1. dir[Pkg(p)].src # "full"
        BY <2>7, <3>2
      <4> QED BY <4>1 DEF AloneOK
    <3> QED BY <3>1, <3>2
  <2> QED BY <1>1, <1>2, <1>4, <2>1, <2>4, <2>5, <2>7, <2>8 DEF AloneOK
<1>7. CASE NextRoot(p)
  <2>1. pc'[p] = "next" /\ fetched'[p] = fetched[p] /\ ~Lists(p)
    BY <1>7 DEF NextRoot, Lists, StageOK
  <2>2. ~Active(p)'
    BY <2>1 DEF Active
  <2> QED BY <1>1, <1>2, <1>4, <2>1, <2>2 DEF AloneOK
<1>8. CASE Finish(p)
  <2>1. pc[p] = "next" /\ pc'[p] = "idle" /\ fetched'[p] = fetched[p] /\ todo'[p] = todo[p]
    BY <1>8 DEF Finish, Goto, TypeOK, LocalTypeOK
  <2>2. ~Active(p)' /\ Pending(p)' = Pending(p)
    BY <2>1 DEF Active, Pending
  <2> QED BY <1>1, <1>2, <1>4, <2>1, <2>2 DEF AloneOK
<1>9. CASE Crash(p)
  <2>1. pc'[p] = "idle" /\ fetched'[p] = {} /\ todo'[p] = <<>>
    BY <1>9 DEF Crash, Goto, Set, TypeOK, LocalTypeOK
  <2>2. ~Active(p)' /\ Pending(p)' = {} /\ Distinct(todo'[p])
    BY <2>1 DEF Active, Pending, Range, Distinct
  <2> QED BY <1>1, <2>1, <2>2 DEF AloneOK
<1> QED BY <1>5, <1>6, <1>7, <1>8, <1>9

LEMMA AloneOfWork ==
  ASSUME TypeOK, PresentOrAbsent, NEW p \in Processes, StageOK(p), AloneOK(p), Work(p)
  PROVE  AloneOK(p)'
<1>1. \A r \in Processes \ {p} : pc'[r] = "idle"
  <2>1. Step(p)
    BY DEF Work, Step
  <2> QED BY <2>1, OthersKeepTheirs DEF AloneOK
<1>2. ~Others(p)
  BY DEF Others, AloneOK
<1>3. command'[p] = command[p] /\ (Lists(p)' <=> Lists(p))
  <2>1. command' = command
    BY WorkOutcome DEF GoesOn, Failed, Succeeded, Visited
  <2> QED BY <2>1 DEF Lists
<1>4. /\ Active(p) /\ (Active(p)' => todo'[p] = todo[p] /\ Pkg(p)' = Pkg(p))
      /\ command[p].route # "own" => Pkg(p) \notin fetched[p] \ shortened[p]
      /\ Pkg(p) \in Packages
  <2>1. Active(p) /\ (Active(p)' => todo'[p] = todo[p])
    BY WorkPending
  <2> QED BY <2>1, ActiveWorks DEF AloneOK, Active, Pkg
<1>5. fetched[p] \subseteq Packages
  BY DEF TypeOK, LocalTypeOK
<1>6. Lists(p) => Distinct(todo'[p]) /\ \A q \in Pending(p)' : ~DownloadedDir(dir'[q])
  <2>1. HAVE Lists(p)
  <2>2. /\ Distinct(todo'[p]) /\ Pending(p)' \subseteq Range(Tail(todo[p]))
        /\ Pkg(p) \notin Range(Tail(todo[p]))
    BY <2>1, WorkPending DEF AloneOK
  <2>3. Pending(p) = Range(Tail(todo[p])) /\ Range(Tail(todo[p])) \subseteq Packages
    <3>1. todo[p] # <<>> /\ todo[p] \in Seq(Packages)
      BY <1>4, ActiveWorks DEF Active, TypeOK, LocalTypeOK
    <3>2. Tail(todo[p]) \in Seq(Packages)
      BY <3>1, HeadAndTail
    <3> QED BY <1>4, <3>2 DEF Pending, Range
  <2>4. ASSUME NEW q \in Range(Tail(todo[p])) PROVE ~DownloadedDir(dir'[q])
    <3>1. dir'[q] = dir[q]
      BY <2>2, <2>3, WorkElsewhere
    <3> QED BY <2>1, <2>3, <3>1 DEF AloneOK
  <2> QED BY <2>2, <2>4
<1>9. shortened' = shortened \/ CopiedShort(p)
  BY StepKeepsHistory DEF Work, Step
<1>7. CASE Done(p)
  <2>1. Extracted(p) \/ Copied(p) \/ CopiedShort(p) \/ command[p].route = "own"
    BY <1>7 DEF Done, AlreadyPresent
  <2>3. pc'[p] = "next" /\ fetched'[p] = fetched[p] \cup {Pkg(p)}
    <3>1. Succeeded(p)
      BY <1>7 DEF Done, Extracted, Copied, CopiedShort, AlreadyPresent
    <3> QED BY <3>1 DEF Succeeded, Visited, Goto, Set, TypeOK, LocalTypeOK
  <2>4. command[p].route # "own" => \A q \in fetched'[p] \ shortened'[p] : dir'[q].src = "full"
    <3>1. CASE Extracted(p) \/ Copied(p)
      <4>1. PICK e : dir' = [dir EXCEPT ![Pkg(p)] = e] /\ e.src = "full"
        BY <1>2, <3>1, FilledLeaves
      <4>2. dir'[Pkg(p)].src = "full"
        BY <1>4, <4>1 DEF TypeOK
      <4>3. shortened' = shortened
        BY <1>9, <3>1 DEF Extracted, NoFault, history, Copied
      <4> QED BY <1>5, <2>3, <4>2, <4>3, WorkElsewhere DEF AloneOK
    <3>2. CASE CopiedShort(p)
      <4>1. shortened'[p] = shortened[p] \cup {Pkg(p)}
        BY <3>2 DEF CopiedShort, Set, TypeOK
      <4> QED BY <1>5, <2>3, <4>1, WorkElsewhere DEF AloneOK
    <3> QED BY <2>1, <3>1, <3>2
  <2>5. ~Active(p)'
    BY <2>3 DEF Active
  <2> QED BY <1>1, <1>3, <1>6, <2>4, <2>5 DEF AloneOK
<1>8. CASE ~Done(p)
  <2>1. fetched'[p] = fetched[p] /\ shortened' = shortened
    BY <1>8, <1>9, WorkOutcome DEF GoesOn, Failed, Done
  <2>2. command[p].route # "own" => \A q \in fetched'[p] \ shortened'[p] : dir'[q].src = "full"
    BY <1>4, <1>5, <2>1, WorkElsewhere DEF AloneOK
  <2>3. ASSUME Active(p)', command[p].kind # "file"
        PROVE  /\ ~WholeDir(dir'[Pkg(p)])
               /\ command[p].route = "v1" \/ pc'[p] = "copying" => dir'[Pkg(p)].src # "full"
    <3>1. ~WholeDir(dir[Pkg(p)]) /\ (command[p].route = "v1" \/ pc[p] = "copying" => dir[Pkg(p)].src # "full")
      BY <1>4, <2>3 DEF AloneOK
    <3> QED BY <1>8, <2>3, <3>1, WorkKeepsBroken
  <2>4. Active(p)' /\ command'[p].kind # "file" =>
          /\ ~WholeDir(dir'[Pkg(p)'])
          /\ command'[p].route = "v1" \/ pc'[p] = "copying" => dir'[Pkg(p)'].src # "full"
    BY <1>3, <1>4, <2>3
  <2>5. Active(p)' /\ command'[p].route # "own" => Pkg(p)' \notin fetched'[p] \ shortened'[p]
    BY <1>3, <1>4, <2>1
  <2> QED BY <1>1, <1>3, <1>6, <2>2, <2>4, <2>5 DEF AloneOK
<1> QED BY <1>7, <1>8

LEMMA AloneStep ==
  ASSUME TypeOK, PresentOrAbsent, StageInv, AloneInv, NEW p \in Processes,
         Start(p) \/ Step(p) \/ Crash(p)
  PROVE  AloneInv'
<1>1. CASE Start(p)
  BY <1>1, AloneOfStart
<1>2. CASE Step(p) \/ Crash(p)
  <2>1. /\ pc[p] # "idle" /\ alone' = alone /\ \A r \in Processes : clean'[r] => clean[r]
    BY <1>2, StepKeepsHistory
  <2>2. \A r \in Processes : alone[r] => r = p
    BY <2>1 DEF AloneInv, AloneOK
  <2>3. alone[p] => AloneOK(p)'
    BY <1>2, AloneOfLoop, AloneOfWork DEF AloneInv, StageInv, Step, Work
  <2>4. ASSUME NEW r \in Processes PROVE (clean'[r] => alone'[r]) /\ (alone'[r] => AloneOK(r)')
    BY <2>1, <2>2, <2>3 DEF AloneInv
  <2> QED BY <2>4 DEF AloneInv
<1> QED BY <1>1, <1>2

-----------------------------------------------------------------------------
(* The invariant *)

Inv == TypeOK /\ PresentOrAbsent /\ StageInv /\ AloneInv

LEMMA InitInv == Init => Inv
<1> SUFFICES ASSUME Init PROVE Inv
  OBVIOUS
<1>1. TypeOK /\ PresentOrAbsent
  BY InitTyped, InitPresent
<1>2. StageInv
  BY DEF Init, StageInv, StageOK, MetadataStages
<1>3. AloneInv
  BY DEF Init, AloneInv
<1> QED BY <1>1, <1>2, <1>3 DEF Inv

LEMMA InvStep == Inv /\ [Next]_vars => Inv'
<1> SUFFICES ASSUME Inv, [Next]_vars PROVE Inv'
  OBVIOUS
<1> USE DEF Inv
<1>1. (TypeOK /\ PresentOrAbsent)'
  BY TypeStep
<1>2. CASE UNCHANGED vars
  <2>1. UNCHANGED <<dir, pc, command, roots, todo, fetched, alone, clean, shortened>>
    BY <1>2 DEF vars, local, history
  <2>2. StageInv'
    BY <2>1 DEF StageInv, StageOK
  <2>3. AloneInv'
    BY <2>1 DEF AloneInv, AloneOK, Lists, Pending, Active, Pkg
  <2> QED BY <1>1, <2>2, <2>3
<1>3. ASSUME NEW p \in Processes, Start(p) \/ Step(p) \/ Crash(p)
      PROVE  StageInv' /\ AloneInv'
  BY <1>3, StageStep, AloneStep
<1> QED BY <1>1, <1>2, <1>3 DEF Next

\* A command that has had the cache for itself has every package whole that it
\* reported as downloaded, whatever it found there when it began, whatever has
\* failed since, and whatever else it has done in the meantime: excepted are only
\* the copies that lost bytes where nobody looks (a read error, a failing close),
\* and a V2 repository that is the cache itself, into which nothing is fetched.
THEOREM AloneDownloadsWhole == Spec => []AloneDownloadedIsWhole
<1>1. Inv => AloneDownloadedIsWhole
  BY DEF Inv, AloneInv, AloneOK, AloneDownloadedIsWhole
<1> QED BY InitInv, InvStep, <1>1, PTL DEF Spec

-----------------------------------------------------------------------------
(* No command loses what is whole *)

LEMMA WorkStores ==
  ASSUME Inv, NEW p \in Processes, Work(p)
  PROVE  /\ Overlap' = Overlap
         /\ Overlap \/ \E q \in Packages : \/ WholePackages' = WholePackages \cup {q}
                                           \/ WholePackages' = WholePackages
                                           \/ q \in Replaceable /\ WholePackages' = WholePackages \ {q}
<1> USE DEF Inv
<1>1. /\ pc[p] \notin {"idle", "next"} /\ todo[p] # <<>> /\ Pkg(p) \in Packages
      /\ alone' = alone
  <2>1. pc[p] \notin {"idle", "next"}
    BY WorkTyped DEF Touches
  <2>2. Step(p)
    BY DEF Work, Step
  <2> QED BY <2>1, <2>2, ActiveWorks, StepKeepsHistory
<1>2. pc'[p] # "idle" /\ \A r \in Processes \ {p} : pc'[r] = pc[r]
  <2>1. \E l : l # "idle" /\ Goto(p, l)
    <3>1. CASE GoesOn(p)
      <4>1. PICK l : Goto(p, l) /\ LeadsTo(p, l)
        BY <3>1 DEF GoesOn
      <4>2. l # "idle"
        BY <4>1, FetchingByRoute DEF LeadsTo, MetadataStages
      <4> QED BY <4>1, <4>2
    <3>2. CASE Failed(p)
      <4>1. Goto(p, "remove") \/ Goto(p, "next")
        BY <3>2 DEF Failed
      <4> QED BY <4>1
    <3>3. CASE Succeeded(p) \/ Visited(p, FALSE)
      <4>1. Goto(p, "next")
        BY <3>3 DEF Succeeded, Visited
      <4> QED BY <4>1
    <3> QED BY <3>1, <3>2, <3>3, WorkOutcome
  <2> QED BY <2>1 DEF Goto, TypeOK, LocalTypeOK
<1>3. Overlap' = Overlap
  BY <1>1, <1>2 DEF Overlap
<1>4. \A q \in Packages \ {Pkg(p)} : dir'[q] = dir[q]
  BY WorkElsewhere
<1>5. /\ WholePackages = {q \in Packages : WholeDir(dir[q])}
      /\ WholePackages' = {q \in Packages : WholeDir(dir'[q])}
  BY DEF WholePackages, Whole, WholeDir
<1>6. \/ WholePackages' = WholePackages \cup {Pkg(p)}
      \/ WholePackages' = WholePackages
      \/ WholeDir(dir[Pkg(p)]) /\ WholePackages' = WholePackages \ {Pkg(p)}
  <2>1. CASE WholeDir(dir'[Pkg(p)])
    BY <1>1, <1>4, <1>5, <2>1
  <2>2. CASE ~WholeDir(dir'[Pkg(p)])
    BY <1>1, <1>4, <1>5, <2>2
  <2> QED BY <2>1, <2>2
<1>7. ASSUME ~Overlap, WholeDir(dir[Pkg(p)]) PROVE Pkg(p) \in Replaceable
  <2>1. AloneOK(p) /\ Active(p)
    BY <1>1, <1>7 DEF Overlap, AloneInv, Active
  <2>2. command[p].kind = "file"
    BY <1>7, <2>1 DEF AloneOK
  <2>3. todo[p] = <<Head(command[p].packages)>>
    BY <1>1, <2>2 DEF StageInv, StageOK
  <2>4. Pkg(p) = Head(command[p].packages)
    BY <2>3 DEF Pkg
  <2>5. command[p] \in Commands
    BY DEF TypeOK, LocalTypeOK
  <2> QED BY <2>2, <2>4, <2>5 DEF Replaceable
<1> QED BY <1>1, <1>3, <1>6, <1>7

LEMMA StoreStep == Inv /\ [Next]_vars => [Store!Next]_Store!vars
<1> SUFFICES ASSUME Inv, [Next]_vars PROVE [Store!Next]_Store!vars
  OBVIOUS
<1> USE DEF Store!Next, Store!vars, Store!Install, Store!Replace, Store!Share, Store!Interfere
<1>1. CASE UNCHANGED vars
  <2>1. WholePackages' = WholePackages /\ Overlap' = Overlap
    BY <1>1 DEF vars, local, history, WholePackages, Whole, Overlap
  <2> QED BY <2>1
<1>2. ASSUME UNCHANGED dir PROVE [Store!Next]_Store!vars
  <2>1. WholePackages' = WholePackages
    BY <1>2 DEF WholePackages, Whole
  <2>2. Overlap' \in BOOLEAN
    BY DEF Overlap
  <2> QED BY <2>1, <2>2
<1>3. ASSUME NEW p \in Processes, Start(p) PROVE UNCHANGED dir
  BY <1>3, StartSetsOut DEF Launch, Inv
<1>4. ASSUME NEW p \in Processes, Skip(p) \/ Begin(p) \/ NextRoot(p) \/ Finish(p) \/ Crash(p)
      PROVE  UNCHANGED dir
  BY <1>4 DEF Skip, Begin, NextRoot, Finish, Crash
<1>5. ASSUME NEW p \in Processes, Work(p) PROVE [Store!Next]_Store!vars
  <2>1. WholePackages' \subseteq Packages
    BY DEF WholePackages
  <2> QED BY <1>5, <2>1, WorkStores
<1> QED BY <1>1, <1>2, <1>3, <1>4, <1>5 DEF Next, Step, Work

\* The cache implements the store: a command loses no package that is whole,
\* except where it was asked to put another copy in its place, as long as it has
\* the cache for itself, and whatever fails.
THEOREM CacheKeepsWhole == Spec => KeepsWhole
<1>1. Init => Store!Init
  BY DEF Init, Store!Init, WholePackages, Overlap
<1>2. Inv /\ [Next]_vars => [Store!Next]_Store!vars
  BY StoreStep
<1> QED BY <1>1, <1>2, InitInv, InvStep, PTL DEF Spec, KeepsWhole, Store!Spec

-----------------------------------------------------------------------------
(* Repairs in which nothing fails *)

LEMMA CleanOfStart ==
  ASSUME TypeOK, PresentOrAbsent, NEW p \in Processes, Start(p)
  PROVE  CleanInv'
<1>1. PICK c, list, rest : c \in Commands /\ Launch(p, c, list, rest) /\ SetsOut(c, list, rest)
  BY StartSetsOut
<1>2. /\ pc'[p] = "next" /\ command'[p] = c /\ todo'[p] = list /\ ok'[p] = TRUE
      /\ broken'[p] = {q \in Range(list) : Broken(q)} /\ dir' = dir
      /\ \A r \in Processes : clean'[r] => r = p
  BY <1>1 DEF Launch, Goto, Set, TypeOK, LocalTypeOK
<1>3. Range(list) \subseteq Packages
  BY <1>1 DEF SetsOut, Range
<1>4. Pending(p)' = Range(list)
  BY <1>2 DEF Active, Pending
<1>5. \A q \in Packages : ~Broken(q) /\ ~DownloadedDir(dir[q]) => dir[q] = Absent
  BY DEF Broken, FullyDownloaded, DownloadedDir, PresentOrAbsent
<1>6. c.kind \in {"fix", "purge"} => Range(list) = broken'[p]
  BY <1>1, <1>2 DEF SetsOut
<1>7. c.kind \in {"fix", "purge", "all"} => \A q \in Range(list) \ broken'[p] : dir[q] = Absent
  BY <1>1, <1>2, <1>3, <1>5, <1>6 DEF SetsOut, FullyDownloaded, DownloadedDir
<1>8. c.kind = "all" => \A q \in Packages \ c.blacklist : q \in Range(list) \/ DownloadedDir(dir[q])
  BY <1>1 DEF SetsOut, FullyDownloaded, DownloadedDir
<1>9. CleanOK(p)'
  BY <1>2, <1>4, <1>6, <1>7, <1>8 DEF CleanOK, MetadataStages
<1> QED BY <1>2, <1>9 DEF CleanInv

LEMMA CleanOfLoop ==
  ASSUME TypeOK, PresentOrAbsent, NEW p \in Processes, StageOK(p), CleanOK(p),
         Skip(p) \/ Begin(p) \/ NextRoot(p) \/ Finish(p)
  PROVE  CleanOK(p)'
<1>1. dir' = dir /\ command'[p] = command[p] /\ broken'[p] = broken[p] /\ ok'[p] = ok[p]
  BY DEF Skip, Visited, Begin, NextRoot, Finish
<1>2. ASSUME command[p].kind \notin {"fix", "purge", "all"} PROVE CleanOK(p)'
  BY <1>1, <1>2 DEF CleanOK, Repairs
<1>3. CASE Skip(p)
  BY <1>2, <1>3 DEF Skip
<1>4. CASE NextRoot(p)
  BY <1>2, <1>4 DEF NextRoot, StageOK
<1>5. CASE Finish(p)
  <2>1. pc[p] = "next" /\ pc'[p] = "idle" /\ todo'[p] = todo[p]
    BY <1>5 DEF Finish, Goto, TypeOK, LocalTypeOK
  <2>2. Pending(p)' = Pending(p)
    BY <2>1 DEF Pending, Active
  <2> QED BY <1>1, <2>1, <2>2 DEF CleanOK, MetadataStages
<1>6. CASE Begin(p) /\ command[p].kind \in {"fix", "purge", "all"}
  <2>1. /\ pc[p] = "next" /\ todo[p] # <<>> /\ todo'[p] = todo[p] /\ todo[p] \in Seq(Packages)
        /\ pc'[p] = IF Pkg(p) \in broken[p] THEN "remove" ELSE Fetching(p)
    BY <1>6 DEF Begin, Goto, TypeOK, LocalTypeOK
  <2>2. Range(todo[p]) = {Pkg(p)} \cup Range(Tail(todo[p]))
    BY <2>1, HeadAndTail DEF Pkg
  <2>3. Pending(p) = Range(todo[p]) /\ Pending(p)' = Range(Tail(todo[p])) /\ Pkg(p)' = Pkg(p)
    BY <2>1, FetchingByRoute DEF Pending, Active, Pkg
  <2>4. Pkg(p) \notin broken[p] => dir[Pkg(p)] = Absent
    BY <1>6, <2>2, <2>3 DEF CleanOK
  <2>5. pc'[p] \in MetadataStages => Arriving(dir'[Pkg(p)'], pc'[p])
    BY <1>1, <2>1, <2>3, <2>4, FetchingByRoute DEF Arriving, MetadataStages
  <2>6. command[p].kind = "purge" => pc'[p] = "remove"
    BY <1>6, <2>1, <2>2 DEF CleanOK
  <2> QED BY <1>1, <2>1, <2>2, <2>3, <2>5, <2>6 DEF CleanOK
<1> QED BY <1>2, <1>3, <1>4, <1>5, <1>6

\* Nothing stops a repair in which nothing fails.
LEMMA CleanWorkIsOk ==
  ASSUME TypeOK, PresentOrAbsent, NEW p \in Processes, StageOK(p), CleanOK(p), Work(p),
         clean'[p], Repairs(command[p])
  PROVE  ok'[p] = ok[p]
<1>1. ~Fault /\ ~Noticed
  BY DEF Fault, Noticed
<1>2. /\ command[p].kind \in {"fix", "purge", "all"}
      /\ command[p].kind # "purge" => command[p].online /\ command[p].route \notin {"v2", "own"}
      /\ command[p].kind = "purge" => pc[p] \in {"idle", "next", "remove", "removing"}
      /\ pc[p] \in MetadataStages => Arriving(dir[Pkg(p)], pc[p])
  BY DEF Repairs, CleanOK
<1>3. CASE RemoveDirectory(p) \/ DirectoryRemoved(p) \/ Replace(p) \/ Replaced(p)
  BY <1>3 DEF RemoveDirectory, DirectoryRemoved, Replace, Replaced, Removing
<1>4. CASE Metadata(p) \/ Arrived(p) \/ ArrivedWrong(p) \/ OpenArchive(p)
  BY <1>4 DEF Metadata, Arrived, ArrivedWrong, OpenArchive
<1>5. CASE Extract(p) \/ Extracted(p) \/ Copy(p) \/ Copied(p) \/ CopiedShort(p) \/ AlreadyPresent(p)
  BY <1>5 DEF Extract, Extracted, Copy, Copied, CopiedShort, AlreadyPresent, Succeeded
<1>6. CASE Offline(p)
  BY <1>2, <1>6 DEF Offline
<1>7. CASE BadEndpoint(p)
  BY <1>2, <1>7 DEF BadEndpoint, Arriving, MetadataStages
<1>8. CASE NotArrived(p)
  <2>1. pc[p] = "elmjson" /\ dir[Pkg(p)].elmjson = "none"
    BY <1>1, <1>8 DEF NotArrived
  <2> QED BY <1>2, <2>1 DEF Arriving, MetadataStages
<1>9. CASE NotExtracted(p) \/ NotCopied(p)
  BY <1>1, <1>9 DEF NotExtracted, NotCopied
<1>10. CASE Download(p)
  BY <1>1, <1>10 DEF Download, Accepts
<1>11. CASE GitHub(p)
  BY <1>1, <1>11 DEF GitHub
<1>12. CASE FromFile(p)
  BY <1>2, <1>12 DEF FromFile, StageOK
<1>13. CASE FromRepository(p)
  BY <1>2, <1>13 DEF FromRepository, StageOK
<1> QED BY <1>3, <1>4, <1>5, <1>6, <1>7, <1>8, <1>9, <1>10, <1>11, <1>12, <1>13 DEF Work


\* How a repair in which nothing fails works off its list.
LEMMA CleanWorkLists ==
  ASSUME TypeOK, PresentOrAbsent, NEW p \in Processes, StageOK(p), CleanOK(p), Work(p), clean'[p],
         command[p].kind \in {"fix", "purge", "all"}
  PROVE  /\ command'[p] = command[p] /\ broken'[p] = broken[p]
         /\ \/ Active(p)' /\ todo'[p] = todo[p] /\ ok'[p] = ok[p]
            \/ pc'[p] = "next" /\ todo'[p] = Tail(todo[p]) /\ ok'[p] = FALSE
            \/ pc'[p] = "next" /\ todo'[p] = Tail(todo[p]) /\ Done(p) /\ ok'[p] = ok[p]
            \/ /\ pc'[p] = "next" /\ todo'[p] = Tail(todo[p]) /\ DirectoryRemoved(p) /\ ok'[p] = ok[p]
               /\ command[p].kind = "purge"
<1> USE DEF TypeOK, LocalTypeOK, Goto, Set
<1>1. todo[p] # <<>> /\ Tail(todo[p]) \in Seq(Packages) /\ <<>> \o Tail(todo[p]) = Tail(todo[p])
  <2>1. todo[p] # <<>>
    BY WorkTyped, ActiveWorks DEF Touches
  <2>2. Tail(todo[p]) \in Seq(Packages)
    BY <2>1, HeadAndTail
  <2> QED BY <2>1, <2>2, ConcatEmptySeq
<1>2. CASE GoesOn(p)
  <2>1. PICK l : Goto(p, l) /\ LeadsTo(p, l)
    BY <1>2 DEF GoesOn
  <2>2. pc'[p] = l /\ l \notin {"idle", "next"}
    BY <2>1, FetchingByRoute DEF LeadsTo, MetadataStages
  <2> QED BY <1>2, <2>2 DEF GoesOn, Active
<1>3. CASE Failed(p)
  <2>1. \/ pc'[p] = "remove" /\ todo'[p] = todo[p] /\ ok'[p] = ok[p]
        \/ pc'[p] = "next" /\ todo'[p] = Tail(todo[p]) /\ ok'[p] = FALSE
    BY <1>3 DEF Failed, StopsAtFailure
  <2> QED BY <1>3, <2>1 DEF Failed, Active
<1>4. CASE Succeeded(p) /\ Done(p)
  <2>1. Visited(p, FALSE) /\ ok' = ok
    BY <1>4 DEF Succeeded
  <2>2. pc'[p] = "next" /\ todo'[p] = Tail(todo[p]) /\ command' = command /\ broken' = broken
    BY <1>1, <2>1 DEF Visited
  <2> QED BY <1>4, <2>1, <2>2
<1>5. CASE command[p].kind = "purge" /\ DirectoryRemoved(p) /\ Visited(p, FALSE) /\ UNCHANGED <<ok, fetched>>
  <2>2. pc'[p] = "next" /\ todo'[p] = Tail(todo[p]) /\ command' = command /\ broken' = broken
    BY <1>1, <1>5 DEF Visited
  <2> QED BY <1>5, <2>2
<1> QED BY <1>2, <1>3, <1>4, <1>5, WorkOutcome

\* The metadata arrive in their order in a directory that was not there.
LEMMA CleanWorkArrives ==
  ASSUME TypeOK, PresentOrAbsent, NEW p \in Processes, StageOK(p), CleanOK(p), Work(p), clean'[p],
         command[p].kind \in {"fix", "purge", "all"}, pc'[p] \in MetadataStages
  PROVE  Arriving(dir'[Pkg(p)], pc'[p])
<1>1. /\ ~Fault /\ ~Noticed /\ ~Failed(p) /\ ~Succeeded(p)
  <2>1. pc'[p] \notin {"remove", "next"}
    BY DEF MetadataStages
  <2> QED BY <2>1 DEF Fault, Noticed, Failed, Succeeded, Visited, Goto, TypeOK, LocalTypeOK
<1>2. /\ Pkg(p) \in Packages /\ dir[Pkg(p)] \in Directory /\ dir \in [Packages -> Directory]
      /\ dir[Pkg(p)].present \/ dir[Pkg(p)] = Absent
      /\ pc \in [Processes -> Stage]
  BY WorkTyped, ActiveWorks DEF Touches, TypeOK, LocalTypeOK, PresentOrAbsent
<1>3. pc[p] \in MetadataStages => Arriving(dir[Pkg(p)], pc[p])
  BY DEF CleanOK
<1>4. CASE RemoveDirectory(p) \/ Replace(p) \/ Replaced(p) \/ Copy(p) \/ GitHub(p) \/ FromFile(p) \/ FromRepository(p)
  BY <1>1, <1>2, <1>4 DEF RemoveDirectory, Replace, Removing, Replaced, Copy, GitHub, FromFile, FromRepository,
     Goto, MetadataStages
<1>5. CASE DirectoryRemoved(p)
  <2>1. dir'[Pkg(p)] = Absent
    BY <1>1, <1>2, <1>5 DEF DirectoryRemoved
  <2>2. pc'[p] = "next" \/ pc'[p] = Fetching(p)
    BY <1>2, <1>5 DEF DirectoryRemoved, Visited, Goto
  <2>3. pc'[p] = "metadata"
    BY <2>2, FetchingByRoute DEF MetadataStages
  <2> QED BY <2>1, <2>3 DEF Arriving
<1>6. ASSUME NEW d \in Directory, NEW i \in 0 .. 3, OpenNext(p, d, i)
      PROVE  /\ pc'[p] = Opens(d, i)
             /\ Opens(d, i) = "archive" => dir'[Pkg(p)] = d
             /\ Opens(d, i) # "archive" => dir'[Pkg(p)] = Opened(d, Opens(d, i))
  BY <1>2, <1>6, OpensNext DEF Goto
<1>7. CASE Metadata(p)
  <2>1. dir[Pkg(p)] = Absent
    BY <1>3, <1>7 DEF Metadata, MetadataStages, Arriving
  <2>2. OpenNext(p, Absent, 0)
    BY <1>7, <2>1 DEF Metadata, package_metadata_exists, Absent
  <2>3. Opens(Absent, 0) = "endpoint" /\ Absent \in Directory
    BY <1>2, <2>1 DEF Opens, Absent
  <2>4. pc'[p] = "endpoint" /\ dir'[Pkg(p)] = Opened(Absent, "endpoint")
    BY <1>6, <2>2, <2>3
  <2>5. Opened(Absent, "endpoint") = [Absent EXCEPT !.present = TRUE, !.endpoint = "torn"]
    BY DEF Opened
  <2>6. /\ Opened(Absent, "endpoint").endpoint = "torn" /\ Opened(Absent, "endpoint").elmjson = "none"
        /\ Opened(Absent, "endpoint").docs = "none"
    BY <2>5 DEF Absent
  <2> QED BY <2>4, <2>6 DEF Arriving
<1>8. CASE Arrived(p)
  <2> DEFINE d == dir[Pkg(p)]
             e == ArrivedDir(d, pc[p])
  <2>1. /\ pc[p] \in {"endpoint", "elmjson", "docs"} /\ IndexOf(pc[p]) \in 0 .. 3
        /\ OpenNext(p, e, IndexOf(pc[p])) /\ pc[p] \in Range(MetadataFiles)
    BY <1>8, ArrivedOpens DEF Arrived
  <2>2. e \in Directory /\ d \in Directory
    BY <1>2, <2>1, ArrivedDirTyped
  <2>3. Arriving(d, pc[p])
    BY <1>3, <2>1 DEF MetadataStages
  <2> HIDE DEF d, e
  <2>4. CASE pc[p] = "endpoint"
    <3>1. e = [d EXCEPT !.endpoint = "ok"]
      BY <2>3, <2>4 DEF ArrivedDir, Arriving, e
    <3>2. e.endpoint = "ok" /\ e.elmjson = "none" /\ e.docs = "none"
      BY <2>2, <2>3, <2>4, <3>1 DEF Arriving, Directory
    <3>3. Opens(e, IndexOf(pc[p])) = "elmjson"
      BY <2>1, <2>4, <3>2, StageOfFile DEF Opens
    <3>4. pc'[p] = "elmjson" /\ dir'[Pkg(p)] = Opened(e, "elmjson")
      BY <1>6, <2>1, <2>2, <3>3
    <3>5. Opened(e, "elmjson") = [e EXCEPT !.present = TRUE, !.elmjson = "torn"]
      BY DEF Opened
    <3> QED BY <2>2, <3>2, <3>4, <3>5 DEF Arriving, Directory
  <2>5. CASE pc[p] = "elmjson"
    <3>1. e = [d EXCEPT !.elmjson = "ok"]
      BY <2>3, <2>5 DEF ArrivedDir, Arriving, e
    <3>2. e.endpoint = "ok" /\ e.elmjson = "ok" /\ e.docs = "none"
      BY <2>2, <2>3, <2>5, <3>1 DEF Arriving, Directory
    <3>3. Opens(e, IndexOf(pc[p])) = "docs"
      BY <2>1, <2>5, <3>2, StageOfFile DEF Opens
    <3>4. pc'[p] = "docs" /\ dir'[Pkg(p)] = Opened(e, "docs")
      BY <1>6, <2>1, <2>2, <3>3
    <3>5. Opened(e, "docs") = [e EXCEPT !.present = TRUE, !.docs = "torn"]
      BY DEF Opened
    <3> QED BY <2>2, <3>2, <3>4, <3>5 DEF Arriving, Directory
  <2>6. CASE pc[p] = "docs"
    <3>1. e = [d EXCEPT !.docs = "ok"]
      BY <2>3, <2>6 DEF ArrivedDir, Arriving, e
    <3>2. e.endpoint = "ok" /\ e.elmjson = "ok" /\ e.docs = "ok"
      BY <2>2, <2>3, <2>6, <3>1 DEF Arriving, Directory
    <3>3. Opens(e, IndexOf(pc[p])) = "archive"
      BY <2>1, <2>6, <3>2, StageOfFile DEF Opens
    <3>4. pc'[p] = "archive" /\ dir'[Pkg(p)] = e
      BY <1>6, <2>1, <2>2, <3>3
    <3> QED BY <3>2, <3>4 DEF Arriving
  <2> QED BY <2>1, <2>4, <2>5, <2>6
<1>9. CASE OpenArchive(p)
  BY <1>2, <1>3, <1>9 DEF OpenArchive, Goto, MetadataStages, Arriving
<1>10. CASE Download(p)
  BY <1>1, <1>2, <1>3, <1>10 DEF Download, Goto, MetadataStages, Arriving
<1>11. CASE Extract(p)
  <2>1. PICK e \in Directory :
          /\ dir' = [dir EXCEPT ![Pkg(p)] = e] /\ e.endpoint = dir[Pkg(p)].endpoint
          /\ e.elmjson = IF dir[Pkg(p)].elmjson = "none" THEN "ok" ELSE dir[Pkg(p)].elmjson
          /\ e.docs = IF dir[Pkg(p)].docs = "none" THEN "ok" ELSE dir[Pkg(p)].docs
    BY <1>11, WritingLeaves
  <2>2. dir'[Pkg(p)] = e /\ pc[p] = "extract" /\ pc'[p] = "extracting"
    BY <1>2, <1>11, <2>1 DEF Extract, Goto
  <2> QED BY <1>3, <2>1, <2>2 DEF Arriving, MetadataStages
<1>12. CASE ArrivedWrong(p) \/ Offline(p) \/ NotArrived(p) \/ BadEndpoint(p) \/ NotExtracted(p) \/ NotCopied(p)
            \/ Extracted(p) \/ Copied(p) \/ CopiedShort(p) \/ AlreadyPresent(p)
  BY <1>1, <1>12 DEF ArrivedWrong, Offline, NotArrived, BadEndpoint, NotExtracted, NotCopied, Extracted, Copied,
     CopiedShort, AlreadyPresent
<1> QED BY <1>4, <1>5, <1>7, <1>8, <1>9, <1>10, <1>11, <1>12 DEF Work

LEMMA CleanOfWork ==
  ASSUME TypeOK, PresentOrAbsent, NEW p \in Processes, StageOK(p), AloneOK(p), CleanOK(p), Work(p), clean'[p]
  PROVE  CleanOK(p)'
<1>1. ASSUME command[p].kind \notin {"fix", "purge", "all"} PROVE CleanOK(p)'
  <2>1. command'[p] = command[p]
    BY WorkOutcome DEF GoesOn, Failed, Succeeded, Visited
  <2> QED BY <1>1, <2>1 DEF CleanOK, Repairs
<1> SUFFICES ASSUME command[p].kind \in {"fix", "purge", "all"} PROVE CleanOK(p)'
  BY <1>1
<1>2. ~Fault /\ ~Noticed
  BY DEF Fault, Noticed
<1>3. /\ Active(p) /\ Pkg(p) \in Packages /\ Lists(p) /\ dir \in [Packages -> Directory]
      /\ Range(todo[p]) = {Pkg(p)} \cup Range(Tail(todo[p])) /\ Range(todo[p]) \subseteq Packages
      /\ Pkg(p) \notin Range(Tail(todo[p])) /\ Pending(p)' \subseteq Range(Tail(todo[p]))
      /\ Pending(p) = Range(Tail(todo[p]))
      /\ \A q \in Packages : q # Pkg(p) => dir'[q] = dir[q]
  <2>1. Active(p) /\ Lists(p)
    BY WorkPending DEF Lists
  <2>2. todo[p] # <<>> /\ Pkg(p) \in Packages /\ todo[p] \in Seq(Packages) /\ dir \in [Packages -> Directory]
    BY <2>1, ActiveWorks DEF Active, TypeOK, LocalTypeOK
  <2>3. Range(todo[p]) = {Pkg(p)} \cup Range(Tail(todo[p])) /\ Range(todo[p]) \subseteq Packages
    <3>1. Range(todo[p]) = {Pkg(p)} \cup Range(Tail(todo[p]))
      BY <2>2, HeadAndTail DEF Pkg
    <3>2. Range(todo[p]) \subseteq Packages
      BY <2>2 DEF Range
    <3> QED BY <3>1, <3>2
  <2> QED BY <2>1, <2>2, <2>3, WorkPending, WorkElsewhere DEF AloneOK, Pending
<1>4. /\ command'[p] = command[p] /\ broken'[p] = broken[p] /\ broken[p] \subseteq Packages
      /\ \/ Active(p)' /\ todo'[p] = todo[p] /\ ok'[p] = ok[p]
         \/ pc'[p] = "next" /\ todo'[p] = Tail(todo[p]) /\ ok'[p] = FALSE
         \/ pc'[p] = "next" /\ todo'[p] = Tail(todo[p]) /\ Done(p) /\ ok'[p] = ok[p]
         \/ /\ pc'[p] = "next" /\ todo'[p] = Tail(todo[p]) /\ DirectoryRemoved(p) /\ ok'[p] = ok[p]
            /\ command[p].kind = "purge"
  BY CleanWorkLists DEF TypeOK, LocalTypeOK
<1>5. /\ ok'[p] => ok[p]
      /\ \A q \in Packages : q # Pkg(p) => (q \in Range(todo[p]) <=> q \in Range(todo'[p]))
      /\ Range(todo'[p]) \subseteq Range(todo[p])
  BY <1>3, <1>4
<1>6. Repairs(command[p]) => ok'[p]
  BY CleanWorkIsOk DEF CleanOK
<1>7. \A q \in Pending(p)' \ broken[p] : dir'[q] = Absent
  <2>1. ASSUME NEW q \in Range(Tail(todo[p])) \ broken[p] PROVE dir'[q] = Absent
    BY <1>3, <2>1 DEF CleanOK
  <2> QED BY <1>3, <2>1
<1>8. pc'[p] \in MetadataStages => Arriving(dir'[Pkg(p)'], pc'[p])
  <2>1. HAVE pc'[p] \in MetadataStages
  <2>2. todo'[p] = todo[p]
    BY <1>4, <2>1 DEF MetadataStages
  <2>3. Pkg(p)' = Pkg(p)
    BY <2>2 DEF Pkg
  <2> QED BY <2>1, <2>3, CleanWorkArrives
<1>9. command[p].kind = "purge" =>
        /\ pc'[p] \in {"idle", "next", "remove", "removing"}
        /\ todo'[p] # todo[p] => dir'[Pkg(p)] = Absent
  <2>1. HAVE command[p].kind = "purge"
  <2>2. pc[p] \in {"remove", "removing"}
    BY <1>3, <2>1 DEF CleanOK, Active
  <2>3. RemoveDirectory(p) \/ DirectoryRemoved(p)
    <3>1. ~(Offline(p) \/ Metadata(p) \/ Arrived(p) \/ ArrivedWrong(p) \/ NotArrived(p))
      BY <2>2, StageOfFile DEF Offline, Metadata, Arrived, ArrivedWrong, NotArrived
    <3>2. ~(BadEndpoint(p) \/ OpenArchive(p) \/ Download(p) \/ Extract(p) \/ Extracted(p) \/ NotExtracted(p))
      BY <2>2 DEF BadEndpoint, OpenArchive, Download, Extract, Extracted, NotExtracted
    <3>3. ~(GitHub(p) \/ FromFile(p) \/ FromRepository(p) \/ AlreadyPresent(p) \/ Replace(p) \/ Replaced(p)
            \/ Copy(p) \/ Copied(p) \/ CopiedShort(p) \/ NotCopied(p))
      BY <2>2 DEF GitHub, FromFile, FromRepository, AlreadyPresent, Replace, Removing, Replaced, Copy, Copied,
         CopiedShort, NotCopied
    <3> QED BY <3>1, <3>2, <3>3 DEF Work
  <2>4. CASE RemoveDirectory(p)
    BY <2>4 DEF RemoveDirectory, Removing, Goto, TypeOK, LocalTypeOK
  <2>5. CASE DirectoryRemoved(p)
    <3>1. dir'[Pkg(p)] = Absent
      BY <1>2, <1>3, <2>5 DEF DirectoryRemoved
    <3>2. pc'[p] = "next"
      BY <2>1, <2>5 DEF DirectoryRemoved, Visited, Goto, TypeOK, LocalTypeOK
    <3> QED BY <3>1, <3>2
  <2> QED BY <2>3, <2>4, <2>5
<1>10. command[p].kind = "purge" => \A q \in broken[p] \ Range(todo'[p]) : dir'[q] = Absent
  BY <1>3, <1>4, <1>5, <1>9 DEF CleanOK
<1>11. ASSUME command[p].kind # "purge", ok'[p], todo'[p] # todo[p],
              command[p].kind = "all" \/ command[p].route = "v1"
       PROVE  /\ DownloadedDir(dir'[Pkg(p)])
              /\ command[p].route = "v1" => WholeDir(dir'[Pkg(p)])
  <2>1. Extracted(p) \/ Copied(p)
    <3>1. command[p].route # "own"
      BY <1>11, CacheAssumption DEF TypeOK, LocalTypeOK
    <3> QED BY <1>2, <1>4, <1>11, <3>1 DEF Done, CopiedShort, AlreadyPresent
  <2>2. PICK e \in Directory :
          /\ dir' = [dir EXCEPT ![Pkg(p)] = e] /\ e.present /\ (~Others(p) => e.src = "full")
          /\ e.elmjson = dir[Pkg(p)].elmjson /\ e.docs = dir[Pkg(p)].docs
    BY <2>1, FilledLeaves
  <2>3. dir'[Pkg(p)] = e /\ e.src = "full"
    BY <1>3, <2>2 DEF Others, AloneOK
  <2>4. ASSUME command[p].route = "v1" PROVE WholeDir(e)
    <3>1. pc[p] = "extracting"
      BY <2>1, <2>4 DEF StageOK, Extracted, Copied
    <3>2. Arriving(dir[Pkg(p)], "extracting")
      BY <3>1 DEF CleanOK, MetadataStages
    <3> QED BY <2>2, <2>3, <3>2 DEF Arriving, WholeDir
  <2> QED BY <2>2, <2>3, <2>4 DEF DownloadedDir
<1>12. ok'[p] /\ command[p].kind = "fix" /\ command[p].route = "v1" =>
         \A q \in broken[p] \ Range(todo'[p]) : WholeDir(dir'[q])
  <2>1. HAVE ok'[p] /\ command[p].kind = "fix" /\ command[p].route = "v1"
  <2>2. \A q \in broken[p] \ Range(todo[p]) : WholeDir(dir[q])
    BY <1>5, <2>1 DEF CleanOK
  <2> QED BY <1>3, <1>4, <1>5, <1>11, <2>1, <2>2
<1>13. ok'[p] /\ command[p].kind = "all" =>
         \A q \in Packages \ command[p].blacklist : q \in Range(todo'[p]) \/ DownloadedDir(dir'[q])
  <2>1. HAVE ok'[p] /\ command[p].kind = "all"
  <2>2. \A q \in Packages \ command[p].blacklist : q \in Range(todo[p]) \/ DownloadedDir(dir[q])
    BY <1>5, <2>1 DEF CleanOK
  <2> QED BY <1>3, <1>4, <1>5, <1>11, <2>1, <2>2
<1>14. command[p].kind \in {"fix", "purge"} => Range(todo'[p]) \subseteq broken[p]
  BY <1>5 DEF CleanOK
<1> QED BY <1>4, <1>6, <1>7, <1>8, <1>9, <1>10, <1>12, <1>13, <1>14 DEF CleanOK

LEMMA CleanStep ==
  ASSUME Inv, CleanInv, NEW p \in Processes, Start(p) \/ Step(p) \/ Crash(p)
  PROVE  CleanInv'
<1> USE DEF Inv
<1>1. CASE Start(p)
  BY <1>1, CleanOfStart
<1>2. CASE Crash(p)
  BY <1>2 DEF Crash, Noticed, Fault, CleanInv, TypeOK
<1>3. CASE Step(p)
  <2>1. pc[p] # "idle" /\ \A r \in Processes : clean'[r] => clean[r]
    BY <1>3, StepKeepsHistory
  <2>2. \A r \in Processes : clean[r] => r = p /\ AloneOK(r)
    BY <2>1 DEF AloneInv, AloneOK
  <2>3. ASSUME clean'[p] PROVE CleanOK(p)'
    <3>1. StageOK(p) /\ AloneOK(p) /\ CleanOK(p)
      BY <2>1, <2>2, <2>3 DEF StageInv, CleanInv
    <3> QED BY <1>3, <2>3, <3>1, CleanOfLoop, CleanOfWork DEF Step, Work
  <2>4. ASSUME NEW r \in Processes, clean'[r] PROVE r = p
    BY <2>1, <2>2, <2>4
  <2> QED BY <2>3, <2>4 DEF CleanInv
<1> QED BY <1>1, <1>2, <1>3

LEMMA CleanInvRepairs == TypeOK /\ PresentOrAbsent /\ StageInv /\ CleanInv => CleanRunsRepair
<1> SUFFICES ASSUME TypeOK, PresentOrAbsent, StageInv, CleanInv, NEW p \in Processes, clean[p]
             PROVE  LET c == command[p] IN
    /\ c.kind = "purge" \/ (c.kind \in {"fix", "all"} /\ c.online /\ c.route \notin {"v2", "own"}) => ok[p]
    /\ pc[p] = "idle" /\ ok[p] =>
         /\ c.kind = "fix" /\ c.route = "v1" => \A q \in broken[p] : Whole(q)
         /\ c.kind = "all" => FullScan.broken \cup FullScan.missing \subseteq c.blacklist
         /\ c.kind = "purge" => \A q \in broken[p] : dir[q] = Absent
  BY DEF CleanRunsRepair
<1>1. CleanOK(p) /\ broken[p] \subseteq Packages
  BY DEF CleanInv, TypeOK, LocalTypeOK
<1>2. pc[p] = "idle" => Range(todo[p]) = {}
  BY DEF StageInv, StageOK, Range
<1>3. ASSUME pc[p] = "idle", ok[p], command[p].kind = "all"
      PROVE  FullScan.broken \cup FullScan.missing \subseteq command[p].blacklist
  <2>1. /\ FullScan.broken = {q \in Packages : scan_package(q) = "broken"}
        /\ FullScan.missing = {q \in Packages : scan_package(q) = "missing"}
    BY DEF FullScan
  <2>2. \A q \in Packages \ command[p].blacklist : DownloadedDir(dir[q])
    BY <1>1, <1>2, <1>3 DEF CleanOK
  <2>3. \A q \in Packages \ command[p].blacklist : scan_package(q) = "good"
    BY <2>2 DEF scan_package, DownloadedDir
  <2> QED BY <2>1, <2>3
<1>4. ASSUME pc[p] = "idle", ok[p], command[p].kind = "fix", command[p].route = "v1", NEW q \in broken[p]
      PROVE  Whole(q)
  BY <1>1, <1>2, <1>4 DEF CleanOK, Whole, WholeDir
<1> QED BY <1>1, <1>2, <1>3, <1>4 DEF CleanOK, Repairs

\* A repair that nobody disturbs and in which nothing fails gets to its end and
\* repairs, whatever crashes and failures have left in the cache before: no torn
\* or missing file is in its way, and none is taken for what it should be.
THEOREM CleanRunsDoRepair == Spec => []CleanRunsRepair
<1>1. Init => Inv /\ CleanInv
  BY InitInv DEF Init, CleanInv
<1>2. Inv /\ CleanInv /\ [Next]_vars => (Inv /\ CleanInv)'
  <2> SUFFICES ASSUME Inv, CleanInv, [Next]_vars PROVE (Inv /\ CleanInv)'
    OBVIOUS
  <2>1. CASE UNCHANGED vars
    <3>1. UNCHANGED <<dir, pc, command, todo, broken, ok, clean>>
      BY <2>1 DEF vars, local, history
    <3>2. CleanInv'
      BY <3>1 DEF CleanInv, CleanOK, Pending, Active, Pkg
    <3> QED BY <2>1, <3>2, InvStep
  <2>2. CASE Next
    BY <2>2, InvStep, CleanStep DEF Next
  <2> QED BY <2>1, <2>2
<1>3. Inv /\ CleanInv => CleanRunsRepair
  BY CleanInvRepairs DEF Inv
<1> QED BY <1>1, <1>2, <1>3, PTL DEF Spec

-----------------------------------------------------------------------------
(* Hashes *)

LEMMA VerifiedOfWork ==
  ASSUME Inv, VerifiedInv, ~unchecked, NEW p \in Processes, Work(p)
  PROVE  /\ \A q \in Packages : dir'[q].tainted = FALSE
         /\ temp'[p] # "bad"
<1> USE DEF Inv
<1>1. /\ Pkg(p) \in Packages /\ dir \in [Packages -> Directory] /\ dir[Pkg(p)] \in Directory
      /\ pc[p] \notin {"idle", "next"} /\ dir[Pkg(p)].tainted = FALSE /\ temp[p] # "bad"
      /\ command[p].ignore_hash = FALSE /\ command[p].route # "github"
      /\ temp \in [Processes -> {"none", "torn", "good", "bad"}]
      /\ dir[Pkg(p)].present \/ dir[Pkg(p)] = Absent
  <2>1. pc[p] \notin {"idle", "next"}
    BY WorkTyped DEF Touches
  <2> QED BY <2>1, ActiveWorks DEF VerifiedInv, TypeOK, PresentOrAbsent
<1>2. temp'[p] # "bad"
  <2>1. ~GitHub(p)
    BY <1>1 DEF GitHub, StageInv, StageOK
  <2>2. CASE Download(p)
    BY <1>1, <2>2 DEF Download, Accepts, Discard, Set
  <2>3. CASE OpenArchive(p) \/ FromFile(p) \/ FromRepository(p) \/ AlreadyPresent(p)
    BY <1>1, <2>3 DEF OpenArchive, FromFile, FromRepository, AlreadyPresent, Set
  <2>4. CASE Extracted(p) \/ NotExtracted(p) \/ Copied(p) \/ CopiedShort(p) \/ NotCopied(p) \/ Extract(p) \/ Copy(p)
    BY <1>1, <2>4 DEF Extracted, NotExtracted, Copied, CopiedShort, NotCopied, Extract, Copy, Set
  <2>5. CASE Offline(p) \/ Metadata(p) \/ Arrived(p) \/ ArrivedWrong(p) \/ NotArrived(p) \/ BadEndpoint(p)
    BY <1>1, <2>5 DEF Offline, Metadata, Arrived, ArrivedWrong, NotArrived, BadEndpoint
  <2>6. CASE RemoveDirectory(p) \/ DirectoryRemoved(p) \/ Replace(p) \/ Replaced(p)
    BY <1>1, <2>6 DEF RemoveDirectory, DirectoryRemoved, Replace, Replaced, Removing
  <2> QED BY <2>1, <2>2, <2>3, <2>4, <2>5, <2>6 DEF Work
<1>3. dir'[Pkg(p)].tainted = FALSE
  <2>1. ASSUME \E e \in Directory : dir' = [dir EXCEPT ![Pkg(p)] = e] /\ e.tainted = FALSE
        PROVE  dir'[Pkg(p)].tainted = FALSE
    BY <1>1, <2>1
  <2>2. CASE UNCHANGED dir
    BY <1>1, <2>2
  <2>3. Absent.tainted = FALSE /\ Absent \in Directory
    BY DEF Absent, Directory, File, Source
  <2>4. CASE RemoveDirectory(p) \/ Replace(p)
    <3>1. PICK from \in {"remove", "replace"}, during \in {"removing", "replacing"} : Removing(p, Pkg(p), from, during)
      BY <2>4 DEF RemoveDirectory, Replace
    <3>2. PICK e \in Directory :
            /\ dir' = [dir EXCEPT ![Pkg(p)] = e]
            /\ e = Absent \/ (~dir[Pkg(p)].tainted => ~e.tainted)
      BY <3>1, RemovingLeaves
    <3>3. e.tainted = FALSE
      BY <1>1, <2>3, <3>2 DEF Directory
    <3> QED BY <2>1, <3>2, <3>3
  <2>5. CASE DirectoryRemoved(p) \/ Replaced(p)
    BY <2>1, <2>2, <2>3, <2>5 DEF DirectoryRemoved, Replaced
  <2>6. ASSUME NEW d \in Directory, d.present \/ d = Absent, d.tainted = FALSE,
               NEW i \in 0 .. 3, OpenNext(p, d, i)
        PROVE  dir'[Pkg(p)].tainted = FALSE
    <3>1. \E e \in Directory : dir' = [dir EXCEPT ![Pkg(p)] = e] /\ e.tainted = d.tainted
      BY <1>1, <2>6, OpensTyped
    <3> QED BY <2>1, <2>6, <3>1
  <2>7. CASE Metadata(p)
    <3>1. UNCHANGED dir \/ OpenNext(p, dir[Pkg(p)], 0)
      BY <2>7 DEF Metadata
    <3>2. 0 \in 0 .. 3
      OBVIOUS
    <3> QED BY <1>1, <2>2, <2>6, <3>1, <3>2
  <2>8. CASE Arrived(p)
    <3>1. /\ pc[p] \in {"endpoint", "elmjson", "docs"} /\ IndexOf(pc[p]) \in 0 .. 3
          /\ OpenNext(p, ArrivedDir(dir[Pkg(p)], pc[p]), IndexOf(pc[p]))
      BY <2>8, ArrivedOpens
    <3>2. /\ ArrivedDir(dir[Pkg(p)], pc[p]) \in Directory
          /\ ArrivedDir(dir[Pkg(p)], pc[p]).present \/ ArrivedDir(dir[Pkg(p)], pc[p]) = Absent
          /\ ArrivedDir(dir[Pkg(p)], pc[p]).tainted = FALSE
      BY <1>1, <3>1, ArrivedDirTyped
    <3> QED BY <2>6, <3>1, <3>2
  <2>9. CASE ArrivedWrong(p)
    <3>1. IndexOf(pc[p]) \in 0 .. 3
      <4>1. MetadataFiles[1] = "endpoint" /\ MetadataFiles[3] = "docs" /\ {1, 3} \subseteq DOMAIN MetadataFiles
        BY DEF MetadataFiles
      <4>2. pc[p] \in Range(MetadataFiles)
        BY <2>9, <4>1 DEF ArrivedWrong, Range
      <4> QED BY <4>2, StageOfFile
    <3> QED BY <1>1, <2>6, <2>9, <3>1 DEF ArrivedWrong
  <2>10. CASE NotArrived(p)
    BY <1>1, <2>1, <2>10, NotArrivedLeaves
  <2>11. CASE Extract(p) \/ Copy(p)
    <3>1. Tainted(p, dir[Pkg(p)]) = FALSE
      BY <1>1 DEF Tainted
    <3> QED BY <2>1, <2>11, <3>1, WritingLeaves
  <2>12. CASE Extracted(p) \/ Copied(p)
    BY <1>1, <2>1, <2>12, FilledLeaves
  <2>13. CASE CopiedShort(p) \/ NotCopied(p)
    BY <1>1, <2>1, <2>13, ShortLeaves, NotCopiedLeaves
  <2>14. CASE \/ Offline(p) \/ BadEndpoint(p) \/ OpenArchive(p) \/ Download(p) \/ GitHub(p)
              \/ FromFile(p) \/ FromRepository(p) \/ AlreadyPresent(p) \/ NotExtracted(p)
    BY <2>2, <2>14 DEF Offline, BadEndpoint, OpenArchive, Download, GitHub, FromFile, FromRepository,
       AlreadyPresent, NotExtracted
  <2> QED BY <2>4, <2>5, <2>7, <2>8, <2>9, <2>10, <2>11, <2>12, <2>13, <2>14 DEF Work
<1>4. ASSUME NEW q \in Packages, q # Pkg(p) PROVE dir'[q].tainted = FALSE
  BY <1>4, WorkElsewhere DEF VerifiedInv
<1> QED BY <1>2, <1>3, <1>4

LEMMA VerifiedStep ==
  ASSUME Inv, VerifiedInv, NEW p \in Processes, Start(p) \/ Step(p) \/ Crash(p)
  PROVE  VerifiedInv'
<1> USE DEF Inv
<1>1. CASE Start(p)
  <2>1. PICK c, list, rest : c \in Commands /\ Launch(p, c, list, rest)
    BY <1>1, StartSetsOut
  <2>2. /\ dir' = dir /\ temp' = temp /\ command'[p] = c
        /\ unchecked' = (unchecked \/ c.ignore_hash \/ c.route = "github")
    BY <2>1 DEF Launch, Set, TypeOK, LocalTypeOK
  <2>3. c.ignore_hash \in BOOLEAN
    BY <2>1, CacheAssumption DEF Command
  <2>4. ~unchecked' => /\ ~unchecked /\ command'[p].ignore_hash = FALSE /\ command'[p].route # "github"
    BY <2>2, <2>3
  <2>5. \A r \in Processes \ {p} : pc'[r] = pc[r] /\ command'[r] = command[r]
    BY <1>1, OthersKeepTheirs
  <2> QED BY <2>2, <2>4, <2>5 DEF VerifiedInv
<1>2. ASSUME Step(p) \/ Crash(p) PROVE unchecked' = unchecked /\ pc[p] # "idle"
  BY <1>2, StepKeepsHistory
<1>3. ASSUME NEW r \in Processes \ {p}
      PROVE  pc'[r] = pc[r] /\ command'[r] = command[r] /\ temp'[r] = temp[r]
  BY OthersKeepTheirs
<1>4. CASE Skip(p) \/ Begin(p) \/ NextRoot(p) \/ Finish(p) \/ Crash(p)
  <2>1. dir' = dir /\ command'[p] = command[p] /\ (temp'[p] = temp[p] \/ temp'[p] = "none")
    BY <1>4 DEF Skip, Visited, Begin, NextRoot, Finish, Crash, Set, TypeOK
  <2> QED BY <1>2, <1>3, <1>4, <2>1 DEF VerifiedInv, Step
<1>5. CASE Work(p)
  <2>1. command'[p] = command[p]
    BY <1>5, WorkOutcome DEF GoesOn, Failed, Succeeded, Visited
  <2>2. unchecked' = unchecked /\ pc[p] # "idle"
    BY <1>2, <1>5 DEF Work, Step
  <2> QED BY <1>3, <1>5, <2>1, <2>2, VerifiedOfWork DEF VerifiedInv
<1> QED BY <1>1, <1>4, <1>5 DEF Step, Work

\* Nothing of a wrong archive to begin with.
CleanStart == \A d \in InitialDirs : \A q \in Packages : d[q].tainted = FALSE

\* When the cache begins without the contents of a wrong archive it never has
\* any in src/ as long as every command has compared hashes, also when several
\* processes fetch the same package at once into the same place.
THEOREM VerifiedAtOnce == CleanStart => (Spec => []VerifiedSource)
<1> SUFFICES ASSUME CleanStart PROVE Spec => []VerifiedSource
  OBVIOUS
<1>1. Init => Inv /\ VerifiedInv
  BY InitInv DEF Init, VerifiedInv, CleanStart
<1>2. Inv /\ VerifiedInv /\ [Next]_vars => (Inv /\ VerifiedInv)'
  <2> SUFFICES ASSUME Inv, VerifiedInv, [Next]_vars PROVE (Inv /\ VerifiedInv)'
    OBVIOUS
  <2>1. CASE UNCHANGED vars
    <3>1. UNCHANGED <<dir, pc, command, temp, unchecked>>
      BY <2>1 DEF vars, local, history
    <3> QED BY <2>1, <3>1, InvStep DEF VerifiedInv
  <2>2. CASE Next
    BY <2>2, InvStep, VerifiedStep DEF Next
  <2> QED BY <2>1, <2>2
<1>3. Inv /\ VerifiedInv => VerifiedSource
  BY DEF VerifiedInv, VerifiedSource
<1> QED BY <1>1, <1>2, <1>3, PTL DEF Spec
=============================================================================
