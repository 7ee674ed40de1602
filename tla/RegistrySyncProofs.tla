------------------------- MODULE RegistrySyncProofs -------------------------
(***************************************************************************)
(* One command at a time, whatever crashes, fails or is lost: no published *)
(* version is skipped; registry.dat is never torn if no write is lost when *)
(* it is closed; and, if registry.dat can be written, the ETag is honest.  *)
(***************************************************************************)
EXTENDS RegistrySync, TLAPS, FiniteSetTheorems

\* How many versions /all-packages/since/<n> answers with.
LEMMA NewsCount ==
  ASSUME NEW n \in Nat, published \in Nat
  PROVE  Cardinality(News(n)) = IF published > n THEN published - n ELSE 0
BY FS_Interval DEF News

\* What a command that edits registry.dat finds is typed.
LEMMA StoredTyped ==
  ASSUME dat \in Content \cup {NoFile}
  PROVE  Stored \in Content
BY DEF Stored, Content

\* An edit keeps the type of what it edits.
LEMMA EditedTyped ==
  ASSUME NEW c \in Content, NEW edit, NEW v \in Nat
  PROVE  Edited(c, edit, v) \in Content
BY DEF Edited, cmd_registry_v1_add, cmd_registry_v1_apply_since, cmd_registry_v1_remove, Content

\* The three stages of a write are known by their labels throughout.
USE DEF Opening, Filling, Renaming

-----------------------------------------------------------------------------
(* Type correctness *)

\* The initial states are typed.
LEMMA TypeInit == Init => TypeOK
BY InitialAssumption, BoundAssumption DEF Init, TypeOK, Location

\* The environment's steps keep the types.
LEMMA TypeEnvironment ==
  ASSUME TypeOK, Publish \/ ElmUpdate
  PROVE  TypeOK'
<1>1. CASE Publish
  BY <1>1, BoundAssumption DEF Publish, TypeOK, disk, memory
<1>2. CASE ElmUpdate
  <2>1. dat' \in Content
    BY <1>2, StoredTyped, BoundAssumption DEF ElmUpdate, TypeOK, Content, News
  <2> QED BY <1>2, <2>1 DEF ElmUpdate, TypeOK, memory
<1> QED BY <1>1, <1>2

\* A step of a process keeps the types.
LEMMA TypeStep ==
  ASSUME TypeOK, NEW p \in Processes, Start(p) \/ Step(p) \/ Crash(p)
  PROVE  TypeOK'
<1> USE DEF TypeOK, Goto, disk, memory, Location
<1>1. CASE Crash(p)        BY <1>1 DEF Crash
<1>2. CASE Start(p)        BY <1>2, CommandsAssumption DEF Start
<1>3. CASE LoadRegistry(p)
  <2>1. CASE Readable(dat)
    <3>1. dat \in Content
      BY <2>1 DEF Readable
    <3>2. dat.count \in Nat /\ dat.map \cup Merged \in SUBSET Nat
      BY <3>1, MergedAssumption DEF Content
    <3> QED BY <1>3, <2>1, <3>2 DEF LoadRegistry
  <2>2. CASE ~Readable(dat)
    BY <1>3, <2>2 DEF LoadRegistry
  <2> QED BY <2>1, <2>2
<1>4. CASE LoadEtag(p)     BY <1>4 DEF LoadEtag
<1>5. CASE RepairHeader(p) BY <1>5 DEF RepairHeader
<1>6. CASE HeaderAgrees(p) BY <1>6 DEF HeaderAgrees
<1>7. CASE Offline(p)      BY <1>7 DEF Offline
<1>8. CASE SkipUpdate(p)   BY <1>8 DEF SkipUpdate
<1>9. CASE Online(p)       BY <1>9 DEF Online
<1>10. CASE FetchFails(p)  BY <1>10 DEF FetchFails
<1>11. CASE FetchNotModified(p) BY <1>11 DEF FetchNotModified, Current
<1>12. CASE Fetch(p)       BY <1>12 DEF Fetch, parse_all_packages_json, Current
<1>13. CASE HeadNotModified(p) BY <1>13 DEF HeadNotModified, Current
<1>14. CASE Head(p)        BY <1>14 DEF Head
<1>15. CASE SinceFails(p)  BY <1>15 DEF SinceFails
<1>16. CASE Since(p)
  <2>1. Cardinality(News(known[p])) \in Nat
    BY NewsCount
  <2>2. News(known[p]) \subseteq Nat
    BY DEF News
  <2> QED BY <1>16, <2>1, <2>2 DEF Since, Current
<1>17. CASE WriteSidecar(p) BY <1>17 DEF WriteSidecar
<1>18. CASE WriteEtag(p)   BY <1>18 DEF WriteEtag
<1>19. CASE OpenTmp(p)     BY <1>19 DEF OpenTmp, Caller
<1>20. CASE FillTmp(p)     BY <1>20 DEF FillTmp, Caller, Content
<1>21. CASE RenameTmp(p)   BY <1>21 DEF RenameTmp, Written, Caller
<1>22. CASE WriteFails(p)  BY <1>22 DEF WriteFails, NotWritten, Caller, Repath
<1>23. CASE Ready(p)       BY <1>23 DEF Ready
<1>24. CASE Edit(p)
  <2>1. Stored \in Content
    BY <1>24, StoredTyped DEF Edit
  <2>2. command[p].version \in Nat
    BY CommandsAssumption DEF Command
  <2>3. Edited(Stored, command[p].edit, command[p].version) \in Content
    BY <2>1, <2>2, EditedTyped
  <2> QED BY <1>24, <2>3 DEF Edit, Content
<1>25. CASE NoEdit(p)      BY <1>25 DEF NoEdit
<1>26. CASE ResetDat(p)    BY <1>26 DEF ResetDat, Repath
<1>27. CASE ResetEtag(p)   BY <1>27 DEF ResetEtag
<1>28. CASE ResetSidecar(p) BY <1>28 DEF ResetSidecar
<1>29. CASE DeleteFails(p) BY <1>29 DEF DeleteFails
<1> QED
  BY <1>1, <1>2, <1>3, <1>4, <1>5, <1>6, <1>7, <1>8, <1>9, <1>10, <1>11, <1>12,
     <1>13, <1>14, <1>15, <1>16, <1>17, <1>18, <1>19, <1>20, <1>21, <1>22, <1>23,
     <1>24, <1>25, <1>26, <1>27, <1>28, <1>29 DEF Step
-----------------------------------------------------------------------------
(* The counters are honest *)

\* Where nobody resets, no process is at a reset.
LEMMA NobodyResets ==
  ASSUME LocalEditsOnly, TypeOK, NEW p \in Processes
  PROVE  pc[p] \notin {"reset_dat", "reset_etag", "reset_sidecar"}
BY DEF LocalEditsOnly, TypeOK

\* The answer to /since/<n> takes a registry that holds 1 .. n to one that holds
\* all that was published, and the count with it.
LEMMA SinceCovers ==
  ASSUME NEW n \in Nat, published \in Nat, NEW r \in SUBSET Nat, 1 .. n \subseteq r
  PROVE  /\ n + Cardinality(News(n)) \in Nat
         /\ n + Cardinality(News(n)) >= n
         /\ n + Cardinality(News(n)) >= published
         /\ n + Cardinality(News(n)) = n => published <= n
         /\ 1 .. (n + Cardinality(News(n))) \subseteq r \cup News(n)
         /\ 1 .. published \subseteq r \cup News(n)
<1>1. Cardinality(News(n)) = IF published > n THEN published - n ELSE 0
  BY NewsCount
<1>2. CASE published > n  BY <1>1, <1>2 DEF News
<1>3. CASE published <= n BY <1>1, <1>3 DEF News
<1> QED BY <1>2, <1>3

\* A local edit leaves the count and every published version where they are.
LEMMA LocalEditKeeps ==
  ASSUME LocalEditsOnly, TypeOK, NEW p \in Processes, NEW c \in Content,
         command[p].edit # "none"
  PROVE  /\ Edited(c, command[p].edit, command[p].version).count = c.count
         /\ \A n \in Nat : 1 .. n \subseteq c.map =>
              1 .. n \subseteq Edited(c, command[p].edit, command[p].version).map
BY DEF LocalEditsOnly, TypeOK, Edited, Content

\* A step keeps the temporary file in hand.
LEMMA TmpStep ==
  ASSUME OneAtATime, LocalEditsOnly, CounterInv, TypeOK', NEW p \in Processes,
         Start(p) \/ Step(p) \/ Crash(p)
  PROVE  TmpReady'
<1> USE DEF CounterInv, TypeOK, TmpReady, Goto, disk, memory
<1>0. \A q \in Processes : q = p
  BY DEF OneAtATime
<1>1. CASE Crash(p)
  BY <1>0, <1>1 DEF Crash
<1>2. CASE Start(p)
  BY <1>0, <1>2 DEF Start
<1>3. CASE LoadRegistry(p)
  BY <1>0, <1>3, FilesDistinct DEF LoadRegistry
<1>4. CASE LoadEtag(p)
  BY <1>0, <1>4 DEF LoadEtag
<1>5. CASE RepairHeader(p)
  BY <1>0, <1>5 DEF RepairHeader
<1>6. CASE HeaderAgrees(p)
  BY <1>0, <1>6 DEF HeaderAgrees
<1>7. CASE Offline(p)
  BY <1>0, <1>7 DEF Offline
<1>8. CASE SkipUpdate(p)
  BY <1>0, <1>8 DEF SkipUpdate
<1>9. CASE Online(p)
  BY <1>0, <1>9 DEF Online
<1>10. CASE FetchFails(p)
  BY <1>0, <1>10 DEF FetchFails
<1>11. CASE FetchNotModified(p)
  BY <1>0, <1>11 DEF FetchNotModified, Current
<1>12. CASE Fetch(p)
  BY <1>0, <1>12, FilesDistinct DEF Fetch, parse_all_packages_json, Current
<1>13. CASE HeadNotModified(p)
  BY <1>0, <1>13 DEF HeadNotModified, Current
<1>14. CASE Head(p)
  BY <1>0, <1>14 DEF Head
<1>15. CASE SinceFails(p)
  BY <1>0, <1>15 DEF SinceFails
<1>16. CASE Since(p)
  BY <1>0, <1>16, FilesDistinct DEF Since, Current
<1>17. CASE WriteSidecar(p)
  BY <1>0, <1>17 DEF WriteSidecar
<1>18. CASE WriteEtag(p)
  BY <1>0, <1>18 DEF WriteEtag
<1>19. CASE OpenTmp(p)
  BY <1>0, <1>19 DEF OpenTmp, Caller
<1>20. CASE FillTmp(p)
  BY <1>0, <1>20 DEF FillTmp, Caller
<1>21. CASE RenameTmp(p)
  BY <1>0, <1>21 DEF RenameTmp, Caller, Written
<1>22. CASE WriteFails(p)
  BY <1>0, <1>22 DEF WriteFails, Caller, NotWritten, Repath
<1>23. CASE Ready(p)
  BY <1>0, <1>23 DEF Ready
<1>24. CASE Edit(p)
  BY <1>0, <1>24 DEF Edit
<1>25. CASE NoEdit(p)
  BY <1>0, <1>25 DEF NoEdit
<1>26. CASE ResetDat(p)
  BY <1>26, NobodyResets DEF ResetDat
<1>27. CASE ResetEtag(p)
  BY <1>0, <1>27 DEF ResetEtag
<1>28. CASE ResetSidecar(p)
  BY <1>0, <1>28 DEF ResetSidecar
<1>29. CASE DeleteFails(p)
  BY <1>0, <1>29 DEF DeleteFails
<1> QED
  BY <1>1, <1>2, <1>3, <1>4, <1>5, <1>6, <1>7, <1>8, <1>9, <1>10, <1>11, <1>12,
     <1>13, <1>14, <1>15, <1>16, <1>17, <1>18, <1>19, <1>20, <1>21, <1>22, <1>23,
     <1>24, <1>25, <1>26, <1>27, <1>28, <1>29 DEF Step

\* A step keeps the registry in memory ahead of the counters.
LEMMA MemoryStep ==
  ASSUME OneAtATime, LocalEditsOnly, CounterInv, TypeOK', NEW p \in Processes,
         Start(p) \/ Step(p) \/ Crash(p)
  PROVE  MemoryHonest'
<1> USE DEF CounterInv, TypeOK, MemoryHonest, TmpReady, DiskHonest, CountersPublished, Holds,
            Empty, NeverTorn, Loaded, Asking, Repairing, Writing, Goto, disk, memory,
            Readable, Complete, Content
<1>0. \A q \in Processes : q = p
  BY DEF OneAtATime
<1>1. CASE Crash(p)
  BY <1>0, <1>1 DEF Crash
<1>2. CASE Start(p)
  BY <1>0, <1>2 DEF Start
<1>3. CASE LoadRegistry(p)
  BY <1>0, <1>3, FilesDistinct DEF LoadRegistry
<1>4. CASE LoadEtag(p)
  BY <1>0, <1>4 DEF LoadEtag
<1>5. CASE RepairHeader(p)
  BY <1>0, <1>5 DEF RepairHeader
<1>6. CASE HeaderAgrees(p)
  BY <1>0, <1>6 DEF HeaderAgrees
<1>7. CASE Offline(p)
  BY <1>0, <1>7 DEF Offline
<1>8. CASE SkipUpdate(p)
  BY <1>0, <1>8 DEF SkipUpdate
<1>9. CASE Online(p)
  BY <1>0, <1>9 DEF Online
<1>10. CASE FetchFails(p)
  BY <1>0, <1>10 DEF FetchFails
<1>11. CASE FetchNotModified(p)
  BY <1>0, <1>11 DEF FetchNotModified, Current
<1>12. CASE Fetch(p)
  BY <1>0, <1>12, FilesDistinct DEF Fetch, parse_all_packages_json, Current
<1>13. CASE HeadNotModified(p)
  BY <1>0, <1>13 DEF HeadNotModified, Current
<1>14. CASE Head(p)
  BY <1>0, <1>14 DEF Head
<1>15. CASE SinceFails(p)
  BY <1>0, <1>15 DEF SinceFails
<1>16. CASE Since(p)
  <2>1. /\ known[p] \in Nat /\ registry[p] \in SUBSET Nat /\ published \in Nat
        /\ known[p] = count[p] /\ 1 .. known[p] \subseteq registry[p]
        /\ sidecar # NoFile => 1 .. sidecar \subseteq registry[p]
    BY <1>16, BoundAssumption DEF Since
  <2>2. /\ count'[p] = known[p] + Cardinality(News(known[p]))
        /\ registry'[p] = registry[p] \cup News(known[p])
        /\ pc'[p] \in {"open_refresh", "etag"} /\ sidecar' = sidecar
    BY <1>16, <2>1 DEF Since
  <2>3. 1 .. count'[p] \subseteq registry'[p]
    BY <2>1, <2>2, SinceCovers
  <2> QED BY <1>0, <2>1, <2>2, <2>3
<1>17. CASE WriteSidecar(p)
  BY <1>0, <1>17 DEF WriteSidecar
<1>18. CASE WriteEtag(p)
  BY <1>0, <1>18 DEF WriteEtag
<1>19. CASE OpenTmp(p)
  BY <1>0, <1>19 DEF OpenTmp, Caller
<1>20. CASE FillTmp(p)
  BY <1>0, <1>20 DEF FillTmp, Caller
<1>21. CASE RenameTmp(p)
  BY <1>0, <1>21 DEF RenameTmp, Caller, Written
<1>22. CASE WriteFails(p)
  BY <1>0, <1>22 DEF WriteFails, Caller, NotWritten, Repath
<1>23. CASE Ready(p)
  BY <1>0, <1>23 DEF Ready
<1>24. CASE Edit(p)
  <2>1. Stored \in Content /\ command[p].edit # "none"
    BY <1>24, StoredTyped DEF Edit, Applies
  <2>2. /\ count'[p] = Stored.count
        /\ \A n \in Nat : 1 .. n \subseteq Stored.map => 1 .. n \subseteq registry'[p]
    <3>1. /\ count'[p] = Edited(Stored, command[p].edit, command[p].version).count
          /\ registry'[p] = Edited(Stored, command[p].edit, command[p].version).map
      BY <1>24 DEF Edit
    <3> HIDE DEF TypeOK
    <3> QED BY <2>1, <3>1, LocalEditKeeps DEF CounterInv
  <2>3. 1 .. Stored.count \subseteq Stored.map
    BY <1>24 DEF Edit, Stored
  <2>4. sidecar # NoFile => 1 .. sidecar \subseteq Stored.map
    BY <1>24 DEF Edit, Stored
  <2>5. pc'[p] = "open_edit" /\ sidecar' = sidecar
    BY <1>24 DEF Edit
  <2>6. /\ 1 .. count'[p] \subseteq registry'[p]
        /\ sidecar' # NoFile => 1 .. sidecar' \subseteq registry'[p]
    BY <2>1, <2>2, <2>3, <2>4, <2>5
  <2> QED BY <1>0, <2>5, <2>6, SMTT(60)
<1>25. CASE NoEdit(p)
  BY <1>0, <1>25 DEF NoEdit
<1>26. CASE ResetDat(p)
  BY <1>26, NobodyResets DEF ResetDat
<1>27. CASE ResetEtag(p)
  BY <1>0, <1>27 DEF ResetEtag
<1>28. CASE ResetSidecar(p)
  BY <1>0, <1>28 DEF ResetSidecar
<1>29. CASE DeleteFails(p)
  BY <1>0, <1>29 DEF DeleteFails
<1> QED
  BY <1>1, <1>2, <1>3, <1>4, <1>5, <1>6, <1>7, <1>8, <1>9, <1>10, <1>11, <1>12,
     <1>13, <1>14, <1>15, <1>16, <1>17, <1>18, <1>19, <1>20, <1>21, <1>22, <1>23,
     <1>24, <1>25, <1>26, <1>27, <1>28, <1>29 DEF Step

\* A step keeps the counters on disk covered by registry.dat.
LEMMA DiskStep ==
  ASSUME OneAtATime, LocalEditsOnly, CounterInv, TypeOK', NEW p \in Processes,
         Start(p) \/ Step(p) \/ Crash(p)
  PROVE  DiskHonest'
<1> USE DEF CounterInv, TypeOK, MemoryHonest, TmpReady, DiskHonest, CountersPublished, Holds,
            Empty, NeverTorn, Loaded, Asking, Repairing, Writing, Goto, disk, memory,
            Readable, Complete, Content
<1>0. \A q \in Processes : q = p
  BY DEF OneAtATime
<1>1. CASE Crash(p)
  BY <1>0, <1>1 DEF Crash
<1>2. CASE Start(p)
  BY <1>0, <1>2 DEF Start
<1>3. CASE LoadRegistry(p)
  BY <1>0, <1>3, FilesDistinct DEF LoadRegistry
<1>4. CASE LoadEtag(p)
  BY <1>0, <1>4 DEF LoadEtag
<1>5. CASE RepairHeader(p)
  BY <1>0, <1>5 DEF RepairHeader
<1>6. CASE HeaderAgrees(p)
  BY <1>0, <1>6 DEF HeaderAgrees
<1>7. CASE Offline(p)
  BY <1>0, <1>7 DEF Offline
<1>8. CASE SkipUpdate(p)
  BY <1>0, <1>8 DEF SkipUpdate
<1>9. CASE Online(p)
  BY <1>0, <1>9 DEF Online
<1>10. CASE FetchFails(p)
  BY <1>0, <1>10 DEF FetchFails
<1>11. CASE FetchNotModified(p)
  BY <1>0, <1>11 DEF FetchNotModified, Current
<1>12. CASE Fetch(p)
  BY <1>0, <1>12, FilesDistinct DEF Fetch, parse_all_packages_json, Current
<1>13. CASE HeadNotModified(p)
  BY <1>0, <1>13 DEF HeadNotModified, Current
<1>14. CASE Head(p)
  BY <1>0, <1>14 DEF Head
<1>15. CASE SinceFails(p)
  BY <1>0, <1>15 DEF SinceFails
<1>16. CASE Since(p)
  BY <1>0, <1>16, FilesDistinct DEF Since, Current
<1>17. CASE WriteSidecar(p)
  BY <1>0, <1>17 DEF WriteSidecar
<1>18. CASE WriteEtag(p)
  BY <1>0, <1>18 DEF WriteEtag
<1>19. CASE OpenTmp(p)
  BY <1>0, <1>19 DEF OpenTmp, Caller
<1>20. CASE FillTmp(p)
  BY <1>0, <1>20 DEF FillTmp, Caller
<1>21. CASE RenameTmp(p)
  <2>1. pc[p] \in Renaming /\ dat' = tmp
    BY <1>21 DEF RenameTmp
  <2>2. CASE tmp = [count |-> count[p], map |-> registry[p]]
    <3>1. dat' \in Content /\ dat'.count = count[p] /\ dat'.map = registry[p]
      BY <2>1, <2>2
    <3>2. Readable(dat)' /\ dat' # Torn
      BY <3>1, FilesDistinct
    <3>3. /\ sidecar' = sidecar
          /\ pc'[p] = "sidecar" => known'[p] = count[p]
      BY <1>21 DEF RenameTmp, Caller, Written
    <3>4. 1 .. count[p] \subseteq registry[p]
      BY <2>1
    <3>5. sidecar # NoFile => 1 .. sidecar \subseteq registry[p]
      BY <2>1
    <3> QED BY <1>0, <3>1, <3>2, <3>3, <3>4, <3>5
  <2>3. CASE tmp = Torn /\ "flush" \in Faults
    BY <1>0, <2>1, <2>3
  <2> QED BY <2>1, <2>2, <2>3
<1>22. CASE WriteFails(p)
  BY <1>0, <1>22 DEF WriteFails, Caller, NotWritten, Repath
<1>23. CASE Ready(p)
  BY <1>0, <1>23 DEF Ready
<1>24. CASE Edit(p)
  BY <1>0, <1>24 DEF Edit
<1>25. CASE NoEdit(p)
  BY <1>0, <1>25 DEF NoEdit
<1>26. CASE ResetDat(p)
  BY <1>26, NobodyResets DEF ResetDat
<1>27. CASE ResetEtag(p)
  BY <1>0, <1>27 DEF ResetEtag
<1>28. CASE ResetSidecar(p)
  BY <1>0, <1>28 DEF ResetSidecar
<1>29. CASE DeleteFails(p)
  BY <1>0, <1>29 DEF DeleteFails
<1> QED
  BY <1>1, <1>2, <1>3, <1>4, <1>5, <1>6, <1>7, <1>8, <1>9, <1>10, <1>11, <1>12,
     <1>13, <1>14, <1>15, <1>16, <1>17, <1>18, <1>19, <1>20, <1>21, <1>22, <1>23,
     <1>24, <1>25, <1>26, <1>27, <1>28, <1>29 DEF Step

\* A step keeps the counters behind the server.
LEMMA CountersStep ==
  ASSUME OneAtATime, LocalEditsOnly, CounterInv, TypeOK', NEW p \in Processes,
         Start(p) \/ Step(p) \/ Crash(p)
  PROVE  CountersPublished'
<1> USE DEF CounterInv, TypeOK, MemoryHonest, TmpReady, DiskHonest, CountersPublished, Holds,
            Empty, NeverTorn, Loaded, Asking, Repairing, Writing, Goto, disk, memory,
            Readable, Complete, Content
<1>0. \A q \in Processes : q = p
  BY DEF OneAtATime
<1>1. CASE Crash(p)
  BY <1>0, <1>1 DEF Crash
<1>2. CASE Start(p)
  BY <1>0, <1>2 DEF Start
<1>3. CASE LoadRegistry(p)
  BY <1>0, <1>3, FilesDistinct DEF LoadRegistry
<1>4. CASE LoadEtag(p)
  BY <1>0, <1>4 DEF LoadEtag
<1>5. CASE RepairHeader(p)
  BY <1>0, <1>5 DEF RepairHeader
<1>6. CASE HeaderAgrees(p)
  BY <1>0, <1>6 DEF HeaderAgrees
<1>7. CASE Offline(p)
  BY <1>0, <1>7 DEF Offline
<1>8. CASE SkipUpdate(p)
  BY <1>0, <1>8 DEF SkipUpdate
<1>9. CASE Online(p)
  BY <1>0, <1>9 DEF Online
<1>10. CASE FetchFails(p)
  BY <1>0, <1>10 DEF FetchFails
<1>11. CASE FetchNotModified(p)
  BY <1>0, <1>11 DEF FetchNotModified, Current
<1>12. CASE Fetch(p)
  BY <1>0, <1>12, FilesDistinct DEF Fetch, parse_all_packages_json, Current
<1>13. CASE HeadNotModified(p)
  BY <1>0, <1>13 DEF HeadNotModified, Current
<1>14. CASE Head(p)
  BY <1>0, <1>14 DEF Head
<1>15. CASE SinceFails(p)
  BY <1>0, <1>15 DEF SinceFails
<1>16. CASE Since(p)
  <2>1. /\ known[p] \in Nat /\ published \in Nat
        /\ known[p] = count[p] /\ known[p] <= published
    BY <1>16, BoundAssumption DEF Since
  <2>2. count'[p] = known[p] + Cardinality(News(known[p]))
    BY <1>16, <2>1 DEF Since
  <2>3. count'[p] <= published
    BY <2>1, <2>2, NewsCount
  <2>4. /\ pc'[p] \in {"open_refresh", "etag"}
        /\ UNCHANGED <<sidecar, dat, published>>
    BY <1>16 DEF Since
  <2> QED BY <1>0, <2>3, <2>4
<1>17. CASE WriteSidecar(p)
  BY <1>0, <1>17 DEF WriteSidecar
<1>18. CASE WriteEtag(p)
  BY <1>0, <1>18 DEF WriteEtag
<1>19. CASE OpenTmp(p)
  BY <1>0, <1>19 DEF OpenTmp, Caller
<1>20. CASE FillTmp(p)
  BY <1>0, <1>20 DEF FillTmp, Caller
<1>21. CASE RenameTmp(p)
  BY <1>0, <1>21, FilesDistinct DEF RenameTmp, Caller, Written
<1>22. CASE WriteFails(p)
  BY <1>0, <1>22 DEF WriteFails, Caller, NotWritten, Repath
<1>23. CASE Ready(p)
  BY <1>0, <1>23 DEF Ready
<1>24. CASE Edit(p)
  <2>1. Stored \in Content /\ command[p].edit # "none"
    BY <1>24, StoredTyped DEF Edit, Applies
  <2>2. count'[p] = Stored.count
    <3>1. count'[p] = Edited(Stored, command[p].edit, command[p].version).count
      BY <1>24 DEF Edit
    <3> HIDE DEF TypeOK
    <3> QED BY <2>1, <3>1, LocalEditKeeps DEF CounterInv
  <2>3. Stored.count <= published
    BY <1>24, BoundAssumption DEF Edit, Stored
  <2>4. /\ pc'[p] = "open_edit"
        /\ UNCHANGED <<sidecar, dat, published>>
    BY <1>24 DEF Edit
  <2> QED BY <1>0, <2>2, <2>3, <2>4
<1>25. CASE NoEdit(p)
  BY <1>0, <1>25 DEF NoEdit
<1>26. CASE ResetDat(p)
  BY <1>26, NobodyResets DEF ResetDat
<1>27. CASE ResetEtag(p)
  BY <1>0, <1>27 DEF ResetEtag
<1>28. CASE ResetSidecar(p)
  BY <1>0, <1>28 DEF ResetSidecar
<1>29. CASE DeleteFails(p)
  BY <1>0, <1>29 DEF DeleteFails
<1> QED
  BY <1>1, <1>2, <1>3, <1>4, <1>5, <1>6, <1>7, <1>8, <1>9, <1>10, <1>11, <1>12,
     <1>13, <1>14, <1>15, <1>16, <1>17, <1>18, <1>19, <1>20, <1>21, <1>22, <1>23,
     <1>24, <1>25, <1>26, <1>27, <1>28, <1>29 DEF Step

\* The environment's steps keep the counters honest.
LEMMA CounterEnvironment ==
  ASSUME CounterInv, Publish \/ ElmUpdate
  PROVE  CounterInv'
<1>1. TypeOK'
  BY TypeEnvironment DEF CounterInv
<1>2. CASE Publish
  BY <1>1, <1>2, BoundAssumption
  DEF CounterInv, Publish, disk, memory, TypeOK, MemoryHonest, Empty, TmpReady, DiskHonest,
      CountersPublished, Holds, NeverTorn, Readable, Complete, Content
<1>3. CASE ElmUpdate
  <2>1. published \in Nat /\ Stored \in Content /\ 1 .. Stored.count \subseteq Stored.map
    BY <1>3, StoredTyped, BoundAssumption
    DEF CounterInv, TypeOK, DiskHonest, ElmUpdate, Stored, Readable, Complete
  <2>2. /\ dat' \in Content /\ dat'.count = published
        /\ 1 .. published \subseteq dat'.map /\ Stored.map \subseteq dat'.map
    <3>1. Stored.count \in Nat /\ Stored.map \in SUBSET Nat
      BY <2>1 DEF Content
    <3>2. 1 .. published \subseteq Stored.map \cup News(Stored.count)
      BY <2>1, <3>1, SinceCovers
    <3>3. dat' = [count |-> published, map |-> Stored.map \cup News(Stored.count)]
      BY <1>3 DEF ElmUpdate
    <3> QED BY <2>1, <3>1, <3>2, <3>3 DEF Content, News
  <2>3. DiskHonest'
    BY <1>3, <2>2, FilesDistinct
    DEF CounterInv, DiskHonest, Holds, NeverTorn, Readable, Complete, Stored, ElmUpdate, memory
  <2>4. CountersPublished'
    BY <1>3, <2>1, <2>2 DEF CounterInv, CountersPublished, Readable, ElmUpdate, memory
  <2> QED
    BY <1>1, <1>3, <2>3, <2>4
    DEF CounterInv, ElmUpdate, memory, MemoryHonest, Empty, TmpReady
<1> QED BY <1>2, <1>3

\* The initial files are honest.
LEMMA CounterInit == Init => CounterInv
<1> SUFFICES ASSUME Init PROVE CounterInv
  OBVIOUS
<1>1. TypeOK
  BY TypeInit
<1>2. MemoryHonest /\ TmpReady
  BY DEF Init, MemoryHonest, TmpReady, Loaded, Asking, Repairing, Writing
<1>3. PICK f \in InitialFiles : dat = f.dat /\ sidecar = f.sidecar /\ etag = f.etag
  BY DEF Init
<1>4. DiskHonest
  BY <1>3, InitialAssumption, FilesDistinct
  DEF Init, DiskHonest, Holds, NeverTorn, Readable, Complete, Content
<1>5. CountersPublished
  BY <1>3, InitialAssumption, FilesDistinct
  DEF Init, CountersPublished, Readable, Content, Loaded, Writing
<1> QED BY <1>1, <1>2, <1>4, <1>5 DEF CounterInv

\* Every variable keeps its type, whatever the number of processes, the commands
\* and the faults.
THEOREM RegistryTypeCorrect == Spec => []TypeOK
<1>1. TypeOK /\ [Next]_vars => TypeOK'
  <2> SUFFICES ASSUME TypeOK, [Next]_vars PROVE TypeOK'
    OBVIOUS
  <2>1. CASE UNCHANGED vars
    BY <2>1 DEF vars, disk, memory, TypeOK
  <2>2. CASE Next
    BY <2>2, TypeEnvironment, TypeStep DEF Next
  <2> QED BY <2>1, <2>2
<1> QED BY TypeInit, <1>1, PTL DEF Spec

\* With one command at a time and local edits only, the counters on disk and in
\* memory never run ahead of the versions that go with them nor of the server,
\* also when a lost write has emptied registry.dat.
THEOREM CounterInvariance ==
  ASSUME OneAtATime, LocalEditsOnly
  PROVE  Spec => []CounterInv
<1>1. CounterInv /\ [Next]_vars => CounterInv'
  <2> SUFFICES ASSUME CounterInv, [Next]_vars PROVE CounterInv'
    OBVIOUS
  <2>1. CASE UNCHANGED vars
    BY <2>1 DEF vars, disk, memory, CounterInv, TypeOK, MemoryHonest, Empty, TmpReady,
                DiskHonest, CountersPublished, Holds, NeverTorn, Readable
  <2>2. ASSUME NEW p \in Processes, Start(p) \/ Step(p) \/ Crash(p)
        PROVE  CounterInv'
    <3>1. TypeOK'
      BY <2>2, TypeStep DEF CounterInv
    <3> QED BY <2>2, <3>1, TmpStep, MemoryStep, DiskStep, CountersStep DEF CounterInv
  <2>3. CASE Next
    BY <2>2, <2>3, CounterEnvironment DEF Next
  <2> QED BY <2>1, <2>3
<1> QED BY CounterInit, <1>1, PTL DEF Spec

\* No crash, no failed and no lost write makes the next command skip a published
\* version.
THEOREM NothingIsSkipped ==
  ASSUME OneAtATime, LocalEditsOnly
  PROVE  Spec => []NothingSkipped
<1>1. CounterInv => NothingSkipped
  BY DEF CounterInv, DiskHonest, Holds, Readable, NothingSkipped, Counter
<1> QED BY CounterInvariance, <1>1, PTL

\* registry.dat is never seen half written, wherever commands die and whatever
\* errors they notice: only a write that is lost when the temporary file is
\* closed (registry.c:425-427) gets a torn file renamed over it.
THEOREM RegistryNeverTorn ==
  ASSUME OneAtATime, LocalEditsOnly, "flush" \notin Faults
  PROVE  Spec => []NeverTorn
<1>1. CounterInv => NeverTorn
  BY DEF CounterInv, DiskHonest
<1> QED BY CounterInvariance, <1>1, PTL

\* A command that asks for news holds everything that it does not ask for,
\* whatever was lost before.
THEOREM KnownVersionsAreHeld ==
  ASSUME OneAtATime, LocalEditsOnly
  PROVE  Spec => []KnownIsHonest
<1>1. CounterInv => KnownIsHonest
  BY DEF CounterInv, MemoryHonest, KnownIsHonest, Loaded, Asking
<1> QED BY CounterInvariance, <1>1, PTL

-----------------------------------------------------------------------------
(* The ETag is honest *)

\* A step keeps the ETag honest, on disk and in memory, where registry.dat can be
\* written.
LEMMA EtagStep ==
  ASSUME OneAtATime, LocalEditsOnly, {"dat", "flush"} \cap Faults = {}, EtagInv, CounterInv',
         NEW p \in Processes, Start(p) \/ Step(p) \/ Crash(p)
  PROVE  EtagHonest' /\ EtagCovered'
<1> USE DEF EtagInv, EtagHonest, EtagCovered, CounterInv, TypeOK, MemoryHonest, TmpReady, DiskHonest,
             Holds, NeverTorn, Loaded, Asking, Repairing, Refreshing, Writing, Goto, disk, memory,
             Readable, Complete, Content
<1>0. \A q \in Processes : q = p
  BY DEF OneAtATime
<1>1. CASE Crash(p)
  BY <1>0, <1>1 DEF Crash
<1>2. CASE Start(p)
  BY <1>0, <1>2 DEF Start
<1>3. CASE LoadRegistry(p)
  BY <1>0, <1>3 DEF LoadRegistry
<1>4. CASE LoadEtag(p)
  BY <1>0, <1>4 DEF LoadEtag
<1>5. CASE RepairHeader(p)
  BY <1>0, <1>5 DEF RepairHeader
<1>6. CASE HeaderAgrees(p)
  BY <1>0, <1>6 DEF HeaderAgrees
<1>7. CASE Offline(p)
  BY <1>0, <1>7 DEF Offline
<1>8. CASE SkipUpdate(p)
  BY <1>0, <1>8 DEF SkipUpdate
<1>9. CASE Online(p)
  BY <1>0, <1>9 DEF Online
<1>10. CASE FetchFails(p)
  BY <1>0, <1>10 DEF FetchFails
<1>11. CASE FetchNotModified(p)
  BY <1>0, <1>11, FilesDistinct, BoundAssumption DEF FetchNotModified, Current
<1>12. CASE Fetch(p)
  BY <1>0, <1>12 DEF Fetch, parse_all_packages_json, Current
<1>13. CASE HeadNotModified(p)
  BY <1>0, <1>13, FilesDistinct, BoundAssumption DEF HeadNotModified, Current
<1>14. CASE Head(p)
  BY <1>0, <1>14 DEF Head
<1>15. CASE SinceFails(p)
  BY <1>0, <1>15 DEF SinceFails
<1>16. CASE Since(p)
  <2>1. /\ known[p] \in Nat /\ registry[p] \in SUBSET Nat /\ published \in Nat
        /\ known[p] = count[p] /\ 1 .. known[p] \subseteq registry[p]
        /\ Readable(dat) /\ Complete(dat, known[p])
    BY <1>16, BoundAssumption DEF Since
  <2>2. /\ registry'[p] = registry[p] \cup News(known[p])
        /\ answered'[p] = published
        /\ count'[p] = known[p] + Cardinality(News(known[p]))
        /\ pc'[p] = IF count'[p] > known[p] THEN "open_refresh" ELSE "etag"
        /\ UNCHANGED <<dat, etag, tag>>
    BY <1>16, <2>1 DEF Since, Current
  <2>3. /\ 1 .. published \subseteq registry'[p]
        /\ pc'[p] = "etag" => published <= known[p]
    <3> DEFINE n == known[p]
               total == n + Cardinality(News(n))
    <3>1. /\ total \in Nat /\ total >= n /\ (total = n => published <= n)
          /\ 1 .. published \subseteq registry[p] \cup News(n)
      BY <2>1, SinceCovers
    <3>2. total > n => pc'[p] = "open_refresh"
      BY <2>2
    <3> HIDE DEF total, EtagInv, EtagCovered, CounterInv, MemoryHonest, TmpReady, DiskHonest
    <3> QED BY <2>1, <2>2, <3>1, <3>2
  <2>4. tag[p] # NoFile => tag[p] \in Nat /\ (tag[p] <= published \/ tag[p] = etag)
    BY <1>16 DEF Since
  <2>5. etag # NoFile => 1 .. etag \subseteq registry[p]
    BY <1>16 DEF Since
  <2>6. tag[p] # NoFile => 1 .. tag[p] \subseteq registry'[p]
    BY <2>1, <2>2, <2>3, <2>4, <2>5
  <2>7. pc'[p] = "etag" /\ tag[p] # NoFile => Complete(dat, tag[p])
    BY <2>1, <2>3, <2>4
  <2> QED BY <1>0, <2>1, <2>2, <2>3, <2>5, <2>6, <2>7
<1>17. CASE WriteSidecar(p)
  BY <1>0, <1>17 DEF WriteSidecar
<1>18. CASE WriteEtag(p)
  BY <1>0, <1>18 DEF WriteEtag
<1>19. CASE OpenTmp(p)
  BY <1>0, <1>19 DEF OpenTmp, Caller
<1>20. CASE FillTmp(p)
  BY <1>0, <1>20 DEF FillTmp, Caller
<1>21. CASE RenameTmp(p)
  BY <1>0, <1>21 DEF RenameTmp, Caller, Written
<1>22. CASE WriteFails(p)
  <2>1. pc[p] \in Renaming /\ tmp = NoFile
    BY <1>22 DEF WriteFails
  <2>2. tmp \in Content
    BY <2>1
  <2> QED BY <2>1, <2>2, FilesDistinct
<1>23. CASE Ready(p)
  BY <1>0, <1>23 DEF Ready
<1>24. CASE Edit(p)
  <2>1. Stored \in Content /\ command[p].edit # "none"
    BY <1>24, StoredTyped DEF Edit, Applies
  <2>2. \A n \in Nat : 1 .. n \subseteq Stored.map => 1 .. n \subseteq registry'[p]
    <3>1. registry'[p] = Edited(Stored, command[p].edit, command[p].version).map
      BY <1>24 DEF Edit
    <3> HIDE DEF TypeOK
    <3> QED BY <2>1, <3>1, LocalEditKeeps DEF CounterInv
  <2>3. etag # NoFile => 1 .. etag \subseteq Stored.map
    BY DEF Stored
  <2>4. pc'[p] = "open_edit" /\ etag' = etag /\ dat' = dat
    BY <1>24 DEF Edit
  <2>5. EtagHonest'
    BY <2>4
  <2>6. etag' # NoFile => 1 .. etag' \subseteq registry'[p]
    BY <2>2, <2>3, <2>4
  <2>7. EtagCovered'
    <3> HIDE DEF CounterInv, TypeOK, MemoryHonest, TmpReady, DiskHonest
    <3> QED BY <1>0, <2>4, <2>6, SMTT(60)
  <2> QED BY <2>5, <2>7
<1>25. CASE NoEdit(p)
  BY <1>0, <1>25 DEF NoEdit
<1>26. CASE ResetDat(p)
  BY <1>26, NobodyResets DEF ResetDat
<1>27. CASE ResetEtag(p)
  BY <1>27, NobodyResets DEF ResetEtag
<1>28. CASE ResetSidecar(p)
  BY <1>28, NobodyResets DEF ResetSidecar
<1>29. CASE DeleteFails(p)
  BY <1>0, <1>29 DEF DeleteFails
<1> QED
  BY <1>1, <1>2, <1>3, <1>4, <1>5, <1>6, <1>7, <1>8, <1>9, <1>10, <1>11, <1>12,
     <1>13, <1>14, <1>15, <1>16, <1>17, <1>18, <1>19, <1>20, <1>21, <1>22, <1>23,
     <1>24, <1>25, <1>26, <1>27, <1>28, <1>29 DEF Step

\* The environment's steps keep the ETag honest.
LEMMA EtagEnvironment ==
  ASSUME EtagInv, CounterInv', Publish \/ ElmUpdate
  PROVE  EtagHonest' /\ EtagCovered'
<1> USE DEF EtagInv, EtagHonest, EtagCovered, Asking, Repairing, disk, memory, Readable,
            Complete
<1>1. CASE Publish
  BY <1>1, BoundAssumption DEF Publish, CounterInv, TypeOK
<1>2. CASE ElmUpdate
  <2>1. dat' \in Content /\ (dat # NoFile => dat.map \subseteq dat'.map)
    BY <1>2, StoredTyped, BoundAssumption
    DEF ElmUpdate, CounterInv, TypeOK, Content, News, Stored
  <2>2. dat' \notin {NoFile, Torn}
    BY <2>1, FilesDistinct
  <2> QED BY <1>2, <2>1, <2>2 DEF ElmUpdate
<1> QED BY <1>1, <1>2

\* Where registry.dat can always be written, an ETag on disk or in memory never
\* speaks for a version that is missing.
THEOREM EtagInvariance ==
  ASSUME OneAtATime, LocalEditsOnly, {"dat", "flush"} \cap Faults = {}
  PROVE  Spec => []EtagInv
<1>1. Init => EtagHonest /\ EtagCovered
  <2> SUFFICES ASSUME Init PROVE EtagHonest /\ EtagCovered
    OBVIOUS
  <2>1. PICK f \in InitialFiles : dat = f.dat /\ sidecar = f.sidecar /\ etag = f.etag
    BY DEF Init
  <2>2. EtagHonest
    BY <2>1, InitialAssumption, FilesDistinct DEF EtagHonest, Readable
  <2>3. EtagCovered
    BY DEF Init, EtagCovered, Loaded, Asking, Repairing, Refreshing, Writing
  <2> QED BY <2>2, <2>3
<1>2. EtagInv /\ CounterInv' /\ [Next]_vars => EtagInv'
  <2> SUFFICES ASSUME EtagInv, CounterInv', [Next]_vars PROVE EtagHonest' /\ EtagCovered'
    BY DEF EtagInv
  <2>1. CASE UNCHANGED vars
    BY <2>1 DEF vars, disk, memory, EtagInv, EtagHonest, EtagCovered, Readable
  <2>2. CASE Next
    BY <2>2, EtagEnvironment, EtagStep DEF Next
  <2> QED BY <2>1, <2>2
<1>3. Spec => []CounterInv
  BY CounterInvariance
<1>4. Init /\ CounterInv => EtagInv
  BY <1>1 DEF EtagInv
<1> QED BY <1>2, <1>3, <1>4, PTL DEF Spec

\* Wherever a process dies, the ETag that is left speaks for what registry.dat
\* holds.
THEOREM EtagIsHonest ==
  ASSUME OneAtATime, LocalEditsOnly, {"dat", "flush"} \cap Faults = {}
  PROVE  Spec => []EtagHonest
<1>1. EtagInv => EtagHonest
  BY DEF EtagInv
<1> QED BY EtagInvariance, <1>1, PTL

\* A command that was told that it is current works on a complete registry.
THEOREM UpToDateIsComplete ==
  ASSUME OneAtATime, LocalEditsOnly, {"dat", "flush"} \cap Faults = {}
  PROVE  Spec => []UpToDateMeansComplete
<1>1. EtagInv => UpToDateMeansComplete
  BY DEF EtagInv, EtagCovered, UpToDateMeansComplete
<1> QED BY EtagInvariance, <1>1, PTL
=============================================================================
