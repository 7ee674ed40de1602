------------------------------ MODULE KitProofs ------------------------------
(***************************************************************************)
(* Whatever commands, crashes and failed writes have come before: a local  *)
(* version that registry.dat lists has its tracking directory, and what    *)
(* wrap kit has linked has its binary and its kitfile.                     *)
(*                                                                         *)
(* Both are about commands that were cut short, so the invariant is about  *)
(* the steps that the running command has left.                            *)
(***************************************************************************)
EXTENDS Kit, SequenceTheorems, WellFoundedInduction, TLAPS

-----------------------------------------------------------------------------
(* What the steps of a command look like *)

KeyOps ==
  {"unlink", "symlink", "open_path", "path", "text", "dat", "track", "track_if", "ensure",
   "fetch", "have", "compile", "undat", "untext", "drop", "untrack", "refresh", "prune", "uncache"}
AppOps == {"track", "track_if", "elm_json", "refresh", "prune", "build"}
ToolOps == {"download_tool", "drop_tool", "link_tool"}
OtherOps ==
  {"loop", "drop_all", "reinsert", "clean", "install_package", "store", "demote", "promote", "report"}
Ops == KeyOps \cup AppOps \cup ToolOps \cup OtherOps

Labels == Apps \cup Tools \cup Others \cup {""}

Fits(st) ==
  /\ st.op \in KeyOps => st.k \in Keys
  /\ st.op \in AppOps => st.a \in Apps
  /\ st.op \in ToolOps => st.a \in Tools
  /\ st.op = "install_package" => st.a \in Others
  /\ st.op = "loop" => st.k = NoKey /\ st.loses = 0
  /\ st.op \in {"ensure", "track_if"} => st.loses \in {0, 1}

PlainSteps ==
  {st \in [op : Ops, k : Keys \cup {NoKey}, a : Labels, j : Json, loses : Nat,
           rounds : {{}}] : Fits(st) /\ st.op # "loop"}
StepSet ==
  {st \in [op : Ops, k : Keys \cup {NoKey}, a : Labels, j : Json, loses : Nat,
           rounds : SUBSET Seq(PlainSteps)] : Fits(st) /\ (st.op # "loop" => st.rounds = {})}

GrowOps ==
  {"track_if", "ensure", "refresh", "prune", "fetch", "have", "reinsert", "compile", "build"}
DropOps == {"drop", "drop_all", "undat"}
KitOps ==
  {"download_tool", "drop_tool", "link_tool", "install_package", "store", "demote", "promote",
   "report"}
CalmOps == Ops \ (DropOps \cup KitOps \cup {"path", "dat", "loop"})
LastOps == {"drop_all", "store", "demote", "promote", "report"}

Has(st, O) == st.op \in O \/ \E r \in st.rounds : \E p \in 1 .. Len(r) : r[p].op \in O

\* A failure of one of the first steps that takes step j takes step i with it.
Tied(q, j, i) ==
  \A h \in 1 .. j : q[h].loses = 0 \/ h + q[h].loses <= j \/ i < h + q[h].loses

\* A failing step takes only steps for its own version, and no loop.
Local(q) ==
  \A i \in 1 .. Len(q) :
    /\ i + q[i].loses <= Len(q) + 1
    /\ \A h \in i .. i + q[i].loses - 1 : q[h].k = q[i].k /\ q[h].op # "loop"

Undats(st, k) ==
  \/ st.op = "undat" /\ st.k = k
  \/ \E r \in st.rounds : \E p \in 1 .. Len(r) : r[p].op = "undat" /\ r[p].k = k

Opens(q, j, i) == q[j].op = "open_path" /\ q[j].k = q[i].k

RoundOK(r) ==
  /\ Local(r)
  /\ \A p \in 1 .. Len(r) :
       /\ r[p].op \in {"path", "dat"} =>
            /\ \A h \in 1 .. p - 1 : r[h].op \notin DropOps
            /\ \E h \in 1 .. p - 1 : Opens(r, h, p) /\ (r[p].op = "path" => Tied(r, h, p))
       /\ r[p].op \notin LastOps
       /\ r[p].op = "drop" =>
            /\ \E h \in 1 .. p - 1 : r[h].op = "undat" /\ r[h].k = r[p].k
            /\ \A h \in 1 .. p - 1 : r[h].op \notin GrowOps \cup {"dat"}

QueueOK(q) ==
  /\ q \in Seq(StepSet)
  /\ Local(q)
  /\ \A i \in 1 .. Len(q) : \A r \in q[i].rounds : RoundOK(r)
  /\ \A i, j \in 1 .. Len(q) : Has(q[i], GrowOps) => ~Has(q[j], DropOps \cup KitOps)

-----------------------------------------------------------------------------
(* What is registered is tracked *)

PathsOK(q, D) ==
  \A i \in 1 .. Len(q) : q[i].op = "path" =>
    /\ \A h \in 1 .. i - 1 : ~Has(q[h], DropOps)
    /\ q[i].k \in D \/ \E j \in 1 .. i - 1 : Opens(q, j, i) /\ Tied(q, j, i)

DatsOK(q, D, X) ==
  \A i \in 1 .. Len(q) : q[i].op = "dat" /\ q[i].k \notin X =>
    /\ \A h \in 1 .. i - 1 : ~Has(q[h], DropOps)
    /\ q[i].k \in D \/ \E j \in 1 .. i - 1 : Opens(q, j, i)

Later(q, i, k) == \E j \in i + 1 .. Len(q) : q[j].op = "undat" /\ q[j].k = k
Gone(q, i, k, R) ==
  /\ \A h \in 1 .. i - 1 : ~Has(q[h], GrowOps \cup {"dat"})
  /\ k \notin R \/ \E h \in 1 .. i - 1 : Undats(q[h], k)

\* The step removes the directory of the version.
Removes(st, k) == st.op = "drop_all" \/ (st.op = "drop" /\ st.k = k)
DropsOK(q, R, X) ==
  \A i \in 1 .. Len(q) : \A k \in Keys \ X :
    Removes(q[i], k) => Later(q, i, k) \/ Gone(q, i, k, R)

StrayOK(q, R, D, X) ==
  \A k \in R \ (D \cup X) : \E i \in 1 .. Len(q) : q[i].op = "undat" /\ q[i].k = k

TrackInv(q, R, D, X) == PathsOK(q, D) /\ DatsOK(q, D, X) /\ DropsOK(q, R, X) /\ StrayOK(q, R, D, X)

-----------------------------------------------------------------------------
(* What is linked has its binary *)

Fetches(st, t) ==
  \/ st.op = "download_tool" /\ st.a = t
  \/ \E r \in st.rounds : r # <<>> /\ r[1].op = "download_tool" /\ r[1].a = t /\ r[1].loses = 0

Ready(q, i, t, v, bin) ==
  <<t, v>> \in bin \/ \E j \in 1 .. i - 1 : Fetches(q[j], t) /\ Tied(q, j, i)

LinksOK(q, s, bin) ==
  \A i \in 1 .. Len(q) :
    /\ q[i].op = "link_tool" /\ q[i].a \in s.tools => Ready(q, i, q[i].a, s.version, bin)
    /\ \A r \in q[i].rounds : \A p \in 1 .. Len(r) : r[p].op = "link_tool" /\ r[p].a \in s.tools =>
         \/ Ready(q, i, r[p].a, s.version, bin)
         \/ \E h \in 1 .. p - 1 : r[h].op = "download_tool" /\ r[h].a = r[p].a /\ Tied(r, h, p)

PromotesOK(q, s, stored) ==
  \A i \in 1 .. Len(q) : q[i].op = "promote" =>
    stored[s.version] = s \/ \E j \in 1 .. i - 1 : q[j].op = "store" /\ Tied(q, j, i)

KitQueueOK(q, s, bin, stored) ==
  /\ \A i \in 1 .. Len(q) : Has(q[i], KitOps) => s \in Sources
  /\ \A i \in 1 .. Len(q) : q[i].op = "report" => i = Len(q)
  /\ LinksOK(q, s, bin) /\ PromotesOK(q, s, stored)

QInv(q, R, D, X, c, bin, stored) ==
  QueueOK(q) /\ TrackInv(q, R, D, X) /\ KitQueueOK(q, c, bin, stored)

StoredOK(stored, current) ==
  /\ \A v \in KitVersions : stored[v] # NoSource => stored[v].version = v
  /\ current # "none" => stored[current] # NoSource

FilesOK ==
  /\ source \in [Names -> [there : BOOLEAN, version : Versions, needs : SUBSET Packages,
                           code : 1 .. MaxCode]]
  /\ link \in [Keys -> {"none", "copy", "source"}] /\ path \in [Keys -> {"none", "empty", "source"}]
  /\ tracked \in [Keys -> SUBSET Apps] /\ \A k \in Keys \ dirs : path[k] = "none" /\ tracked[k] = {}
  /\ dirs \in SUBSET Keys /\ text \in SUBSET Keys /\ dat \in SUBSET Keys
  /\ app \in [Apps -> Json]
  /\ art \in [Names -> 0 .. MaxCode] /\ stuff \in [Apps -> [Names -> 0 .. MaxCode]]
  /\ seen \in SUBSET Keys /\ troubles \in 0 .. MaxTroubles

Left == QInv(todo, dat, dirs, excused, kits.source, kits.bin, kits.stored)
Usable == KitUsable /\ StoredOK(kits.stored, kits.current) /\ kits.before <= troubles
IInv == FilesOK /\ Left /\ Usable
-----------------------------------------------------------------------------
(* Steps *)

\* NoJson is an elm.json that lists nothing.
LEMMA NoJsonType == NoJson \in Json
  BY DEF NoJson, Json

\* What is known of a plain step.
LEMMA PlainType ==
  ASSUME NEW st \in PlainSteps
  PROVE  /\ st \in StepSet /\ st.op # "loop" /\ st.rounds = {} /\ st.loses \in Nat
         /\ st.k \in Keys \cup {NoKey} /\ st.j \in Json /\ Fits(st)
  BY DEF PlainSteps, StepSet

\* What is known of a step.
LEMMA StepType ==
  ASSUME NEW st \in StepSet
  PROVE  /\ st.rounds \in SUBSET Seq(PlainSteps) /\ st.loses \in Nat /\ st.op \in Ops
         /\ st.k \in Keys \cup {NoKey} /\ st.j \in Json /\ Fits(st)
         /\ st.op = "loop" => st.loses = 0 /\ st.k = NoKey
         /\ st.op # "loop" => st.rounds = {} /\ st \in PlainSteps
  BY DEF PlainSteps, StepSet, Fits

\* A step outside loops has no operation but its own.
LEMMA PlainHas ==
  ASSUME NEW st, st.rounds = {}, NEW O
  PROVE  Has(st, O) <=> st.op \in O
  BY DEF Has

\* The rounds of a loop are plain steps.
LEMMA RoundType ==
  ASSUME NEW st \in StepSet, NEW r \in st.rounds
  PROVE  /\ st.op = "loop" /\ r \in Seq(PlainSteps) /\ r \in Seq(StepSet) /\ Len(r) \in Nat
         /\ \A p \in 1 .. Len(r) : r[p] \in PlainSteps /\ r[p] \in StepSet
<1>1. r \in Seq(PlainSteps) /\ st.op = "loop"
  BY StepType
<1>2. Len(r) \in Nat /\ \A p \in 1 .. Len(r) : r[p] \in PlainSteps
  BY <1>1
<1>3. PlainSteps \subseteq StepSet
  BY PlainType
<1>4. r \in Seq(StepSet)
  BY <1>1, <1>3, SeqMonotonic
<1>. QED  BY <1>1, <1>2, <1>3, <1>4

\* A step with the number of steps lost when it fails is still that step.
LEMMA LosingType ==
  ASSUME NEW st \in PlainSteps, NEW n \in Nat,
         st.op \in {"ensure", "track_if"} => n \in {0, 1}
  PROVE  /\ Losing(n, st) \in PlainSteps
         /\ Losing(n, st).op = st.op /\ Losing(n, st).k = st.k /\ Losing(n, st).a = st.a
         /\ Losing(n, st).j = st.j /\ Losing(n, st).loses = n /\ Losing(n, st).rounds = {}
<1>1. st \in [op : Ops, k : Keys \cup {NoKey}, a : Labels, j : Json, loses : Nat, rounds : {{}}]
  BY DEF PlainSteps
<1>2. /\ Losing(n, st) \in [op : Ops, k : Keys \cup {NoKey}, a : Labels, j : Json,
                            loses : Nat, rounds : {{}}]
      /\ Losing(n, st).op = st.op /\ Losing(n, st).k = st.k /\ Losing(n, st).a = st.a
      /\ Losing(n, st).j = st.j /\ Losing(n, st).loses = n /\ Losing(n, st).rounds = {}
  BY <1>1 DEF Losing
<1>3. Fits(Losing(n, st)) /\ Losing(n, st).op # "loop"
  BY <1>2 DEF PlainSteps, Fits
<1>. QED  BY <1>2, <1>3 DEF PlainSteps

\* Do makes a step of the operation on the version.
LEMMA DoType ==
  ASSUME NEW op \in Ops, op \notin AppOps \cup ToolOps \cup {"install_package", "loop"},
         NEW k \in Keys \cup {NoKey}, op \in KeyOps => k \in Keys
  PROVE  /\ Do(op, k) \in PlainSteps
         /\ Do(op, k).op = op /\ Do(op, k).k = k /\ Do(op, k).loses = 0 /\ Do(op, k).rounds = {}
  BY NoJsonType DEF Do, Made, PlainSteps, Fits, Labels

\* For makes a step of the operation for the application or on the tool.
LEMMA ForType ==
  ASSUME NEW op \in Ops, NEW k \in Keys \cup {NoKey}, NEW a \in Labels, op # "loop",
         op \in KeyOps => k \in Keys, op \in AppOps => a \in Apps, op \in ToolOps => a \in Tools,
         op = "install_package" => a \in Others
  PROVE  /\ For(op, k, a) \in PlainSteps
         /\ For(op, k, a).op = op /\ For(op, k, a).k = k /\ For(op, k, a).a = a
         /\ For(op, k, a).loses = 0 /\ For(op, k, a).rounds = {}
  BY NoJsonType DEF For, Made, PlainSteps, Fits

\* Write makes a step that writes the elm.json of an application.
LEMMA WriteType ==
  ASSUME NEW a \in Apps, NEW j \in Json
  PROVE  /\ Write(a, j) \in PlainSteps
         /\ Write(a, j).op = "elm_json" /\ Write(a, j).k = NoKey /\ Write(a, j).loses = 0
         /\ Write(a, j).rounds = {}
<1>1. /\ "elm_json" \notin KeyOps /\ "elm_json" \notin ToolOps /\ "elm_json" # "install_package"
      /\ "elm_json" # "loop" /\ "elm_json" \in Ops
  BY DEF KeyOps, AppOps, ToolOps, Ops
<1>2. a \in Labels
  BY DEF Labels
<1>. QED  BY <1>1, <1>2 DEF Write, Made, PlainSteps, Fits

\* Loop makes a loop over the rounds.
LEMMA LoopType ==
  ASSUME NEW rounds \in SUBSET Seq(PlainSteps)
  PROVE  /\ Loop(rounds) \in StepSet
         /\ Loop(rounds).op = "loop" /\ Loop(rounds).k = NoKey /\ Loop(rounds).loses = 0
         /\ Loop(rounds).rounds = rounds
<1>1. /\ "loop" \notin KeyOps /\ "loop" \notin AppOps /\ "loop" \notin ToolOps
      /\ "loop" # "install_package" /\ "loop" \in Ops
  BY DEF KeyOps, AppOps, ToolOps, OtherOps, Ops
<1>2. "" \in Labels
  BY DEF Labels
<1>. QED  BY <1>1, <1>2, NoJsonType DEF Loop, Made, StepSet, Fits

-----------------------------------------------------------------------------
(* Steps that are taken, and steps that come in their place *)

\* Steps s take the place of the first of q.
Shifted(q, s, q2) ==
  /\ q \in Seq(StepSet) /\ s \in Seq(StepSet) /\ q2 \in Seq(StepSet)
  /\ Len(q) \in Nat \ {0} /\ Len(s) \in Nat /\ Len(q2) = Len(s) + Len(q) - 1
  /\ \A i \in 1 .. Len(s) : q2[i] = s[i]
  /\ \A i \in 2 .. Len(q) : i + Len(s) - 1 \in 1 .. Len(q2) /\ q2[i + Len(s) - 1] = q[i]
  /\ \A i \in 1 .. Len(q2) : i > Len(s) =>
       i - Len(s) + 1 \in 2 .. Len(q) /\ q2[i] = q[i - Len(s) + 1]

\* The first n steps of q are gone.
Dropped(q, n, q2) ==
  /\ q \in Seq(StepSet) /\ q2 \in Seq(StepSet)
  /\ n \in 1 .. Len(q) /\ Len(q) \in Nat \ {0} /\ Len(q2) = Len(q) - n
  /\ \A i \in 1 .. Len(q2) : i + n \in 1 .. Len(q) /\ q2[i] = q[i + n]
  /\ \A i \in 1 .. Len(q) : i > n => i - n \in 1 .. Len(q2) /\ q2[i - n] = q[i]

\* Then puts steps in the place of the head.
LEMMA ThenShifts ==
  ASSUME NEW q \in Seq(StepSet), q # <<>>, NEW s \in Seq(StepSet)
  PROVE  Shifted(q, s, s \o Tail(q))
<1> DEFINE q2 == s \o Tail(q)
<1>1. /\ Tail(q) \in Seq(StepSet) /\ Len(Tail(q)) = Len(q) - 1
      /\ \A i \in 1 .. Len(Tail(q)) : Tail(q)[i] = q[i + 1]
  BY HeadTailProperties
<1>2. Len(q) \in Nat \ {0} /\ Len(s) \in Nat
  BY EmptySeq
<1>3. /\ q2 \in Seq(StepSet) /\ Len(q2) = Len(s) + Len(Tail(q))
      /\ \A i \in 1 .. Len(s) + Len(Tail(q)) :
           q2[i] = IF i <= Len(s) THEN s[i] ELSE Tail(q)[i - Len(s)]
  BY <1>1, ConcatProperties
<1> HIDE DEF q2
<1>4. \A i \in 1 .. Len(s) : q2[i] = s[i]
  BY <1>1, <1>2, <1>3
<1>5. ASSUME NEW i \in 2 .. Len(q)
      PROVE  i + Len(s) - 1 \in 1 .. Len(q2) /\ q2[i + Len(s) - 1] = q[i]
  <2>1. i + Len(s) - 1 \in 1 .. Len(s) + Len(Tail(q)) /\ ~(i + Len(s) - 1 <= Len(s))
    BY <1>1, <1>2
  <2>2. i - 1 \in 1 .. Len(Tail(q)) /\ i + Len(s) - 1 - Len(s) = i - 1 /\ i - 1 + 1 = i
    BY <1>1, <1>2
  <2>3. q2[i + Len(s) - 1] = Tail(q)[i + Len(s) - 1 - Len(s)]
    BY <1>3, <2>1
  <2>4. Tail(q)[i - 1] = q[i - 1 + 1]
    BY <1>1, <2>2
  <2>. QED  BY <1>3, <2>1, <2>2, <2>3, <2>4
<1>6. ASSUME NEW i \in 1 .. Len(q2), i > Len(s)
      PROVE  i - Len(s) + 1 \in 2 .. Len(q) /\ q2[i] = q[i - Len(s) + 1]
  <2>1. i - Len(s) \in 1 .. Len(Tail(q)) /\ i \in 1 .. Len(s) + Len(Tail(q)) /\ ~(i <= Len(s))
    BY <1>1, <1>2, <1>3, <1>6
  <2>2. q2[i] = Tail(q)[i - Len(s)]
    BY <1>3, <2>1
  <2>3. Tail(q)[i - Len(s)] = q[i - Len(s) + 1]
    BY <1>1, <2>1
  <2>4. i - Len(s) + 1 \in 2 .. Len(q)
    BY <1>1, <1>2, <2>1
  <2>. QED  BY <2>2, <2>3, <2>4
<1>7. Len(q2) = Len(s) + Len(q) - 1
  BY <1>1, <1>2, <1>3
<1>8. Shifted(q, s, q2)
  BY <1>2, <1>3, <1>4, <1>5, <1>6, <1>7 DEF Shifted
<1>. QED  BY <1>8 DEF q2

\* A step that is done makes way for none.
LEMMA DoneShifts ==
  ASSUME NEW q \in Seq(StepSet), q # <<>>
  PROVE  Shifted(q, <<>>, Tail(q))
<1>1. Tail(q) \in Seq(StepSet) /\ <<>> \in Seq(StepSet)
  BY HeadTailProperties, EmptySeq
<1>2. <<>> \o Tail(q) = Tail(q)
  BY <1>1, ConcatEmptySeq
<1>. QED  BY <1>1, <1>2, ThenShifts

\* A step that fails takes the steps that it loses.
LEMMA FailDrops ==
  ASSUME NEW q \in Seq(StepSet), NEW n \in 1 .. Len(q)
  PROVE  Dropped(q, n, SubSeq(q, n + 1, Len(q)))
<1> DEFINE q2 == SubSeq(q, n + 1, Len(q))
<1>1. Len(q) \in Nat \ {0} /\ n \in Nat /\ n + 1 \in Int /\ Len(q) \in Int
  BY LenProperties
<1>2. \A i \in n + 1 .. Len(q) : q[i] \in StepSet
  BY <1>1
<1>3. /\ q2 \in Seq(StepSet)
      /\ Len(q2) = IF n + 1 <= Len(q) THEN Len(q) - (n + 1) + 1 ELSE 0
      /\ \A i \in 1 .. Len(q) - (n + 1) + 1 : q2[i] = q[n + 1 + i - 1]
  BY <1>1, <1>2, SubSeqProperties
<1> HIDE DEF q2
<1>4. Len(q2) = Len(q) - n
  BY <1>1, <1>3
<1>5. ASSUME NEW i \in 1 .. Len(q2) PROVE i + n \in 1 .. Len(q) /\ q2[i] = q[i + n]
  <2>1. i \in 1 .. Len(q) - (n + 1) + 1 /\ n + 1 + i - 1 = i + n /\ i + n \in 1 .. Len(q)
    BY <1>1, <1>4
  <2>. QED  BY <1>3, <2>1
<1>6. ASSUME NEW i \in 1 .. Len(q), i > n PROVE i - n \in 1 .. Len(q2) /\ q2[i - n] = q[i]
  <2>1. i - n \in 1 .. Len(q2) /\ i - n + n = i
    BY <1>1, <1>4, <1>6
  <2>. QED  BY <1>5, <2>1
<1>7. Dropped(q, n, q2)
  BY <1>1, <1>3, <1>4, <1>5, <1>6 DEF Dropped
<1>. QED  BY <1>7 DEF q2

\* Steps that stay tied to each other when others come before them.
LEMMA ShiftTied ==
  ASSUME NEW q, NEW s, NEW q2, Shifted(q, s, q2), Local(s),
         NEW j \in 2 .. Len(q), NEW i \in 2 .. Len(q), Tied(q, j, i)
  PROVE  Tied(q2, j + Len(s) - 1, i + Len(s) - 1)
<1>1. ASSUME NEW h \in 1 .. j + Len(s) - 1
      PROVE  \/ q2[h].loses = 0 \/ h + q2[h].loses <= j + Len(s) - 1
             \/ i + Len(s) - 1 < h + q2[h].loses
  <2>1. CASE h <= Len(s)
    <3>1. h \in 1 .. Len(s) /\ q2[h] = s[h] /\ s[h] \in StepSet
      BY <2>1 DEF Shifted
    <3> DEFINE l == s[h].loses
    <3>2. h + l <= Len(s) + 1 /\ l \in Nat
      BY <3>1, StepType DEF Local
    <3>3. q2[h].loses = l /\ Len(s) \in Nat /\ j \in Nat /\ j >= 2 /\ h \in Nat
      BY <3>1 DEF Shifted
    <3> HIDE DEF l
    <3>4. h + l <= j + Len(s) - 1
      BY <3>2, <3>3
    <3>. QED  BY <3>3, <3>4
  <2>2. CASE h > Len(s)
    <3> DEFINE g == h - Len(s) + 1
    <3>1. h \in 1 .. Len(q2) /\ g \in 1 .. j /\ q2[h] = q[g] /\ g \in 2 .. Len(q)
      BY <2>2 DEF Shifted
    <3>2. q[g].loses \in Nat
      BY <3>1, StepType DEF Shifted
    <3>3. q[g].loses = 0 \/ g + q[g].loses <= j \/ i < g + q[g].loses
      BY <3>1 DEF Tied
    <3> DEFINE l == q[g].loses
    <3>4. Len(s) \in Nat /\ j \in Nat /\ i \in Nat /\ h \in Nat /\ q2[h].loses = l
      BY <3>1 DEF Shifted
    <3>5. l \in Nat /\ (l = 0 \/ g + l <= j \/ i < g + l)
      BY <3>2, <3>3
    <3> HIDE DEF l
    <3>6. l = 0 \/ h + l <= j + Len(s) - 1 \/ i + Len(s) - 1 < h + l
      BY <3>4, <3>5
    <3>. QED  BY <3>4, <3>6
  <2>. QED  BY <2>1, <2>2 DEF Shifted
<1>. QED  BY <1>1 DEF Tied

\* Steps that stay tied to each other when the first ones are gone.
LEMMA DropTied ==
  ASSUME NEW q, NEW n, NEW q2, Dropped(q, n, q2),
         NEW j \in 1 .. Len(q), NEW i \in 1 .. Len(q), j > n, i > n, Tied(q, j, i)
  PROVE  Tied(q2, j - n, i - n)
<1>1. ASSUME NEW h \in 1 .. j - n
      PROVE  q2[h].loses = 0 \/ h + q2[h].loses <= j - n \/ i - n < h + q2[h].loses
  <2>1. h \in 1 .. Len(q2) /\ h + n \in 1 .. j /\ q2[h] = q[h + n] /\ h + n \in 1 .. Len(q)
    BY DEF Dropped
  <2> DEFINE l == q[h + n].loses
  <2>2. l \in Nat
    BY <2>1, StepType DEF Dropped
  <2>3. l = 0 \/ h + n + l <= j \/ i < h + n + l
    BY <2>1 DEF Tied
  <2>4. q2[h].loses = l /\ h \in Nat /\ n \in Nat
    BY <2>1 DEF Dropped
  <2> HIDE DEF l
  <2>5. l = 0 \/ h + l <= j - n \/ i - n < h + l
    BY <2>2, <2>3, <2>4
  <2>. QED  BY <2>4, <2>5
<1>. QED  BY <1>1 DEF Tied

\* When the first step fails and takes step j, it takes a step tied to it.
LEMMA TiedFallsTogether ==
  ASSUME NEW q, NEW q2, Dropped(q, q[1].loses, q2),
         NEW j \in 1 .. Len(q), NEW i \in 1 .. Len(q), i > q[1].loses, Tied(q, j, i)
  PROVE  j > q[1].loses
<1>1. 1 \in 1 .. j /\ q[1] \in StepSet
  BY DEF Dropped
<1>2. q[1].loses = 0 \/ 1 + q[1].loses <= j \/ i < 1 + q[1].loses
  BY <1>1 DEF Tied
<1>. QED  BY <1>1, <1>2, StepType DEF Dropped

\* Steps lose only steps of their own version when others come before them.
LEMMA ShiftLocal ==
  ASSUME NEW q, NEW s, NEW q2, Shifted(q, s, q2), Local(q), Local(s)
  PROVE  Local(q2)
<1> SUFFICES ASSUME NEW i \in 1 .. Len(q2)
             PROVE  /\ i + q2[i].loses <= Len(q2) + 1
                    /\ \A h \in i .. i + q2[i].loses - 1 : q2[h].k = q2[i].k /\ q2[h].op # "loop"
  BY DEF Local
<1>1. CASE i <= Len(s)
  <2>1. i \in 1 .. Len(s) /\ q2[i] = s[i] /\ s[i].loses \in Nat
    BY <1>1, StepType DEF Shifted
  <2>2. /\ i + s[i].loses <= Len(s) + 1
        /\ \A h \in i .. i + s[i].loses - 1 : s[h].k = s[i].k /\ s[h].op # "loop"
    BY <2>1 DEF Local
  <2> DEFINE l == s[i].loses
  <2>3. /\ l \in Nat /\ i + l <= Len(s) + 1 /\ Len(s) \in Nat /\ Len(q2) \in Nat
        /\ Len(s) <= Len(q2) /\ i \in Nat /\ i >= 1 /\ q2[i].loses = l
    BY <2>1, <2>2 DEF Shifted
  <2> HIDE DEF l
  <2>4. i + l <= Len(q2) + 1 /\ \A h \in i .. i + l - 1 : h \in 1 .. Len(s)
    BY <2>3
  <2>5. \A h \in 1 .. Len(s) : q2[h] = s[h]
    BY DEF Shifted
  <2>6. \A h \in i .. i + l - 1 : s[h].k = s[i].k /\ s[h].op # "loop"
    BY <2>2 DEF l
  <2>7. \A h \in i .. i + l - 1 : q2[h].k = q2[i].k /\ q2[h].op # "loop"
    BY <2>1, <2>4, <2>5, <2>6
  <2>. QED  BY <2>3, <2>4, <2>7
<1>2. CASE i > Len(s)
  <2> DEFINE g == i - Len(s) + 1
  <2>1. g \in 2 .. Len(q) /\ g \in 1 .. Len(q) /\ q2[i] = q[g]
    BY <1>2 DEF Shifted
  <2>2. q[g].loses \in Nat
    BY <2>1, StepType DEF Shifted
  <2>3. /\ g + q[g].loses <= Len(q) + 1
        /\ \A h \in g .. g + q[g].loses - 1 : q[h].k = q[g].k /\ q[h].op # "loop"
    BY <2>1 DEF Local
  <2>4. ASSUME NEW h \in i .. i + q[g].loses - 1
        PROVE  q2[h].k = q[g].k /\ q2[h].op # "loop"
    <3>0. Len(s) \in Nat /\ Len(q) \in Nat /\ Len(q2) = Len(s) + Len(q) - 1
      BY DEF Shifted
    <3>. DEFINE l == q[g].loses
    <3>a. l \in Nat /\ g + l <= Len(q) + 1 /\ i > Len(s) /\ i \in Nat /\ h \in i .. i + l - 1
      BY <1>2, <2>2, <2>3, <3>0
    <3>. HIDE DEF l
    <3>b. h \in Nat /\ h >= i /\ h <= i + l - 1
      BY <3>a
    <3>1. h \in 1 .. Len(q2) /\ h > Len(s) /\ h - Len(s) + 1 \in g .. g + l - 1
      <4>1. h > Len(s) /\ h - Len(s) + 1 \in g .. g + l - 1
        BY <3>0, <3>a, <3>b
      <4>2. h <= Len(q2)
        BY <3>0, <3>a, <3>b
      <4>. QED  BY <3>0, <3>b, <4>1, <4>2
    <3>2. q2[h] = q[h - Len(s) + 1]
      BY <3>1 DEF Shifted
    <3>. QED  BY <2>3, <3>1, <3>2 DEF l
  <2>5. i + q[g].loses <= Len(q2) + 1
    BY <2>1, <2>2, <2>3 DEF Shifted
  <2>. QED  BY <2>1, <2>4, <2>5
<1>. QED  BY <1>1, <1>2 DEF Shifted

\* Steps lose only steps of their own version when the first ones are gone.
LEMMA DropLocal ==
  ASSUME NEW q, NEW n, NEW q2, Dropped(q, n, q2), Local(q)
  PROVE  Local(q2)
<1> SUFFICES ASSUME NEW i \in 1 .. Len(q2)
             PROVE  /\ i + q2[i].loses <= Len(q2) + 1
                    /\ \A h \in i .. i + q2[i].loses - 1 : q2[h].k = q2[i].k /\ q2[h].op # "loop"
  BY DEF Local
<1> DEFINE g == i + n
<1>1. g \in 1 .. Len(q) /\ q2[i] = q[g]
  BY DEF Dropped
<1>2. q[g].loses \in Nat
  BY <1>1, StepType DEF Dropped
<1>3. /\ g + q[g].loses <= Len(q) + 1
      /\ \A h \in g .. g + q[g].loses - 1 : q[h].k = q[g].k /\ q[h].op # "loop"
  BY <1>1 DEF Local
<1>4. ASSUME NEW h \in i .. i + q[g].loses - 1
      PROVE  q2[h].k = q[g].k /\ q2[h].op # "loop"
  <2>1. h \in 1 .. Len(q2) /\ h + n \in g .. g + q[g].loses - 1
    BY <1>1, <1>2, <1>3 DEF Dropped
  <2>2. q2[h] = q[h + n]
    BY <2>1 DEF Dropped
  <2>. QED  BY <1>3, <2>1, <2>2
<1>5. i + q[g].loses <= Len(q2) + 1
  BY <1>1, <1>2, <1>3 DEF Dropped
<1>. QED  BY <1>1, <1>4, <1>5

\* What a failing first step takes is of its own version, and no loop.
LEMMA LostIsLocal ==
  ASSUME NEW q, NEW q2, Dropped(q, q[1].loses, q2), Local(q), NEW h \in 1 .. Len(q),
         h <= q[1].loses
  PROVE  q[h].k = q[1].k /\ q[h].op # "loop"
<1>1. 1 \in 1 .. Len(q) /\ h \in 1 .. 1 + q[1].loses - 1
  BY DEF Dropped
<1>. QED  BY <1>1 DEF Local

-----------------------------------------------------------------------------
(* The shape of what is left *)

\* What comes in the place of the first step is no other kind of work than it.
Replaces(q, s) ==
  \A m \in 1 .. Len(s) :
    /\ \A r \in s[m].rounds : RoundOK(r)
    /\ Has(s[m], GrowOps) => Has(q[1], GrowOps)
    /\ Has(s[m], GrowOps \cup {"dat"}) => Has(q[1], GrowOps \cup {"dat"})
    /\ Has(s[m], DropOps) => Has(q[1], DropOps)
    /\ Has(s[m], KitOps) => Has(q[1], KitOps)

\* A step has one of some operations when it has one of the first or of the rest.
LEMMA HasUnion ==
  ASSUME NEW st, NEW O, NEW P
  PROVE  Has(st, O \cup P) <=> Has(st, O) \/ Has(st, P)
  BY DEF Has

\* The shape is kept when steps come in the place of the first.
LEMMA ShiftQueue ==
  ASSUME NEW q, NEW s, NEW q2, Shifted(q, s, q2), QueueOK(q), Local(s), Replaces(q, s)
  PROVE  QueueOK(q2)
<1>1. q2 \in Seq(StepSet) /\ Len(q2) \in Nat
  BY DEF Shifted
<1>2. Local(q2)
  BY ShiftLocal DEF QueueOK
<1>3. ASSUME NEW i \in 1 .. Len(q2)
      PROVE  \E g \in 1 .. Len(q) :
               /\ Has(q2[i], GrowOps) => Has(q[g], GrowOps)
               /\ Has(q2[i], DropOps) => Has(q[g], DropOps)
               /\ Has(q2[i], KitOps) => Has(q[g], KitOps)
  <2>1. CASE i <= Len(s)
    <3>1. i \in 1 .. Len(s) /\ 1 \in 1 .. Len(q) /\ q2[i] = s[i]
      BY <2>1 DEF Shifted
    <3>. QED  BY <3>1 DEF Replaces
  <2>2. CASE i > Len(s)
    <3>1. i - Len(s) + 1 \in 1 .. Len(q) /\ q2[i] = q[i - Len(s) + 1]
      BY <2>2 DEF Shifted
    <3>. QED  BY <3>1
  <2>. QED  BY <2>1, <2>2 DEF Shifted
<1>4. ASSUME NEW i \in 1 .. Len(q2), NEW j \in 1 .. Len(q2), Has(q2[i], GrowOps)
      PROVE  ~Has(q2[j], DropOps \cup KitOps)
  <2>1. PICK g \in 1 .. Len(q) : Has(q[g], GrowOps)
    BY <1>3, <1>4
  <2>2. PICK h \in 1 .. Len(q) : /\ Has(q2[j], DropOps) => Has(q[h], DropOps)
                                 /\ Has(q2[j], KitOps) => Has(q[h], KitOps)
    BY <1>3
  <2>3. ~Has(q[h], DropOps \cup KitOps)
    BY <2>1 DEF QueueOK
  <2>. QED  BY <2>2, <2>3, HasUnion
<1>5. ASSUME NEW i \in 1 .. Len(q2), NEW r \in q2[i].rounds
      PROVE  RoundOK(r)
  <2>1. CASE i <= Len(s)
    <3>1. i \in 1 .. Len(s) /\ q2[i] = s[i]
      BY <2>1 DEF Shifted
    <3>. QED  BY <3>1, <1>5 DEF Replaces
  <2>2. CASE i > Len(s)
    <3>1. i - Len(s) + 1 \in 1 .. Len(q) /\ q2[i] = q[i - Len(s) + 1]
      BY <2>2 DEF Shifted
    <3>. QED  BY <3>1, <1>5 DEF QueueOK
  <2>. QED  BY <2>1, <2>2 DEF Shifted
<1>. QED  BY <1>1, <1>2, <1>4, <1>5 DEF QueueOK

\* The shape is kept when the first steps are gone.
LEMMA DropQueue ==
  ASSUME NEW q, NEW n, NEW q2, Dropped(q, n, q2), QueueOK(q)
  PROVE  QueueOK(q2)
<1>1. q2 \in Seq(StepSet)
  BY DEF Dropped
<1>2. Local(q2)
  BY DropLocal DEF QueueOK
<1>3. \A i \in 1 .. Len(q2) : i + n \in 1 .. Len(q) /\ q2[i] = q[i + n]
  BY DEF Dropped
<1>4. ASSUME NEW i \in 1 .. Len(q2), NEW j \in 1 .. Len(q2), Has(q2[i], GrowOps)
      PROVE  ~Has(q2[j], DropOps \cup KitOps)
  BY <1>3, <1>4 DEF QueueOK
<1>5. ASSUME NEW i \in 1 .. Len(q2), NEW r \in q2[i].rounds
      PROVE  RoundOK(r)
  BY <1>3, <1>5 DEF QueueOK
<1>. QED  BY <1>1, <1>2, <1>4, <1>5 DEF QueueOK

\* No steps have no shape to keep.
LEMMA NoSteps ==
  /\ <<>> \in Seq(StepSet) /\ Len(<<>>) = 0 /\ Local(<<>>) /\ QueueOK(<<>>)
  /\ \A q : Replaces(q, <<>>)
<1>1. <<>> \in Seq(StepSet) /\ Len(<<>>) = 0
  BY EmptySeq
<1>2. 1 .. 0 = {}
  OBVIOUS
<1>3. Local(<<>>) /\ \A q : Replaces(q, <<>>)
  BY <1>1, <1>2 DEF Local, Replaces
<1>. QED  BY <1>1, <1>2, <1>3 DEF QueueOK

-----------------------------------------------------------------------------
(* What is registered is tracked: steps that are taken *)

\* What the first step does to registry.dat and to the tracking directories.
Moves(st, R, D, R2, D2, X) ==
  /\ st.op = "open_path" => st.k \in D2
  /\ D \subseteq D2 \/ Has(st, DropOps)
  /\ R2 \subseteq R \/ Has(st, GrowOps \cup {"dat"})
  /\ st.op = "undat" => st.k \notin R2
  /\ \A k \in R2 \ (D2 \cup X) :
       \/ k \in R \ D
       \/ st.op = "dat" /\ st.k = k /\ k \notin D
       \/ k \in R /\ Removes(st, k)

Undone(st, s, R2) ==
  \A k \in Keys : Undats(st, k) => k \notin R2 \/ \E m \in 1 .. Len(s) : Undats(s[m], k)

\* The first step has no work before the second that the steps in its place have not.
LEMMA ShiftBefore ==
  ASSUME NEW q, NEW s, NEW q2, Shifted(q, s, q2), NEW i \in 2 .. Len(q), NEW O,
         \A m \in 1 .. Len(s) : Has(s[m], O) => Has(q[1], O),
         \A h \in 1 .. i - 1 : ~Has(q[h], O)
  PROVE  \A h \in 1 .. i + Len(s) - 2 : ~Has(q2[h], O)
<1> SUFFICES ASSUME NEW h \in 1 .. i + Len(s) - 2 PROVE ~Has(q2[h], O)
  OBVIOUS
<1>0. Len(s) \in Nat /\ Len(q) \in Nat /\ Len(q2) = Len(s) + Len(q) - 1
  BY DEF Shifted
<1>1. CASE h <= Len(s)
  <2>1. h \in 1 .. Len(s) /\ 1 \in 1 .. i - 1
    BY <1>0, <1>1
  <2>2. q2[h] = s[h]
    BY <2>1 DEF Shifted
  <2>. QED  BY <2>1, <2>2
<1>2. CASE h > Len(s)
  <2>1. h \in 1 .. Len(q2) /\ h - Len(s) + 1 \in 1 .. i - 1
    BY <1>0, <1>2
  <2>2. q2[h] = q[h - Len(s) + 1]
    BY <1>2, <2>1 DEF Shifted
  <2>. QED  BY <2>1, <2>2
<1>. QED  BY <1>0, <1>1, <1>2

\* Steps tied to each other are tied with more behind them.
LEMMA PrefixTied ==
  ASSUME NEW q, NEW s, NEW q2, Shifted(q, s, q2), NEW i \in 1 .. Len(s), NEW j \in 1 .. i
  PROVE  Tied(q2, j, i) <=> Tied(s, j, i)
<1>1. \A h \in 1 .. j : q2[h] = s[h]
  BY DEF Shifted
<1>. QED  BY <1>1 DEF Tied

\* The directory of a PATH file is there or will be, after a step.
LEMMA ShiftPaths ==
  ASSUME NEW q, NEW s, NEW q2, Shifted(q, s, q2), Replaces(q, s), Local(s),
         NEW R, NEW D, NEW R2, NEW D2, NEW X,
         PathsOK(q, D), PathsOK(s, D2), Moves(q[1], R, D, R2, D2, X)
  PROVE  PathsOK(q2, D2)
<1> SUFFICES ASSUME NEW i \in 1 .. Len(q2), q2[i].op = "path"
             PROVE  /\ \A h \in 1 .. i - 1 : ~Has(q2[h], DropOps)
                    /\ \/ q2[i].k \in D2
                       \/ \E j \in 1 .. i - 1 : Opens(q2, j, i) /\ Tied(q2, j, i)
  BY DEF PathsOK
<1>0. Len(s) \in Nat /\ Len(q) \in Nat /\ Len(q2) = Len(s) + Len(q) - 1
  BY DEF Shifted
<1>1. CASE i <= Len(s)
  <2>1. i \in 1 .. Len(s) /\ \A h \in 1 .. i : q2[h] = s[h]
    BY <1>1 DEF Shifted
  <2>2. /\ \A h \in 1 .. i - 1 : ~Has(s[h], DropOps)
        /\ s[i].k \in D2 \/ \E j \in 1 .. i - 1 : Opens(s, j, i) /\ Tied(s, j, i)
    BY <2>1 DEF PathsOK
  <2>3. ASSUME NEW j \in 1 .. i - 1
        PROVE  (Opens(s, j, i) => Opens(q2, j, i)) /\ (Tied(s, j, i) => Tied(q2, j, i))
    <3>1. j \in 1 .. i /\ i \in 1 .. i
      BY <1>0, <2>1
    <3>2. q2[j] = s[j] /\ q2[i] = s[i]
      BY <2>1, <3>1
    <3>. QED  BY <2>1, <3>1, <3>2, PrefixTied DEF Opens
  <2>. QED  BY <2>1, <2>2, <2>3
<1>2. CASE i > Len(s)
  <2> DEFINE g == i - Len(s) + 1
  <2>1. g \in 2 .. Len(q) /\ g \in 1 .. Len(q) /\ q2[i] = q[g] /\ i = g + Len(s) - 1
    BY <1>0, <1>2 DEF Shifted
  <2> HIDE DEF g
  <2>2. /\ \A h \in 1 .. g - 1 : ~Has(q[h], DropOps)
        /\ q[g].k \in D \/ \E j \in 1 .. g - 1 : Opens(q, j, g) /\ Tied(q, j, g)
    BY <2>1 DEF PathsOK
  <2>3. \A h \in 1 .. i - 1 : ~Has(q2[h], DropOps)
    <3>1. \A m \in 1 .. Len(s) : Has(s[m], DropOps) => Has(q[1], DropOps)
      BY DEF Replaces
    <3>2. \A h \in 1 .. g + Len(s) - 2 : ~Has(q2[h], DropOps)
      BY <2>1, <2>2, <3>1, ShiftBefore
    <3>3. i - 1 = g + Len(s) - 2
      BY <1>0, <2>1
    <3>. QED  BY <3>2, <3>3
  <2>4. D \subseteq D2
    <3>1. ~Has(q[1], DropOps)
      BY <2>1, <2>2
    <3>. QED  BY <3>1 DEF Moves
  <2>5. ASSUME NEW j \in 1 .. g - 1, Opens(q, j, g), Tied(q, j, g)
        PROVE  q2[i].k \in D2 \/ \E l \in 1 .. i - 1 : Opens(q2, l, i) /\ Tied(q2, l, i)
    <3>1. CASE j = 1
      BY <2>1, <2>5, <3>1 DEF Opens, Moves
    <3>2. CASE j # 1
      <4>1. j \in 2 .. Len(q) /\ j + Len(s) - 1 \in 1 .. i - 1
        BY <1>0, <2>1, <3>2
      <4>2. q2[j + Len(s) - 1] = q[j]
        BY <4>1 DEF Shifted
      <4>3. Tied(q2, j + Len(s) - 1, i)
        BY <2>1, <2>5, <4>1, ShiftTied
      <4>. QED  BY <2>1, <2>5, <4>1, <4>2, <4>3 DEF Opens
    <3>. QED  BY <3>1, <3>2
  <2>. QED  BY <2>1, <2>2, <2>3, <2>4, <2>5
<1>. QED  BY <1>0, <1>1, <1>2

\* The directory of a version that will be registered is there or will be.
LEMMA ShiftDats ==
  ASSUME NEW q, NEW s, NEW q2, Shifted(q, s, q2), Replaces(q, s),
         NEW R, NEW D, NEW R2, NEW D2, NEW X,
         DatsOK(q, D, X), DatsOK(s, D2, X), Moves(q[1], R, D, R2, D2, X)
  PROVE  DatsOK(q2, D2, X)
<1> SUFFICES ASSUME NEW i \in 1 .. Len(q2), q2[i].op = "dat", q2[i].k \notin X
             PROVE  /\ \A h \in 1 .. i - 1 : ~Has(q2[h], DropOps)
                    /\ q2[i].k \in D2 \/ \E j \in 1 .. i - 1 : Opens(q2, j, i)
  BY DEF DatsOK
<1>0. Len(s) \in Nat /\ Len(q) \in Nat /\ Len(q2) = Len(s) + Len(q) - 1
  BY DEF Shifted
<1>1. CASE i <= Len(s)
  <2>1. i \in 1 .. Len(s) /\ \A h \in 1 .. i : q2[h] = s[h]
    BY <1>1 DEF Shifted
  <2>2. /\ \A h \in 1 .. i - 1 : ~Has(s[h], DropOps)
        /\ s[i].k \in D2 \/ \E j \in 1 .. i - 1 : Opens(s, j, i)
    BY <2>1 DEF DatsOK
  <2>3. ASSUME NEW j \in 1 .. i - 1
        PROVE  Opens(s, j, i) => Opens(q2, j, i)
    <3>1. j \in 1 .. i /\ i \in 1 .. i
      BY <1>0, <2>1
    <3>2. q2[j] = s[j] /\ q2[i] = s[i]
      BY <2>1, <3>1
    <3>. QED  BY <3>2 DEF Opens
  <2>. QED  BY <2>1, <2>2, <2>3
<1>2. CASE i > Len(s)
  <2> DEFINE g == i - Len(s) + 1
  <2>1. g \in 2 .. Len(q) /\ g \in 1 .. Len(q) /\ q2[i] = q[g] /\ i = g + Len(s) - 1
    BY <1>0, <1>2 DEF Shifted
  <2> HIDE DEF g
  <2>2. /\ \A h \in 1 .. g - 1 : ~Has(q[h], DropOps)
        /\ q[g].k \in D \/ \E j \in 1 .. g - 1 : Opens(q, j, g)
    BY <2>1 DEF DatsOK
  <2>3. \A h \in 1 .. i - 1 : ~Has(q2[h], DropOps)
    <3>1. \A m \in 1 .. Len(s) : Has(s[m], DropOps) => Has(q[1], DropOps)
      BY DEF Replaces
    <3>2. \A h \in 1 .. g + Len(s) - 2 : ~Has(q2[h], DropOps)
      BY <2>1, <2>2, <3>1, ShiftBefore
    <3>3. i - 1 = g + Len(s) - 2
      BY <1>0, <2>1
    <3>. QED  BY <3>2, <3>3
  <2>4. D \subseteq D2
    <3>1. ~Has(q[1], DropOps)
      BY <2>1, <2>2
    <3>. QED  BY <3>1 DEF Moves
  <2>5. ASSUME NEW j \in 1 .. g - 1, Opens(q, j, g)
        PROVE  q2[i].k \in D2 \/ \E l \in 1 .. i - 1 : Opens(q2, l, i)
    <3>1. CASE j = 1
      BY <2>1, <2>5, <3>1 DEF Opens, Moves
    <3>2. CASE j # 1
      <4>1. j \in 2 .. Len(q) /\ j + Len(s) - 1 \in 1 .. i - 1
        BY <1>0, <2>1, <3>2
      <4>2. q2[j + Len(s) - 1] = q[j]
        BY <4>1 DEF Shifted
      <4>. QED  BY <2>1, <2>5, <4>1, <4>2 DEF Opens
    <3>. QED  BY <3>1, <3>2
  <2>. QED  BY <2>1, <2>2, <2>3, <2>4, <2>5
<1>. QED  BY <1>0, <1>1, <1>2

\* Before and after a directory goes, its version is taken out of registry.dat.
LEMMA ShiftDrops ==
  ASSUME NEW q, NEW s, NEW q2, Shifted(q, s, q2), Replaces(q, s),
         NEW R, NEW D, NEW R2, NEW D2, NEW X,
         DropsOK(q, R, X), DropsOK(s, R2, X), Moves(q[1], R, D, R2, D2, X), Undone(q[1], s, R2)
  PROVE  DropsOK(q2, R2, X)
<1> SUFFICES ASSUME NEW i \in 1 .. Len(q2), NEW k \in Keys \ X,
                    Removes(q2[i], k)
             PROVE  Later(q2, i, k) \/ Gone(q2, i, k, R2)
  BY DEF DropsOK
<1>0. Len(s) \in Nat /\ Len(q) \in Nat \ {0} /\ Len(q2) = Len(s) + Len(q) - 1
  BY DEF Shifted
<1>1. CASE i <= Len(s)
  <2>1. i \in 1 .. Len(s) /\ \A h \in 1 .. Len(s) : q2[h] = s[h]
    BY <1>1 DEF Shifted
  <2>2. Later(s, i, k) \/ Gone(s, i, k, R2)
    BY <2>1 DEF DropsOK
  <2>3. CASE Later(s, i, k)
    <3>1. PICK j \in i + 1 .. Len(s) : s[j].op = "undat" /\ s[j].k = k
      BY <2>3 DEF Later
    <3>2. j \in 1 .. Len(s) /\ j \in i + 1 .. Len(q2)
      BY <1>0, <2>1
    <3>. QED  BY <2>1, <3>1, <3>2 DEF Later
  <2>4. CASE Gone(s, i, k, R2)
    <3>1. \A h \in 1 .. i - 1 : q2[h] = s[h]
      <4> SUFFICES ASSUME NEW h \in 1 .. i - 1 PROVE q2[h] = s[h]
        OBVIOUS
      <4>1. h \in 1 .. Len(s)
        BY <1>0, <2>1
      <4>. QED  BY <2>1, <4>1
    <3>. QED  BY <2>4, <3>1 DEF Gone
  <2>. QED  BY <2>2, <2>3, <2>4
<1>2. CASE i > Len(s)
  <2> DEFINE g == i - Len(s) + 1
  <2>1. g \in 2 .. Len(q) /\ g \in 1 .. Len(q) /\ q2[i] = q[g] /\ i = g + Len(s) - 1
    BY <1>0, <1>2 DEF Shifted
  <2> HIDE DEF g
  <2>2. Later(q, g, k) \/ Gone(q, g, k, R)
    BY <2>1 DEF DropsOK
  <2>3. CASE Later(q, g, k)
    <3>1. PICK j \in g + 1 .. Len(q) : q[j].op = "undat" /\ q[j].k = k
      BY <2>3 DEF Later
    <3>2. j \in 2 .. Len(q) /\ j + Len(s) - 1 \in i + 1 .. Len(q2)
      BY <1>0, <2>1
    <3>3. q2[j + Len(s) - 1] = q[j]
      BY <3>2 DEF Shifted
    <3>. QED  BY <3>1, <3>2, <3>3 DEF Later
  <2>4. CASE Gone(q, g, k, R)
    <3>1. \A h \in 1 .. g - 1 : ~Has(q[h], GrowOps \cup {"dat"})
      BY <2>4 DEF Gone
    <3>2. \A m \in 1 .. Len(s) : Has(s[m], GrowOps \cup {"dat"}) => Has(q[1], GrowOps \cup {"dat"})
      BY DEF Replaces
    <3>3. \A h \in 1 .. g + Len(s) - 2 : ~Has(q2[h], GrowOps \cup {"dat"})
      BY <2>1, <3>1, <3>2, ShiftBefore
    <3>4. i - 1 = g + Len(s) - 2 /\ 1 \in 1 .. g - 1
      BY <1>0, <2>1
    <3>5. R2 \subseteq R
      BY <3>1, <3>4 DEF Moves
    <3>6. ASSUME NEW h \in 1 .. g - 1, Undats(q[h], k)
          PROVE  k \notin R2 \/ \E l \in 1 .. i - 1 : Undats(q2[l], k)
      <4>1. CASE h = 1
        <5>1. CASE k \notin R2
          BY <5>1
        <5>2. ASSUME NEW m \in 1 .. Len(s), Undats(s[m], k)
              PROVE  \E l \in 1 .. i - 1 : Undats(q2[l], k)
          <6>1. m \in 1 .. i - 1 /\ q2[m] = s[m]
            BY <1>0, <2>1, <3>4 DEF Shifted
          <6>. QED  BY <5>2, <6>1
        <5>. QED  BY <3>6, <4>1, <5>1, <5>2 DEF Undone
      <4>2. CASE h # 1
        <5>1. h \in 2 .. Len(q) /\ h + Len(s) - 1 \in 1 .. i - 1
          BY <1>0, <2>1, <4>2
        <5>2. q2[h + Len(s) - 1] = q[h]
          BY <5>1 DEF Shifted
        <5>. QED  BY <3>6, <5>1, <5>2
      <4>. QED  BY <4>1, <4>2
    <3>7. k \notin R \/ \E h \in 1 .. g - 1 : Undats(q[h], k)
      BY <2>4 DEF Gone
    <3>8. k \notin R2 \/ \E l \in 1 .. i - 1 : Undats(q2[l], k)
      BY <3>5, <3>6, <3>7
    <3>. QED  BY <3>3, <3>4, <3>8 DEF Gone
  <2>. QED  BY <2>2, <2>3, <2>4
<1>. QED  BY <1>0, <1>1, <1>2

\* What is in registry.dat without a directory will be taken out of it.
LEMMA ShiftStray ==
  ASSUME NEW q, NEW s, NEW q2, Shifted(q, s, q2), NEW R \in SUBSET Keys, NEW D, NEW R2, NEW D2,
         NEW X, StrayOK(q, R, D, X), DatsOK(q, D, X), DropsOK(q, R, X),
         Moves(q[1], R, D, R2, D2, X)
  PROVE  StrayOK(q2, R2, D2, X)
<1> SUFFICES ASSUME NEW k \in R2 \ (D2 \cup X)
             PROVE  \E i \in 1 .. Len(q2) : q2[i].op = "undat" /\ q2[i].k = k
  BY DEF StrayOK
<1>0. Len(s) \in Nat /\ Len(q) \in Nat \ {0} /\ Len(q2) = Len(s) + Len(q) - 1 /\ 1 \in 1 .. Len(q)
  BY DEF Shifted
<1>1. ASSUME NEW g \in 2 .. Len(q), q[g].op = "undat", q[g].k = k
      PROVE  \E i \in 1 .. Len(q2) : q2[i].op = "undat" /\ q2[i].k = k
  BY <1>1 DEF Shifted
<1>2. CASE k \in R \ D
  <2>1. PICK g \in 1 .. Len(q) : q[g].op = "undat" /\ q[g].k = k
    BY <1>2 DEF StrayOK
  <2>2. g # 1
    BY <2>1 DEF Moves
  <2>3. g \in 2 .. Len(q)
    BY <1>0, <2>2
  <2>. QED  BY <1>1, <2>1, <2>3
<1>3. CASE q[1].op = "dat" /\ q[1].k = k /\ k \notin D
  <2>1. q[1].k \in D \/ \E j \in 1 .. 1 - 1 : Opens(q, j, 1)
    BY <1>0, <1>3 DEF DatsOK
  <2>2. 1 .. 1 - 1 = {}
    OBVIOUS
  <2>. QED  BY <1>3, <2>1, <2>2
<1>4. CASE k \in R /\ Removes(q[1], k)
  <2>1. Later(q, 1, k) \/ Gone(q, 1, k, R)
    BY <1>0, <1>4 DEF DropsOK
  <2>2. ~Gone(q, 1, k, R)
    BY <1>4 DEF Gone
  <2>3. PICK g \in 1 + 1 .. Len(q) : q[g].op = "undat" /\ q[g].k = k
    BY <2>1, <2>2 DEF Later
  <2>. QED  BY <1>1, <2>3
<1>. QED  BY <1>2, <1>3, <1>4 DEF Moves

\* What is registered stays tracked when steps come in the place of the first.
LEMMA ShiftTrack ==
  ASSUME NEW q, NEW s, NEW q2, Shifted(q, s, q2), Replaces(q, s), Local(s),
         NEW R \in SUBSET Keys, NEW D, NEW R2, NEW D2, NEW X,
         TrackInv(q, R, D, X), Moves(q[1], R, D, R2, D2, X), Undone(q[1], s, R2),
         PathsOK(s, D2), DatsOK(s, D2, X), DropsOK(s, R2, X)
  PROVE  TrackInv(q2, R2, D2, X)
<1>1. PathsOK(q2, D2)
  BY ShiftPaths DEF TrackInv
<1>2. DatsOK(q2, D2, X)
  BY ShiftDats DEF TrackInv
<1>3. DropsOK(q2, R2, X)
  BY ShiftDrops DEF TrackInv
<1>4. StrayOK(q2, R2, D2, X)
  BY ShiftStray DEF TrackInv
<1>. QED  BY <1>1, <1>2, <1>3, <1>4 DEF TrackInv

-----------------------------------------------------------------------------
(* What is registered is tracked: steps that fail *)

\* What the first step took, if it matters to a version, excuses that version.
LEMMA LostExcuses ==
  ASSUME NEW q, NEW q2, Dropped(q, q[1].loses, q2), Local(q), NEW X2,
         q[1].k \in X2 \cup {NoKey}, NEW h \in 1 .. Len(q), q[h].k \in Keys, q[h].k \notin X2,
         NoKey \notin Keys
  PROVE  h > q[1].loses
<1>1. q[1].loses \in Nat /\ h \in Nat
  BY DEF Dropped
<1>2. h <= q[1].loses => q[h].k = q[1].k
  BY LostIsLocal
<1>. QED  BY <1>1, <1>2

\* The work before a step that is left is less when the first steps are gone.
LEMMA DropBefore ==
  ASSUME NEW q, NEW n, NEW q2, Dropped(q, n, q2), NEW i \in 1 .. Len(q2), NEW O,
         \A h \in 1 .. i + n - 1 : ~Has(q[h], O)
  PROVE  \A h \in 1 .. i - 1 : ~Has(q2[h], O)
<1> SUFFICES ASSUME NEW h \in 1 .. i - 1 PROVE ~Has(q2[h], O)
  OBVIOUS
<1>0. n \in Nat /\ Len(q2) \in Nat
  BY DEF Dropped
<1>1. h \in 1 .. Len(q2) /\ h + n \in 1 .. i + n - 1
  BY <1>0
<1>2. q2[h] = q[h + n]
  BY <1>1 DEF Dropped
<1>. QED  BY <1>1, <1>2

\* The directory of a PATH file is there or will be, after a failure.
LEMMA DropPaths ==
  ASSUME NEW q, NEW q2, Dropped(q, q[1].loses, q2), NEW D, PathsOK(q, D)
  PROVE  PathsOK(q2, D)
<1> DEFINE n == q[1].loses
<1> SUFFICES ASSUME NEW i \in 1 .. Len(q2), q2[i].op = "path"
             PROVE  /\ \A h \in 1 .. i - 1 : ~Has(q2[h], DropOps)
                    /\ \/ q2[i].k \in D
                       \/ \E j \in 1 .. i - 1 : Opens(q2, j, i) /\ Tied(q2, j, i)
  BY DEF PathsOK
<1>0. n \in Nat /\ Len(q2) \in Nat
  BY DEF Dropped
<1> DEFINE g == i + n
<1>1. g \in 1 .. Len(q) /\ q2[i] = q[g] /\ g > n /\ g - n = i
  BY <1>0 DEF Dropped
<1>5. i + n - 1 = g - 1 /\ g \in Nat
  <2> HIDE DEF n
  <2>. QED  BY <1>0
<1> HIDE DEF g
<1>2. /\ \A h \in 1 .. g - 1 : ~Has(q[h], DropOps)
      /\ q[g].k \in D \/ \E j \in 1 .. g - 1 : Opens(q, j, g) /\ Tied(q, j, g)
  BY <1>1 DEF PathsOK
<1>3. \A h \in 1 .. i - 1 : ~Has(q2[h], DropOps)
  BY <1>2, <1>5, DropBefore
<1>4. ASSUME NEW j \in 1 .. g - 1, Opens(q, j, g), Tied(q, j, g)
      PROVE  \E l \in 1 .. i - 1 : Opens(q2, l, i) /\ Tied(q2, l, i)
  <2>1. j \in 1 .. Len(q)
    BY <1>0, <1>1, <1>5
  <2>2. j > n
    BY <1>1, <1>4, <2>1, TiedFallsTogether
  <2>3. j - n \in 1 .. i - 1
    <3>. HIDE DEF n
    <3>. QED  BY <1>0, <1>5, <2>2
  <2>4. Tied(q2, j - n, i)
    BY <1>1, <1>4, <2>1, <2>2, <2>3, DropTied
  <2>5. q2[j - n] = q[j]
    BY <2>1, <2>2 DEF Dropped
  <2>. QED  BY <1>1, <1>4, <2>3, <2>4, <2>5 DEF Opens
<1>. QED  BY <1>1, <1>2, <1>3, <1>4

\* The directory of a version that will be registered is there or will be, or
\* the failure excuses it.
LEMMA DropDats ==
  ASSUME NEW q, NEW q2, Dropped(q, q[1].loses, q2), Local(q), NEW D, NEW X, NEW X2,
         X \subseteq X2, q[1].k \in X2 \cup {NoKey}, NoKey \notin Keys, DatsOK(q, D, X)
  PROVE  DatsOK(q2, D, X2)
<1> DEFINE n == q[1].loses
<1> SUFFICES ASSUME NEW i \in 1 .. Len(q2), q2[i].op = "dat", q2[i].k \notin X2
             PROVE  /\ \A h \in 1 .. i - 1 : ~Has(q2[h], DropOps)
                    /\ q2[i].k \in D \/ \E j \in 1 .. i - 1 : Opens(q2, j, i)
  BY DEF DatsOK
<1>0. n \in Nat /\ Len(q2) \in Nat
  BY DEF Dropped
<1> DEFINE g == i + n
<1>1. g \in 1 .. Len(q) /\ q2[i] = q[g] /\ g > n /\ g - n = i
  BY <1>0 DEF Dropped
<1>5. i + n - 1 = g - 1 /\ g \in Nat
  <2> HIDE DEF n
  <2>. QED  BY <1>0
<1> HIDE DEF g
<1>2. /\ \A h \in 1 .. g - 1 : ~Has(q[h], DropOps)
      /\ q[g].k \in D \/ \E j \in 1 .. g - 1 : Opens(q, j, g)
  BY <1>1 DEF DatsOK
<1>3. \A h \in 1 .. i - 1 : ~Has(q2[h], DropOps)
  BY <1>2, <1>5, DropBefore
<1>4. ASSUME NEW j \in 1 .. g - 1, Opens(q, j, g)
      PROVE  \E l \in 1 .. i - 1 : Opens(q2, l, i)
  <2>1. j \in 1 .. Len(q)
    BY <1>0, <1>1, <1>5
  <2>2. q[j].k \in Keys /\ q[j].k \notin X2
    <3>1. Fits(q[j])
      BY <2>1, StepType DEF Dropped
    <3>2. q[j].op = "open_path" /\ q[j].k = q[g].k
      BY <1>4 DEF Opens
    <3>. QED  BY <1>1, <3>1, <3>2 DEF Fits, KeyOps
  <2>3. j > n
    BY <2>1, <2>2, LostExcuses
  <2>4. j - n \in 1 .. i - 1
    <3>. HIDE DEF n
    <3>. QED  BY <1>0, <1>5, <2>3
  <2>5. q2[j - n] = q[j]
    BY <2>1, <2>3 DEF Dropped
  <2>. QED  BY <1>1, <1>4, <2>4, <2>5 DEF Opens
<1>. QED  BY <1>1, <1>2, <1>3, <1>4

\* What takes a version out of registry.dat is left, or the failure excuses it.
LEMMA DropUndats ==
  ASSUME NEW q, NEW q2, Dropped(q, q[1].loses, q2), Local(q), NEW X2,
         q[1].k \in X2 \cup {NoKey}, NoKey \notin Keys,
         NEW k \in Keys \ X2, NEW h \in 1 .. Len(q), Undats(q[h], k)
  PROVE  h > q[1].loses
<1>1. q[h] \in StepSet
  BY DEF Dropped
<1>2. CASE q[h].op = "loop"
  <2>1. h \in Nat /\ q[1].loses \in Nat
    BY DEF Dropped
  <2>2. h <= q[1].loses => q[h].op # "loop"
    BY LostIsLocal
  <2>. QED  BY <1>2, <2>1, <2>2
<1>3. CASE q[h].op # "loop"
  <2>1. q[h].rounds = {}
    BY <1>1, <1>3, StepType
  <2>2. q[h].k = k
    BY <2>1 DEF Undats
  <2>. QED  BY <2>2, LostExcuses
<1>. QED  BY <1>2, <1>3

\* Before and after a directory goes, its version is taken out of registry.dat,
\* or the failure excuses it.
LEMMA DropDrops ==
  ASSUME NEW q, NEW q2, Dropped(q, q[1].loses, q2), Local(q), NEW R, NEW X, NEW X2,
         X \subseteq X2, q[1].k \in X2 \cup {NoKey}, NoKey \notin Keys, DropsOK(q, R, X)
  PROVE  DropsOK(q2, R, X2)
<1> DEFINE n == q[1].loses
<1> SUFFICES ASSUME NEW i \in 1 .. Len(q2), NEW k \in Keys \ X2, Removes(q2[i], k)
             PROVE  Later(q2, i, k) \/ Gone(q2, i, k, R)
  BY DEF DropsOK
<1>0. n \in Nat /\ Len(q2) \in Nat /\ Len(q) \in Nat
  BY DEF Dropped
<1> DEFINE g == i + n
<1>1. g \in 1 .. Len(q) /\ q2[i] = q[g] /\ g > n /\ g - n = i
  BY <1>0 DEF Dropped
<1>5. i + n - 1 = g - 1 /\ g \in Nat
  <2> HIDE DEF n
  <2>. QED  BY <1>0
<1> HIDE DEF g
<1>2. Later(q, g, k) \/ Gone(q, g, k, R)
  BY <1>1 DEF DropsOK
<1>3. CASE Later(q, g, k)
  <2>1. PICK j \in g + 1 .. Len(q) : q[j].op = "undat" /\ q[j].k = k
    BY <1>3 DEF Later
  <2>2. j \in 1 .. Len(q) /\ j > n /\ j - n \in i + 1 .. Len(q2)
    <3>1. Len(q2) = Len(q) - n /\ Len(q) \in Nat
      BY DEF Dropped
    <3>. HIDE DEF n
    <3>. QED  BY <1>0, <1>1, <1>5, <2>1, <3>1
  <2>3. q2[j - n] = q[j]
    BY <2>2 DEF Dropped
  <2>. QED  BY <2>1, <2>2, <2>3 DEF Later
<1>4. CASE Gone(q, g, k, R)
  <2>1. \A h \in 1 .. i - 1 : ~Has(q2[h], GrowOps \cup {"dat"})
    <3>1. \A h \in 1 .. g - 1 : ~Has(q[h], GrowOps \cup {"dat"})
      BY <1>4 DEF Gone
    <3>2. \A h \in 1 .. i + n - 1 : ~Has(q[h], GrowOps \cup {"dat"})
      BY <3>1, <1>5
    <3>. QED  BY <3>2, DropBefore
  <2>2. ASSUME NEW h \in 1 .. g - 1, Undats(q[h], k)
        PROVE  \E l \in 1 .. i - 1 : Undats(q2[l], k)
    <3>1. h \in 1 .. Len(q)
      BY <1>0, <1>1, <1>5
    <3>2. h > n
      BY <2>2, <3>1, DropUndats
    <3>3. h - n \in 1 .. i - 1
      <4>. HIDE DEF n
      <4>. QED  BY <1>0, <1>5, <3>2
    <3>4. q2[h - n] = q[h]
      BY <3>1, <3>2 DEF Dropped
    <3>. QED  BY <2>2, <3>3, <3>4
  <2>3. k \notin R \/ \E h \in 1 .. g - 1 : Undats(q[h], k)
    BY <1>4 DEF Gone
  <2>. QED  BY <2>1, <2>2, <2>3 DEF Gone
<1>. QED  BY <1>2, <1>3, <1>4

\* What is in registry.dat without a directory will be taken out of it, or the
\* failure excuses it.
LEMMA DropStray ==
  ASSUME NEW q, NEW q2, Dropped(q, q[1].loses, q2), Local(q), NEW R \in SUBSET Keys, NEW D,
         NEW X, NEW X2, X \subseteq X2, q[1].k \in X2 \cup {NoKey}, NoKey \notin Keys,
         StrayOK(q, R, D, X)
  PROVE  StrayOK(q2, R, D, X2)
<1> SUFFICES ASSUME NEW k \in R \ (D \cup X2)
             PROVE  \E i \in 1 .. Len(q2) : q2[i].op = "undat" /\ q2[i].k = k
  BY DEF StrayOK
<1>1. PICK g \in 1 .. Len(q) : q[g].op = "undat" /\ q[g].k = k
  BY DEF StrayOK
<1>2. g > q[1].loses
  BY <1>1, LostExcuses
<1>. QED  BY <1>1, <1>2 DEF Dropped

\* What is registered stays tracked when a step fails that does not end the command.
LEMMA DropTrack ==
  ASSUME NEW q, NEW q2, Dropped(q, q[1].loses, q2), Local(q), NEW R \in SUBSET Keys, NEW D,
         NEW X, NEW X2, X \subseteq X2, q[1].k \in X2 \cup {NoKey}, NoKey \notin Keys,
         TrackInv(q, R, D, X)
  PROVE  TrackInv(q2, R, D, X2)
<1>1. PathsOK(q2, D)
  BY DropPaths DEF TrackInv
<1>2. DatsOK(q2, D, X2)
  BY DropDats DEF TrackInv
<1>3. DropsOK(q2, R, X2)
  BY DropDrops DEF TrackInv
<1>4. StrayOK(q2, R, D, X2)
  BY DropStray DEF TrackInv
<1>. QED  BY <1>1, <1>2, <1>3, <1>4 DEF TrackInv

\* When nothing is left, what is registered without a directory must be excused.
LEMMA NothingLeftTrack ==
  ASSUME NEW R, NEW D, NEW X
  PROVE  TrackInv(<<>>, R, D, X) <=> R \subseteq D \cup X
<1>1. Len(<<>>) = 0 /\ 1 .. 0 = {}
  BY EmptySeq
<1>. QED  BY <1>1 DEF TrackInv, PathsOK, DatsOK, DropsOK, StrayOK

-----------------------------------------------------------------------------
(* What is linked has its binary: steps that are taken, and steps that fail *)

\* What the first step does to the binaries and to the stored kitfiles.
KitMoves(st, c, bin, stored, bin2, stored2) ==
  /\ bin \subseteq bin2
  /\ st.op = "download_tool" => <<st.a, c.version>> \in bin2
  /\ stored2 = stored \/ stored2[c.version] = c
  /\ st.op = "store" => stored2[c.version] = c

\* The steps in the place of the first fetch what it was to fetch, or nothing goes on.
Fetching(st, s) ==
  \A t \in Tools : Fetches(st, t) =>
    \/ st.op = "download_tool" /\ st.a = t
    \/ \E m \in 1 .. Len(s) :
         Fetches(s[m], t) /\ \A h \in 1 .. m : s[h].loses = 0 \/ h + s[h].loses <= m

\* A tool whose binary is there or will be keeps that when a step is taken.
LEMMA ShiftReady ==
  ASSUME NEW q, NEW s, NEW q2, Shifted(q, s, q2), Local(s), NEW c, NEW bin, NEW stored, NEW bin2,
         NEW stored2, KitMoves(q[1], c, bin, stored, bin2, stored2), Fetching(q[1], s),
         NEW i \in 2 .. Len(q), NEW t \in Tools, Ready(q, i, t, c.version, bin)
  PROVE  Ready(q2, i + Len(s) - 1, t, c.version, bin2)
<1> DEFINE g == i + Len(s) - 1
<1>0. /\ Len(s) \in Nat /\ Len(q) \in Nat \ {0} /\ Len(q2) = Len(s) + Len(q) - 1
      /\ g \in 1 .. Len(q2) /\ g - 1 = i + Len(s) - 2
  BY DEF Shifted
<1> HIDE DEF g
<1>1. <<t, c.version>> \in bin => Ready(q2, g, t, c.version, bin2)
  BY DEF KitMoves, Ready
<1>2. ASSUME NEW j \in 1 .. i - 1, Fetches(q[j], t), Tied(q, j, i)
      PROVE  Ready(q2, g, t, c.version, bin2)
  <2>1. CASE j = 1 /\ q[1].op = "download_tool" /\ q[1].a = t
    BY <2>1 DEF KitMoves, Ready
  <2>2. ASSUME NEW m \in 1 .. Len(s), Fetches(s[m], t),
               \A h \in 1 .. m : s[h].loses = 0 \/ h + s[h].loses <= m
        PROVE  Ready(q2, g, t, c.version, bin2)
    <3>1. \A h \in 1 .. m : q2[h] = s[h]
      BY DEF Shifted
    <3>2. Tied(q2, m, g)
      BY <2>2, <3>1 DEF Tied
    <3>3. m \in 1 .. g - 1 /\ m \in 1 .. m
      BY <1>0
    <3>. QED  BY <2>2, <3>1, <3>2, <3>3 DEF Ready
  <2>3. CASE j # 1
    <3>1. j \in 2 .. Len(q) /\ j + Len(s) - 1 \in 1 .. g - 1
      BY <1>0, <2>3
    <3>2. q2[j + Len(s) - 1] = q[j]
      BY <3>1 DEF Shifted
    <3>3. Tied(q2, j + Len(s) - 1, g)
      BY <1>2, <3>1, ShiftTied DEF g
    <3>. QED  BY <1>2, <3>1, <3>2, <3>3 DEF Ready
  <2>4. j = 1 => \/ q[1].op = "download_tool" /\ q[1].a = t
                 \/ \E m \in 1 .. Len(s) :
                      Fetches(s[m], t) /\ \A h \in 1 .. m : s[h].loses = 0 \/ h + s[h].loses <= m
    BY <1>2 DEF Fetching
  <2>. QED  BY <2>1, <2>2, <2>3, <2>4
<1>3. <<t, c.version>> \in bin \/ \E j \in 1 .. i - 1 : Fetches(q[j], t) /\ Tied(q, j, i)
  BY DEF Ready
<1>4. Ready(q2, g, t, c.version, bin2)
  BY <1>1, <1>2, <1>3
<1>. QED  BY <1>4 DEF g

\* A tool whose binary is there or will be keeps that when a step fails.
LEMMA DropReady ==
  ASSUME NEW q, NEW q2, Dropped(q, q[1].loses, q2), NEW v, NEW bin,
         NEW i \in 1 .. Len(q2), NEW t, Ready(q, i + q[1].loses, t, v, bin)
  PROVE  Ready(q2, i, t, v, bin)
<1> DEFINE n == q[1].loses
           g == i + n
<1>0. n \in Nat /\ Len(q2) \in Nat
  BY DEF Dropped
<1>1. g \in 1 .. Len(q) /\ g > n /\ g - n = i /\ g \in Nat
  BY <1>0 DEF Dropped
<1>2. <<t, v>> \in bin \/ \E j \in 1 .. g - 1 : Fetches(q[j], t) /\ Tied(q, j, g)
  BY DEF Ready
<1> HIDE DEF g
<1>3. ASSUME NEW j \in 1 .. g - 1, Fetches(q[j], t), Tied(q, j, g)
      PROVE  Ready(q2, i, t, v, bin)
  <2>1. j \in 1 .. Len(q)
    BY <1>1
  <2>2. j > n
    BY <1>1, <1>3, <2>1, TiedFallsTogether
  <2>3. j - n \in 1 .. i - 1
    <3>. HIDE DEF n
    <3>. QED  BY <1>0, <1>1, <2>2
  <2>4. Tied(q2, j - n, i)
    BY <1>1, <1>3, <2>1, <2>2, DropTied
  <2>5. q2[j - n] = q[j]
    BY <2>1, <2>2 DEF Dropped
  <2>. QED  BY <1>3, <2>3, <2>4, <2>5 DEF Ready
<1>. QED  BY <1>2, <1>3 DEF Ready

\* What a step of a kit command needs holds or will, after a step is taken.
LEMMA ShiftKit ==
  ASSUME NEW q, NEW s, NEW q2, Shifted(q, s, q2), Local(s), Replaces(q, s),
         NEW c, NEW bin, NEW stored, NEW bin2, NEW stored2,
         KitMoves(q[1], c, bin, stored, bin2, stored2), Fetching(q[1], s),
         \A m \in 1 .. Len(s) : s[m].op \notin LastOps,
         KitQueueOK(q, c, bin, stored), LinksOK(s, c, bin2)
  PROVE  KitQueueOK(q2, c, bin2, stored2)
<1>0. Len(s) \in Nat /\ Len(q) \in Nat \ {0} /\ Len(q2) = Len(s) + Len(q) - 1 /\ 1 \in 1 .. Len(q)
  BY DEF Shifted
<1>1. ASSUME NEW i \in 1 .. Len(q2)
      PROVE  \/ i \in 1 .. Len(s) /\ q2[i] = s[i] /\ s[i] \in StepSet
             \/ \E g \in 2 .. Len(q) : g \in 1 .. Len(q) /\ q2[i] = q[g] /\ i = g + Len(s) - 1
                                        /\ q[g] \in StepSet
  <2>1. CASE i <= Len(s)
    BY <2>1 DEF Shifted
  <2>2. CASE i > Len(s)
    <3>1. i - Len(s) + 1 \in 2 .. Len(q) /\ q2[i] = q[i - Len(s) + 1]
      BY <2>2 DEF Shifted
    <3>2. i - Len(s) + 1 \in 1 .. Len(q) /\ i = i - Len(s) + 1 + Len(s) - 1
      BY <1>0, <3>1
    <3>3. q[i - Len(s) + 1] \in StepSet
      BY <3>2 DEF Shifted
    <3>. QED  BY <3>1, <3>2, <3>3
  <2>. QED  BY <1>0, <2>1, <2>2
<1>2. ASSUME NEW i \in 1 .. Len(q2), Has(q2[i], KitOps) PROVE c \in Sources
  BY <1>0, <1>1, <1>2 DEF KitQueueOK, Replaces
<1>3. ASSUME NEW i \in 1 .. Len(q2), q2[i].op = "report" PROVE i = Len(q2)
  <2>1. PICK g \in 2 .. Len(q) : g \in 1 .. Len(q) /\ q2[i] = q[g] /\ i = g + Len(s) - 1
    BY <1>1, <1>3 DEF LastOps
  <2>2. g = Len(q)
    BY <1>3, <2>1 DEF KitQueueOK
  <2>. QED  BY <1>0, <2>1, <2>2
<1>4. ASSUME NEW i \in 1 .. Len(q2), NEW t \in Tools, i <= Len(s), Ready(s, i, t, c.version, bin2)
      PROVE  Ready(q2, i, t, c.version, bin2)
  <2>1. i \in 1 .. Len(s)
    BY <1>0, <1>4
  <2>2. ASSUME NEW j \in 1 .. i - 1, Fetches(s[j], t), Tied(s, j, i)
        PROVE  Fetches(q2[j], t) /\ Tied(q2, j, i)
    <3>1. j \in 1 .. i /\ j \in 1 .. Len(s)
      BY <1>0, <2>1
    <3>2. q2[j] = s[j]
      BY <3>1 DEF Shifted
    <3>. QED  BY <2>1, <2>2, <3>1, <3>2, PrefixTied
  <2>. QED  BY <1>4, <2>2 DEF Ready
<1>5. ASSUME NEW i \in 1 .. Len(q2), q2[i].op = "link_tool", q2[i].a \in c.tools
      PROVE  Ready(q2, i, q2[i].a, c.version, bin2)
  <2>1. q2[i].a \in Tools
    <3>1. q2[i] \in StepSet
      BY <1>1
    <3>. QED  BY <1>5, <3>1, StepType DEF Fits, ToolOps
  <2>2. CASE i \in 1 .. Len(s) /\ q2[i] = s[i]
    <3>1. s[i].op = "link_tool" /\ s[i].a \in c.tools /\ s[i].a \in Tools
      BY <1>5, <2>1, <2>2
    <3>2. Ready(s, i, s[i].a, c.version, bin2)
      BY <2>2, <3>1 DEF LinksOK
    <3>3. i <= Len(s)
      BY <1>0, <2>2
    <3>4. Ready(q2, i, s[i].a, c.version, bin2)
      BY <1>4, <3>1, <3>2, <3>3
    <3>. QED  BY <2>2, <3>4
  <2>3. ASSUME NEW g \in 2 .. Len(q), g \in 1 .. Len(q), q2[i] = q[g], i = g + Len(s) - 1
        PROVE  Ready(q2, i, q2[i].a, c.version, bin2)
    <3>1. Ready(q, g, q[g].a, c.version, bin)
      BY <1>5, <2>3 DEF KitQueueOK, LinksOK
    <3>. QED  BY <2>1, <2>3, <3>1, ShiftReady
  <2>. QED  BY <1>1, <2>2, <2>3
<1>6. ASSUME NEW i \in 1 .. Len(q2), NEW r \in q2[i].rounds, NEW p \in 1 .. Len(r),
             r[p].op = "link_tool", r[p].a \in c.tools
      PROVE  \/ Ready(q2, i, r[p].a, c.version, bin2)
             \/ \E h \in 1 .. p - 1 : r[h].op = "download_tool" /\ r[h].a = r[p].a /\ Tied(r, h, p)
  <2>1. r[p].a \in Tools
    <3>1. q2[i] \in StepSet
      BY <1>1
    <3>2. r[p] \in PlainSteps
      BY <3>1, RoundType
    <3>. QED  BY <1>6, <3>2, PlainType DEF Fits, ToolOps
  <2>2. CASE i \in 1 .. Len(s) /\ q2[i] = s[i]
    <3>1. \/ Ready(s, i, r[p].a, c.version, bin2)
          \/ \E h \in 1 .. p - 1 : r[h].op = "download_tool" /\ r[h].a = r[p].a /\ Tied(r, h, p)
      <4>1. r \in s[i].rounds
        BY <1>6, <2>2
      <4>. QED  BY <1>6, <2>2, <4>1 DEF LinksOK
    <3>2. i <= Len(s)
      BY <1>0, <2>2
    <3>3. Ready(s, i, r[p].a, c.version, bin2) => Ready(q2, i, r[p].a, c.version, bin2)
      BY <1>4, <2>1, <3>2
    <3>. QED  BY <3>1, <3>3
  <2>3. ASSUME NEW g \in 2 .. Len(q), g \in 1 .. Len(q), q2[i] = q[g], i = g + Len(s) - 1
        PROVE  \/ Ready(q2, i, r[p].a, c.version, bin2)
               \/ \E h \in 1 .. p - 1 : r[h].op = "download_tool" /\ r[h].a = r[p].a /\ Tied(r, h, p)
    <3>1. \/ Ready(q, g, r[p].a, c.version, bin)
          \/ \E h \in 1 .. p - 1 : r[h].op = "download_tool" /\ r[h].a = r[p].a /\ Tied(r, h, p)
      BY <1>6, <2>3 DEF KitQueueOK, LinksOK
    <3>. QED  BY <2>1, <2>3, <3>1, ShiftReady
  <2>. QED  BY <1>1, <2>2, <2>3
<1>7. ASSUME NEW i \in 1 .. Len(q2), q2[i].op = "promote"
      PROVE  stored2[c.version] = c \/ \E j \in 1 .. i - 1 : q2[j].op = "store" /\ Tied(q2, j, i)
  <2>1. PICK g \in 2 .. Len(q) : g \in 1 .. Len(q) /\ q2[i] = q[g] /\ i = g + Len(s) - 1
    BY <1>1, <1>7 DEF LastOps
  <2>2. CASE stored[c.version] = c
    BY <2>2 DEF KitMoves
  <2>3. ASSUME NEW j \in 1 .. g - 1, q[j].op = "store", Tied(q, j, g)
        PROVE  stored2[c.version] = c \/ \E l \in 1 .. i - 1 : q2[l].op = "store" /\ Tied(q2, l, i)
    <3>1. CASE j = 1
      BY <2>3, <3>1 DEF KitMoves
    <3>2. CASE j # 1
      <4>1. j \in 2 .. Len(q) /\ j + Len(s) - 1 \in 1 .. i - 1
        BY <1>0, <2>1, <3>2
      <4>2. q2[j + Len(s) - 1] = q[j]
        BY <4>1 DEF Shifted
      <4>3. Tied(q2, j + Len(s) - 1, i)
        BY <2>1, <2>3, <4>1, ShiftTied
      <4>. QED  BY <2>3, <4>1, <4>2, <4>3
    <3>. QED  BY <3>1, <3>2
  <2>4. stored[c.version] = c \/ \E j \in 1 .. g - 1 : q[j].op = "store" /\ Tied(q, j, g)
    BY <1>7, <2>1 DEF KitQueueOK, PromotesOK
  <2>. QED  BY <2>2, <2>3, <2>4
<1>8. LinksOK(q2, c, bin2)
  BY <1>5, <1>6 DEF LinksOK
<1>9. PromotesOK(q2, c, stored2)
  BY <1>7 DEF PromotesOK
<1>. QED  BY <1>2, <1>3, <1>8, <1>9 DEF KitQueueOK

\* What a step of a kit command needs holds or will, after a step fails.
LEMMA DropKit ==
  ASSUME NEW q, NEW q2, Dropped(q, q[1].loses, q2), NEW c, NEW bin, NEW stored,
         KitQueueOK(q, c, bin, stored)
  PROVE  KitQueueOK(q2, c, bin, stored)
<1> DEFINE n == q[1].loses
<1>0. n \in Nat /\ Len(q2) \in Nat /\ Len(q) \in Nat /\ Len(q2) = Len(q) - n
  BY DEF Dropped
<1>1. \A i \in 1 .. Len(q2) : i + n \in 1 .. Len(q) /\ q2[i] = q[i + n]
  BY DEF Dropped
<1>2. ASSUME NEW i \in 1 .. Len(q2), Has(q2[i], KitOps) PROVE c \in Sources
  BY <1>1, <1>2 DEF KitQueueOK
<1>3. ASSUME NEW i \in 1 .. Len(q2), q2[i].op = "report" PROVE i = Len(q2)
  <2>1. i + n = Len(q)
    BY <1>1, <1>3 DEF KitQueueOK
  <2>. HIDE DEF n
  <2>. QED  BY <1>0, <2>1
<1>5. ASSUME NEW i \in 1 .. Len(q2), q2[i].op = "link_tool", q2[i].a \in c.tools
      PROVE  Ready(q2, i, q2[i].a, c.version, bin)
  <2>1. Ready(q, i + n, q[i + n].a, c.version, bin)
    BY <1>1, <1>5 DEF KitQueueOK, LinksOK
  <2>. QED  BY <1>1, <2>1, DropReady
<1>6. ASSUME NEW i \in 1 .. Len(q2), NEW r \in q2[i].rounds, NEW p \in 1 .. Len(r),
             r[p].op = "link_tool", r[p].a \in c.tools
      PROVE  \/ Ready(q2, i, r[p].a, c.version, bin)
             \/ \E h \in 1 .. p - 1 : r[h].op = "download_tool" /\ r[h].a = r[p].a /\ Tied(r, h, p)
  <2>1. i + n \in 1 .. Len(q) /\ r \in q[i + n].rounds
    <3> HIDE DEF n
    <3>. QED  BY <1>1, <1>6
  <2>2. \/ Ready(q, i + n, r[p].a, c.version, bin)
        \/ \E h \in 1 .. p - 1 : r[h].op = "download_tool" /\ r[h].a = r[p].a /\ Tied(r, h, p)
    BY <1>6, <2>1 DEF KitQueueOK, LinksOK
  <2>. QED  BY <2>2, DropReady
<1>7. ASSUME NEW i \in 1 .. Len(q2), q2[i].op = "promote"
      PROVE  stored[c.version] = c \/ \E j \in 1 .. i - 1 : q2[j].op = "store" /\ Tied(q2, j, i)
  <2> DEFINE g == i + n
  <2>0. g \in 1 .. Len(q) /\ q2[i] = q[g]
    BY <1>1
  <2>1. g > n /\ g - n = i /\ g \in Nat
    <3> HIDE DEF n
    <3>. QED  BY <1>0
  <2> HIDE DEF g
  <2>2. ASSUME NEW j \in 1 .. g - 1, q[j].op = "store", Tied(q, j, g)
        PROVE  \E l \in 1 .. i - 1 : q2[l].op = "store" /\ Tied(q2, l, i)
    <3>1. j \in 1 .. Len(q)
      BY <1>0, <2>0, <2>1
    <3>2. j > n
      BY <2>0, <2>1, <2>2, <3>1, TiedFallsTogether
    <3>3. j - n \in 1 .. i - 1
      <4>. HIDE DEF n
      <4>. QED  BY <1>0, <2>0, <2>1, <3>2
    <3>4. Tied(q2, j - n, i)
      BY <2>0, <2>1, <2>2, <3>1, <3>2, DropTied
    <3>5. q2[j - n] = q[j]
      BY <3>1, <3>2 DEF Dropped
    <3>. QED  BY <2>2, <3>3, <3>4, <3>5
  <2>3. stored[c.version] = c \/ \E j \in 1 .. g - 1 : q[j].op = "store" /\ Tied(q, j, g)
    BY <1>7, <2>0 DEF KitQueueOK, PromotesOK
  <2>. QED  BY <2>0, <2>2, <2>3
<1>8. LinksOK(q2, c, bin)
  BY <1>5, <1>6 DEF LinksOK
<1>9. PromotesOK(q2, c, stored)
  BY <1>7 DEF PromotesOK
<1>. QED  BY <1>2, <1>3, <1>8, <1>9 DEF KitQueueOK

\* A command without work for kits leaves nothing to be ready.
LEMMA NoKitWork ==
  ASSUME NEW q \in Seq(StepSet), \A i \in 1 .. Len(q) : ~Has(q[i], KitOps),
         NEW c, NEW bin, NEW stored
  PROVE  KitQueueOK(q, c, bin, stored)
<1>1. ASSUME NEW i \in 1 .. Len(q)
      PROVE  q[i].op # "report" /\ q[i].op # "link_tool" /\ q[i].op # "promote"
  BY <1>1 DEF Has, KitOps
<1>2. ASSUME NEW i \in 1 .. Len(q), NEW r \in q[i].rounds, NEW p \in 1 .. Len(r)
      PROVE  r[p].op # "link_tool"
  BY <1>2 DEF Has, KitOps
<1>. QED  BY <1>1, <1>2 DEF KitQueueOK, LinksOK, PromotesOK

-----------------------------------------------------------------------------
(* What a step does to the steps that are left *)

\* Whatever is true of no steps holds between commands.
LEMMA IdleQueue ==
  ASSUME NEW R, NEW D, NEW X, NEW c, NEW bin, NEW stored
  PROVE  QInv(<<>>, R, D, X, c, bin, stored) <=> R \subseteq D \cup X
<1>1. KitQueueOK(<<>>, c, bin, stored)
  BY NoSteps DEF KitQueueOK, LinksOK, PromotesOK
<1>. QED  BY <1>1, NoSteps, NothingLeftTrack DEF QInv

\* Excusing more changes nothing.
LEMMA MoreExcused ==
  ASSUME NEW q, NEW R, NEW D, NEW X, NEW X2, NEW c, NEW bin, NEW stored,
         QInv(q, R, D, X, c, bin, stored), X \subseteq X2
  PROVE  QInv(q, R, D, X2, c, bin, stored)
<1>1. DatsOK(q, D, X2)
  BY DEF QInv, TrackInv, DatsOK
<1>2. DropsOK(q, R, X2)
  BY DEF QInv, TrackInv, DropsOK
<1>3. StrayOK(q, R, D, X2)
  BY DEF QInv, TrackInv, StrayOK
<1>. QED  BY <1>1, <1>2, <1>3 DEF QInv, TrackInv

\* Some steps take the place of the first.
LEMMA StepsTaken ==
  ASSUME NEW q, NEW s, NEW q2, Shifted(q, s, q2), Local(s), Replaces(q, s),
         NEW R \in SUBSET Keys, NEW D, NEW R2, NEW D2, NEW X,
         NEW c, NEW bin, NEW stored, NEW bin2, NEW stored2,
         QInv(q, R, D, X, c, bin, stored),
         Moves(q[1], R, D, R2, D2, X), Undone(q[1], s, R2),
         KitMoves(q[1], c, bin, stored, bin2, stored2), Fetching(q[1], s),
         \A m \in 1 .. Len(s) : s[m].op \notin LastOps,
         PathsOK(s, D2), DatsOK(s, D2, X), DropsOK(s, R2, X), LinksOK(s, c, bin2)
  PROVE  QInv(q2, R2, D2, X, c, bin2, stored2)
<1>1. QueueOK(q2)
  BY ShiftQueue DEF QInv
<1>2. TrackInv(q2, R2, D2, X)
  BY ShiftTrack DEF QInv
<1>3. KitQueueOK(q2, c, bin2, stored2)
  BY ShiftKit DEF QInv
<1>. QED  BY <1>1, <1>2, <1>3 DEF QInv

\* The first step is done.
LEMMA DoneTaken ==
  ASSUME NEW q \in Seq(StepSet), q # <<>>, q[1].rounds = {},
         NEW R \in SUBSET Keys, NEW D, NEW R2, NEW D2, NEW X,
         NEW c, NEW bin, NEW stored, NEW bin2, NEW stored2,
         QInv(q, R, D, X, c, bin, stored), Moves(q[1], R, D, R2, D2, X),
         KitMoves(q[1], c, bin, stored, bin2, stored2)
  PROVE  QInv(Tail(q), R2, D2, X, c, bin2, stored2)
<1>1. Undone(q[1], <<>>, R2)
  BY DEF Undone, Undats, Moves
<1>2. Fetching(q[1], <<>>)
  BY DEF Fetching, Fetches
<1>3. PathsOK(<<>>, D2) /\ DatsOK(<<>>, D2, X) /\ DropsOK(<<>>, R2, X) /\ LinksOK(<<>>, c, bin2)
  BY NoSteps DEF PathsOK, DatsOK, DropsOK, LinksOK
<1>4. \A m \in 1 .. Len(<<>>) : <<>>[m].op \notin LastOps
  BY NoSteps
<1>5. Shifted(q, <<>>, Tail(q)) /\ Local(<<>>) /\ Replaces(q, <<>>)
  BY DoneShifts, NoSteps
<1>. QED  BY <1>1, <1>2, <1>3, <1>4, <1>5, StepsTaken

\* Files that a command looks at and leaves as they are.
LEMMA NothingMoves ==
  ASSUME NEW st, NEW R, NEW D, NEW X, NEW c, NEW bin, NEW stored,
         st.op \notin {"open_path", "undat", "download_tool", "store"}
  PROVE  Moves(st, R, D, R, D, X) /\ KitMoves(st, c, bin, stored, bin, stored)
  BY DEF Moves, KitMoves

\* A step that may lead to others is replaced by them.
LEMMA MoreTaken ==
  ASSUME NEW q \in Seq(StepSet), q # <<>>, q[1].rounds = {}, q[1].op \in GrowOps,
         NEW s \in Seq(StepSet), Local(s),
         NEW R \in SUBSET Keys, NEW D, NEW X, NEW c, NEW bin, NEW stored,
         QInv(q, R, D, X, c, bin, stored),
         \A m \in 1 .. Len(s) :
           /\ ~Has(s[m], DropOps \cup KitOps) /\ \A r \in s[m].rounds : RoundOK(r)
           /\ s[m].op # "path" /\ (s[m].op = "dat" => s[m].k \in D)
  PROVE  QInv(s \o Tail(q), R, D, X, c, bin, stored)
<1>1. Shifted(q, s, s \o Tail(q))
  BY ThenShifts
<1>2. \A m \in 1 .. Len(s) : ~Has(s[m], DropOps) /\ ~Has(s[m], KitOps)
  BY HasUnion
<1>3. \A m \in 1 .. Len(s) : s[m].op \notin DropOps /\ s[m].op \notin KitOps
  BY <1>2 DEF Has
<1>4. Replaces(q, s)
  <2>1. \A O : Has(q[1], GrowOps \cup O)
    BY DEF Has
  <2>2. Has(q[1], GrowOps)
    BY DEF Has
  <2>. QED  BY <1>2, <2>1, <2>2 DEF Replaces
<1>5. q[1].op \notin {"open_path", "undat", "download_tool", "store"}
  BY DEF GrowOps
<1>6. Undone(q[1], s, R)
  BY <1>5 DEF Undone, Undats
<1>7. Fetching(q[1], s)
  BY <1>5 DEF Fetching, Fetches
<1>8. \A m \in 1 .. Len(s) : s[m].op \notin LastOps
  BY <1>3 DEF LastOps, DropOps, KitOps
<1>9. PathsOK(s, D)
  BY DEF PathsOK
<1>10. DatsOK(s, D, X)
  <2>. SUFFICES ASSUME NEW i \in 1 .. Len(s), s[i].op = "dat"
                PROVE  /\ \A h \in 1 .. i - 1 : ~Has(s[h], DropOps)
                       /\ s[i].k \in D
    BY DEF DatsOK
  <2>1. \A h \in 1 .. i - 1 : h \in 1 .. Len(s)
    OBVIOUS
  <2>. QED  BY <1>2, <2>1
<1>11. DropsOK(s, R, X)
  BY <1>3 DEF DropsOK, Removes, DropOps
<1>12. LinksOK(s, c, bin)
  <2>1. \A m \in 1 .. Len(s) : s[m].op # "link_tool"
    BY <1>3 DEF KitOps
  <2>2. \A m \in 1 .. Len(s) : \A r \in s[m].rounds : \A p \in 1 .. Len(r) : r[p].op # "link_tool"
    BY <1>2 DEF Has, KitOps
  <2>. QED  BY <2>1, <2>2 DEF LinksOK
<1>13. Moves(q[1], R, D, R, D, X) /\ KitMoves(q[1], c, bin, stored, bin, stored)
  BY <1>5, NothingMoves
<1>. QED  BY <1>1, <1>4, <1>6, <1>7, <1>8, <1>9, <1>10, <1>11, <1>12, <1>13, StepsTaken

\* A command that stops where it could go on leaves nothing registered behind.
LEMMA StopTaken ==
  ASSUME NEW q \in Seq(StepSet), q # <<>>, q[1].op \in GrowOps,
         NEW R \in SUBSET Keys, NEW D, NEW X, NEW c, NEW bin, NEW stored,
         QInv(q, R, D, X, c, bin, stored)
  PROVE  QInv(<<>>, R, D, X, c, bin, stored)
<1>1. 1 \in 1 .. Len(q) /\ Has(q[1], GrowOps)
  BY DEF Has
<1>2. \A i \in 1 .. Len(q) : ~Has(q[i], DropOps)
  BY <1>1, HasUnion DEF QInv, QueueOK
<1>3. \A i \in 1 .. Len(q) : q[i].op # "undat"
  BY <1>2 DEF Has, DropOps
<1>4. R \subseteq D \cup X
  BY <1>3 DEF QInv, TrackInv, StrayOK
<1>. QED  BY <1>4, IdleQueue

\* The first step fails and takes some of the next with it.
LEMMA FailTaken ==
  ASSUME NEW q \in Seq(StepSet), q # <<>>, q[1].loses # 0,
         NEW R \in SUBSET Keys, NEW D, NEW X, NEW X2, NEW c, NEW bin, NEW stored,
         QInv(q, R, D, X, c, bin, stored), X \subseteq X2, q[1].k \in X2 \cup {NoKey},
         NoKey \notin Keys
  PROVE  QInv(SubSeq(q, q[1].loses + 1, Len(q)), R, D, X2, c, bin, stored)
<1>1. q[1].loses \in 1 .. Len(q)
  <2>1. 1 \in 1 .. Len(q) /\ q[1] \in StepSet /\ Len(q) \in Nat
    OBVIOUS
  <2>2. q[1].loses \in Nat
    BY <2>1, StepType
  <2>3. 1 + q[1].loses <= Len(q) + 1
    BY <2>1 DEF QInv, QueueOK, Local
  <2>. QED  BY <2>1, <2>2, <2>3
<1>2. Dropped(q, q[1].loses, SubSeq(q, q[1].loses + 1, Len(q)))
  BY <1>1, FailDrops
<1> DEFINE q2 == SubSeq(q, q[1].loses + 1, Len(q))
<1> HIDE DEF q2
<1>3. Dropped(q, q[1].loses, q2)
  BY <1>2 DEF q2
<1>4. QueueOK(q2)
  BY <1>3, DropQueue DEF QInv
<1>5. TrackInv(q2, R, D, X2)
  BY <1>3, DropTrack DEF QInv, QueueOK
<1>6. KitQueueOK(q2, c, bin, stored)
  BY <1>3, DropKit DEF QInv
<1>7. QInv(q2, R, D, X2, c, bin, stored)
  BY <1>4, <1>5, <1>6 DEF QInv
<1>. QED  BY <1>7 DEF q2

\* What was to be taken out of registry.dat is excused when the rest is cut.
LEMMA CutTaken ==
  ASSUME NEW q \in Seq(StepSet), NEW R \in SUBSET Keys, NEW D, NEW X, NEW X2,
         NEW c, NEW bin, NEW stored,
         QInv(q, R, D, X, c, bin, stored), X \subseteq X2,
         \A i \in 1 .. Len(q) : q[i].k \in X2 \cup {NoKey}, NoKey \notin Keys
  PROVE  QInv(<<>>, R, D, X2, c, bin, stored)
<1>1. ASSUME NEW k \in R \ (D \cup X) PROVE k \in X2
  <2>1. PICK i \in 1 .. Len(q) : q[i].op = "undat" /\ q[i].k = k
    BY DEF QInv, TrackInv, StrayOK
  <2>. QED  BY <2>1
<1>. QED  BY <1>1, IdleQueue

\* A loop begins one of its rounds and keeps the others.
LEMMA RoundTaken ==
  ASSUME NEW q \in Seq(StepSet), q # <<>>, NEW r \in q[1].rounds,
         NEW R \in SUBSET Keys, NEW D, NEW X, NEW c, NEW bin, NEW stored,
         QInv(q, R, D, X, c, bin, stored)
  PROVE  QInv((r \o <<Loop(q[1].rounds \ {r})>>) \o Tail(q), R, D, X, c, bin, stored)
<1> DEFINE L == Loop(q[1].rounds \ {r})
           s == r \o <<L>>
<1>1. /\ 1 \in 1 .. Len(q) /\ q[1] \in StepSet /\ q[1].op = "loop"
      /\ q[1].rounds \in SUBSET Seq(PlainSteps)
  <2>1. 1 \in 1 .. Len(q) /\ q[1] \in StepSet
    OBVIOUS
  <2>. QED  BY <2>1, RoundType, StepType
<1>2. /\ r \in Seq(StepSet) /\ Len(r) \in Nat
      /\ \A p \in 1 .. Len(r) : r[p] \in PlainSteps /\ r[p] \in StepSet
  BY <1>1, RoundType
<1>3. /\ L \in StepSet /\ L.op = "loop" /\ L.k = NoKey /\ L.loses = 0
      /\ L.rounds = q[1].rounds \ {r}
  BY <1>1, LoopType
<1> HIDE DEF L
<1>4. /\ s \in Seq(StepSet) /\ Len(s) = Len(r) + 1 /\ s[Len(r) + 1] = L
      /\ \A p \in 1 .. Len(r) : s[p] = r[p]
  BY <1>2, <1>3
<1> HIDE DEF s
<1>5. RoundOK(r) /\ \A x \in L.rounds : RoundOK(x)
  BY <1>1, <1>3 DEF QInv, QueueOK
<1>6. \A p \in 1 .. Len(r) :
        /\ s[p] = r[p] /\ s[p].rounds = {} /\ s[p].op # "loop" /\ p \in 1 .. Len(s)
        /\ \A O : (Has(s[p], O) <=> s[p].op \in O) /\ (Has(s[p], O) => Has(q[1], O))
  <2>. SUFFICES ASSUME NEW p \in 1 .. Len(r)
                PROVE  /\ s[p] = r[p] /\ s[p].rounds = {} /\ s[p].op # "loop" /\ p \in 1 .. Len(s)
                       /\ \A O : (Has(s[p], O) <=> s[p].op \in O) /\ (Has(s[p], O) => Has(q[1], O))
    OBVIOUS
  <2>1. s[p] = r[p] /\ s[p].rounds = {} /\ s[p].op # "loop" /\ p \in 1 .. Len(s)
    BY <1>2, <1>4, PlainType
  <2>. QED  BY <2>1 DEF Has
<1>7. \A O : Has(L, O) => Has(q[1], O)
  BY <1>1, <1>3 DEF Has
<1>8. \A m \in 1 .. Len(s) : m \in 1 .. Len(r) \/ (m = Len(r) + 1 /\ s[m] = L)
  BY <1>2, <1>4
<1>9. Local(s)
  <2>. SUFFICES ASSUME NEW i \in 1 .. Len(s)
                PROVE  /\ i + s[i].loses <= Len(s) + 1
                       /\ \A h \in i .. i + s[i].loses - 1 : s[h].k = s[i].k /\ s[h].op # "loop"
    BY DEF Local
  <2>1. CASE i \in 1 .. Len(r)
    <3>1. /\ i + r[i].loses <= Len(r) + 1 /\ r[i].loses \in Nat
          /\ \A h \in i .. i + r[i].loses - 1 : r[h].k = r[i].k /\ r[h].op # "loop"
      BY <1>2, <1>5, <2>1, PlainType DEF RoundOK, Local
    <3>2. s[i] = r[i]
      BY <1>4, <2>1
    <3>3. \A h \in i .. i + r[i].loses - 1 : h \in 1 .. Len(r)
      BY <1>2, <2>1, <3>1
    <3>4. \A h \in i .. i + r[i].loses - 1 : s[h] = r[h]
      BY <1>4, <3>3
    <3>5. i + r[i].loses <= Len(s) + 1
      BY <1>2, <1>4, <2>1, <3>1
    <3>. QED  BY <3>1, <3>2, <3>4, <3>5
  <2>2. CASE i = Len(r) + 1
    BY <1>2, <1>3, <1>4, <2>2
  <2>. QED  BY <1>8, <2>1, <2>2
<1>10. Replaces(q, s)
  <2>. SUFFICES ASSUME NEW m \in 1 .. Len(s)
                PROVE  /\ \A x \in s[m].rounds : RoundOK(x)
                       /\ \A O : Has(s[m], O) => Has(q[1], O)
    BY DEF Replaces
  <2>. QED  BY <1>5, <1>6, <1>7, <1>8
<1>11. Undone(q[1], s, R)
  <2>. SUFFICES ASSUME NEW k \in Keys, Undats(q[1], k)
                PROVE  \E m \in 1 .. Len(s) : Undats(s[m], k)
    BY DEF Undone
  <2>1. PICK x \in q[1].rounds : \E p \in 1 .. Len(x) : x[p].op = "undat" /\ x[p].k = k
    BY <1>1 DEF Undats
  <2>2. CASE x = r
    BY <1>6, <2>1, <2>2 DEF Undats
  <2>3. CASE x # r
    <3>1. Undats(L, k)
      BY <1>3, <2>1, <2>3 DEF Undats
    <3>2. Len(r) + 1 \in 1 .. Len(s)
      BY <1>2, <1>4
    <3>. QED  BY <1>4, <3>1, <3>2
  <2>. QED  BY <2>2, <2>3
<1>12. Fetching(q[1], s)
  <2>. SUFFICES ASSUME NEW t \in Tools, Fetches(q[1], t)
                PROVE  \E m \in 1 .. Len(s) :
                         Fetches(s[m], t) /\ \A h \in 1 .. m : s[h].loses = 0 \/ h + s[h].loses <= m
    BY DEF Fetching
  <2>1. PICK x \in q[1].rounds :
          x # <<>> /\ x[1].op = "download_tool" /\ x[1].a = t /\ x[1].loses = 0
    BY <1>1 DEF Fetches
  <2>2. CASE x = r
    <3>1. 1 \in 1 .. Len(r)
      <4>1. Len(r) # 0
        BY <1>2, <2>1, <2>2, EmptySeq
      <4>. QED  BY <1>2, <4>1
    <3>2. Fetches(s[1], t) /\ s[1].loses = 0 /\ 1 \in 1 .. Len(s)
      BY <1>6, <2>1, <2>2, <3>1 DEF Fetches
    <3>. QED  BY <3>2
  <2>3. CASE x # r
    <3>1. Fetches(L, t)
      BY <1>3, <2>1, <2>3 DEF Fetches
    <3>2. Len(r) + 1 \in 1 .. Len(s)
      BY <1>2, <1>4
    <3>3. \A h \in 1 .. Len(r) + 1 : s[h].loses = 0 \/ h + s[h].loses <= Len(r) + 1
      <4>1. \A h \in 1 .. Len(r) : h + s[h].loses <= Len(r) + 1
        BY <1>4, <1>5 DEF RoundOK, Local
      <4>2. s[Len(r) + 1].loses = 0
        BY <1>3, <1>4
      <4>. QED  BY <1>2, <4>1, <4>2
    <3>. QED  BY <1>4, <3>1, <3>2, <3>3
  <2>. QED  BY <2>2, <2>3
<1>13. \A m \in 1 .. Len(s) : s[m].op \notin LastOps
  <2>1. \A p \in 1 .. Len(r) : s[p].op \notin LastOps
    BY <1>5, <1>6 DEF RoundOK
  <2>2. L.op \notin LastOps
    BY <1>3 DEF LastOps
  <2>. QED  BY <1>8, <2>1, <2>2
<1>14. ASSUME NEW i \in 1 .. Len(r), NEW h \in 1 .. i - 1
       PROVE  /\ h \in 1 .. Len(r) /\ h \in 1 .. Len(s)
              /\ Opens(r, h, i) => Opens(s, h, i)
              /\ Tied(r, h, i) => Tied(s, h, i)
  <2>1. h \in 1 .. Len(r) /\ \A l \in 1 .. h : s[l] = r[l]
    BY <1>2, <1>4
  <2>. QED  BY <1>6, <2>1 DEF Opens, Tied
<1>15. ASSUME NEW i \in 1 .. Len(s), s[i].op \in {"path", "dat"}
       PROVE  /\ \A h \in 1 .. i - 1 : ~Has(s[h], DropOps)
              /\ \E h \in 1 .. i - 1 : Opens(s, h, i) /\ (s[i].op = "path" => Tied(s, h, i))
  <2>1. i \in 1 .. Len(r) /\ s[i] = r[i]
    BY <1>3, <1>6, <1>8, <1>15
  <2>2. /\ \A h \in 1 .. i - 1 : r[h].op \notin DropOps
        /\ \E h \in 1 .. i - 1 : Opens(r, h, i) /\ (r[i].op = "path" => Tied(r, h, i))
    BY <1>5, <1>15, <2>1 DEF RoundOK
  <2>3. \A h \in 1 .. i - 1 : ~Has(s[h], DropOps)
    BY <1>6, <1>14, <2>1, <2>2
  <2>. QED  BY <1>14, <2>1, <2>2, <2>3
<1>16. PathsOK(s, D) /\ DatsOK(s, D, X)
  BY <1>15 DEF PathsOK, DatsOK
<1>17. DropsOK(s, R, X)
  <2>. SUFFICES ASSUME NEW i \in 1 .. Len(s), NEW k \in Keys, Removes(s[i], k)
                PROVE  Gone(s, i, k, R)
    BY DEF DropsOK
  <2>1. i \in 1 .. Len(r) /\ s[i] = r[i] /\ s[i].op = "drop" /\ s[i].k = k
    BY <1>3, <1>8, <1>13, <1>6 DEF Removes, LastOps
  <2>2. /\ \E h \in 1 .. i - 1 : r[h].op = "undat" /\ r[h].k = k
        /\ \A h \in 1 .. i - 1 : r[h].op \notin GrowOps \cup {"dat"}
    BY <1>5, <2>1 DEF RoundOK
  <2>3. \A h \in 1 .. i - 1 : ~Has(s[h], GrowOps \cup {"dat"})
    BY <1>6, <1>14, <2>1, <2>2
  <2>4. \E h \in 1 .. i - 1 : Undats(s[h], k)
    BY <1>6, <1>14, <2>1, <2>2 DEF Undats
  <2>. QED  BY <2>3, <2>4 DEF Gone
<1>18. LinksOK(s, c, bin)
  <2>1. ASSUME NEW i, NEW t, Ready(q, 1, t, c.version, bin)
        PROVE  Ready(s, i, t, c.version, bin)
    BY <2>1 DEF Ready
  <2>2. ASSUME NEW i \in 1 .. Len(s), s[i].op = "link_tool", s[i].a \in c.tools
        PROVE  Ready(s, i, s[i].a, c.version, bin)
    <3>1. i \in 1 .. Len(r) /\ s[i] = r[i]
      BY <1>3, <1>6, <1>8, <2>2
    <3>2. \/ Ready(q, 1, r[i].a, c.version, bin)
          \/ \E h \in 1 .. i - 1 : r[h].op = "download_tool" /\ r[h].a = r[i].a /\ Tied(r, h, i)
      BY <1>1, <2>2, <3>1 DEF QInv, KitQueueOK, LinksOK
    <3>3. ASSUME NEW h \in 1 .. i - 1, r[h].op = "download_tool", r[h].a = r[i].a, Tied(r, h, i)
          PROVE  Fetches(s[h], s[i].a) /\ Tied(s, h, i)
      BY <1>6, <1>14, <3>1, <3>3 DEF Fetches
    <3>4. \/ Ready(s, i, s[i].a, c.version, bin)
          \/ \E h \in 1 .. i - 1 : Fetches(s[h], s[i].a) /\ Tied(s, h, i)
      BY <2>1, <3>1, <3>2, <3>3
    <3>. QED  BY <3>4 DEF Ready
  <2>3. ASSUME NEW i \in 1 .. Len(s), NEW x \in s[i].rounds, NEW p \in 1 .. Len(x),
               x[p].op = "link_tool", x[p].a \in c.tools
        PROVE  \/ Ready(s, i, x[p].a, c.version, bin)
               \/ \E h \in 1 .. p - 1 : x[h].op = "download_tool" /\ x[h].a = x[p].a /\ Tied(x, h, p)
    <3>1. x \in q[1].rounds
      BY <1>3, <1>6, <1>8
    <3>2. \/ Ready(q, 1, x[p].a, c.version, bin)
          \/ \E h \in 1 .. p - 1 : x[h].op = "download_tool" /\ x[h].a = x[p].a /\ Tied(x, h, p)
      BY <1>1, <2>3, <3>1 DEF QInv, KitQueueOK, LinksOK
    <3>. QED  BY <2>1, <3>2
  <2>. QED  BY <2>2, <2>3 DEF LinksOK
<1>19. Moves(q[1], R, D, R, D, X) /\ KitMoves(q[1], c, bin, stored, bin, stored)
  BY <1>1, NothingMoves
<1>20. Shifted(q, s, s \o Tail(q))
  BY <1>4, ThenShifts
<1>21. QInv(s \o Tail(q), R, D, X, c, bin, stored)
  BY <1>9, <1>10, <1>11, <1>12, <1>13, <1>16, <1>17, <1>18, <1>19, <1>20, StepsTaken
<1>. QED  BY <1>21 DEF s, L
-----------------------------------------------------------------------------
(* The files *)

\* A non-empty set of naturals has the least element that Min names.
LEMMA MinOfNaturals ==
  ASSUME NEW S \in SUBSET Nat, S # {}
  PROVE  Min(S) \in S /\ \A y \in S : Min(S) <= y
<1> DEFINE Less == {ss \in Nat \X Nat : ss[1] < ss[2]}
<1>1. IsWellFoundedOn(Less, Nat)
  BY NatLessThanWellFounded, Zenon DEF OpToRel
<1> HIDE DEF Less
<1>2. PICK x \in S : \A y \in S : ~(<<y, x>> \in Less)
  BY <1>1, WFMin
<1>3. ASSUME NEW y \in S PROVE x <= y
  <2>1. x \in Nat /\ y \in Nat
    OBVIOUS
  <2>2. <<y, x>> \in Nat \X Nat /\ <<y, x>>[1] = y /\ <<y, x>>[2] = x
    BY <2>1
  <2>3. y < x => <<y, x>> \in Less
    BY <2>2 DEF Less
  <2>. QED  BY <1>2, <2>1, <2>3
<1>. QED  BY <1>3 DEF Min

\* A non-empty bounded set of naturals has the greatest element that Max names.
LEMMA MaxOfBounded ==
  ASSUME NEW n \in Nat, NEW S \in SUBSET (0 .. n), S # {}
  PROVE  Max(S) \in S /\ \A y \in S : y <= Max(S)
<1> DEFINE T == {m \in 0 .. n : n - m \in S}
<1>1. T \in SUBSET Nat /\ T # {}
  <2>1. PICK y \in S : TRUE
    OBVIOUS
  <2>2. n - y \in T
    BY <2>1
  <2>3. T \subseteq Nat
    OBVIOUS
  <2>. QED  BY <2>2, <2>3
<1>2. Min(T) \in T /\ \A y \in T : Min(T) <= y
  BY <1>1, MinOfNaturals
<1>3. \A y \in S : n - y \in T /\ y \in 0 .. n
  OBVIOUS
<1> HIDE DEF T
<1>4. n - Min(T) \in S /\ Min(T) \in 0 .. n
  BY <1>2 DEF T
<1>5. \A y \in S : n - Min(T) >= y
  BY <1>2, <1>3, <1>4
<1>. QED  BY <1>4, <1>5 DEF Max

\* No version is missing, and none is an application.
LEMMA KeyIsNoOther ==
  /\ NoKey \notin Keys
  /\ \A a : <<a>> \notin Keys
<1>1. ASSUME NEW k \in Keys PROVE Len(k) = 2
  <2>1. PICK n \in Names, v \in Versions : k = <<n, v>>
    BY DEF Keys
  <2>. QED  BY <2>1
<1>2. Len(NoKey) = 0 /\ \A a : Len(<<a>>) = 1
  BY DEF NoKey
<1>. QED  BY <1>1, <1>2

\* The least version is one.
LEMMA MinVersion == Min(Versions) \in Versions
  BY VersionsAreBounded, MinOfNaturals

\* A local package that registry.dat knows has a newest version in it.
LEMMA NewestType ==
  ASSUME FilesOK, NEW n \in Names, Known(n)
  PROVE  <<n, Newest(n)>> \in Keys
<1>1. n \notin Others
  BY LocalIsNotPublished
<1> DEFINE S == {k[2] : k \in {l \in dat : l[1] = n}}
<1>2. S # {} /\ S \subseteq Versions
  BY <1>1 DEF FilesOK, Known, Keys
<1> HIDE DEF S
<1>3. S \in SUBSET (0 .. Max(Versions)) /\ Max(Versions) \in Nat
  BY <1>2, VersionsAreBounded
<1>4. Max(S) \in S
  BY <1>2, <1>3, MaxOfBounded
<1>5. Newest(n) = Max(S)
  BY <1>1 DEF Newest, S
<1>. QED  BY <1>2, <1>4, <1>5 DEF Keys

\* The version in elm.json is an entry of it.
LEMMA VersionInType ==
  ASSUME NEW j \in Json, NEW n \in Listed(j)
  PROVE  /\ <<n, VersionIn(j, n)>> \in j.direct \cup j.indirect
         /\ <<n, VersionIn(j, n)>> \in Entries
         /\ n \in Names => <<n, VersionIn(j, n)>> \in Keys
<1>1. j.direct \cup j.indirect \subseteq Entries
  BY DEF Json, Places
<1>2. PICK e \in j.direct \cup j.indirect : e[1] = n
  BY DEF Listed
<1> DEFINE c == CHOOSE x \in j.direct \cup j.indirect : x[1] = n
<1>3. c \in j.direct \cup j.indirect /\ c[1] = n
  BY <1>2
<1> HIDE DEF c
<1>4. c \in Entries /\ c = <<c[1], c[2]>>
  BY <1>1, <1>3 DEF Entries, Keys
<1>5. <<n, VersionIn(j, n)>> = c
  BY <1>3, <1>4 DEF VersionIn, c
<1>6. n \in Names => c \in Keys
  BY <1>3, <1>4, LocalIsNotPublished DEF Entries
<1>. QED  BY <1>3, <1>4, <1>5, <1>6

\* The solver chooses entries.
LEMMA ChosenType ==
  ASSUME FilesOK, NEW j \in Json, NEW n \in Packages, n \in Listed(j) \/ Known(n)
  PROVE  Chosen(j, n) \in Entries
<1>1. CASE n \in Listed(j)
  BY <1>1, VersionInType DEF Chosen
<1>2. CASE n \notin Listed(j) /\ n \in Others
  BY <1>2 DEF Chosen, Newest, Entries
<1>3. CASE n \notin Listed(j) /\ n \notin Others
  <2>1. n \in Names
    BY <1>3 DEF Packages
  <2>. QED  BY <1>3, <2>1, NewestType DEF Chosen, Entries
<1>. QED  BY <1>1, <1>2, <1>3

\* What the solver adds are entries.
LEMMA ChangesType ==
  ASSUME FilesOK, NEW j \in Json, NEW S, Solvable(j, S)
  PROVE  Changes(j, S) \subseteq Entries
<1>1. \A n \in Solution(j, S) : n \in Packages /\ (n \in Listed(j) \/ Known(n))
  BY DEF Solution, Solvable
<1>. QED  BY <1>1, ChosenType DEF Changes

\* What an elm.json lists are entries.
LEMMA JsonType ==
  ASSUME NEW j \in Json
  PROVE  j.direct \subseteq Entries /\ j.indirect \subseteq Entries
  BY DEF Json, Places

\* Two sets of entries make an elm.json.
LEMMA JsonOf ==
  ASSUME NEW D \in SUBSET Entries, NEW I \in SUBSET Entries
  PROVE  [direct |-> D, indirect |-> I] \in Json
  BY DEF Json, Places

\* An elm.json with other entries is one.
LEMMA JsonExcept ==
  ASSUME NEW j \in Json, NEW S \in SUBSET Entries
  PROVE  [j EXCEPT !.direct = S] \in Json /\ [j EXCEPT !.indirect = S] \in Json
  BY DEF Json, Places
-----------------------------------------------------------------------------
(* Sequences of few steps *)

\* A step alone.
LEMMA OneStep ==
  ASSUME NEW a \in StepSet, a.loses = 0 \/ (a.loses = 1 /\ a.op # "loop")
  PROVE  /\ <<a>> \in Seq(StepSet) /\ Len(<<a>>) = 1 /\ <<a>>[1] = a /\ Local(<<a>>)
         /\ a \in PlainSteps => <<a>> \in Seq(PlainSteps)
<1>1. /\ <<a>> \in Seq(StepSet) /\ Len(<<a>>) = 1 /\ <<a>>[1] = a
      /\ a \in PlainSteps => <<a>> \in Seq(PlainSteps)
  OBVIOUS
<1>2. Local(<<a>>)
  BY <1>1 DEF Local
<1>. QED  BY <1>1, <1>2

\* Two steps.
LEMMA TwoSteps ==
  ASSUME NEW a \in StepSet, NEW b \in StepSet,
         a.loses = 0 \/ (a.loses = 1 /\ a.op # "loop"), b.loses = 0 \/ (b.loses = 1 /\ b.op # "loop")
  PROVE  /\ <<a, b>> \in Seq(StepSet) /\ Len(<<a, b>>) = 2 /\ <<a, b>>[1] = a /\ <<a, b>>[2] = b
         /\ Local(<<a, b>>)
         /\ a \in PlainSteps /\ b \in PlainSteps => <<a, b>> \in Seq(PlainSteps)
<1>1. /\ <<a, b>> \in Seq(StepSet) /\ Len(<<a, b>>) = 2 /\ <<a, b>>[1] = a /\ <<a, b>>[2] = b
      /\ a \in PlainSteps /\ b \in PlainSteps => <<a, b>> \in Seq(PlainSteps)
  OBVIOUS
<1> DEFINE s == <<a, b>>
<1> HIDE DEF s
<1>2. Len(s) = 2 /\ s[1] = a /\ s[2] = b
  BY <1>1 DEF s
<1>3. Local(s)
  <2>. SUFFICES ASSUME NEW i \in 1 .. 2
                PROVE  /\ i + s[i].loses <= 3
                       /\ \A h \in i .. i + s[i].loses - 1 : s[h].k = s[i].k /\ s[h].op # "loop"
    BY <1>2 DEF Local
  <2>1. i = 1 \/ i = 2
    OBVIOUS
  <2>2. s[i].loses = 0 \/ (s[i].loses = 1 /\ s[i].op # "loop")
    BY <1>2, <2>1
  <2>. QED  BY <2>1, <2>2
<1>. QED  BY <1>1, <1>3 DEF s

\* Three steps, where each takes all the others with it, or none.
LEMMA ThreeSteps ==
  ASSUME NEW a \in PlainSteps, NEW b \in PlainSteps, NEW c \in PlainSteps,
         a.loses \in {0, 1, 3}, b.loses \in {0, 1, 2}, c.loses \in {0, 1},
         a.k = b.k, b.k = c.k
  PROVE  /\ <<a, b, c>> \in Seq(PlainSteps) /\ <<a, b, c>> \in Seq(StepSet) /\ Len(<<a, b, c>>) = 3
         /\ <<a, b, c>>[1] = a /\ <<a, b, c>>[2] = b /\ <<a, b, c>>[3] = c
         /\ Local(<<a, b, c>>)
<1>1. a \in StepSet /\ b \in StepSet /\ c \in StepSet /\ a.op # "loop" /\ b.op # "loop" /\ c.op # "loop"
  BY PlainType
<1>2. /\ <<a, b, c>> \in Seq(PlainSteps) /\ <<a, b, c>> \in Seq(StepSet) /\ Len(<<a, b, c>>) = 3
      /\ <<a, b, c>>[1] = a /\ <<a, b, c>>[2] = b /\ <<a, b, c>>[3] = c
  BY <1>1
<1> DEFINE s == <<a, b, c>>
<1> HIDE DEF s
<1>3. Len(s) = 3 /\ s[1] = a /\ s[2] = b /\ s[3] = c
  BY <1>2 DEF s
<1>4. Local(s)
  <2>. SUFFICES ASSUME NEW i \in 1 .. 3
                PROVE  /\ i + s[i].loses <= 4
                       /\ \A h \in i .. i + s[i].loses - 1 : s[h].k = s[i].k /\ s[h].op # "loop"
    BY <1>3 DEF Local
  <2>1. i = 1 \/ i = 2 \/ i = 3
    OBVIOUS
  <2>2. s[i].loses \in {0, 1, 2, 3} /\ i + s[i].loses <= 4
    BY <1>3, <2>1
  <2>3. \A h \in 1 .. 3 : s[h].k = a.k /\ s[h].op # "loop"
    BY <1>1, <1>3
  <2>4. \A h \in i .. i + s[i].loses - 1 : h \in 1 .. 3
    BY <2>1, <2>2
  <2>. QED  BY <2>2, <2>3, <2>4
<1>. QED  BY <1>2, <1>4 DEF s

\* A loop over rounds that only look, link or track.
LEMMA CalmLoop ==
  ASSUME NEW rounds \in SUBSET Seq(PlainSteps),
         \A r \in rounds : Local(r) /\ \A p \in 1 .. Len(r) : r[p].op \in CalmOps
  PROVE  /\ Loop(rounds) \in StepSet /\ Loop(rounds).op = "loop" /\ Loop(rounds).loses = 0
         /\ Loop(rounds).k = NoKey
         /\ ~Has(Loop(rounds), DropOps \cup KitOps)
         /\ \A r \in Loop(rounds).rounds : RoundOK(r)
<1>1. /\ Loop(rounds) \in StepSet /\ Loop(rounds).op = "loop" /\ Loop(rounds).loses = 0
      /\ Loop(rounds).k = NoKey /\ Loop(rounds).rounds = rounds
  BY LoopType
<1>2. \A r \in rounds : RoundOK(r)
  BY DEF RoundOK, CalmOps, LastOps, DropOps, KitOps
<1>3. "loop" \notin DropOps \cup KitOps /\ CalmOps \cap (DropOps \cup KitOps) = {}
  BY DEF DropOps, KitOps, CalmOps
<1>4. ~Has(Loop(rounds), DropOps \cup KitOps)
  BY <1>1, <1>3 DEF Has
<1>. QED  BY <1>1, <1>2, <1>4

\* A loop that does one thing for some versions.
LEMMA EachType ==
  ASSUME NEW op \in {"fetch", "compile"}, NEW S \in SUBSET Keys
  PROVE  /\ Each(op, S) \in StepSet /\ Each(op, S).op = "loop" /\ Each(op, S).loses = 0
         /\ Each(op, S).k = NoKey
         /\ ~Has(Each(op, S), DropOps \cup KitOps)
         /\ \A r \in Each(op, S).rounds : RoundOK(r)
<1> DEFINE rounds == {<<Do(op, k)>> : k \in S}
<1>1. op \in CalmOps /\ op \in Ops /\ op \notin AppOps \cup ToolOps \cup {"install_package", "loop"}
  BY DEF CalmOps, Ops, KeyOps, AppOps, ToolOps, DropOps, KitOps, OtherOps
<1>2. ASSUME NEW k \in S
      PROVE  /\ <<Do(op, k)>> \in Seq(PlainSteps) /\ Local(<<Do(op, k)>>)
             /\ \A p \in 1 .. Len(<<Do(op, k)>>) : <<Do(op, k)>>[p].op \in CalmOps
  <2>1. Do(op, k) \in PlainSteps /\ Do(op, k).op = op /\ Do(op, k).loses = 0
    BY <1>1, DoType
  <2>2. Do(op, k) \in StepSet
    BY <2>1, PlainType
  <2> DEFINE d == Do(op, k)
  <2> HIDE DEF d
  <2>3. d \in PlainSteps /\ d \in StepSet /\ d.op \in CalmOps /\ d.loses = 0
    BY <1>1, <2>1, <2>2 DEF d
  <2>4. /\ <<d>> \in Seq(PlainSteps) /\ Local(<<d>>)
        /\ \A p \in 1 .. Len(<<d>>) : <<d>>[p].op \in CalmOps
    BY <2>3, OneStep
  <2>. QED  BY <2>4 DEF d
<1>3. rounds \in SUBSET Seq(PlainSteps)
  BY <1>2
<1>4. \A r \in rounds : Local(r) /\ \A p \in 1 .. Len(r) : r[p].op \in CalmOps
  BY <1>2
<1> HIDE DEF rounds
<1>5. Each(op, S) = Loop(rounds)
  BY DEF Each, rounds
<1>. QED  BY <1>3, <1>4, <1>5, CalmLoop
-----------------------------------------------------------------------------
(* Steps that are taken: the files and what is left *)

\* The first step of a command that runs.
LEMMA FirstStep ==
  ASSUME Left, NEW op, Doing(op)
  PROVE  /\ todo \in Seq(StepSet) /\ todo # <<>> /\ todo[1] = Step /\ Step \in StepSet
         /\ 1 \in 1 .. Len(todo) /\ Step.op = op /\ QueueOK(todo)
         /\ op # "loop" => Step.rounds = {} /\ Step \in PlainSteps
<1>1. todo \in Seq(StepSet) /\ todo # <<>> /\ QueueOK(todo) /\ Step.op = op
  BY DEF Left, QInv, QueueOK, Doing, Idle
<1>2. 1 \in 1 .. Len(todo) /\ todo[1] = Step /\ Step \in StepSet
  BY <1>1 DEF Step
<1>. QED  BY <1>1, <1>2, StepType

\* What is usable stays so while nothing of the kits changes.
LEMMA UsableKept ==
  ASSUME Usable, kits' = kits, FilesOK, troubles' \in {troubles, troubles + 1}
  PROVE  Usable'
<1>1. StoredOK(kits.stored, kits.current)'
  BY DEF Usable, StoredOK
<1>2. KitUsable'
  BY DEF Usable, KitUsable, Current
<1>3. (kits.before <= troubles)'
  BY DEF Usable, FilesOK, KitUsable, KitFiles
<1>. QED  BY <1>1, <1>2, <1>3 DEF Usable

\* A step is done that changed no files of a kit.
LEMMA LeftWhenDone ==
  ASSUME FilesOK, Left, NEW op, Doing(op), Done, op \notin {"loop", "download_tool", "store"},
         Moves(Step, dat, dirs, dat', dirs', excused), kits' = kits, excused' = excused
  PROVE  Left'
<1>1. /\ todo \in Seq(StepSet) /\ todo # <<>> /\ todo[1] = Step /\ Step.rounds = {} /\ Step.op = op
  BY FirstStep
<1>2. dat \in SUBSET Keys
  BY DEF FilesOK
<1>3. KitMoves(Step, kits.source, kits.bin, kits.stored, kits.bin, kits.stored)
  BY <1>1 DEF KitMoves
<1>4. QInv(Tail(todo), dat', dirs', excused, kits.source, kits.bin, kits.stored)
  BY <1>1, <1>2, <1>3, DoneTaken DEF Left
<1>. QED  BY <1>4 DEF Left, Done

\* A step that changed files, and what it moved.
LEMMA FilesChanged ==
  ASSUME IInv, NEW op, Doing(op), Done, op \notin {"loop", "download_tool", "store"},
         FilesOK', Moves(Step, dat, dirs, dat', dirs', excused),
         kits' = kits /\ excused' = excused /\ troubles' = troubles
  PROVE  IInv'
<1>1. Left'
  BY LeftWhenDone DEF IInv
<1>2. Usable'
  BY UsableKept DEF IInv
<1>. QED  BY <1>1, <1>2 DEF IInv

\* Neither registry.dat nor the tracking directories change.
LEMMA OthersChanged ==
  ASSUME IInv, NEW op, Doing(op), Done, op \notin {"loop", "download_tool", "store", "open_path", "undat"},
         FilesOK', dat' = dat /\ dirs' = dirs,
         kits' = kits /\ excused' = excused /\ troubles' = troubles
  PROVE  IInv'
<1>1. Step.op = op
  BY DEF Doing
<1>2. Moves(Step, dat, dirs, dat', dirs', excused)
  BY <1>1 DEF Moves
<1>. QED  BY <1>2, FilesChanged

\* The version or the application that a step is about.
LEMMA StepIsAbout ==
  ASSUME IInv, NEW op \in Ops, Doing(op)
  PROVE  /\ op \in KeyOps => Step.k \in Keys
         /\ op \in AppOps => Step.a \in Apps
         /\ op \in ToolOps => Step.a \in Tools
         /\ op = "install_package" => Step.a \in Others
         /\ Step.j \in Json
<1>1. Step.op = op /\ Step \in StepSet
  BY FirstStep DEF IInv
<1>. QED  BY <1>1, StepType DEF Fits

\* The link goes.
LEMMA unlink_package_OK ==
  ASSUME IInv, unlink_package
  PROVE  IInv'
<1>1. Doing("unlink") /\ Done /\ kits' = kits /\ excused' = excused /\ troubles' = troubles
  BY DEF unlink_package, Keep
<1>2. Step.k \in Keys
  BY <1>1, StepIsAbout DEF Ops, KeyOps, AppOps, OtherOps
<1>3. FilesOK'
  BY <1>1, <1>2 DEF IInv, FilesOK, unlink_package, Keep
<1>4. dat' = dat /\ dirs' = dirs
  BY DEF unlink_package, Keep
<1>. QED  BY <1>1, <1>3, <1>4, OthersChanged

\* The link comes.
LEMMA create_package_symlink_OK ==
  ASSUME IInv, create_package_symlink
  PROVE  IInv'
<1>1. Doing("symlink") /\ Done /\ kits' = kits /\ excused' = excused /\ troubles' = troubles
  BY DEF create_package_symlink, Keep
<1>2. Step.k \in Keys
  BY <1>1, StepIsAbout DEF Ops, KeyOps, AppOps, OtherOps
<1>3. FilesOK'
  BY <1>1, <1>2 DEF IInv, FilesOK, create_package_symlink, Keep
<1>4. dat' = dat /\ dirs' = dirs
  BY DEF create_package_symlink, Keep
<1>. QED  BY <1>1, <1>3, <1>4, OthersChanged

\* The directory and an empty PATH file come.
LEMMA open_source_path_OK ==
  ASSUME IInv, open_source_path
  PROVE  IInv'
<1>1. Doing("open_path") /\ Done /\ kits' = kits /\ excused' = excused /\ troubles' = troubles
  BY DEF open_source_path, Keep
<1>2. Step.k \in Keys
  BY <1>1, StepIsAbout DEF Ops, KeyOps, AppOps, OtherOps
<1>3. FilesOK'
  BY <1>1, <1>2 DEF IInv, FilesOK, open_source_path, Keep
<1>4. Moves(Step, dat, dirs, dat', dirs', excused)
  <2>1. Step.op = "open_path"
    BY <1>1 DEF Doing
  <2>. QED  BY <1>1, <1>2, <2>1 DEF open_source_path, Keep, Moves
<1>. QED  BY <1>1, <1>3, <1>4, FilesChanged

\* The line comes into the PATH file of a directory that is there.
LEMMA save_local_dev_source_path_OK ==
  ASSUME IInv, save_local_dev_source_path
  PROVE  IInv'
<1>1. Doing("path") /\ Done /\ kits' = kits /\ excused' = excused /\ troubles' = troubles
  BY DEF save_local_dev_source_path, Keep
<1>2. Step.k \in Keys
  BY <1>1, StepIsAbout DEF Ops, KeyOps, AppOps, OtherOps
<1>3. Step.k \in dirs
  <2>1. todo[1].op = "path" /\ 1 \in 1 .. Len(todo) /\ Step = todo[1]
    BY <1>1, FirstStep DEF IInv
  <2>. QED  BY <2>1 DEF IInv, Left, QInv, TrackInv, PathsOK
<1>4. FilesOK'
  BY <1>1, <1>2, <1>3 DEF IInv, FilesOK, save_local_dev_source_path, Keep
<1>5. dat' = dat /\ dirs' = dirs
  BY DEF save_local_dev_source_path, Keep
<1>. QED  BY <1>1, <1>4, <1>5, OthersChanged

\* The version comes into the text registry.
LEMMA register_local_dev_v2_text_registry_OK ==
  ASSUME IInv, register_local_dev_v2_text_registry
  PROVE  IInv'
<1>1. Doing("text") /\ Done /\ kits' = kits /\ excused' = excused /\ troubles' = troubles
  BY DEF register_local_dev_v2_text_registry, Keep
<1>2. Step.k \in Keys
  BY <1>1, StepIsAbout DEF Ops, KeyOps, AppOps, OtherOps
<1>3. FilesOK'
  BY <1>1, <1>2 DEF IInv, FilesOK, register_local_dev_v2_text_registry, Keep
<1>4. dat' = dat /\ dirs' = dirs
  BY DEF register_local_dev_v2_text_registry, Keep
<1>. QED  BY <1>1, <1>3, <1>4, OthersChanged

\* The version comes into registry.dat.
LEMMA ensure_local_dev_in_registry_dat_OK ==
  ASSUME IInv, ensure_local_dev_in_registry_dat
  PROVE  IInv'
<1>1. Doing("dat") /\ Done /\ kits' = kits /\ excused' = excused /\ troubles' = troubles
  BY DEF ensure_local_dev_in_registry_dat, Keep
<1>2. Step.k \in Keys
  BY <1>1, StepIsAbout DEF Ops, KeyOps, AppOps, OtherOps
<1>3. FilesOK'
  BY <1>1, <1>2 DEF IInv, FilesOK, ensure_local_dev_in_registry_dat, Keep
<1>4. Moves(Step, dat, dirs, dat', dirs', excused)
  <2>1. Step.op = "dat"
    BY <1>1 DEF Doing
  <2>2. Has(Step, GrowOps \cup {"dat"})
    BY <2>1 DEF Has
  <2>. QED  BY <1>1, <1>2, <2>1, <2>2 DEF ensure_local_dev_in_registry_dat, Keep, Moves
<1>. QED  BY <1>1, <1>3, <1>4, FilesChanged

\* The application comes into the tracking directory.
LEMMA register_dependency_tracking_OK ==
  ASSUME IInv, register_dependency_tracking
  PROVE  IInv'
<1>1. Doing("track") /\ Done /\ kits' = kits /\ excused' = excused /\ troubles' = troubles
  BY DEF register_dependency_tracking, Keep
<1>2. Step.k \in Keys /\ Step.a \in Apps
  BY <1>1, StepIsAbout DEF Ops, KeyOps, AppOps, OtherOps
<1>3. FilesOK'
  BY <1>1, <1>2 DEF IInv, FilesOK, register_dependency_tracking, Keep
<1>4. Moves(Step, dat, dirs, dat', dirs', excused)
  <2>1. Step.op = "track"
    BY <1>1 DEF Doing
  <2>. QED  BY <1>1, <1>2, <2>1 DEF register_dependency_tracking, Keep, Moves
<1>. QED  BY <1>1, <1>3, <1>4, FilesChanged

\* The elm.json of an application is written.
LEMMA elm_json_write_OK ==
  ASSUME IInv, elm_json_write
  PROVE  IInv'
<1>1. Doing("elm_json") /\ Done /\ kits' = kits /\ excused' = excused /\ troubles' = troubles
  BY DEF elm_json_write, Keep
<1>2. Step.a \in Apps /\ Step.j \in Json
  BY <1>1, StepIsAbout DEF Ops, KeyOps, AppOps, OtherOps
<1>3. FilesOK'
  <2>1. stuff' \in [Apps -> [Names -> 0 .. MaxCode]]
    <3>1. [n \in Names |-> 0] \in [Names -> 0 .. MaxCode]
      BY BoundsAreNumbers
    <3>2. stuff \in [Apps -> [Names -> 0 .. MaxCode]]
      BY DEF IInv, FilesOK
    <3>. QED  BY <1>2, <3>1, <3>2 DEF elm_json_write
  <2>2. app' \in [Apps -> Json]
    BY <1>2 DEF IInv, FilesOK, elm_json_write
  <2>. QED  BY <1>1, <2>1, <2>2 DEF IInv, FilesOK, elm_json_write, Keep
<1>4. dat' = dat /\ dirs' = dirs
  BY DEF elm_json_write, Keep
<1>. QED  BY <1>1, <1>3, <1>4, OthersChanged

\* The tracking directory goes.
LEMMA drop_tracking_dir_OK ==
  ASSUME IInv, drop_tracking_dir
  PROVE  IInv'
<1>1. Doing("drop") /\ Done /\ kits' = kits /\ excused' = excused /\ troubles' = troubles
  BY DEF drop_tracking_dir, Keep
<1>2. Step.k \in Keys
  BY <1>1, StepIsAbout DEF Ops, KeyOps, AppOps, OtherOps
<1>3. FilesOK'
  BY <1>1, <1>2 DEF IInv, FilesOK, drop_tracking_dir, Keep
<1>4. Moves(Step, dat, dirs, dat', dirs', excused)
  <2>1. Step.op = "drop"
    BY <1>1 DEF Doing
  <2>2. Has(Step, DropOps)
    BY <2>1 DEF Has, DropOps
  <2>. QED  BY <1>1, <1>2, <2>1, <2>2 DEF drop_tracking_dir, Keep, Moves, Removes
<1>. QED  BY <1>1, <1>3, <1>4, FilesChanged

\* All tracking directories go.
LEMMA drop_all_tracking_OK ==
  ASSUME IInv, drop_all_tracking
  PROVE  IInv'
<1>1. Doing("drop_all") /\ Done /\ kits' = kits /\ excused' = excused /\ troubles' = troubles
  BY DEF drop_all_tracking, Keep
<1>2. FilesOK'
  BY <1>1 DEF IInv, FilesOK, drop_all_tracking, Keep
<1>3. Moves(Step, dat, dirs, dat', dirs', excused)
  <2>1. Step.op = "drop_all"
    BY <1>1 DEF Doing
  <2>2. Has(Step, DropOps)
    BY <2>1 DEF Has, DropOps
  <2>. QED  BY <1>1, <2>1, <2>2 DEF drop_all_tracking, Keep, Moves, Removes
<1>. QED  BY <1>1, <1>2, <1>3, FilesChanged

\* The version goes from registry.dat.
LEMMA remove_local_dev_from_registry_dat_OK ==
  ASSUME IInv, remove_local_dev_from_registry_dat
  PROVE  IInv'
<1>1. Doing("undat") /\ Done /\ kits' = kits /\ excused' = excused /\ troubles' = troubles
  BY DEF remove_local_dev_from_registry_dat, Keep
<1>2. Step.k \in Keys
  BY <1>1, StepIsAbout DEF Ops, KeyOps, AppOps, OtherOps
<1>3. FilesOK'
  BY <1>1, <1>2 DEF IInv, FilesOK, remove_local_dev_from_registry_dat, Keep
<1>4. Moves(Step, dat, dirs, dat', dirs', excused)
  <2>1. Step.op = "undat"
    BY <1>1 DEF Doing
  <2>. QED  BY <1>1, <1>2, <2>1 DEF remove_local_dev_from_registry_dat, Keep, Moves
<1>. QED  BY <1>1, <1>3, <1>4, FilesChanged

\* The version goes from the text registry.
LEMMA remove_local_dev_from_text_registry_OK ==
  ASSUME IInv, remove_local_dev_from_text_registry
  PROVE  IInv'
<1>1. Doing("untext") /\ Done /\ kits' = kits /\ excused' = excused /\ troubles' = troubles
  BY DEF remove_local_dev_from_text_registry, Keep
<1>2. Step.k \in Keys
  BY <1>1, StepIsAbout DEF Ops, KeyOps, AppOps, OtherOps
<1>3. FilesOK'
  BY <1>1, <1>2 DEF IInv, FilesOK, remove_local_dev_from_text_registry, Keep
<1>4. dat' = dat /\ dirs' = dirs
  BY DEF remove_local_dev_from_text_registry, Keep
<1>. QED  BY <1>1, <1>3, <1>4, OthersChanged

\* The application goes from the tracking directory.
LEMMA untrack_OK ==
  ASSUME IInv, untrack
  PROVE  IInv'
<1>1. Doing("untrack") /\ Done /\ kits' = kits /\ excused' = excused /\ troubles' = troubles
  BY DEF untrack, Keep
<1>2. Step.k \in Keys
  BY <1>1, StepIsAbout DEF Ops, KeyOps, AppOps, OtherOps
<1>3. FilesOK'
  BY <1>1, <1>2 DEF IInv, FilesOK, untrack, Keep
<1>4. dat' = dat /\ dirs' = dirs
  BY DEF untrack, Keep
<1>. QED  BY <1>1, <1>3, <1>4, OthersChanged

\* What was looked at and has a directory comes into registry.dat again.
LEMMA reinsert_local_dev_OK ==
  ASSUME IInv, reinsert_local_dev
  PROVE  IInv'
<1>1. Doing("reinsert") /\ Done /\ kits' = kits /\ excused' = excused /\ troubles' = troubles
  BY DEF reinsert_local_dev, Keep
<1>2. FilesOK'
  BY <1>1 DEF IInv, FilesOK, reinsert_local_dev, Keep
<1>3. Moves(Step, dat, dirs, dat', dirs', excused)
  <2>1. Step.op = "reinsert"
    BY <1>1 DEF Doing
  <2>2. Has(Step, GrowOps \cup {"dat"})
    BY <2>1 DEF Has, GrowOps
  <2>. QED  BY <1>1, <2>1, <2>2 DEF reinsert_local_dev, Keep, Moves
<1>. QED  BY <1>1, <1>2, <1>3, FilesChanged

\* The link of a version of an old kit goes.
LEMMA kit_remove_cache_symlink_OK ==
  ASSUME IInv, kit_remove_cache_symlink
  PROVE  IInv'
<1>1. Doing("uncache") /\ Done /\ kits' = kits /\ excused' = excused /\ troubles' = troubles
  BY DEF kit_remove_cache_symlink, Keep
<1>2. Step.k \in Keys
  BY <1>1, StepIsAbout DEF Ops, KeyOps, AppOps, OtherOps
<1>3. FilesOK'
  BY <1>1, <1>2 DEF IInv, FilesOK, kit_remove_cache_symlink, Keep
<1>4. dat' = dat /\ dirs' = dirs
  BY DEF kit_remove_cache_symlink, Keep
<1>. QED  BY <1>1, <1>3, <1>4, OthersChanged

\* The artifacts and elm-stuff of what an application tracks go.
LEMMA builder_clean_local_dev_artifacts_OK ==
  ASSUME IInv, builder_clean_local_dev_artifacts
  PROVE  IInv'
<1>1. Doing("clean") /\ Done /\ kits' = kits /\ excused' = excused /\ troubles' = troubles
  BY DEF builder_clean_local_dev_artifacts, Keep
<1>2. [n \in Names |-> 0] \in [Names -> 0 .. MaxCode]
  BY BoundsAreNumbers
<1>3. stuff' \in [Apps -> [Names -> 0 .. MaxCode]] /\ art' \in [Names -> 0 .. MaxCode]
  <2>1. stuff \in [Apps -> [Names -> 0 .. MaxCode]] /\ art \in [Names -> 0 .. MaxCode]
    BY DEF IInv, FilesOK
  <2>2. 0 \in 0 .. MaxCode
    BY BoundsAreNumbers
  <2>. QED  BY <1>2, <2>1, <2>2 DEF builder_clean_local_dev_artifacts
<1>4. FilesOK'
  BY <1>1, <1>3 DEF IInv, FilesOK, builder_clean_local_dev_artifacts, Keep
<1>5. dat' = dat /\ dirs' = dirs
  BY DEF builder_clean_local_dev_artifacts, Keep
<1>. QED  BY <1>1, <1>4, <1>5, OthersChanged

\* The compiler leaves code numbers that sources have or had.
LEMMA compiler_make_OK ==
  ASSUME IInv, compiler_make
  PROVE  IInv'
<1>1. Doing("build") /\ Done /\ kits' = kits /\ excused' = excused /\ troubles' = troubles
  BY DEF compiler_make, Keep
<1>2. Step.a \in Apps
  BY <1>1, StepIsAbout DEF Ops, KeyOps, AppOps, OtherOps
<1> DEFINE linked == {n \in Names : \E k \in ListedKeys(app[Step.a]) : k[1] = n /\ Linked(k)}
           code(n) == IF n \notin linked THEN 0
                      ELSE IF stuff[Step.a][n] # 0 THEN stuff[Step.a][n]
                      ELSE IF art[n] # 0 THEN art[n] ELSE source[n].code
<1>3. \A n \in Names : code(n) \in 0 .. MaxCode
  <2>. SUFFICES ASSUME NEW n \in Names PROVE code(n) \in 0 .. MaxCode
    OBVIOUS
  <2>1. stuff[Step.a][n] \in 0 .. MaxCode /\ art[n] \in 0 .. MaxCode /\ source[n].code \in 1 .. MaxCode
    BY <1>2 DEF IInv, FilesOK
  <2>2. source[n].code \in 0 .. MaxCode /\ 0 \in 0 .. MaxCode
    BY <2>1, BoundsAreNumbers
  <2>. HIDE DEF linked
  <2>. QED  BY <2>1, <2>2
<1>4. /\ stuff' = [stuff EXCEPT ![Step.a] = [n \in Names |-> code(n)]]
      /\ art' = [n \in Names |-> IF n \in linked /\ stuff[Step.a][n] = 0 THEN code(n) ELSE art[n]]
  BY DEF compiler_make
<1> HIDE DEF code, linked
<1>5. stuff' \in [Apps -> [Names -> 0 .. MaxCode]] /\ art' \in [Names -> 0 .. MaxCode]
  <2>1. stuff \in [Apps -> [Names -> 0 .. MaxCode]] /\ art \in [Names -> 0 .. MaxCode]
    BY DEF IInv, FilesOK
  <2>2. [n \in Names |-> code(n)] \in [Names -> 0 .. MaxCode]
    BY <1>3
  <2>. QED  BY <1>3, <1>4, <2>1, <2>2
<1>6. FilesOK'
  BY <1>1, <1>5 DEF IInv, FilesOK, compiler_make, Keep
<1>7. dat' = dat /\ dirs' = dirs
  BY DEF compiler_make, Keep
<1>. QED  BY <1>1, <1>6, <1>7, OthersChanged

-----------------------------------------------------------------------------
(* Steps that lead to others *)

\* No file and no excuse changes.
LEMMA NothingChanged ==
  ASSUME IInv, UNCHANGED <<files, excused, troubles>>, seen' \in SUBSET Keys, Left'
  PROVE  IInv'
<1>1. FilesOK'
  BY DEF IInv, FilesOK, files
<1>2. Usable'
  BY UsableKept DEF IInv, files
<1>. QED  BY <1>1, <1>2 DEF IInv

\* A loop ends or begins a round.
LEMMA next_round_OK ==
  ASSUME IInv, next_round
  PROVE  IInv'
<1>1. Doing("loop") /\ UNCHANGED <<files, seen, excused, troubles>>
  BY DEF next_round
<1>2. /\ todo \in Seq(StepSet) /\ todo # <<>> /\ todo[1] = Step /\ Step.op = "loop"
  BY <1>1, FirstStep DEF IInv
<1>3. dat \in SUBSET Keys
  BY DEF IInv, FilesOK
<1>4. CASE Step.rounds = {} /\ Done
  <2>1. /\ Moves(Step, dat, dirs, dat, dirs, excused)
        /\ KitMoves(Step, kits.source, kits.bin, kits.stored, kits.bin, kits.stored)
    BY <1>2, NothingMoves
  <2>2. QInv(Tail(todo), dat, dirs, excused, kits.source, kits.bin, kits.stored)
    BY <1>2, <1>3, <1>4, <2>1, DoneTaken DEF IInv, Left
  <2>3. Left'
    BY <1>1, <1>4, <2>2 DEF Left, Done, files
  <2>. QED  BY <1>1, <2>3, NothingChanged DEF IInv, FilesOK
<1>5. ASSUME NEW r \in Step.rounds, Then(r \o <<Loop(Step.rounds \ {r})>>)
      PROVE  IInv'
  <2>1. QInv((r \o <<Loop(Step.rounds \ {r})>>) \o Tail(todo), dat, dirs, excused, kits.source,
             kits.bin, kits.stored)
    BY <1>2, <1>3, RoundTaken DEF IInv, Left
  <2>2. Left'
    BY <1>1, <1>5, <2>1 DEF Left, Then, files
  <2>. QED  BY <1>1, <2>2, NothingChanged DEF IInv, FilesOK
<1>. QED  BY <1>4, <1>5 DEF next_round

\* A step that may lead to others has no further work, or leads to some, or ends the command.
LEMMA LeftWhenMore ==
  ASSUME IInv, NEW op \in GrowOps, Doing(op),
         UNCHANGED <<files, excused, troubles>>, seen' \in SUBSET Keys
  PROVE  /\ Done => IInv'
         /\ todo' = <<>> => IInv'
         /\ \A s \in Seq(StepSet) :
              /\ Then(s) /\ Local(s)
              /\ \A m \in 1 .. Len(s) :
                   /\ ~Has(s[m], DropOps \cup KitOps) /\ \A r \in s[m].rounds : RoundOK(r)
                   /\ s[m].op # "path" /\ (s[m].op = "dat" => s[m].k \in dirs)
              => IInv'
<1>1. op \notin {"loop", "open_path", "undat", "download_tool", "store"}
  BY DEF GrowOps
<1>2. /\ todo \in Seq(StepSet) /\ todo # <<>> /\ todo[1] = Step /\ Step.op = op
      /\ Step.rounds = {}
  BY <1>1, FirstStep DEF IInv
<1>3. dat \in SUBSET Keys
  BY DEF IInv, FilesOK
<1>4. ASSUME Done PROVE IInv'
  <2>1. /\ Moves(Step, dat, dirs, dat, dirs, excused)
        /\ KitMoves(Step, kits.source, kits.bin, kits.stored, kits.bin, kits.stored)
    BY <1>1, <1>2, NothingMoves
  <2>2. QInv(Tail(todo), dat, dirs, excused, kits.source, kits.bin, kits.stored)
    BY <1>2, <1>3, <2>1, DoneTaken DEF IInv, Left
  <2>3. Left'
    BY <1>4, <2>2 DEF Left, Done, files
  <2>. QED  BY <2>3, NothingChanged
<1>5. ASSUME todo' = <<>> PROVE IInv'
  <2>1. QInv(<<>>, dat, dirs, excused, kits.source, kits.bin, kits.stored)
    BY <1>2, <1>3, StopTaken DEF IInv, Left
  <2>2. Left'
    BY <1>5, <2>1 DEF Left, files
  <2>. QED  BY <2>2, NothingChanged
<1>6. ASSUME NEW s \in Seq(StepSet), Then(s), Local(s),
             \A m \in 1 .. Len(s) :
               /\ ~Has(s[m], DropOps \cup KitOps) /\ \A r \in s[m].rounds : RoundOK(r)
               /\ s[m].op # "path" /\ (s[m].op = "dat" => s[m].k \in dirs)
      PROVE  IInv'
  <2>1. QInv(s \o Tail(todo), dat, dirs, excused, kits.source, kits.bin, kits.stored)
    BY <1>2, <1>3, <1>6, MoreTaken DEF IInv, Left
  <2>2. Left'
    BY <1>6, <2>1 DEF Left, Then, files
  <2>. QED  BY <2>2, NothingChanged
<1>. QED  BY <1>4, <1>5, <1>6

\* Steps outside loops that may come in the place of others.
LEMMA PlainMore ==
  ASSUME NEW s \in Seq(PlainSteps),
         \A m \in 1 .. Len(s) : s[m].op \in CalmOps \/ (s[m].op = "dat" /\ s[m].k \in dirs)
  PROVE  \A m \in 1 .. Len(s) :
           /\ ~Has(s[m], DropOps \cup KitOps) /\ \A r \in s[m].rounds : RoundOK(r)
           /\ s[m].op # "path" /\ (s[m].op = "dat" => s[m].k \in dirs)
<1> SUFFICES ASSUME NEW m \in 1 .. Len(s)
             PROVE  /\ ~Has(s[m], DropOps \cup KitOps) /\ \A r \in s[m].rounds : RoundOK(r)
                    /\ s[m].op # "path" /\ (s[m].op = "dat" => s[m].k \in dirs)
  OBVIOUS
<1>1. s[m].rounds = {}
  BY PlainType
<1>2. s[m].op \notin DropOps \cup KitOps /\ s[m].op # "path"
  BY DEF CalmOps, DropOps, KitOps
<1>3. ~Has(s[m], DropOps \cup KitOps)
  BY <1>1, <1>2 DEF Has
<1>4. s[m].op = "dat" => s[m].k \in dirs
  BY DEF CalmOps
<1>. QED  BY <1>1, <1>2, <1>3, <1>4

\* The steps that repair a link.
LEMMA RepairSteps ==
  ASSUME NEW k \in Keys, NEW n \in {0, 1}
  PROVE  /\ Losing(3 * n, Do("unlink", k)) \in PlainSteps /\ Losing(2 * n, Do("symlink", k)) \in PlainSteps
         /\ Try("dat", k) \in PlainSteps
         /\ Losing(3 * n, Do("unlink", k)).loses \in {0, 1, 3}
         /\ Losing(2 * n, Do("symlink", k)).loses \in {0, 1, 2} /\ Try("dat", k).loses \in {0, 1}
         /\ Losing(3 * n, Do("unlink", k)).k = k /\ Losing(2 * n, Do("symlink", k)).k = k
         /\ Try("dat", k).k = k
         /\ Losing(3 * n, Do("unlink", k)).op = "unlink" /\ Losing(2 * n, Do("symlink", k)).op = "symlink"
         /\ Try("dat", k).op = "dat"
<1>1. /\ Do("unlink", k) \in PlainSteps /\ Do("unlink", k).op = "unlink"
      /\ Do("unlink", k).k = k
      /\ Do("symlink", k) \in PlainSteps /\ Do("symlink", k).op = "symlink"
      /\ Do("symlink", k).k = k
      /\ Do("dat", k) \in PlainSteps /\ Do("dat", k).op = "dat"
      /\ Do("dat", k).k = k
  <2>1. \A op \in {"unlink", "symlink", "dat"} :
          op \in Ops /\ op \notin AppOps \cup ToolOps \cup {"install_package", "loop"}
    BY DEF Ops, KeyOps, AppOps, ToolOps
  <2>2. \A op \in {"unlink", "symlink", "dat"} :
          Do(op, k) \in PlainSteps /\ Do(op, k).op = op /\ Do(op, k).k = k
    BY <2>1, DoType
  <2>. QED  BY <2>2
<1>2. 3 * n \in Nat /\ 2 * n \in Nat /\ 1 \in Nat
      /\ 3 * n \in {0, 1, 3} /\ 2 * n \in {0, 1, 2}
  OBVIOUS
<1> DEFINE x == Do("unlink", k)
           y == Do("symlink", k)
           z == Do("dat", k)
<1>3. \A w \in {x, y, z} : w.op # "ensure" /\ w.op # "track_if"
  BY <1>1
<1> HIDE DEF x, y, z
<1>4. \A w \in PlainSteps, m \in Nat : w.op # "ensure" /\ w.op # "track_if" =>
        /\ Losing(m, w) \in PlainSteps /\ Losing(m, w).op = w.op /\ Losing(m, w).k = w.k
        /\ Losing(m, w).loses = m
  BY LosingType
<1>. QED  BY <1>1, <1>2, <1>3, <1>4 DEF Try, x, y, z

\* A link is repaired in three steps, or nothing is done about it.
LEMMA ensure_local_dev_symlink_OK ==
  ASSUME IInv, ensure_local_dev_symlink
  PROVE  IInv'
<1>1. Doing("ensure") /\ UNCHANGED <<files, excused, troubles>> /\ seen' \in SUBSET Keys
  BY DEF ensure_local_dev_symlink, IInv, FilesOK
<1>2. Step.k \in Keys
  BY <1>1, StepIsAbout DEF Ops, KeyOps, AppOps, OtherOps
<1>3. Step.loses \in {0, 1}
  <2>1. Step \in StepSet /\ Step.op = "ensure"
    BY <1>1, FirstStep DEF IInv
  <2>. QED  BY <2>1, StepType DEF Fits
<1>4. "ensure" \in GrowOps
  BY DEF GrowOps
<1> DEFINE a == Losing(3 * Step.loses, Do("unlink", Step.k))
           b == Losing(2 * Step.loses, Do("symlink", Step.k))
           c == Try("dat", Step.k)
<1>5. Done \/ todo' = <<>> \/ (Then(<<a, b, c>>) /\ path[Step.k] = "source")
  BY DEF ensure_local_dev_symlink
<1>6. /\ a \in PlainSteps /\ b \in PlainSteps /\ c \in PlainSteps
      /\ a.loses \in {0, 1, 3} /\ b.loses \in {0, 1, 2} /\ c.loses \in {0, 1}
      /\ a.k = Step.k /\ b.k = Step.k /\ c.k = Step.k
      /\ a.op = "unlink" /\ b.op = "symlink" /\ c.op = "dat"
  BY <1>2, <1>3, RepairSteps
<1> HIDE DEF a, b, c
<1>7. ASSUME Then(<<a, b, c>>), path[Step.k] = "source"
      PROVE  IInv'
  <2>1. Step.k \in dirs
    BY <1>2, <1>7 DEF IInv, FilesOK
  <2>2. /\ <<a, b, c>> \in Seq(PlainSteps) /\ <<a, b, c>> \in Seq(StepSet) /\ Local(<<a, b, c>>)
        /\ Len(<<a, b, c>>) = 3
        /\ <<a, b, c>>[1] = a /\ <<a, b, c>>[2] = b /\ <<a, b, c>>[3] = c
    BY <1>6, ThreeSteps
  <2> DEFINE s == <<a, b, c>>
  <2> HIDE DEF s
  <2>3. /\ s \in Seq(PlainSteps) /\ s \in Seq(StepSet) /\ Local(s) /\ Then(s)
        /\ Len(s) = 3 /\ s[1] = a /\ s[2] = b /\ s[3] = c
    BY <1>7, <2>2 DEF s
  <2>4. "unlink" \in CalmOps /\ "symlink" \in CalmOps
    BY DEF CalmOps, Ops, KeyOps, DropOps, KitOps
  <2>5. \A m \in 1 .. Len(s) : s[m].op \in CalmOps \/ (s[m].op = "dat" /\ s[m].k \in dirs)
    <3>. SUFFICES ASSUME NEW m \in 1 .. 3
                  PROVE  s[m].op \in CalmOps \/ (s[m].op = "dat" /\ s[m].k \in dirs)
      BY <2>3
    <3>1. m = 1 \/ m = 2 \/ m = 3
      OBVIOUS
    <3>. QED  BY <1>6, <2>1, <2>3, <2>4, <3>1
  <2>. QED  BY <1>1, <1>4, <2>3, <2>5, PlainMore, LeftWhenMore
<1>. QED  BY <1>1, <1>4, <1>5, <1>7, LeftWhenMore

\* One step comes in the place of one that may lead to others.
LEMMA LeftWhenOneMore ==
  ASSUME IInv, NEW op \in GrowOps, Doing(op),
         UNCHANGED <<files, excused, troubles>>, seen' \in SUBSET Keys,
         NEW a \in StepSet, Then(<<a>>), a.loses = 0 \/ (a.loses = 1 /\ a.op # "loop"),
         ~Has(a, DropOps \cup KitOps), \A r \in a.rounds : RoundOK(r), a.op # "path", a.op # "dat"
  PROVE  IInv'
<1> DEFINE s == <<a>>
<1> HIDE DEF s
<1>1. s \in Seq(StepSet) /\ Len(s) = 1 /\ s[1] = a /\ Local(s) /\ Then(s)
  BY OneStep DEF s
<1>2. \A m \in 1 .. Len(s) : s[m] = a
  BY <1>1
<1>3. \A m \in 1 .. Len(s) :
        /\ ~Has(s[m], DropOps \cup KitOps) /\ \A r \in s[m].rounds : RoundOK(r)
        /\ s[m].op # "path" /\ (s[m].op = "dat" => s[m].k \in dirs)
  BY <1>2
<1>. QED  BY <1>1, <1>3, LeftWhenMore

\* A single step outside loops that looks, links, tracks or writes an elm.json.
LEMMA LeftWhenOnePlain ==
  ASSUME IInv, NEW op \in GrowOps, Doing(op),
         UNCHANGED <<files, excused, troubles>>, seen' \in SUBSET Keys,
         NEW a \in PlainSteps, Then(<<a>>), a.loses \in {0, 1}, a.op \in CalmOps
  PROVE  IInv'
<1>1. a \in StepSet /\ a.rounds = {} /\ a.op # "loop"
  BY PlainType
<1>2. a.op \notin DropOps \cup KitOps /\ a.op # "path" /\ a.op # "dat"
  BY DEF CalmOps
<1>3. ~Has(a, DropOps \cup KitOps)
  BY <1>1, <1>2 DEF Has
<1>. QED  BY <1>1, <1>2, <1>3, LeftWhenOneMore

\* A version in the text registry is tracked.
LEMMA register_local_dev_tracking_if_needed_OK ==
  ASSUME IInv, register_local_dev_tracking_if_needed
  PROVE  IInv'
<1>1. Doing("track_if") /\ UNCHANGED <<files, excused, troubles>> /\ seen' \in SUBSET Keys
  BY DEF register_local_dev_tracking_if_needed, IInv, FilesOK
<1>2. "track_if" \in GrowOps
  BY DEF GrowOps
<1> DEFINE a == [Step EXCEPT !.op = "track"]
<1>3. Done \/ Then(<<a>>)
  BY DEF register_local_dev_tracking_if_needed
<1>4. a \in PlainSteps /\ a.loses \in {0, 1} /\ a.op \in CalmOps
  <2>1. Step \in PlainSteps /\ Step.op = "track_if"
    <3>1. "track_if" # "loop"
      OBVIOUS
    <3>. QED  BY <1>1, <3>1, FirstStep, Zenon DEF IInv
  <2>2. "track" \in Ops /\ "track" \in CalmOps /\ "track" \notin ToolOps /\ "track_if" \in KeyOps
        /\ "track_if" \in AppOps
    BY DEF CalmOps, Ops, KeyOps, AppOps, ToolOps, OtherOps, DropOps, KitOps
  <2>3. Step \in [op : Ops, k : Keys \cup {NoKey}, a : Labels, j : Json, loses : Nat, rounds : {{}}]
        /\ Fits(Step)
    BY <2>1 DEF PlainSteps
  <2>4. a \in [op : Ops, k : Keys \cup {NoKey}, a : Labels, j : Json, loses : Nat, rounds : {{}}]
        /\ a.op = "track" /\ a.k = Step.k /\ a.a = Step.a /\ a.loses = Step.loses
    BY <2>2, <2>3
  <2> HIDE DEF a
  <2>5. Step.k \in Keys /\ Step.a \in Apps /\ Step.loses \in {0, 1}
    BY <2>1, <2>2, <2>3 DEF Fits
  <2>6. Fits(a)
    BY <2>2, <2>4, <2>5 DEF Fits
  <2>. QED  BY <2>2, <2>4, <2>5, <2>6 DEF PlainSteps
<1> HIDE DEF a
<1>. QED  BY <1>1, <1>2, <1>3, <1>4, LeftWhenMore, LeftWhenOnePlain

\* An elm.json that is written with other indirect entries.
LEMMA WriteStep ==
  ASSUME NEW a \in Apps, NEW j \in Json
  PROVE  /\ Losing(1, Write(a, j)) \in PlainSteps /\ Losing(1, Write(a, j)).loses \in {0, 1}
         /\ Losing(1, Write(a, j)).op \in CalmOps
<1>1. Write(a, j) \in PlainSteps /\ Write(a, j).op = "elm_json"
  BY WriteType
<1>2. "elm_json" \in CalmOps
  BY DEF CalmOps, Ops, KeyOps, AppOps, DropOps, KitOps
<1>3. Write(a, j).op \notin {"ensure", "track_if"} /\ 1 \in Nat
  BY <1>1
<1>4. Losing(1, Write(a, j)) \in PlainSteps /\ Losing(1, Write(a, j)).loses = 1
      /\ Losing(1, Write(a, j)).op = "elm_json"
  BY <1>1, <1>3, LosingType
<1>. QED  BY <1>2, <1>4

\* An application gets what the package needs, or is excused.
LEMMA refresh_app_indirect_deps_OK ==
  ASSUME IInv, refresh_app_indirect_deps
  PROVE  IInv'
<1>1. Doing("refresh") /\ UNCHANGED <<files, troubles>> /\ seen' \in SUBSET Keys
  BY DEF refresh_app_indirect_deps, IInv, FilesOK
<1>2. "refresh" \in GrowOps
  BY DEF GrowOps
<1>3. Step.a \in Apps
  BY <1>1, StepIsAbout DEF Ops, KeyOps, AppOps, OtherOps
<1> DEFINE wanted == source[Step.k[1]].needs \ Listed(app[Step.a])
           S == app[Step.a].indirect \cup Changes(app[Step.a], wanted)
           j == [app[Step.a] EXCEPT !.indirect = S]
<1>4. \/ Done /\ UNCHANGED excused
      \/ Solvable(app[Step.a], wanted) /\ Then(<<Losing(1, Write(Step.a, j))>>) /\ UNCHANGED excused
      \/ Done /\ excused' = excused \cup {<<Step.a>>}
  BY DEF refresh_app_indirect_deps
<1>5. ASSUME Solvable(app[Step.a], wanted), Then(<<Losing(1, Write(Step.a, j))>>), UNCHANGED excused
      PROVE  IInv'
  <2>1. app[Step.a] \in Json
    BY <1>3 DEF IInv, FilesOK
  <2>2. Changes(app[Step.a], wanted) \subseteq Entries
    BY <1>5, <2>1, ChangesType DEF IInv
  <2>3. S \in SUBSET Entries
    BY <2>1, <2>2, JsonType
  <2> HIDE DEF S
  <2>4. j \in Json
    BY <2>1, <2>3, JsonExcept
  <2> HIDE DEF j
  <2>. QED  BY <1>1, <1>2, <1>3, <1>5, <2>4, WriteStep, LeftWhenOnePlain
<1>6. ASSUME Done, excused' = excused \cup {<<Step.a>>}
      PROVE  IInv'
  <2>1. /\ todo \in Seq(StepSet) /\ todo # <<>> /\ todo[1] = Step /\ Step.op = "refresh"
        /\ Step.rounds = {}
    BY <1>1, FirstStep DEF IInv
  <2>2. QInv(todo, dat, dirs, excused', kits.source, kits.bin, kits.stored)
    BY <1>6, MoreExcused DEF IInv, Left
  <2>3. /\ Moves(Step, dat, dirs, dat, dirs, excused')
        /\ KitMoves(Step, kits.source, kits.bin, kits.stored, kits.bin, kits.stored)
    BY <2>1, NothingMoves
  <2>4. QInv(Tail(todo), dat, dirs, excused', kits.source, kits.bin, kits.stored)
    BY <2>1, <2>2, <2>3, DoneTaken DEF IInv, FilesOK
  <2>5. Left'
    BY <1>1, <1>6, <2>4 DEF Left, Done, files
  <2>6. FilesOK'
    BY <1>1 DEF IInv, FilesOK, files
  <2>7. Usable'
    BY <1>1, UsableKept DEF IInv, files
  <2>. QED  BY <2>5, <2>6, <2>7 DEF IInv
<1>7. ASSUME Done, UNCHANGED excused
      PROVE  IInv'
  BY <1>1, <1>2, <1>7, LeftWhenMore
<1>. QED  BY <1>4, <1>5, <1>6, <1>7

\* An application loses what nothing needs any longer.
LEMMA prune_app_orphaned_deps_OK ==
  ASSUME IInv, prune_app_orphaned_deps
  PROVE  IInv'
<1>1. Doing("prune") /\ UNCHANGED <<files, excused, troubles>> /\ seen' \in SUBSET Keys
  BY DEF prune_app_orphaned_deps, IInv, FilesOK
<1>2. "prune" \in GrowOps
  BY DEF GrowOps
<1>3. Step.a \in Apps
  BY <1>1, StepIsAbout DEF Ops, KeyOps, AppOps, OtherOps
<1> DEFINE S == app[Step.a].indirect \ Orphans(app[Step.a])
           j == [app[Step.a] EXCEPT !.indirect = S]
<1>4. Done \/ Then(<<Losing(1, Write(Step.a, j))>>)
  BY DEF prune_app_orphaned_deps
<1>5. j \in Json
  <2>1. app[Step.a] \in Json
    BY <1>3 DEF IInv, FilesOK
  <2>2. S \in SUBSET Entries
    BY <2>1, JsonType
  <2> HIDE DEF S
  <2>. QED  BY <2>1, <2>2, JsonExcept
<1> HIDE DEF j
<1>. QED  BY <1>1, <1>2, <1>3, <1>4, <1>5, WriteStep, LeftWhenMore, LeftWhenOnePlain

\* Two steps come in the place of one that may lead to others.
LEMMA LeftWhenTwoMore ==
  ASSUME IInv, NEW op \in GrowOps, Doing(op),
         UNCHANGED <<files, excused, troubles>>, seen' \in SUBSET Keys,
         NEW a \in StepSet, NEW b \in StepSet, Then(<<a, b>>),
         a.loses = 0 \/ (a.loses = 1 /\ a.op # "loop"), b.loses = 0,
         ~Has(a, DropOps \cup KitOps), \A r \in a.rounds : RoundOK(r), a.op \notin {"path", "dat"},
         ~Has(b, DropOps \cup KitOps), \A r \in b.rounds : RoundOK(r), b.op \notin {"path", "dat"}
  PROVE  IInv'
<1> DEFINE s == <<a, b>>
<1> HIDE DEF s
<1>1. s \in Seq(StepSet) /\ Len(s) = 2 /\ s[1] = a /\ s[2] = b /\ Local(s) /\ Then(s)
  BY TwoSteps DEF s
<1>2. \A m \in 1 .. Len(s) : s[m] = a \/ s[m] = b
  <2>. SUFFICES ASSUME NEW m \in 1 .. 2 PROVE s[m] = a \/ s[m] = b
    BY <1>1
  <2>1. m = 1 \/ m = 2
    OBVIOUS
  <2>. QED  BY <1>1, <2>1
<1>3. \A m \in 1 .. Len(s) :
        /\ ~Has(s[m], DropOps \cup KitOps) /\ \A r \in s[m].rounds : RoundOK(r)
        /\ s[m].op # "path" /\ (s[m].op = "dat" => s[m].k \in dirs)
  <2>. SUFFICES ASSUME NEW m \in 1 .. Len(s)
                PROVE  /\ ~Has(s[m], DropOps \cup KitOps) /\ \A r \in s[m].rounds : RoundOK(r)
                       /\ s[m].op # "path" /\ s[m].op # "dat"
    OBVIOUS
  <2>1. CASE s[m] = a
    BY <2>1
  <2>2. CASE s[m] = b
    BY <2>2
  <2>. QED  BY <1>2, <2>1, <2>2
<1>. QED  BY <1>1, <1>3, LeftWhenMore

\* Steps of fetching and compiling outside loops.
LEMMA MakeStep ==
  ASSUME NEW op \in {"ensure", "have", "reinsert"}, NEW k \in Keys \cup {NoKey},
         op # "reinsert" => k \in Keys
  PROVE  /\ Do(op, k) \in StepSet /\ Do(op, k).loses = 0 /\ Do(op, k) \in PlainSteps
         /\ Do(op, k).op = op
         /\ ~Has(Do(op, k), DropOps \cup KitOps) /\ \A r \in Do(op, k).rounds : RoundOK(r)
<1>1. op \in Ops /\ op \notin AppOps \cup ToolOps \cup {"install_package", "loop"}
      /\ op \notin DropOps \cup KitOps /\ (op \in KeyOps => k \in Keys)
  BY DEF Ops, KeyOps, AppOps, ToolOps, OtherOps, DropOps, KitOps
<1>2. /\ Do(op, k) \in PlainSteps /\ Do(op, k).op = op /\ Do(op, k).k = k /\ Do(op, k).loses = 0
      /\ Do(op, k).rounds = {}
  BY <1>1, DoType
<1>3. ~Has(Do(op, k), DropOps \cup KitOps)
  BY <1>1, <1>2 DEF Has
<1>. QED  BY <1>2, <1>3, PlainType

\* A version that was not looked at is: its link is repaired, then its needs follow.
LEMMA download_package_recursive_OK ==
  ASSUME IInv, download_package_recursive
  PROVE  IInv'
<1>1. Doing("fetch") /\ UNCHANGED <<files, excused, troubles>>
  BY DEF download_package_recursive
<1>2. "fetch" \in GrowOps
  BY DEF GrowOps
<1>3. Step.k \in Keys
  BY <1>1, StepIsAbout DEF Ops, KeyOps, AppOps, OtherOps
<1>4. seen' \in SUBSET Keys
  BY <1>3 DEF download_package_recursive, IInv, FilesOK
<1> DEFINE d == Do("ensure", Step.k)
           a == Losing(1, d)
           b == Do("have", Step.k)
<1>5. Done \/ Then(<<a, b>>)
  BY DEF download_package_recursive, Try
<1>6. d \in PlainSteps /\ d.op = "ensure"
  BY <1>3, MakeStep
<1>7. /\ b \in StepSet /\ b.loses = 0 /\ ~Has(b, DropOps \cup KitOps)
      /\ \A r \in b.rounds : RoundOK(r)
      /\ b.op = "have"
  BY <1>3, MakeStep
<1> HIDE DEF d, b
<1>8. a \in PlainSteps /\ a.op = "ensure" /\ a.loses = 1 /\ a.rounds = {}
  <2>1. 1 \in Nat /\ 1 \in {0, 1}
    OBVIOUS
  <2>. QED  BY <1>6, <2>1, LosingType
<1> HIDE DEF a
<1>9. a \in StepSet /\ ~Has(a, DropOps \cup KitOps)
  <2>1. "ensure" \notin DropOps \cup KitOps
    BY DEF DropOps, KitOps
  <2>. QED  BY <1>8, <2>1, PlainType DEF Has
<1>10. Done => IInv'
  BY <1>1, <1>2, <1>4, LeftWhenMore
<1>11. Then(<<a, b>>) => IInv'
  BY <1>1, <1>2, <1>4, <1>7, <1>8, <1>9, LeftWhenTwoMore
<1>. QED  BY <1>5, <1>10, <1>11

\* The newest versions of known packages are versions.
LEMMA NewestKeys ==
  ASSUME IInv, NEW needs, \A n \in needs : Known(n)
  PROVE  {<<n, Newest(n)>> : n \in needs \cap Names} \in SUBSET Keys
  BY NewestType DEF IInv

\* What a version needs is fetched, or the command ends.
LEMMA continue_with_needs_OK ==
  ASSUME IInv, continue_with_needs
  PROVE  IInv'
<1>1. Doing("have") /\ UNCHANGED <<files, excused, troubles>>
  BY DEF continue_with_needs
<1>2. "have" \in GrowOps
  BY DEF GrowOps
<1>3. seen' \in SUBSET Keys
  BY DEF continue_with_needs, Stop, IInv, FilesOK
<1> DEFINE S == {<<n, Newest(n)>> : n \in NeedsSeen(Step.k) \cap Names}
<1>4. Stop \/ ((\A n \in NeedsSeen(Step.k) : Known(n)) /\ Then(<<Each("fetch", S)>>))
  BY DEF continue_with_needs
<1>5. Stop => IInv'
  BY <1>1, <1>2, <1>3, LeftWhenMore DEF Stop
<1>6. ASSUME \A n \in NeedsSeen(Step.k) : Known(n), Then(<<Each("fetch", S)>>)
      PROVE  IInv'
  <2>1. S \in SUBSET Keys
    BY <1>6, NewestKeys
  <2> HIDE DEF S
  <2> DEFINE a == Each("fetch", S)
  <2>2. /\ a \in StepSet /\ a.loses = 0 /\ a.op = "loop" /\ ~Has(a, DropOps \cup KitOps)
        /\ \A r \in a.rounds : RoundOK(r)
    BY <2>1, EachType
  <2> HIDE DEF a
  <2>3. Then(<<a>>)
    BY <1>6 DEF a
  <2>. QED  BY <1>1, <1>2, <1>3, <2>2, <2>3, LeftWhenOneMore
<1>. QED  BY <1>4, <1>5, <1>6

\* What a tracked package needs is fetched, or the command ends.
LEMMA builder_compile_local_dev_packages_OK ==
  ASSUME IInv, builder_compile_local_dev_packages
  PROVE  IInv'
<1>1. Doing("compile") /\ UNCHANGED <<files, excused, troubles>>
  BY DEF builder_compile_local_dev_packages
<1>2. "compile" \in GrowOps
  BY DEF GrowOps
<1>3. seen' \in SUBSET Keys
  BY DEF builder_compile_local_dev_packages, Stop, IInv, FilesOK
<1> DEFINE needs == source[Step.k[1]].needs
           S == {<<n, Newest(n)>> : n \in needs \cap Names}
           b == Do("reinsert", NoKey)
<1>4. \/ Stop \/ Done
      \/ (\A n \in needs : Known(n)) /\ Then(<<Each("fetch", S), b>>)
  BY DEF builder_compile_local_dev_packages
<1>5. Stop \/ Done => IInv'
  BY <1>1, <1>2, <1>3, LeftWhenMore DEF Stop
<1>6. ASSUME \A n \in needs : Known(n), Then(<<Each("fetch", S), b>>)
      PROVE  IInv'
  <2>1. S \in SUBSET Keys
    BY <1>6, NewestKeys
  <2> HIDE DEF S
  <2> DEFINE a == Each("fetch", S)
  <2>2. /\ a \in StepSet /\ a.loses = 0 /\ a.op = "loop" /\ ~Has(a, DropOps \cup KitOps)
        /\ \A r \in a.rounds : RoundOK(r)
    BY <2>1, EachType
  <2>3. /\ b \in StepSet /\ b.loses = 0 /\ b.op = "reinsert" /\ ~Has(b, DropOps \cup KitOps)
        /\ \A r \in b.rounds : RoundOK(r)
    BY MakeStep
  <2> HIDE DEF a, b
  <2>4. Then(<<a, b>>)
    BY <1>6 DEF a
  <2>. QED  BY <1>1, <1>2, <1>3, <2>2, <2>3, <2>4, LeftWhenTwoMore
<1>. QED  BY <1>4, <1>5, <1>6
-----------------------------------------------------------------------------
(* Steps of wrap kit *)

\* A step of a kit command is one of a kit that is being installed.
LEMMA KitStepIsAbout ==
  ASSUME IInv, NEW op \in KitOps, Doing(op)
  PROVE  /\ kits.source \in Sources /\ kits.source.version \in KitVersions
         /\ kits.source.version \notin {"none", "folder"} /\ kits.source # NoSource
         /\ kits \in KitFiles
<1>1. todo[1].op = op /\ 1 \in 1 .. Len(todo)
  <2>1. 1 \in 1 .. Len(todo) /\ todo[1] = Step /\ Step.op = op
    BY FirstStep DEF IInv
  <2>. QED  BY <2>1
<1>2. Has(todo[1], KitOps)
  BY <1>1 DEF Has
<1>3. kits.source \in Sources
  BY <1>1, <1>2 DEF IInv, Left, QInv, KitQueueOK
<1>4. kits.source.version \in KitVersions
  BY <1>3 DEF KitVersions
<1>5. NoSource.version = "none"
  BY DEF NoSource
<1>. QED  BY <1>3, <1>4, <1>5, VersionsAreNamed DEF IInv, Usable, KitUsable

\* A step of a kit command other than the report is done.
LEMMA KitDone ==
  ASSUME IInv, NEW op \in KitOps, Doing(op), Done, KitKeep,
         kits' \in KitFiles, kits'.source = kits.source, kits'.before = kits.before,
         KitMoves(Step, kits.source, kits.bin, kits.stored, kits'.bin, kits'.stored),
         StoredOK(kits'.stored, kits'.current),
         \A t \in Tools : kits'.linked[t] \in KitVersions => <<t, kits'.linked[t]>> \in kits'.bin
  PROVE  IInv'
<1>1. op \notin {"loop", "open_path", "undat"}
  BY DEF KitOps
<1>2. /\ todo \in Seq(StepSet) /\ todo # <<>> /\ todo[1] = Step /\ Step.rounds = {} /\ Step.op = op
  BY <1>1, FirstStep DEF IInv
<1>3. Moves(Step, dat, dirs, dat, dirs, excused)
  BY <1>1, <1>2 DEF Moves
<1>4. QInv(Tail(todo), dat, dirs, excused, kits.source, kits'.bin, kits'.stored)
  BY <1>2, <1>3, DoneTaken DEF IInv, Left, FilesOK
<1>5. Left'
  BY <1>4 DEF Left, Done, KitKeep
<1>6. FilesOK'
  BY DEF IInv, FilesOK, KitKeep
<1>7. (kits.before <= troubles)'
  BY DEF IInv, Usable, KitKeep
<1>8. Usable'
  <2>1. kits'.current # "none" => Current' = kits'.stored[kits'.current] /\ kits'.current \in KitVersions
    BY DEF Current, KitFiles
  <2>2. kits'.current # "none" => Current' # NoSource /\ Current'.version = kits'.current
    BY <2>1 DEF StoredOK
  <2>. QED  BY <1>7, <2>2 DEF Usable, KitUsable
<1>. QED  BY <1>5, <1>6, <1>8 DEF IInv

\* A binary comes.
LEMMA download_tool_binary_OK ==
  ASSUME IInv, download_tool_binary
  PROVE  IInv'
<1>1. /\ Doing("download_tool") /\ Done /\ KitKeep
      /\ kits' = [kits EXCEPT !.bin = @ \cup {<<Step.a, kits.source.version>>}]
  BY DEF download_tool_binary
<1>2. "download_tool" \in KitOps /\ "download_tool" \in ToolOps /\ "download_tool" \in Ops
  BY DEF KitOps, ToolOps, Ops
<1>3. kits \in KitFiles /\ kits.source.version \in KitVersions /\ Step.a \in Tools
      /\ Step.op = "download_tool"
  BY <1>1, <1>2, KitStepIsAbout, StepIsAbout DEF Doing
<1>4. /\ kits' \in KitFiles /\ kits'.bin = kits.bin \cup {<<Step.a, kits.source.version>>}
      /\ kits'.source = kits.source /\ kits'.before = kits.before /\ kits'.stored = kits.stored
      /\ kits'.current = kits.current /\ kits'.linked = kits.linked
  <2> DEFINE bin == kits.bin \cup {<<Step.a, kits.source.version>>}
  <2>1. bin \in SUBSET (Tools \X KitVersions)
    <3>1. kits.bin \in SUBSET (Tools \X KitVersions)
      BY <1>3 DEF KitFiles
    <3>2. <<Step.a, kits.source.version>> \in Tools \X KitVersions
      BY <1>3
    <3>. QED  BY <3>1, <3>2
  <2>2. kits' = [kits EXCEPT !.bin = bin]
    BY <1>1
  <2> HIDE DEF bin
  <2>3. /\ kits' \in KitFiles /\ kits'.bin = bin
        /\ kits'.source = kits.source /\ kits'.before = kits.before /\ kits'.stored = kits.stored
        /\ kits'.current = kits.current /\ kits'.linked = kits.linked
    BY <1>3, <2>1, <2>2 DEF KitFiles
  <2>. QED  BY <2>3 DEF bin
<1>5. KitMoves(Step, kits.source, kits.bin, kits.stored, kits'.bin, kits'.stored)
  BY <1>3, <1>4 DEF KitMoves
<1>. QED  BY <1>1, <1>2, <1>4, <1>5, KitDone DEF IInv, Usable, KitUsable

\* Neither binaries nor stored kitfiles change.
LEMMA NoKitMoves ==
  ASSUME NEW op \in KitOps, op \notin {"download_tool", "store"}, Step.op = op, NEW c, NEW bin,
         NEW stored
  PROVE  KitMoves(Step, c, bin, stored, bin, stored)
  BY DEF KitMoves

\* A link goes.
LEMMA drop_tool_symlink_OK ==
  ASSUME IInv, drop_tool_symlink
  PROVE  IInv'
<1>1. /\ Doing("drop_tool") /\ Done /\ KitKeep
      /\ kits' = [kits EXCEPT !.linked[Step.a] = "none"]
  BY DEF drop_tool_symlink
<1>2. "drop_tool" \in KitOps /\ "drop_tool" \in ToolOps /\ "drop_tool" \in Ops
  BY DEF KitOps, ToolOps, Ops
<1>3. kits \in KitFiles /\ Step.a \in Tools /\ Step.op = "drop_tool"
  BY <1>1, <1>2, KitStepIsAbout, StepIsAbout DEF Doing
<1>4. /\ kits' \in KitFiles /\ kits'.bin = kits.bin
      /\ kits'.source = kits.source /\ kits'.before = kits.before /\ kits'.stored = kits.stored
      /\ kits'.current = kits.current /\ kits'.linked = [kits.linked EXCEPT ![Step.a] = "none"]
      /\ kits.linked \in [Tools -> KitVersions \cup {"none", "folder"}]
  BY <1>1, <1>3 DEF KitFiles
<1>5. KitMoves(Step, kits.source, kits.bin, kits.stored, kits'.bin, kits'.stored)
  BY <1>2, <1>3, <1>4, NoKitMoves
<1>6. \A t \in Tools : kits'.linked[t] \in KitVersions => <<t, kits'.linked[t]>> \in kits'.bin
  BY <1>3, <1>4, VersionsAreNamed DEF IInv, Usable, KitUsable
<1>. QED  BY <1>1, <1>2, <1>4, <1>5, <1>6, KitDone DEF IInv, Usable

\* A link comes; a tool of the kitfile has its binary then.
LEMMA symlink_tool_OK ==
  ASSUME IInv, symlink_tool
  PROVE  IInv'
<1> DEFINE v == IF Step.a \in kits.source.tools THEN kits.source.version ELSE "folder"
<1>1. /\ Doing("link_tool") /\ Done /\ KitKeep
      /\ kits' = [kits EXCEPT !.linked[Step.a] = v]
  BY DEF symlink_tool
<1>2. "link_tool" \in KitOps /\ "link_tool" \in ToolOps /\ "link_tool" \in Ops
  BY DEF KitOps, ToolOps, Ops
<1>3. /\ kits \in KitFiles /\ Step.a \in Tools /\ Step.op = "link_tool"
      /\ kits.source.version \in KitVersions
  BY <1>1, <1>2, KitStepIsAbout, StepIsAbout DEF Doing
<1>4. v \in KitVersions \cup {"none", "folder"}
  BY <1>3
<1>5. v \in KitVersions => <<Step.a, v>> \in kits.bin
  <2>1. v \in KitVersions => Step.a \in kits.source.tools /\ v = kits.source.version
    BY VersionsAreNamed
  <2>2. ASSUME Step.a \in kits.source.tools PROVE <<Step.a, kits.source.version>> \in kits.bin
    <3>1. todo[1] = Step /\ 1 \in 1 .. Len(todo)
      BY <1>1, FirstStep DEF IInv
    <3>2. Ready(todo, 1, Step.a, kits.source.version, kits.bin)
      BY <1>3, <2>2, <3>1 DEF IInv, Left, QInv, KitQueueOK, LinksOK
    <3>. QED  BY <3>2 DEF Ready
  <2>. QED  BY <2>1, <2>2
<1> HIDE DEF v
<1>6. /\ kits' \in KitFiles /\ kits'.bin = kits.bin
      /\ kits'.source = kits.source /\ kits'.before = kits.before /\ kits'.stored = kits.stored
      /\ kits'.current = kits.current /\ kits'.linked = [kits.linked EXCEPT ![Step.a] = v]
      /\ kits.linked \in [Tools -> KitVersions \cup {"none", "folder"}]
  BY <1>1, <1>3, <1>4 DEF KitFiles
<1>7. KitMoves(Step, kits.source, kits.bin, kits.stored, kits'.bin, kits'.stored)
  BY <1>2, <1>3, <1>6, NoKitMoves
<1>8. \A t \in Tools : kits'.linked[t] \in KitVersions => <<t, kits'.linked[t]>> \in kits'.bin
  BY <1>3, <1>5, <1>6 DEF IInv, Usable, KitUsable
<1>. QED  BY <1>1, <1>2, <1>6, <1>7, <1>8, KitDone DEF IInv, Usable

\* A package comes into the package cache.
LEMMA install_one_package_OK ==
  ASSUME IInv, install_one_package
  PROVE  IInv'
<1>1. /\ Doing("install_package") /\ Done /\ KitKeep
      /\ kits' = [kits EXCEPT !.packages = @ \cup {Step.a}]
  BY DEF install_one_package
<1>2. "install_package" \in KitOps /\ "install_package" \in Ops
  BY DEF KitOps, OtherOps, Ops
<1>3. kits \in KitFiles /\ Step.a \in Others /\ Step.op = "install_package"
  BY <1>1, <1>2, KitStepIsAbout, StepIsAbout DEF Doing
<1>4. /\ kits' \in KitFiles /\ kits'.bin = kits.bin
      /\ kits'.source = kits.source /\ kits'.before = kits.before /\ kits'.stored = kits.stored
      /\ kits'.current = kits.current /\ kits'.linked = kits.linked
  BY <1>1, <1>3 DEF KitFiles
<1>5. KitMoves(Step, kits.source, kits.bin, kits.stored, kits'.bin, kits'.stored)
  BY <1>2, <1>3, <1>4, NoKitMoves
<1>. QED  BY <1>1, <1>2, <1>4, <1>5, KitDone DEF IInv, Usable, KitUsable

\* The kitfile of the version is stored.
LEMMA kit_store_kitfile_OK ==
  ASSUME IInv, kit_store_kitfile
  PROVE  IInv'
<1>1. /\ Doing("store") /\ Done /\ KitKeep
      /\ kits' = [kits EXCEPT !.stored[kits.source.version] = kits.source]
  BY DEF kit_store_kitfile
<1>2. "store" \in KitOps
  BY DEF KitOps
<1>3. /\ kits \in KitFiles /\ Step.op = "store" /\ kits.source \in Sources
      /\ kits.source.version \in KitVersions /\ kits.source # NoSource
  BY <1>1, <1>2, KitStepIsAbout DEF Doing
<1>4. /\ kits' \in KitFiles /\ kits'.bin = kits.bin
      /\ kits'.source = kits.source /\ kits'.before = kits.before
      /\ kits'.stored = [kits.stored EXCEPT ![kits.source.version] = kits.source]
      /\ kits'.current = kits.current /\ kits'.linked = kits.linked
      /\ kits.stored \in [KitVersions -> Sources \cup {NoSource}]
      /\ kits.current \in KitVersions \cup {"none"}
  BY <1>1, <1>3 DEF KitFiles
<1>5. KitMoves(Step, kits.source, kits.bin, kits.stored, kits'.bin, kits'.stored)
  BY <1>3, <1>4 DEF KitMoves
<1>6. StoredOK(kits'.stored, kits'.current)
  BY <1>3, <1>4 DEF IInv, Usable, StoredOK
<1>. QED  BY <1>1, <1>2, <1>4, <1>5, <1>6, KitDone DEF IInv, Usable, KitUsable

\* current goes.
LEMMA unlink_current_OK ==
  ASSUME IInv, unlink_current
  PROVE  IInv'
<1>1. /\ Doing("demote") /\ Done /\ KitKeep
      /\ kits' = [kits EXCEPT !.current = "none"]
  BY DEF unlink_current
<1>2. "demote" \in KitOps
  BY DEF KitOps
<1>3. kits \in KitFiles /\ Step.op = "demote"
  BY <1>1, <1>2, KitStepIsAbout DEF Doing
<1>4. /\ kits' \in KitFiles /\ kits'.bin = kits.bin
      /\ kits'.source = kits.source /\ kits'.before = kits.before /\ kits'.stored = kits.stored
      /\ kits'.current = "none" /\ kits'.linked = kits.linked
  BY <1>1, <1>3 DEF KitFiles
<1>5. KitMoves(Step, kits.source, kits.bin, kits.stored, kits'.bin, kits'.stored)
  BY <1>2, <1>3, <1>4, NoKitMoves
<1>6. StoredOK(kits'.stored, kits'.current)
  BY <1>4 DEF IInv, Usable, StoredOK
<1>. QED  BY <1>1, <1>2, <1>4, <1>5, <1>6, KitDone DEF IInv, Usable, KitUsable

\* current leads to the kitfile that was stored.
LEMMA symlink_current_OK ==
  ASSUME IInv, symlink_current
  PROVE  IInv'
<1>1. /\ Doing("promote") /\ Done /\ KitKeep
      /\ kits' = [kits EXCEPT !.current = kits.source.version]
  BY DEF symlink_current
<1>2. "promote" \in KitOps
  BY DEF KitOps
<1>3. /\ kits \in KitFiles /\ Step.op = "promote" /\ kits.source \in Sources
      /\ kits.source.version \in KitVersions /\ kits.source # NoSource
  BY <1>1, <1>2, KitStepIsAbout DEF Doing
<1>4. /\ kits' \in KitFiles /\ kits'.bin = kits.bin
      /\ kits'.source = kits.source /\ kits'.before = kits.before /\ kits'.stored = kits.stored
      /\ kits'.current = kits.source.version /\ kits'.linked = kits.linked
  BY <1>1, <1>3 DEF KitFiles
<1>5. KitMoves(Step, kits.source, kits.bin, kits.stored, kits'.bin, kits'.stored)
  BY <1>2, <1>3, <1>4, NoKitMoves
<1>6. kits.stored[kits.source.version] = kits.source
  <2>1. todo[1] = Step /\ 1 \in 1 .. Len(todo)
    BY <1>1, FirstStep DEF IInv
  <2>. QED  BY <1>3, <2>1 DEF IInv, Left, QInv, KitQueueOK, PromotesOK
<1>7. StoredOK(kits'.stored, kits'.current)
  BY <1>3, <1>4, <1>6 DEF IInv, Usable, StoredOK
<1>. QED  BY <1>1, <1>2, <1>4, <1>5, <1>7, KitDone DEF IInv, Usable, KitUsable

\* The report is the last step.
LEMMA report_OK ==
  ASSUME IInv, report
  PROVE  IInv'
<1>1. Doing("report") /\ Done /\ KitKeep
  BY DEF report
<1>2. "report" \in KitOps
  BY DEF KitOps
<1>3. kits \in KitFiles /\ Step.op = "report" /\ kits.source \in Sources
  BY <1>1, <1>2, KitStepIsAbout DEF Doing
<1>4. /\ kits' \in KitFiles /\ kits'.bin = kits.bin
      /\ kits'.source = NoSource /\ kits'.before = kits.before /\ kits'.stored = kits.stored
      /\ kits'.current = kits.current /\ kits'.linked = kits.linked
  BY <1>3 DEF KitFiles, report
<1>5. /\ todo \in Seq(StepSet) /\ todo # <<>> /\ todo[1] = Step /\ 1 \in 1 .. Len(todo)
      /\ Step.rounds = {}
  BY <1>1, FirstStep DEF IInv
<1>6. Len(todo) = 1
  BY <1>3, <1>5 DEF IInv, Left, QInv, KitQueueOK
<1>7. Tail(todo) = <<>>
  <2>1. Tail(todo) \in Seq(StepSet) /\ Len(Tail(todo)) = 0
    BY <1>5, <1>6
  <2>. QED  BY <2>1, EmptySeq
<1>8. Moves(Step, dat, dirs, dat, dirs, excused)
      /\ KitMoves(Step, kits.source, kits.bin, kits.stored, kits.bin, kits.stored)
  BY <1>3, NothingMoves
<1>9. QInv(Tail(todo), dat, dirs, excused, kits.source, kits.bin, kits.stored)
  BY <1>5, <1>8, DoneTaken DEF IInv, Left, FilesOK
<1>10. QInv(<<>>, dat, dirs, excused, NoSource, kits'.bin, kits'.stored)
  <2>1. dat \subseteq dirs \cup excused
    <3>1. QInv(<<>>, dat, dirs, excused, kits.source, kits.bin, kits.stored)
      BY <1>7, <1>9, Zenon
    <3>. QED  BY <3>1, IdleQueue
  <2>. QED  BY <2>1, IdleQueue
<1>11. Left'
  BY <1>1, <1>4, <1>7, <1>10 DEF Left, Done, KitKeep
<1>12. FilesOK'
  BY <1>1 DEF IInv, FilesOK, KitKeep
<1>13. Usable'
  BY <1>1, <1>4 DEF IInv, Usable, KitUsable, KitKeep, Current
<1>. QED  BY <1>11, <1>12, <1>13 DEF IInv
-----------------------------------------------------------------------------
(* Crashes and failed writes *)

\* What is cut has its versions excused.
LEMMA CutIsExcused ==
  ASSUME NEW q \in Seq(StepSet), NEW i \in 1 .. Len(q)
  PROVE  q[i].k \in (Cut(q) \ {NoKey, <<"">>}) \cup {NoKey}
<1>1. q[i].k \in Keys \cup {NoKey}
  BY StepType
<1>2. q[i].k \in Cut(q)
  <2>1. i \in DOMAIN q
    OBVIOUS
  <2>2. q[i].k \in CutStep(q[i])
    BY DEF CutStep
  <2>. QED  BY <2>1, <2>2 DEF Cut
<1>. QED  BY <1>1, <1>2, KeyIsNoOther

\* A command that is cut short leaves registered what it was to remove, and that is excused.
LEMMA CutLeft ==
  ASSUME IInv, ~Idle, Troubled, Stop, Excuse(todo), UNCHANGED files
  PROVE  IInv'
<1>1. todo \in Seq(StepSet) /\ dat \in SUBSET Keys
  BY DEF IInv, Left, QInv, QueueOK, FilesOK
<1>2. \A i \in 1 .. Len(todo) : todo[i].k \in excused' \cup {NoKey}
  BY <1>1, CutIsExcused DEF Excuse
<1>3. excused \subseteq excused'
  BY DEF Excuse
<1>4. QInv(<<>>, dat, dirs, excused', kits.source, kits.bin, kits.stored)
  BY <1>1, <1>2, <1>3, CutTaken, KeyIsNoOther DEF IInv, Left
<1>5. Left'
  BY <1>4 DEF Left, Stop, files
<1>6. FilesOK' /\ troubles' = troubles + 1 /\ kits' = kits
  BY BoundsAreNumbers DEF IInv, FilesOK, files, Stop, Troubled
<1>7. Usable'
  BY <1>6, UsableKept DEF IInv
<1>. QED  BY <1>5, <1>6, <1>7 DEF IInv

\* A crash cuts the running command short.
LEMMA Crash_OK ==
  ASSUME IInv, Crash
  PROVE  IInv'
  BY CutLeft DEF Crash

\* A failed write takes the rest of the command with it, or some steps for the same version.
LEMMA Fail_OK ==
  ASSUME IInv, Fail
  PROVE  IInv'
<1>1. CASE Step.loses = 0
  BY <1>1, CutLeft DEF Fail
<1>2. CASE Step.loses # 0
  <2>1. /\ todo' = SubSeq(todo, Step.loses + 1, Len(todo)) /\ UNCHANGED seen /\ Excuse(<<Step>>)
        /\ ~Idle /\ Troubled /\ UNCHANGED files
    BY <1>2 DEF Fail
  <2>2. /\ todo \in Seq(StepSet) /\ todo # <<>> /\ todo[1] = Step /\ Step \in StepSet
        /\ dat \in SUBSET Keys
    <3>1. Doing(Step.op)
      BY <2>1 DEF Doing
    <3>. QED  BY <3>1, FirstStep DEF IInv, FilesOK
  <2>3. Step.k \in excused' \cup {NoKey}
    <3>1. <<Step>> \in Seq(StepSet) /\ Len(<<Step>>) = 1 /\ <<Step>>[1] = Step /\ 1 \in 1 .. 1
      BY <2>2
    <3>2. Step.k \in (Cut(<<Step>>) \ {NoKey, <<"">>}) \cup {NoKey}
      <4> DEFINE s == <<Step>>
      <4> HIDE DEF s
      <4>1. s \in Seq(StepSet) /\ s[1] = Step /\ 1 \in 1 .. Len(s)
        BY <3>1 DEF s
      <4>2. s[1].k \in (Cut(s) \ {NoKey, <<"">>}) \cup {NoKey}
        BY <4>1, CutIsExcused
      <4>. QED  BY <4>1, <4>2 DEF s
    <3>. QED  BY <2>1, <3>2 DEF Excuse
  <2>4. excused \subseteq excused'
    BY <2>1 DEF Excuse
  <2>5. QInv(SubSeq(todo, Step.loses + 1, Len(todo)), dat, dirs, excused', kits.source, kits.bin,
             kits.stored)
    BY <1>2, <2>2, <2>3, <2>4, FailTaken, KeyIsNoOther DEF IInv, Left
  <2>6. Left'
    BY <2>1, <2>5 DEF Left, files
  <2>7. FilesOK' /\ troubles' = troubles + 1 /\ kits' = kits
    BY <2>1, BoundsAreNumbers DEF IInv, FilesOK, files, Troubled
  <2>8. Usable'
    BY <2>7, UsableKept DEF IInv
  <2>. QED  BY <2>6, <2>7, <2>8 DEF IInv
<1>. QED  BY <1>1, <1>2

-----------------------------------------------------------------------------
(* Commands that begin *)

\* Between commands what is registered is tracked.
LEMMA IdleTracked ==
  ASSUME Left, Idle
  PROVE  dat \subseteq dirs \cup excused
  BY IdleQueue DEF Left, Idle

\* A command begins that keeps what is registered and what the kits hold.
LEMMA LeftWhenBegun ==
  ASSUME IInv, Idle, FilesOK', dat' \subseteq dat, dirs' = dirs, kits' = kits,
         excused \subseteq excused', troubles' \in {troubles, troubles + 1},
         dat' \subseteq dirs' \cup excused' => QInv(todo', dat', dirs', excused', kits'.source, kits'.bin,
                                              kits'.stored)
  PROVE  IInv'
<1>1. dat' \subseteq dirs' \cup excused'
  BY IdleTracked DEF IInv
<1>2. Left'
  BY <1>1 DEF Left
<1>3. Usable'
  BY UsableKept DEF IInv
<1>. QED  BY <1>2, <1>3 DEF IInv

\* Steps may be left when they keep their shape and nothing is registered that is not tracked.
LEMMA QueueBegins ==
  ASSUME NEW q, NEW R, NEW D, NEW X, NEW c, NEW bin, NEW stored, R \subseteq D \cup X,
         QueueOK(q), PathsOK(q, D), DatsOK(q, D, X), DropsOK(q, R, X), KitQueueOK(q, c, bin, stored)
  PROVE  QInv(q, R, D, X, c, bin, stored)
<1>1. StrayOK(q, R, D, X)
  BY DEF StrayOK
<1>. QED  BY <1>1 DEF QInv, TrackInv

\* Steps that look, link, track and write an elm.json.
Calm(st) ==
  /\ ~Has(st, DropOps \cup KitOps) /\ (\A r \in st.rounds : RoundOK(r)) /\ st.op \notin {"path", "dat"}
  /\ st.loses = 0 \/ (st.loses = 1 /\ st.op # "loop")

\* Steps that lose no other step may fail in any order.
LEMMA SmallLosses ==
  ASSUME NEW q \in Seq(StepSet),
         \A i \in 1 .. Len(q) : q[i].loses = 0 \/ (q[i].loses = 1 /\ q[i].op # "loop")
  PROVE  Local(q)
<1> SUFFICES ASSUME NEW i \in 1 .. Len(q)
             PROVE  /\ i + q[i].loses <= Len(q) + 1
                    /\ \A h \in i .. i + q[i].loses - 1 : q[h].k = q[i].k /\ q[h].op # "loop"
  BY DEF Local
<1>1. Len(q) \in Nat /\ i \in Nat /\ i <= Len(q)
  OBVIOUS
<1>2. CASE q[i].loses = 0
  BY <1>1, <1>2
<1>3. CASE q[i].loses = 1 /\ q[i].op # "loop"
  <2>1. \A h \in i .. i + q[i].loses - 1 : h = i
    BY <1>1, <1>3
  <2>. QED  BY <1>1, <1>3, <2>1
<1>. QED  BY <1>2, <1>3

\* A command of such steps.
LEMMA CalmBegins ==
  ASSUME NEW q \in Seq(StepSet), \A i \in 1 .. Len(q) : Calm(q[i]),
         NEW R, NEW D, NEW X, NEW c, NEW bin, NEW stored, R \subseteq D \cup X
  PROVE  QInv(q, R, D, X, c, bin, stored)
<1>1. Local(q)
  BY SmallLosses DEF Calm
<1>2. \A i \in 1 .. Len(q) : ~Has(q[i], DropOps \cup KitOps)
  BY DEF Calm
<1>3. \A i \in 1 .. Len(q) : ~Has(q[i], DropOps) /\ ~Has(q[i], KitOps)
  BY <1>2, HasUnion
<1>4. \A i \in 1 .. Len(q) : \A r \in q[i].rounds : RoundOK(r)
  BY DEF Calm
<1>5. QueueOK(q)
  BY <1>1, <1>2, <1>4 DEF QueueOK
<1>6. PathsOK(q, D) /\ DatsOK(q, D, X)
  BY DEF PathsOK, DatsOK, Calm
<1>7. DropsOK(q, R, X)
  <2>1. \A i \in 1 .. Len(q) : q[i].op # "drop" /\ q[i].op # "drop_all"
    BY <1>3 DEF Has, DropOps
  <2>. QED  BY <2>1 DEF DropsOK, Removes
<1>8. KitQueueOK(q, c, bin, stored)
  BY <1>3, NoKitWork
<1>. QED  BY <1>5, <1>6, <1>7, <1>8, QueueBegins

\* A step outside loops that looks, links, tracks or writes an elm.json.
LEMMA CalmPlain ==
  ASSUME NEW a \in PlainSteps, a.op \in CalmOps, a.loses \in {0, 1}
  PROVE  a \in StepSet /\ Calm(a)
<1>1. a \in StepSet /\ a.rounds = {} /\ a.op # "loop"
  BY PlainType
<1>2. a.op \notin DropOps \cup KitOps /\ a.op \notin {"path", "dat"}
  BY DEF CalmOps
<1>3. ~Has(a, DropOps \cup KitOps)
  BY <1>1, <1>2 DEF Has
<1>. QED  BY <1>1, <1>2, <1>3 DEF Calm

\* A command of nothing, as an edit is.
LEMMA NothingBegins ==
  ASSUME NEW R, NEW D, NEW X, NEW c, NEW bin, NEW stored, R \subseteq D \cup X
  PROVE  QInv(<<>>, R, D, X, c, bin, stored)
  BY IdleQueue

\* A command of one step.
LEMMA OneBegins ==
  ASSUME NEW a \in StepSet, Calm(a),
         NEW R, NEW D, NEW X, NEW c, NEW bin, NEW stored, R \subseteq D \cup X
  PROVE  QInv(<<a>>, R, D, X, c, bin, stored)
<1> DEFINE q == <<a>>
<1>1. q \in Seq(StepSet) /\ \A i \in 1 .. Len(q) : q[i] = a
  OBVIOUS
<1> HIDE DEF q
<1>2. QInv(q, R, D, X, c, bin, stored)
  BY <1>1, CalmBegins
<1>. QED  BY <1>2 DEF q

\* A command of two steps.
LEMMA TwoBegin ==
  ASSUME NEW a \in StepSet, Calm(a), NEW b \in StepSet, Calm(b),
         NEW R, NEW D, NEW X, NEW c, NEW bin, NEW stored, R \subseteq D \cup X
  PROVE  QInv(<<a, b>>, R, D, X, c, bin, stored)
<1> DEFINE q == <<a, b>>
<1>1. q \in Seq(StepSet) /\ \A i \in 1 .. Len(q) : q[i] = a \/ q[i] = b
  OBVIOUS
<1> HIDE DEF q
<1>2. \A i \in 1 .. Len(q) : Calm(q[i])
  BY <1>1
<1>3. QInv(q, R, D, X, c, bin, stored)
  BY <1>1, <1>2, CalmBegins
<1>. QED  BY <1>3 DEF q

-----------------------------------------------------------------------------
(* Edits between commands, and commands in applications and packages *)

\* A command begins that has changed no file so far.
LEMMA CommandBegun ==
  ASSUME IInv, NEW command, NEW q, Begin(command, q), Keep(files),
         \A R, D, X, c, bin, stored : R \subseteq D \cup X => QInv(q, R, D, X, c, bin, stored)
  PROVE  IInv'
<1>1. /\ Idle /\ todo' = q /\ seen' = {} /\ UNCHANGED files /\ UNCHANGED <<excused, troubles>>
  BY DEF Begin, Keep
<1>2. FilesOK'
  BY <1>1 DEF IInv, FilesOK, files
<1>3. dat' = dat /\ dirs' = dirs /\ kits' = kits
  BY <1>1 DEF files
<1>. QED  BY <1>1, <1>2, <1>3, LeftWhenBegun

\* The fields of a source that an edit may change.
LEMMA SourceType ==
  ASSUME IInv, NEW n \in Names
  PROVE  /\ source[n] \in [there : BOOLEAN, version : Versions, needs : SUBSET Packages,
                           code : 1 .. MaxCode]
         /\ app \in [Apps -> Json] /\ dat \in SUBSET Keys /\ dirs \in SUBSET Keys
  BY DEF IInv, FilesOK

\* Edits that begin nothing keep what is tracked.
LEMMA EditBegun ==
  ASSUME IInv, NEW command, Begin(command, <<>>), dat' \subseteq dat, dirs' = dirs, kits' = kits,
         excused \subseteq excused', troubles' \in {troubles, troubles + 1}, FilesOK'
  PROVE  IInv'
<1>1. Idle /\ todo' = <<>>
  BY DEF Begin
<1>2. dat' \subseteq dirs' \cup excused' =>
        QInv(todo', dat', dirs', excused', kits'.source, kits'.bin, kits'.stored)
  BY <1>1, NothingBegins
<1>. QED  BY <1>1, <1>2, LeftWhenBegun

\* Code is edited.
LEMMA Edit_OK ==
  ASSUME IInv, NEW n \in Names, Edit(n)
  PROVE  IInv'
<1>1. /\ Begin("edit", <<>>) /\ source[n].code < MaxCode
      /\ source' = [source EXCEPT ![n].code = source[n].code + 1]
      /\ Keep(<<link, dirs, path, tracked, text, dat, app, art, stuff>>)
  BY DEF Edit
<1>2. source[n].code + 1 \in 1 .. MaxCode
  BY <1>1, SourceType, BoundsAreNumbers
<1> DEFINE m == source[n].code + 1
<1> HIDE DEF m
<1>3. FilesOK'
  <2>1. source' = [source EXCEPT ![n].code = m] /\ m \in 1 .. MaxCode
    BY <1>1, <1>2 DEF m
  <2>2. source' \in [Names -> [there : BOOLEAN, version : Versions, needs : SUBSET Packages,
                               code : 1 .. MaxCode]]
    <3> DEFINE Codes == 1 .. MaxCode
    <3>1. m \in Codes
      BY <2>1
    <3>2. source \in [Names -> [there : BOOLEAN, version : Versions, needs : SUBSET Packages,
                                 code : Codes]]
      BY DEF IInv, FilesOK
    <3> HIDE DEF Codes
    <3>3. [source[n] EXCEPT !.code = m] \in
            [there : BOOLEAN, version : Versions, needs : SUBSET Packages, code : Codes]
      BY <3>1, <3>2
    <3>4. source' = [source EXCEPT ![n] = [source[n] EXCEPT !.code = m]]
      BY <2>1
    <3>5. source' \in [Names -> [there : BOOLEAN, version : Versions, needs : SUBSET Packages,
                                  code : Codes]]
      BY <3>2, <3>3, <3>4
    <3>. QED  BY <3>5 DEF Codes
  <2>. QED  BY <1>1, <2>2 DEF IInv, FilesOK, Keep, Begin
<1>. QED  BY <1>1, <1>3, EditBegun DEF Keep

\* The version is raised or lowered.
LEMMA Bump_OK ==
  ASSUME IInv, NEW n \in Names, NEW v \in Versions, Bump(n, v)
  PROVE  IInv'
<1> DEFINE Dirs == [there : BOOLEAN, version : Versions, needs : SUBSET Packages, code : 1 .. MaxCode]
           raised == [source[n] EXCEPT !.version = v]
<1>1. source' \in [Names -> Dirs]
  <2>1. source' = [source EXCEPT ![n] = raised]
    BY DEF Bump
  <2>2. source \in [Names -> Dirs] /\ source[n] \in Dirs
    BY DEF IInv, FilesOK
  <2>3. raised \in Dirs
    BY <2>2
  <2> HIDE DEF Dirs, raised
  <2>. QED  BY <2>1, <2>2, <2>3
<1>2. FilesOK'
  BY <1>1 DEF IInv, FilesOK, Bump, Begin, Keep
<1>. QED  BY <1>2, EditBegun DEF Bump, Keep

\* The directory is moved away or back.
LEMMA Move_OK ==
  ASSUME IInv, NEW n \in Names, Move(n)
  PROVE  IInv'
<1>1. troubles' \in 0 .. MaxTroubles /\ troubles' = troubles + 1
  BY BoundsAreNumbers DEF IInv, FilesOK, Move, Troubled
<1>2. source' \in [Names -> [there : BOOLEAN, version : Versions, needs : SUBSET Packages,
                             code : 1 .. MaxCode]]
  <2> DEFINE Dirs == [there : BOOLEAN, version : Versions, needs : SUBSET Packages, code : 1 .. MaxCode]
             moved == [source[n] EXCEPT !.there = ~source[n].there]
  <2>1. source' = [source EXCEPT ![n] = moved]
    BY DEF Move
  <2>2. source \in [Names -> Dirs] /\ source[n] \in Dirs
    BY DEF IInv, FilesOK
  <2>3. moved \in Dirs
    BY <2>2
  <2> HIDE DEF Dirs, moved
  <2>4. source' \in [Names -> Dirs]
    BY <2>1, <2>2, <2>3
  <2>. QED  BY <2>4 DEF Dirs
<1>3. FilesOK'
  BY <1>1, <1>2 DEF IInv, FilesOK, Move, Begin
<1>. QED  BY <1>1, <1>3, EditBegun DEF Move

\* A link is replaced by a copy, or goes.
LEMMA Replace_OK ==
  ASSUME IInv, NEW k \in Keys, NEW by \in {"copy", "none"}, Replace(k, by)
  PROVE  IInv'
<1>1. troubles' \in 0 .. MaxTroubles /\ troubles' = troubles + 1
  BY BoundsAreNumbers DEF IInv, FilesOK, Replace, Troubled
<1>2. FilesOK'
  BY <1>1 DEF IInv, FilesOK, Replace, Begin
<1>. QED  BY <1>1, <1>2, EditBegun DEF Replace

\* registry.dat is downloaded again.
LEMMA ResetRegistry_OK ==
  ASSUME IInv, ResetRegistry
  PROVE  IInv'
<1>1. FilesOK'
  BY DEF IInv, FilesOK, ResetRegistry, Begin, Keep
<1>. QED  BY <1>1, EditBegun DEF ResetRegistry, Keep

\* An elm.json is written.
LEMMA CalmWrite ==
  ASSUME NEW a \in Apps, NEW j \in Json
  PROVE  Write(a, j) \in StepSet /\ Calm(Write(a, j))
<1>1. Write(a, j) \in PlainSteps /\ Write(a, j).op = "elm_json" /\ Write(a, j).loses = 0
  BY WriteType
<1>2. "elm_json" \in CalmOps
  BY DEF CalmOps, Ops, KeyOps, AppOps, DropOps, KitOps
<1>. QED  BY <1>1, <1>2, CalmPlain

\* A loop of calm rounds is a calm step.
LEMMA CalmLoopStep ==
  ASSUME NEW rounds \in SUBSET Seq(PlainSteps),
         \A r \in rounds : Local(r) /\ \A p \in 1 .. Len(r) : r[p].op \in CalmOps
  PROVE  Loop(rounds) \in StepSet /\ Calm(Loop(rounds))
  BY CalmLoop DEF Calm

\* A step about a version and an application that tracks it.
LEMMA ForApplication ==
  ASSUME NEW k \in Keys, NEW a \in Apps
  PROVE  \A op \in {"track", "track_if", "untrack", "refresh", "prune"} :
           /\ For(op, k, a) \in PlainSteps /\ For(op, k, a).op = op /\ For(op, k, a).k = k
           /\ For(op, k, a).loses = 0 /\ op \in CalmOps
<1> SUFFICES ASSUME NEW op \in {"track", "track_if", "untrack", "refresh", "prune"}
             PROVE  /\ For(op, k, a) \in PlainSteps /\ For(op, k, a).op = op
                    /\ For(op, k, a).k = k /\ For(op, k, a).loses = 0 /\ op \in CalmOps
  OBVIOUS
<1>1. /\ op \in Ops /\ op # "loop" /\ op # "install_package" /\ op \notin ToolOps
      /\ op \in CalmOps
  BY DEF CalmOps, Ops, KeyOps, ToolOps, DropOps, KitOps
<1>2. a \in Labels
  BY DEF Labels
<1>3. For(op, k, a) \in PlainSteps
  BY <1>1, <1>2, NoJsonType DEF For, Made, PlainSteps, Fits
<1>. QED  BY <1>1, <1>3 DEF For, Made

\* Links are repaired and applications tracked.
LEMMA EnsureAndTrackType ==
  ASSUME NEW a \in Apps, NEW changes
  PROVE  EnsureAndTrack(a, changes) \in StepSet /\ Calm(EnsureAndTrack(a, changes))
<1> DEFINE first(k) == Try("ensure", k)
           second(k) == Losing(1, For("track_if", k, a))
           rounds == {<<first(k), second(k)>> : k \in changes \cap Keys}
<1>1. ASSUME NEW k \in Keys
      PROVE  /\ <<first(k), second(k)>> \in Seq(PlainSteps) /\ Local(<<first(k), second(k)>>)
             /\ \A p \in 1 .. Len(<<first(k), second(k)>>) : <<first(k), second(k)>>[p].op \in CalmOps
  <2>1. /\ \A op \in {"ensure", "track_if"} : op \in Ops /\ op \in CalmOps /\ op \notin ToolOps
        /\ "ensure" \notin AppOps
    BY DEF CalmOps, Ops, KeyOps, AppOps, ToolOps, DropOps, KitOps
  <2>2. Do("ensure", k) \in PlainSteps /\ Do("ensure", k).op = "ensure"
    BY <2>1, DoType
  <2>4. For("track_if", k, a) \in PlainSteps /\ For("track_if", k, a).op = "track_if"
    BY ForApplication
  <2>5. 1 \in Nat /\ 1 \in {0, 1}
    OBVIOUS
  <2>6. first(k) \in PlainSteps /\ first(k).op = "ensure" /\ first(k).loses = 1
    BY <2>2, <2>5, LosingType DEF Try
  <2>7. second(k) \in PlainSteps /\ second(k).op = "track_if" /\ second(k).loses = 1
    BY <2>4, <2>5, LosingType
  <2> DEFINE x == first(k)
             y == second(k)
  <2>8. /\ x \in PlainSteps /\ x.op = "ensure" /\ x.loses = 1
        /\ y \in PlainSteps /\ y.op = "track_if" /\ y.loses = 1
    BY <2>6, <2>7
  <2> HIDE DEF x, y, first, second
  <2>9. x \in StepSet /\ y \in StepSet
    BY <2>8, PlainType
  <2>10. /\ <<x, y>> \in Seq(PlainSteps) /\ Local(<<x, y>>)
         /\ Len(<<x, y>>) = 2 /\ <<x, y>>[1] = x /\ <<x, y>>[2] = y
    BY <2>8, <2>9, TwoSteps
  <2>11. \A p \in 1 .. 2 : <<x, y>>[p].op \in CalmOps
    <3>. SUFFICES ASSUME NEW p \in 1 .. 2 PROVE <<x, y>>[p].op \in CalmOps
      OBVIOUS
    <3>1. p = 1 \/ p = 2
      OBVIOUS
    <3>. QED  BY <2>1, <2>8, <2>10, <3>1
  <2>12. <<x, y>> \in Seq(PlainSteps) /\ Local(<<x, y>>)
         /\ \A p \in 1 .. Len(<<x, y>>) : <<x, y>>[p].op \in CalmOps
    BY <2>10, <2>11
  <2>. QED  BY <2>12 DEF x, y
<1> HIDE DEF first, second
<1>2. rounds \in SUBSET Seq(PlainSteps)
  BY <1>1
<1>3. \A r \in rounds : Local(r) /\ \A p \in 1 .. Len(r) : r[p].op \in CalmOps
  BY <1>1
<1>4. EnsureAndTrack(a, changes) = Loop(rounds)
  BY DEF EnsureAndTrack, first, second
<1> HIDE DEF rounds
<1>. QED  BY <1>2, <1>3, <1>4, CalmLoopStep

\* wrap install writes elm.json and repairs and tracks what it added.
LEMMA install_package_OK ==
  ASSUME IInv, NEW a \in Apps, NEW n, install_package(a, n)
  PROVE  IInv'
<1> DEFINE changes == Changes(app[a], {n})
           j == [direct |-> app[a].direct \cup {e \in changes : e[1] = n},
                 indirect |-> app[a].indirect \cup {e \in changes : e[1] # n}]
           q == <<Write(a, j), EnsureAndTrack(a, changes)>>
<1>1. Begin("install", q) /\ Keep(files) /\ Solvable(app[a], {n})
  BY DEF install_package
<1>2. app[a] \in Json
  BY DEF IInv, FilesOK
<1>3. changes \subseteq Entries
  BY <1>1, <1>2, ChangesType DEF IInv
<1> HIDE DEF changes
<1>4. j \in Json
  <2>1. /\ app[a].direct \cup {e \in changes : e[1] = n} \in SUBSET Entries
        /\ app[a].indirect \cup {e \in changes : e[1] # n} \in SUBSET Entries
    BY <1>2, <1>3, JsonType
  <2>. QED  BY <2>1, JsonOf
<1> HIDE DEF j
<1>5. \A R, D, X, c, bin, stored : R \subseteq D \cup X => QInv(q, R, D, X, c, bin, stored)
  BY <1>4, CalmWrite, EnsureAndTrackType, TwoBegin
<1> HIDE DEF q
<1>. QED  BY <1>1, <1>5, CommandBegun

\* wrap remove writes elm.json.
LEMMA remove_package_OK ==
  ASSUME IInv, NEW a \in Apps, NEW n, remove_package(a, n)
  PROVE  IInv'
<1> DEFINE e == <<n, VersionIn(app[a], n)>>
           demoted == [direct |-> app[a].direct \ {e}, indirect |-> app[a].indirect \cup {e}]
           j == [demoted EXCEPT !.indirect = demoted.indirect \ Orphans(demoted)]
           q == <<Write(a, j)>>
<1>1. Begin("remove", q) /\ Keep(files) /\ \E d \in app[a].direct : d[1] = n
  BY DEF remove_package
<1>2. app[a] \in Json
  BY DEF IInv, FilesOK
<1>3. e \in Entries
  <2>1. n \in Listed(app[a])
    BY <1>1 DEF Listed
  <2>. QED  BY <1>2, <2>1, VersionInType
<1> HIDE DEF e
<1>4. demoted \in Json
  <2>1. app[a].direct \ {e} \in SUBSET Entries /\ app[a].indirect \cup {e} \in SUBSET Entries
    BY <1>2, <1>3, JsonType
  <2>. QED  BY <2>1, JsonOf
<1> HIDE DEF demoted
<1>5. j \in Json
  <2>1. demoted.indirect \ Orphans(demoted) \in SUBSET Entries
    BY <1>4, JsonType
  <2>. QED  BY <1>4, <2>1, JsonExcept
<1> HIDE DEF j
<1>6. \A R, D, X, c, bin, stored : R \subseteq D \cup X => QInv(q, R, D, X, c, bin, stored)
  BY <1>5, CalmWrite, OneBegins
<1> HIDE DEF q
<1>. QED  BY <1>1, <1>6, CommandBegun

\* wrap install of a listed package repairs its link and may write elm.json.
LEMMA install_listed_OK ==
  ASSUME IInv, NEW a \in Apps, NEW n, install_listed(a, n)
  PROVE  IInv'
<1> DEFINE k == <<n, VersionIn(app[a], n)>>
           j == [direct |-> app[a].direct \cup {k}, indirect |-> app[a].indirect \ {k}]
           x == Do("ensure", k)
           y == Write(a, j)
           rest == IF k \in app[a].direct THEN <<>> ELSE <<y>>
           q == <<x>> \o rest
<1>1. Begin("install", q) /\ Keep(files) /\ n \in Listed(app[a]) /\ n \in Names
  BY DEF install_listed
<1>2. app[a] \in Json
  BY DEF IInv, FilesOK
<1>3. k \in Keys /\ k \in Entries
  BY <1>1, <1>2, VersionInType
<1> HIDE DEF k
<1>4. y \in StepSet /\ Calm(y)
  <2>1. app[a].direct \cup {k} \in SUBSET Entries /\ app[a].indirect \ {k} \in SUBSET Entries
    BY <1>2, <1>3, JsonType
  <2>2. j \in Json
    BY <2>1, JsonOf
  <2> HIDE DEF j
  <2>. QED  BY <2>2, CalmWrite
<1>5. x \in StepSet /\ Calm(x)
  <2>1. x \in PlainSteps /\ x.loses = 0 /\ x.op = "ensure"
    BY <1>3, MakeStep
  <2>2. "ensure" \in CalmOps
    BY DEF CalmOps, Ops, KeyOps, DropOps, KitOps
  <2> HIDE DEF x
  <2>. QED  BY <2>1, <2>2, CalmPlain
<1> HIDE DEF x, y
<1>6. q \in Seq(StepSet) /\ \A i \in 1 .. Len(q) : Calm(q[i])
  <2>1. rest \in Seq(StepSet) /\ \A i \in 1 .. Len(rest) : Calm(rest[i])
    <3>1. CASE k \in app[a].direct
      <4>1. rest = <<>>
        BY <3>1
      <4>. HIDE DEF rest
      <4>. QED  BY <4>1, NoSteps
    <3>2. CASE k \notin app[a].direct
      <4>1. <<y>> \in Seq(StepSet) /\ Len(<<y>>) = 1 /\ <<y>>[1] = y
        BY <1>4
      <4>. QED  BY <1>4, <3>2, <4>1
    <3>. QED  BY <3>1, <3>2
  <2>2. <<x>> \in Seq(StepSet) /\ Len(<<x>>) = 1 /\ <<x>>[1] = x
    BY <1>5
  <2> HIDE DEF rest
  <2>3. /\ q \in Seq(StepSet) /\ Len(q) = Len(rest) + 1 /\ Len(rest) \in Nat /\ q[1] = x
        /\ \A i \in 2 .. Len(q) : q[i] = rest[i - 1] /\ i - 1 \in 1 .. Len(rest)
    BY <2>1, <2>2
  <2> HIDE DEF q
  <2>. QED  BY <1>5, <2>1, <2>3
<1> HIDE DEF q
<1>7. \A R, D, X, c, bin, stored : R \subseteq D \cup X => QInv(q, R, D, X, c, bin, stored)
  BY <1>6, CalmBegins
<1>. QED  BY <1>1, <1>7, CommandBegun

\* A loop of single steps for versions and applications.
LEMMA ConnectionLoop ==
  ASSUME NEW op \in {"untrack", "refresh", "prune"}, NEW rounds,
         \A r \in rounds : \E k \in Keys, a \in Apps : r = <<For(op, k, a)>>
  PROVE  Loop(rounds) \in StepSet /\ Calm(Loop(rounds))
<1>1. ASSUME NEW k \in Keys, NEW a \in Apps
      PROVE  /\ <<For(op, k, a)>> \in Seq(PlainSteps) /\ Local(<<For(op, k, a)>>)
             /\ \A p \in 1 .. Len(<<For(op, k, a)>>) : <<For(op, k, a)>>[p].op \in CalmOps
  <2> DEFINE x == For(op, k, a)
  <2>1. \A o \in {"track", "track_if", "untrack", "refresh", "prune"} :
           /\ For(o, k, a) \in PlainSteps /\ For(o, k, a).op = o /\ For(o, k, a).k = k
           /\ For(o, k, a).loses = 0 /\ o \in CalmOps
    BY ForApplication
  <2>2. x \in PlainSteps /\ x.op = op /\ x.loses = 0 /\ op \in CalmOps
    BY <2>1
  <2> HIDE DEF x
  <2>3. x \in StepSet
    BY <2>2, PlainType
  <2>4. /\ <<x>> \in Seq(PlainSteps) /\ Local(<<x>>)
        /\ \A p \in 1 .. Len(<<x>>) : <<x>>[p].op \in CalmOps
    BY <2>2, <2>3, OneStep
  <2>. QED  BY <2>4 DEF x
<1>2. ASSUME NEW r \in rounds
      PROVE  /\ r \in Seq(PlainSteps) /\ Local(r)
             /\ \A p \in 1 .. Len(r) : r[p].op \in CalmOps
  <2>1. PICK k \in Keys, a \in Apps : r = <<For(op, k, a)>>
    OBVIOUS
  <2>. QED  BY <1>1, <2>1
<1>. QED  BY <1>2, CalmLoopStep

\* Listing takes away connections.
LEMMA prune_stale_local_dev_connections_OK ==
  ASSUME IInv, prune_stale_local_dev_connections
  PROVE  IInv'
<1> DEFINE stale == {c \in Keys \X Apps : /\ c[2] \in tracked[c[1]]
                                          /\ \A e \in app[c[2]].direct : e[1] # c[1][1]}
           x == Loop({<<For("untrack", c[1], c[2])>> : c \in stale})
           q == <<x>>
<1>1. Begin("list", q) /\ Keep(files)
  BY DEF prune_stale_local_dev_connections
<1>2. stale \in SUBSET (Keys \X Apps)
  OBVIOUS
<1> HIDE DEF stale
<1>3. x \in StepSet /\ Calm(x)
  <2> DEFINE rounds == {<<For("untrack", c[1], c[2])>> : c \in stale}
  <2>1. \A r \in rounds : \E k \in Keys, a \in Apps : r = <<For("untrack", k, a)>>
    BY <1>2
  <2> HIDE DEF rounds
  <2>2. \A op \in {"untrack"} :
          (\A r \in rounds : \E k \in Keys, a \in Apps : r = <<For(op, k, a)>>)
            => Loop(rounds) \in StepSet /\ Calm(Loop(rounds))
    BY ConnectionLoop
  <2>3. Loop(rounds) \in StepSet /\ Calm(Loop(rounds))
    BY <2>1, <2>2
  <2>. QED  BY <2>3 DEF rounds
<1> HIDE DEF x
<1>4. \A R, D, X, c, bin, stored : R \subseteq D \cup X => QInv(q, R, D, X, c, bin, stored)
  BY <1>3, OneBegins
<1> HIDE DEF q
<1>. QED  BY <1>1, <1>4, CommandBegun

\* One connection is taken away.
LEMMA clear_path_tracking_OK ==
  ASSUME IInv, NEW k \in Keys, NEW a \in Apps, clear_path_tracking(k, a)
  PROVE  IInv'
<1> DEFINE x == For("untrack", k, a)
           q == <<x>>
<1>1. Begin("clear path", q) /\ Keep(files)
  BY DEF clear_path_tracking
<1>2. x \in StepSet /\ Calm(x)
  <2>1. x \in PlainSteps /\ x.op = "untrack" /\ x.loses = 0 /\ "untrack" \in CalmOps
    BY ForApplication
  <2> HIDE DEF x
  <2>. QED  BY <2>1, CalmPlain
<1> HIDE DEF x
<1>3. \A R, D, X, c, bin, stored : R \subseteq D \cup X => QInv(q, R, D, X, c, bin, stored)
  BY <1>2, OneBegins
<1> HIDE DEF q
<1>. QED  BY <1>1, <1>3, CommandBegun

\* The applications that track a version are a step's work.
LEMMA DependentsType ==
  ASSUME IInv, NEW op \in {"refresh", "prune"}, NEW k \in dirs \cup {NoKey},
         NEW R, NEW D, NEW X, NEW c, NEW bin, NEW stored, R \subseteq D \cup X
  PROVE  QInv(Dependents(op, k), R, D, X, c, bin, stored)
<1> DEFINE A == IF k = NoKey THEN {} ELSE tracked[k]
           rounds == {<<For(op, k, a)>> : a \in A}
           x == Loop(rounds)
<1>1. k \in Keys \/ A = {}
  BY DEF IInv, FilesOK
<1>2. A \in SUBSET Apps
  BY <1>1 DEF IInv, FilesOK
<1>3. Dependents(op, k) = <<x>>
  BY DEF Dependents
<1> HIDE DEF A
<1>4. \A r \in rounds : \E l \in Keys, a \in Apps : r = <<For(op, l, a)>>
  BY <1>1, <1>2
<1> HIDE DEF rounds
<1>5. x \in StepSet /\ Calm(x)
  BY <1>4, ConnectionLoop
<1> HIDE DEF x
<1>. QED  BY <1>3, <1>5, OneBegins

\* What the package needs changes, then its applications follow.
LEMMA NeedsChange ==
  ASSUME IInv, NEW n \in Names, NEW needs \in SUBSET Packages, NEW command,
         NEW op \in {"refresh", "prune"}, NEW k \in dirs \cup {NoKey},
         Begin(command, Dependents(op, k)), source' = [source EXCEPT ![n].needs = needs],
         excused \subseteq excused',
         UNCHANGED <<link, dirs, path, tracked, text, dat, app, art, stuff, kits, troubles>>
  PROVE  IInv'
<1>1. todo' = Dependents(op, k) /\ Idle /\ seen' = {}
  BY DEF Begin
<1>2. FilesOK'
  BY <1>1 DEF IInv, FilesOK
<1>3. dat' \subseteq dirs' \cup excused' =>
        QInv(todo', dat', dirs', excused', kits'.source, kits'.bin, kits'.stored)
  BY <1>1, DependentsType
<1>. QED  BY <1>1, <1>2, <1>3, LeftWhenBegun

\* A package gains a need.
LEMMA refresh_local_dev_dependents_OK ==
  ASSUME IInv, NEW n \in Names, NEW m \in Packages, refresh_local_dev_dependents(n, m)
  PROVE  IInv'
<1>1. PICK k \in dirs \cup {NoKey} :
        /\ Begin("add need", Dependents("refresh", k))
        /\ excused' = excused \cup PassedOver(n, k)
  BY DEF refresh_local_dev_dependents
<1> DEFINE needs == source[n].needs \cup {m}
<1>2. needs \in SUBSET Packages
  BY SourceType
<1>3. /\ source' = [source EXCEPT ![n].needs = needs]
      /\ UNCHANGED <<link, dirs, path, tracked, text, dat, app, art, stuff, kits, troubles>>
  BY DEF refresh_local_dev_dependents
<1> HIDE DEF needs
<1>4. \A op \in {"refresh"} : Begin("add need", Dependents(op, k)) => IInv'
  BY <1>1, <1>2, <1>3, NeedsChange
<1>. QED  BY <1>1, <1>4

\* A package loses a need.
LEMMA prune_local_dev_dependents_OK ==
  ASSUME IInv, NEW n \in Names, NEW m \in Packages, prune_local_dev_dependents(n, m)
  PROVE  IInv'
<1>1. PICK k \in dirs \cup {NoKey} : Begin("drop need", Dependents("prune", k))
  BY DEF prune_local_dev_dependents
<1> DEFINE needs == source[n].needs \ {m}
<1>2. needs \in SUBSET Packages
  BY SourceType
<1>3. /\ source' = [source EXCEPT ![n].needs = needs]
      /\ UNCHANGED <<link, dirs, path, tracked, text, dat, app, art, stuff, kits, troubles>>
      /\ excused' = excused
  BY DEF prune_local_dev_dependents, Keep
<1> HIDE DEF needs
<1>4. \A op \in {"prune"} : Begin("drop need", Dependents(op, k)) => IInv'
  BY <1>1, <1>2, <1>3, NeedsChange
<1>. QED  BY <1>1, <1>4

\* wrap make fetches, compiles, cleans and builds.
LEMMA cmd_make_OK ==
  ASSUME IInv, NEW a \in Apps, cmd_make(a)
  PROVE  IInv'
<1> DEFINE b == Each("fetch", ListedKeys(app[a]))
           c == Do("reinsert", NoKey)
           d == Each("compile", TrackedBy(a))
           e == Losing(1, For("clean", NoKey, a))
           f == For("build", NoKey, a)
           q == <<b, c, d, e, f>>
<1>1. Begin("make", q) /\ Keep(files)
  BY DEF cmd_make
<1>2. ListedKeys(app[a]) \in SUBSET Keys /\ TrackedBy(a) \in SUBSET Keys
  BY DEF ListedKeys, TrackedBy
<1>3. b \in StepSet /\ Calm(b) /\ d \in StepSet /\ Calm(d)
  <2>1. \A op \in {"fetch", "compile"}, S \in SUBSET Keys : Each(op, S) \in StepSet /\ Calm(Each(op, S))
    BY EachType DEF Calm
  <2>. QED  BY <1>2, <2>1
<1>4. c \in StepSet /\ Calm(c)
  <2>1. c \in PlainSteps /\ c.op = "reinsert" /\ c.loses = 0
    BY MakeStep
  <2>2. "reinsert" \in CalmOps
    BY DEF CalmOps, Ops, OtherOps, DropOps, KitOps
  <2> HIDE DEF c
  <2>. QED  BY <2>1, <2>2, CalmPlain
<1>5. \A op \in {"clean", "build"} :
        /\ For(op, NoKey, a) \in PlainSteps /\ For(op, NoKey, a).loses = 0
        /\ For(op, NoKey, a).op = op /\ op \in CalmOps
  <2>. SUFFICES ASSUME NEW op \in {"clean", "build"}
                PROVE  /\ For(op, NoKey, a) \in PlainSteps /\ For(op, NoKey, a).loses = 0
                       /\ For(op, NoKey, a).op = op /\ op \in CalmOps
    OBVIOUS
  <2>1. /\ op \in Ops /\ op # "loop" /\ op # "install_package" /\ op \notin ToolOps
        /\ op \in CalmOps /\ op \notin KeyOps /\ op # "ensure" /\ op # "track_if"
    BY DEF CalmOps, Ops, OtherOps, AppOps, KeyOps, ToolOps, DropOps, KitOps
  <2>2. a \in Labels
    BY DEF Labels
  <2>3. For(op, NoKey, a) \in PlainSteps
    BY <2>1, <2>2, NoJsonType DEF For, Made, PlainSteps, Fits
  <2>. QED  BY <2>1, <2>3 DEF For, Made
<1>6. f \in StepSet /\ Calm(f)
  BY <1>5, CalmPlain
<1>7. e \in StepSet /\ Calm(e)
  <2>1. For("clean", NoKey, a) \in PlainSteps /\ For("clean", NoKey, a).op = "clean" /\ "clean" \in CalmOps
    BY <1>5
  <2>2. 1 \in Nat /\ "clean" \notin {"ensure", "track_if"}
    OBVIOUS
  <2>3. e \in PlainSteps /\ e.op = "clean" /\ e.loses = 1
    BY <2>1, <2>2, LosingType
  <2> HIDE DEF e
  <2>. QED  BY <2>1, <2>3, CalmPlain
<1> HIDE DEF b, c, d, e, f
<1>8. /\ q \in Seq(StepSet) /\ Len(q) = 5 /\ q[1] = b /\ q[2] = c /\ q[3] = d /\ q[4] = e /\ q[5] = f
  BY <1>3, <1>4, <1>6, <1>7
<1> HIDE DEF q
<1>9. \A i \in 1 .. Len(q) : Calm(q[i])
  <2>. SUFFICES ASSUME NEW i \in 1 .. 5 PROVE Calm(q[i])
    BY <1>8
  <2>1. i = 1 \/ i = 2 \/ i = 3 \/ i = 4 \/ i = 5
    OBVIOUS
  <2>. QED  BY <1>3, <1>4, <1>6, <1>7, <1>8, <2>1
<1>10. \A R, D, X, s, bin, stored : R \subseteq D \cup X => QInv(q, R, D, X, s, bin, stored)
  BY <1>8, <1>9, CalmBegins
<1>. QED  BY <1>1, <1>10, CommandBegun

-----------------------------------------------------------------------------
(* Registering *)

\* The first six steps register the version.
Registers(q, k) ==
  /\ Len(q) >= 6
  /\ \A i \in 1 .. 6 : q[i] \in PlainSteps /\ q[i].k = k
  /\ q[1].op = "unlink" /\ q[2].op = "symlink" /\ q[3].op = "open_path" /\ q[4].op = "path"
  /\ q[5].op = "text" /\ q[6].op = "dat"
  /\ q[3].loses = 2 /\ q[4].loses = 1 /\ q[5].loses = 1 /\ q[6].loses = 1

\* Ways to put sequences together.
Joined(t, s, rest) == t = s \o rest
LinkedAndFiled(s, a, b, k) == s = <<a, b>> \o RegisterFiles(k)

\* Two sequences of steps, put together.
LEMMA JoinedType ==
  ASSUME NEW s \in Seq(StepSet), NEW rest \in Seq(StepSet), NEW t, Joined(t, s, rest)
  PROVE  /\ t \in Seq(StepSet) /\ Len(t) = Len(s) + Len(rest) /\ Len(s) \in Nat /\ Len(rest) \in Nat
         /\ \A i \in 1 .. Len(s) + Len(rest) : t[i] = IF i <= Len(s) THEN s[i] ELSE rest[i - Len(s)]
<1>1. /\ s \o rest \in Seq(StepSet) /\ Len(s \o rest) = Len(s) + Len(rest)
      /\ \A i \in 1 .. Len(s) + Len(rest) : (s \o rest)[i] = IF i <= Len(s) THEN s[i] ELSE rest[i - Len(s)]
  BY ConcatProperties
<1>2. /\ t \in Seq(StepSet) /\ Len(t) = Len(s) + Len(rest)
      /\ \A i \in 1 .. Len(s) + Len(rest) : t[i] = IF i <= Len(s) THEN s[i] ELSE rest[i - Len(s)]
  BY <1>1, Zenon DEF Joined
<1>3. Len(s) \in Nat /\ Len(rest) \in Nat
  OBVIOUS
<1>. QED  BY <1>2, <1>3

\* A sequence of plain steps.
LEMMA PlainSequence ==
  ASSUME NEW s \in Seq(StepSet), \A i \in 1 .. Len(s) : s[i] \in PlainSteps
  PROVE  s \in Seq(PlainSteps)
  OBVIOUS

\* Do makes the steps of a registration.
LEMMA RegisterStep ==
  ASSUME NEW k \in Keys
  PROVE  \A op \in {"unlink", "symlink", "open_path", "path", "text", "dat"}, n \in Nat :
           /\ Do(op, k) \in PlainSteps /\ Do(op, k).op = op /\ Do(op, k).k = k /\ Do(op, k).loses = 0
           /\ Losing(n, Do(op, k)) \in PlainSteps /\ Losing(n, Do(op, k)).op = op
           /\ Losing(n, Do(op, k)).k = k /\ Losing(n, Do(op, k)).loses = n
<1> SUFFICES ASSUME NEW op \in {"unlink", "symlink", "open_path", "path", "text", "dat"}, NEW n \in Nat
             PROVE  /\ Do(op, k) \in PlainSteps /\ Do(op, k).op = op /\ Do(op, k).k = k /\ Do(op, k).loses = 0
                    /\ Losing(n, Do(op, k)) \in PlainSteps /\ Losing(n, Do(op, k)).op = op
                    /\ Losing(n, Do(op, k)).k = k /\ Losing(n, Do(op, k)).loses = n
  OBVIOUS
<1>1. /\ op \in Ops /\ op \notin AppOps \cup ToolOps \cup {"install_package", "loop"}
      /\ op \notin {"ensure", "track_if"}
  BY DEF Ops, KeyOps, AppOps, ToolOps
<1>2. /\ Do(op, k) \in PlainSteps /\ Do(op, k).op = op /\ Do(op, k).k = k /\ Do(op, k).loses = 0
  BY <1>1, DoType
<1> DEFINE x == Do(op, k)
<1> HIDE DEF x
<1>3. /\ x \in PlainSteps /\ x.op = op /\ x.k = k
  BY <1>2 DEF x
<1>4. /\ Losing(n, x) \in PlainSteps /\ Losing(n, x).op = op /\ Losing(n, x).k = k
      /\ Losing(n, x).loses = n
  BY <1>1, <1>3, LosingType
<1>. QED  BY <1>2, <1>4 DEF x

\* A link and the files register a version.
LEMMA RegistersType ==
  ASSUME NEW k \in Keys, NEW a \in PlainSteps, NEW b \in PlainSteps,
         NEW s, LinkedAndFiled(s, a, b, k),
         a.op = "unlink", b.op = "symlink", a.k = k, b.k = k
  PROVE  /\ s \in Seq(PlainSteps) /\ s \in Seq(StepSet) /\ Len(s) = 6 /\ Registers(s, k)
         /\ s[1] = a /\ s[2] = b
<1> DEFINE c == Losing(2, Do("open_path", k))
           d == Try("path", k)
           e == Try("text", k)
           f == Try("dat", k)
           p == <<c, d, e, f>>
           u == <<a, b>>
<1>1. /\ c \in PlainSteps /\ c.op = "open_path" /\ c.k = k /\ c.loses = 2
      /\ d \in PlainSteps /\ d.op = "path" /\ d.k = k /\ d.loses = 1
      /\ e \in PlainSteps /\ e.op = "text" /\ e.k = k /\ e.loses = 1
      /\ f \in PlainSteps /\ f.op = "dat" /\ f.k = k /\ f.loses = 1
  BY RegisterStep DEF Try
<1>2. Joined(s, u, p)
  BY DEF RegisterFiles, LinkedAndFiled, Joined
<1> HIDE DEF c, d, e, f
<1>3. p \in Seq(StepSet) /\ Len(p) = 4 /\ p[1] = c /\ p[2] = d /\ p[3] = e /\ p[4] = f
  BY <1>1, PlainType
<1>4. u \in Seq(StepSet) /\ Len(u) = 2 /\ u[1] = a /\ u[2] = b
  BY PlainType
<1> HIDE DEF p, u
<1>5. /\ s \in Seq(StepSet) /\ Len(s) = 6
      /\ s[1] = a /\ s[2] = b /\ s[3] = c /\ s[4] = d /\ s[5] = e /\ s[6] = f
  <2>1. /\ s \in Seq(StepSet) /\ Len(s) = Len(u) + Len(p)
        /\ \A i \in 1 .. Len(u) + Len(p) : s[i] = IF i <= Len(u) THEN u[i] ELSE p[i - Len(u)]
    BY <1>2, <1>3, <1>4, JoinedType
  <2>. QED  BY <1>3, <1>4, <2>1
<1>6. s \in Seq(PlainSteps)
  <2>1. \A i \in 1 .. Len(s) : i = 1 \/ i = 2 \/ i = 3 \/ i = 4 \/ i = 5 \/ i = 6
    BY <1>5
  <2>2. \A i \in 1 .. Len(s) : s[i] \in PlainSteps
    BY <1>1, <1>5, <2>1
  <2>. QED  BY <1>5, <2>2, PlainSequence
<1>7. \A i \in 1 .. 6 : s[i] \in PlainSteps /\ s[i].k = k
  <2>1. \A i \in 1 .. 6 : i = 1 \/ i = 2 \/ i = 3 \/ i = 4 \/ i = 5 \/ i = 6
    OBVIOUS
  <2>. QED  BY <1>1, <1>5, <2>1
<1>8. Registers(s, k)
  BY <1>1, <1>5, <1>7 DEF Registers
<1>. QED  BY <1>5, <1>6, <1>8

\* They do whatever steps come after.
LEMMA RegistersThen ==
  ASSUME NEW k \in Keys, NEW s \in Seq(StepSet), NEW rest \in Seq(StepSet), NEW t,
         Len(s) = 6, Registers(s, k), Joined(t, s, rest)
  PROVE  /\ t \in Seq(StepSet) /\ Len(t) = 6 + Len(rest) /\ Registers(t, k)
         /\ t[1] = s[1] /\ t[2] = s[2]
         /\ \A i \in 7 .. 6 + Len(rest) : t[i] = rest[i - 6]
<1>1. /\ t \in Seq(StepSet) /\ Len(t) = 6 + Len(rest)
      /\ \A i \in 1 .. 6 + Len(rest) : t[i] = IF i <= 6 THEN s[i] ELSE rest[i - 6]
  <2>1. /\ t \in Seq(StepSet) /\ Len(t) = Len(s) + Len(rest)
        /\ \A i \in 1 .. Len(s) + Len(rest) : t[i] = IF i <= Len(s) THEN s[i] ELSE rest[i - Len(s)]
    BY JoinedType
  <2>. QED  BY <2>1
<1>2. Len(rest) \in Nat
  OBVIOUS
<1>3. \A i \in 1 .. 6 : t[i] = s[i]
  BY <1>1, <1>2
<1>4. t[1] = s[1] /\ t[2] = s[2] /\ t[3] = s[3] /\ t[4] = s[4] /\ t[5] = s[5] /\ t[6] = s[6]
  <2>1. 1 \in 1 .. 6 /\ 2 \in 1 .. 6 /\ 3 \in 1 .. 6 /\ 4 \in 1 .. 6 /\ 5 \in 1 .. 6 /\ 6 \in 1 .. 6
    OBVIOUS
  <2>. QED  BY <1>3, <2>1, Zenon
<1>5. Len(t) >= 6
  BY <1>1, <1>2
<1>6. Registers(t, k)
  BY <1>3, <1>4, <1>5 DEF Registers
<1>7. \A i \in 7 .. 6 + Len(rest) : t[i] = rest[i - 6]
  BY <1>1, <1>2
<1>. QED  BY <1>1, <1>4, <1>6, <1>7

\* A command that registers and then writes an elm.json and tracks.
LEMMA RegisterBegins ==
  ASSUME NEW q \in Seq(StepSet), NEW k \in Keys, Registers(q, k), q[1].loses = 0, q[2].loses = 0,
         \A i \in 7 .. Len(q) : Calm(q[i]),
         NEW R, NEW D, NEW X, NEW c, NEW bin, NEW stored, R \subseteq D \cup X
  PROVE  QInv(q, R, D, X, c, bin, stored)
<1>1. Len(q) \in Nat /\ Len(q) >= 6
  BY DEF Registers
<1>2. \A i \in 1 .. Len(q) : i \in 7 .. Len(q) \/ i \in 1 .. 6
  BY <1>1
<1>3. \A i \in 1 .. 6 : /\ q[i] \in PlainSteps /\ q[i].rounds = {} /\ q[i].k = k /\ q[i].op # "loop"
                        /\ q[i].op \in {"unlink", "symlink", "open_path", "path", "text", "dat"}
                        /\ q[i].op = "path" => i = 4
                        /\ q[i].op = "dat" => i = 6
  <2>1. \A i \in 1 .. 6 : q[i].rounds = {} /\ q[i].op # "loop"
    BY PlainType DEF Registers
  <2>2. \A i \in 1 .. 6 : i = 1 \/ i = 2 \/ i = 3 \/ i = 4 \/ i = 5 \/ i = 6
    OBVIOUS
  <2>. QED  BY <2>1, <2>2 DEF Registers
<1>4. \A i \in 1 .. Len(q) : ~Has(q[i], DropOps \cup KitOps) /\ \A r \in q[i].rounds : RoundOK(r)
  <2>1. \A op \in {"unlink", "symlink", "open_path", "path", "text", "dat"} : op \notin DropOps \cup KitOps
    BY DEF DropOps, KitOps
  <2>2. \A i \in 1 .. 6 : ~Has(q[i], DropOps \cup KitOps) /\ \A r \in q[i].rounds : RoundOK(r)
    BY <1>3, <2>1 DEF Has
  <2>. QED  BY <1>2, <2>2 DEF Calm
<1>5. \A i \in 1 .. Len(q) : ~Has(q[i], DropOps) /\ ~Has(q[i], KitOps)
  BY <1>4, HasUnion
<1>6. Local(q)
  <2>. SUFFICES ASSUME NEW i \in 1 .. Len(q)
                PROVE  /\ i + q[i].loses <= Len(q) + 1
                       /\ \A h \in i .. i + q[i].loses - 1 : q[h].k = q[i].k /\ q[h].op # "loop"
    BY DEF Local
  <2>1. i \in Nat /\ i <= Len(q)
    BY <1>1
  <2>2. i # 3 => q[i].loses = 0 \/ (q[i].loses = 1 /\ q[i].op # "loop")
    BY <1>2, <1>3 DEF Registers, Calm
  <2>3. CASE i = 3
    <3>1. q[i].loses = 2
      BY <2>3 DEF Registers
    <3>2. \A h \in i .. i + q[i].loses - 1 : h = 3 \/ h = 4
      BY <2>3, <3>1
    <3>3. q[3].k = k /\ q[4].k = k /\ q[3].op # "loop" /\ q[4].op # "loop"
      BY <1>3
    <3>4. i + q[i].loses <= Len(q) + 1
      BY <1>1, <2>3, <3>1
    <3>. QED  BY <2>3, <3>2, <3>3, <3>4
  <2>4. CASE i # 3
    <3>1. CASE q[i].loses = 0
      BY <2>1, <1>1, <3>1
    <3>2. CASE q[i].loses = 1 /\ q[i].op # "loop"
      <4>1. \A h \in i .. i + q[i].loses - 1 : h = i
        BY <2>1, <3>2
      <4>. QED  BY <1>1, <2>1, <3>2, <4>1
    <3>. QED  BY <2>2, <2>4, <3>1, <3>2
  <2>. QED  BY <2>3, <2>4
<1>7. QueueOK(q)
  BY <1>4, <1>6 DEF QueueOK
<1>8. PathsOK(q, D)
  <2>. SUFFICES ASSUME NEW i \in 1 .. Len(q), q[i].op = "path"
                PROVE  /\ \A h \in 1 .. i - 1 : ~Has(q[h], DropOps)
                       /\ \E j \in 1 .. i - 1 : Opens(q, j, i) /\ Tied(q, j, i)
    BY DEF PathsOK
  <2>1. i = 4
    BY <1>2, <1>3 DEF Calm
  <2>2. \A h \in 1 .. i - 1 : ~Has(q[h], DropOps)
    BY <1>1, <1>5, <2>1
  <2>3. Opens(q, 3, 4)
    BY DEF Opens, Registers
  <2>4. Tied(q, 3, 4)
    <3>1. \A h \in 1 .. 3 : h = 1 \/ h = 2 \/ h = 3
      OBVIOUS
    <3>. QED  BY <3>1 DEF Tied, Registers
  <2>5. 3 \in 1 .. i - 1
    BY <2>1
  <2>. QED  BY <2>1, <2>2, <2>3, <2>4, <2>5
<1>9. DatsOK(q, D, X)
  <2>. SUFFICES ASSUME NEW i \in 1 .. Len(q), q[i].op = "dat"
                PROVE  /\ \A h \in 1 .. i - 1 : ~Has(q[h], DropOps)
                       /\ \E j \in 1 .. i - 1 : Opens(q, j, i)
    BY DEF DatsOK
  <2>1. i = 6
    BY <1>2, <1>3 DEF Calm
  <2>2. \A h \in 1 .. i - 1 : ~Has(q[h], DropOps)
    BY <1>1, <1>5, <2>1
  <2>3. Opens(q, 3, 6)
    BY DEF Opens, Registers
  <2>4. 3 \in 1 .. i - 1
    BY <2>1
  <2>. QED  BY <2>1, <2>2, <2>3, <2>4
<1>10. DropsOK(q, R, X)
  <2>1. \A i \in 1 .. Len(q) : q[i].op # "drop" /\ q[i].op # "drop_all"
    BY <1>5 DEF Has, DropOps
  <2>. QED  BY <2>1 DEF DropsOK, Removes
<1>11. KitQueueOK(q, c, bin, stored)
  BY <1>5, NoKitWork
<1>. QED  BY <1>7, <1>8, <1>9, <1>10, <1>11, QueueBegins

\* wrap install --local-dev in a package registers.
LEMMA register_local_dev_package_OK ==
  ASSUME IInv, NEW k \in Keys, register_local_dev_package(k)
  PROVE  IInv'
<1> DEFINE a == Do("unlink", k)
           b == Do("symlink", k)
           q == <<a, b>> \o RegisterFiles(k)
<1>1. Begin("register", q) /\ Keep(files)
  BY DEF register_local_dev_package, RegisterSteps
<1>2. /\ a \in PlainSteps /\ a.op = "unlink" /\ a.k = k /\ a.loses = 0
      /\ b \in PlainSteps /\ b.op = "symlink" /\ b.k = k /\ b.loses = 0
  BY RegisterStep
<1> HIDE DEF a, b
<1>3. q \in Seq(StepSet) /\ Len(q) = 6 /\ Registers(q, k) /\ q[1] = a /\ q[2] = b
  <2>1. LinkedAndFiled(q, a, b, k)
    BY DEF LinkedAndFiled
  <2> HIDE DEF q
  <2>. QED  BY <1>2, <2>1, RegistersType
<1> HIDE DEF q
<1>5. \A i \in 7 .. Len(q) : Calm(q[i])
  BY <1>3
<1>6. \A R, D, X, c, bin, stored : R \subseteq D \cup X => QInv(q, R, D, X, c, bin, stored)
  BY <1>2, <1>3, <1>5, RegisterBegins
<1>. QED  BY <1>1, <1>6, CommandBegun

\* The elm.json in which the package itself is listed.
LEMMA AddOrUpdateType ==
  ASSUME NEW j \in Json, NEW k \in Keys
  PROVE  AddOrUpdate(j, k) \in Json
<1>1. k \in Entries
  BY DEF Entries
<1>2. CASE k[1] \in Listed(j)
  <2>1. \A p \in Places : j[p] \subseteq Entries
    BY DEF Json
  <2>2. \A p \in Places : {IF e[1] = k[1] THEN k ELSE e : e \in j[p]} \subseteq Entries
    BY <1>1, <2>1
  <2>3. [p \in Places |-> {IF e[1] = k[1] THEN k ELSE e : e \in j[p]}] \in Json
    BY <2>2 DEF Json
  <2>. QED  BY <1>2, <2>3 DEF AddOrUpdate
<1>3. CASE k[1] \notin Listed(j)
  <2>1. j.direct \cup {k} \in SUBSET Entries
    BY <1>1, JsonType
  <2>2. [j EXCEPT !.direct = j.direct \cup {k}] \in Json
    BY <2>1, JsonExcept
  <2>. QED  BY <1>3, <2>2 DEF AddOrUpdate
<1>. QED  BY <1>2, <1>3

\* wrap install --local-dev --from-path registers, writes elm.json and tracks.
LEMMA install_local_dev_OK ==
  ASSUME IInv, NEW a \in Apps, NEW n \in Names, install_local_dev(a, n)
  PROVE  IInv'
<1> DEFINE k == <<n, source[n].version>>
           wanted == source[n].needs \ Listed(app[a])
           more == IF wanted = {} THEN {} ELSE Changes(app[a], wanted)
           j == [app[a] EXCEPT !.indirect = app[a].indirect \cup more]
           y == Write(a, AddOrUpdate(j, k))
           z == Losing(1, For("track", k, a))
           rest == <<y, z>>
           u == Do("unlink", k)
           v == Do("symlink", k)
           s == <<u, v>> \o RegisterFiles(k)
           q == s \o rest
<1>1. Begin("from path", q) /\ Keep(files) /\ (wanted # {} => Solvable(app[a], wanted))
  BY DEF install_local_dev, RegisterSteps
<1>2. k \in Keys /\ app[a] \in Json /\ FilesOK
  <2>1. source[n].version \in Versions /\ app \in [Apps -> Json]
    BY SourceType
  <2>. QED  BY <2>1 DEF IInv, Keys
<1>3. more \subseteq Entries
  BY <1>1, <1>2, ChangesType
<1> HIDE DEF more, k
<1>4. j \in Json
  <2>1. app[a].indirect \cup more \in SUBSET Entries
    BY <1>2, <1>3, JsonType
  <2>. QED  BY <1>2, <2>1, JsonExcept
<1> HIDE DEF j
<1>5. y \in StepSet /\ Calm(y)
  <2>1. AddOrUpdate(j, k) \in Json
    BY <1>2, <1>4, AddOrUpdateType
  <2>. QED  BY <2>1, CalmWrite
<1>6. z \in StepSet /\ Calm(z)
  <2> DEFINE x == For("track", k, a)
  <2>1. \A op \in {"track", "track_if", "untrack", "refresh", "prune"} :
           /\ For(op, k, a) \in PlainSteps /\ For(op, k, a).op = op /\ For(op, k, a).k = k
           /\ For(op, k, a).loses = 0 /\ op \in CalmOps
    BY <1>2, ForApplication
  <2>2. x \in PlainSteps /\ x.op = "track" /\ "track" \in CalmOps
    BY <2>1
  <2> HIDE DEF x
  <2>3. 1 \in Nat
    OBVIOUS
  <2>4. Losing(1, x) \in PlainSteps /\ Losing(1, x).op = "track" /\ Losing(1, x).loses = 1
    BY <2>2, <2>3, LosingType
  <2> DEFINE w == Losing(1, x)
  <2>5. w \in PlainSteps /\ w.op \in CalmOps /\ w.loses \in {0, 1}
    BY <2>2, <2>4
  <2> HIDE DEF w
  <2>6. w \in StepSet /\ Calm(w)
    BY <2>5, CalmPlain
  <2>. QED  BY <2>6 DEF w, x
<1> HIDE DEF y, z
<1>7. rest \in Seq(StepSet) /\ Len(rest) = 2 /\ rest[1] = y /\ rest[2] = z
  BY <1>5, <1>6
<1>8. /\ u \in PlainSteps /\ u.op = "unlink" /\ u.k = k /\ u.loses = 0
      /\ v \in PlainSteps /\ v.op = "symlink" /\ v.k = k /\ v.loses = 0
  BY <1>2, RegisterStep
<1> HIDE DEF rest, u, v
<1>9. /\ q \in Seq(StepSet) /\ Registers(q, k) /\ Len(q) = 6 + Len(rest) /\ q[1] = u /\ q[2] = v
      /\ \A i \in 7 .. 6 + Len(rest) : q[i] = rest[i - 6]
  <2>1. s \in Seq(StepSet) /\ Len(s) = 6 /\ Registers(s, k) /\ s[1] = u /\ s[2] = v
    <3>1. LinkedAndFiled(s, u, v, k)
      BY DEF LinkedAndFiled
    <3> HIDE DEF s
    <3>. QED  BY <1>2, <1>8, <3>1, RegistersType
  <2>2. Joined(q, s, rest)
    BY DEF Joined
  <2> HIDE DEF s, q
  <2>. SUFFICES ASSUME NEW p \in Seq(StepSet), NEW r \in Seq(StepSet), NEW t,
                      p = s, r = rest, t = q
                PROVE  /\ t \in Seq(StepSet) /\ Registers(t, k) /\ Len(t) = 6 + Len(r)
                       /\ t[1] = u /\ t[2] = v /\ \A i \in 7 .. 6 + Len(r) : t[i] = r[i - 6]
    BY <1>7, <2>1
  <2>3. Len(p) = 6 /\ Registers(p, k) /\ p[1] = u /\ p[2] = v /\ Joined(t, p, r)
    BY <2>1, <2>2
  <2>. QED  BY <1>2, <2>3, RegistersThen
<1> HIDE DEF q
<1>10. \A i \in 7 .. Len(q) : Calm(q[i])
  <2>. SUFFICES ASSUME NEW i \in 7 .. Len(q) PROVE Calm(q[i])
    OBVIOUS
  <2>1. i - 6 = 1 \/ i - 6 = 2
    BY <1>7, <1>9
  <2>2. q[i] = rest[i - 6]
    BY <1>9
  <2>. QED  BY <1>5, <1>6, <1>7, <2>1, <2>2
<1>11. \A R, D, X, c, bin, stored : R \subseteq D \cup X => QInv(q, R, D, X, c, bin, stored)
  BY <1>2, <1>8, <1>9, <1>10, RegisterBegins
<1>. QED  BY <1>1, <1>11, CommandBegun

-----------------------------------------------------------------------------
(* Removing registrations *)

\* A command that only takes away.
LEMMA DropBegins ==
  ASSUME NEW q \in Seq(StepSet), NEW R, NEW D, NEW X, NEW c, NEW bin, NEW stored, R \subseteq D \cup X,
         \A i \in 1 .. Len(q) : /\ q[i].loses = 0 /\ (\A r \in q[i].rounds : RoundOK(r))
                                /\ ~Has(q[i], GrowOps \cup {"dat"}) /\ ~Has(q[i], KitOps)
                                /\ q[i].op # "path",
         \A i \in 1 .. Len(q) : \A k \in Keys \ X :
           Removes(q[i], k) => \/ Later(q, i, k) \/ k \notin R
                               \/ \E h \in 1 .. i - 1 : Undats(q[h], k)
  PROVE  QInv(q, R, D, X, c, bin, stored)
<1>1. Local(q)
  BY SmallLosses
<1>2. \A i \in 1 .. Len(q) : ~Has(q[i], GrowOps)
  BY HasUnion
<1>3. QueueOK(q)
  BY <1>1, <1>2 DEF QueueOK
<1>4. PathsOK(q, D)
  BY DEF PathsOK
<1>5. DatsOK(q, D, X)
  <2>1. \A i \in 1 .. Len(q) : q[i].op # "dat"
    BY DEF Has
  <2>. QED  BY <2>1 DEF DatsOK
<1>6. DropsOK(q, R, X)
  <2>. SUFFICES ASSUME NEW i \in 1 .. Len(q), NEW k \in Keys \ X, Removes(q[i], k)
                PROVE  Later(q, i, k) \/ Gone(q, i, k, R)
    BY DEF DropsOK
  <2>1. \A h \in 1 .. i - 1 : h \in 1 .. Len(q)
    OBVIOUS
  <2>2. \A h \in 1 .. i - 1 : ~Has(q[h], GrowOps \cup {"dat"})
    BY <2>1
  <2>. QED  BY <2>2 DEF Gone
<1>7. KitQueueOK(q, c, bin, stored)
  BY NoKitWork
<1>. QED  BY <1>3, <1>4, <1>5, <1>6, <1>7, QueueBegins

\* A command that takes away the directory of a version and its entry in registry.dat.
LEMMA DropKeyBegins ==
  ASSUME NEW q \in Seq(StepSet), NEW k \in Keys,
         \A i \in 1 .. Len(q) : /\ q[i].op \in {"drop", "undat", "untext"} /\ q[i].k = k
                                /\ q[i].loses = 0 /\ q[i].rounds = {},
         \E j \in 1 .. Len(q) : q[j].op = "undat",
         NEW R, NEW D, NEW X, NEW c, NEW bin, NEW stored, R \subseteq D \cup X
  PROVE  QInv(q, R, D, X, c, bin, stored)
<1>1. \A op \in {"drop", "undat", "untext"} : /\ op \notin GrowOps \cup {"dat"} /\ op \notin KitOps
                                              /\ op # "path" /\ op # "loop"
  BY DEF GrowOps, KitOps
<1>2. \A i \in 1 .. Len(q) : /\ q[i].loses = 0 /\ (\A r \in q[i].rounds : RoundOK(r))
                             /\ ~Has(q[i], GrowOps \cup {"dat"}) /\ ~Has(q[i], KitOps)
                             /\ q[i].op # "path"
  BY <1>1 DEF Has
<1>3. ASSUME NEW i \in 1 .. Len(q), NEW l \in Keys \ X, Removes(q[i], l)
      PROVE  Later(q, i, l) \/ l \notin R \/ \E h \in 1 .. i - 1 : Undats(q[h], l)
  <2>1. q[i].op = "drop" /\ l = k
    BY <1>3 DEF Removes
  <2>2. PICK j \in 1 .. Len(q) : q[j].op = "undat"
    OBVIOUS
  <2>3. j # i
    BY <2>1, <2>2
  <2>4. j \in i + 1 .. Len(q) \/ j \in 1 .. i - 1
    BY <2>3
  <2>5. Undats(q[j], l) /\ q[j].k = l
    BY <2>1, <2>2 DEF Undats
  <2>. QED  BY <2>2, <2>4, <2>5 DEF Later
<1>. QED  BY <1>2, <1>3, DropBegins

\* The steps of such a command.
LEMMA DropSteps ==
  ASSUME NEW k \in Keys
  PROVE  \A op \in {"drop", "undat", "untext"} :
           /\ Do(op, k) \in StepSet /\ Do(op, k).op = op /\ Do(op, k).k = k
           /\ Do(op, k).loses = 0 /\ Do(op, k).rounds = {}
<1> SUFFICES ASSUME NEW op \in {"drop", "undat", "untext"}
             PROVE  /\ Do(op, k) \in StepSet /\ Do(op, k).op = op /\ Do(op, k).k = k
                    /\ Do(op, k).loses = 0 /\ Do(op, k).rounds = {}
  OBVIOUS
<1>1. op \in Ops /\ op \notin AppOps \cup ToolOps \cup {"install_package", "loop"}
  BY DEF Ops, KeyOps, AppOps, ToolOps
<1>. QED  BY <1>1, DoType, PlainType

\* The directory goes when it is there.
LEMMA DropIfThere ==
  ASSUME NEW k \in Keys, NEW q, q = IF k \in dirs THEN <<Do("drop", k)>> ELSE <<>>
  PROVE  q \in Seq(StepSet) /\ \A i \in 1 .. Len(q) : q[i] = Do("drop", k)
<1> DEFINE x == Do("drop", k)
<1>1. x \in StepSet
  BY DropSteps
<1>2. q = IF k \in dirs THEN <<x>> ELSE <<>>
  OBVIOUS
<1> HIDE DEF x
<1>3. CASE k \in dirs
  <2>1. q = <<x>>
    BY <1>2, <1>3
  <2>2. q \in Seq(StepSet) /\ \A i \in 1 .. Len(q) : q[i] = x
    BY <1>1, <2>1
  <2>. QED  BY <2>2 DEF x
<1>4. CASE k \notin dirs
  <2>1. q = <<>>
    BY <1>2, <1>4
  <2>2. q \in Seq(StepSet) /\ Len(q) = 0
    BY <2>1
  <2>. QED  BY <2>2
<1>. QED  BY <1>3, <1>4

\* The entries go, before or after the directory.
LEMMA DropAndMore ==
  ASSUME NEW k \in Keys, NEW s \in Seq(StepSet), NEW rest \in Seq(StepSet), NEW q, Joined(q, s, rest),
         \A i \in 1 .. Len(s) : s[i] \in {Do("drop", k), Do("undat", k), Do("untext", k)},
         \A i \in 1 .. Len(rest) : rest[i] \in {Do("drop", k), Do("undat", k), Do("untext", k)},
         \/ \E i \in 1 .. Len(s) : s[i] = Do("undat", k)
         \/ \E i \in 1 .. Len(rest) : rest[i] = Do("undat", k)
  PROVE  \A R, D, X, c, bin, stored : R \subseteq D \cup X => QInv(q, R, D, X, c, bin, stored)
<1> DEFINE x == Do("drop", k)
           y == Do("undat", k)
           z == Do("untext", k)
<1>1. /\ x.op = "drop" /\ x.k = k /\ x.loses = 0 /\ x.rounds = {}
      /\ y.op = "undat" /\ y.k = k /\ y.loses = 0 /\ y.rounds = {}
      /\ z.op = "untext" /\ z.k = k /\ z.loses = 0 /\ z.rounds = {}
  BY DropSteps
<1>2. /\ \A i \in 1 .. Len(s) : s[i] \in {x, y, z}
      /\ \A i \in 1 .. Len(rest) : rest[i] \in {x, y, z}
      /\ (\E i \in 1 .. Len(s) : s[i] = y) \/ \E i \in 1 .. Len(rest) : rest[i] = y
  OBVIOUS
<1> HIDE DEF x, y, z
<1>3. /\ q \in Seq(StepSet) /\ Len(q) = Len(s) + Len(rest) /\ Len(s) \in Nat /\ Len(rest) \in Nat
      /\ \A i \in 1 .. Len(s) + Len(rest) : q[i] = IF i <= Len(s) THEN s[i] ELSE rest[i - Len(s)]
  BY JoinedType
<1>4. \A i \in 1 .. Len(q) : q[i] \in {x, y, z}
  <2>. SUFFICES ASSUME NEW i \in 1 .. Len(q) PROVE q[i] \in {x, y, z}
    OBVIOUS
  <2>1. (i <= Len(s) /\ i \in 1 .. Len(s)) \/ (~(i <= Len(s)) /\ i - Len(s) \in 1 .. Len(rest))
    BY <1>3
  <2>2. q[i] = IF i <= Len(s) THEN s[i] ELSE rest[i - Len(s)]
    BY <1>3
  <2>. QED  BY <1>2, <2>1, <2>2
<1>5. \E i \in 1 .. Len(q) : q[i] = y
  <2>1. CASE \E i \in 1 .. Len(s) : s[i] = y
    <3>1. PICK i \in 1 .. Len(s) : s[i] = y
      BY <2>1
    <3>2. i \in 1 .. Len(q) /\ q[i] = s[i]
      BY <1>3
    <3>. QED  BY <3>1, <3>2
  <2>2. CASE \E i \in 1 .. Len(rest) : rest[i] = y
    <3>1. PICK i \in 1 .. Len(rest) : rest[i] = y
      BY <2>2
    <3>2. Len(s) + i \in 1 .. Len(q) /\ ~(Len(s) + i <= Len(s)) /\ (Len(s) + i) - Len(s) = i
      BY <1>3
    <3>3. q[Len(s) + i] = rest[i]
      BY <1>3, <3>2
    <3>. QED  BY <3>1, <3>2, <3>3
  <2>. QED  BY <1>2, <2>1, <2>2
<1>6. /\ \A i \in 1 .. Len(q) : /\ q[i].op \in {"drop", "undat", "untext"} /\ q[i].k = k
                                /\ q[i].loses = 0 /\ q[i].rounds = {}
      /\ \E j \in 1 .. Len(q) : q[j].op = "undat"
  BY <1>1, <1>4, <1>5
<1>. QED  BY <1>3, <1>6, DropKeyBegins

\* wrap uninstall --local-dev removes what it registered.
LEMMA unregister_local_dev_package_OK ==
  ASSUME IInv, NEW n \in Names, unregister_local_dev_package(n)
  PROVE  IInv'
<1> DEFINE k == <<n, source[n].version>>
           s == IF k \in dirs THEN <<Do("drop", k)>> ELSE <<>>
           rest == <<Do("undat", k)>>
           q == s \o rest
<1>1. Begin("unregister", q) /\ Keep(files)
  BY DEF unregister_local_dev_package
<1>2. k \in Keys
  BY SourceType DEF Keys
<1> HIDE DEF k
<1>3. s \in Seq(StepSet) /\ \A i \in 1 .. Len(s) : s[i] = Do("drop", k)
  BY <1>2, DropIfThere
<1> DEFINE y == Do("undat", k)
<1>4. y \in StepSet
  BY <1>2, DropSteps
<1>5. rest = <<y>>
  OBVIOUS
<1> HIDE DEF y, rest
<1>6. rest \in Seq(StepSet) /\ Len(rest) = 1 /\ rest[1] = y /\ \A i \in 1 .. Len(rest) : rest[i] = y
  BY <1>4, <1>5
<1>7. Joined(q, s, rest)
  BY DEF Joined
<1> HIDE DEF q, s
<1>8. \A R, D, X, c, bin, stored : R \subseteq D \cup X => QInv(q, R, D, X, c, bin, stored)
  <2>1. \E i \in 1 .. Len(rest) : rest[i] = y
    BY <1>6
  <2>. QED  BY <1>2, <1>3, <1>6, <1>7, <2>1, DropAndMore DEF y
<1>. QED  BY <1>1, <1>8, CommandBegun

\* The entries that go with a directory.
LEMMA EntriesGo ==
  ASSUME NEW k \in Keys, NEW q, q = <<Do("undat", k), Do("untext", k)>>
  PROVE  /\ q \in Seq(StepSet) /\ \E i \in 1 .. Len(q) : q[i] = Do("undat", k)
         /\ \A i \in 1 .. Len(q) : q[i] \in {Do("undat", k), Do("untext", k)}
<1> DEFINE y == Do("undat", k)
           z == Do("untext", k)
<1>1. y \in StepSet /\ z \in StepSet
  BY DropSteps
<1>2. q = <<y, z>>
  OBVIOUS
<1> HIDE DEF y, z
<1>3. q \in Seq(StepSet) /\ Len(q) = 2 /\ q[1] = y /\ q[2] = z
  BY <1>1, <1>2
<1>4. \A i \in 1 .. Len(q) : i = 1 \/ i = 2
  BY <1>3
<1>5. q \in Seq(StepSet) /\ (\E i \in 1 .. Len(q) : q[i] = y) /\ \A i \in 1 .. Len(q) : q[i] \in {y, z}
  BY <1>3, <1>4
<1>. QED  BY <1>5 DEF y, z

\* wrap repository local-dev clear removes one version.
LEMMA clear_package_tracking_OK ==
  ASSUME IInv, NEW k \in Keys, clear_package_tracking(k)
  PROVE  IInv'
<1> DEFINE s == IF k \in dirs THEN <<Do("drop", k)>> ELSE <<>>
           rest == <<Do("undat", k), Do("untext", k)>>
           q == s \o rest
<1>1. Begin("clear", q) /\ Keep(files)
  BY DEF clear_package_tracking
<1>2. s \in Seq(StepSet) /\ \A i \in 1 .. Len(s) : s[i] = Do("drop", k)
  BY DropIfThere
<1>3. /\ rest \in Seq(StepSet) /\ \E i \in 1 .. Len(rest) : rest[i] = Do("undat", k)
      /\ \A i \in 1 .. Len(rest) : rest[i] \in {Do("undat", k), Do("untext", k)}
  BY EntriesGo
<1>4. Joined(q, s, rest)
  BY DEF Joined
<1> HIDE DEF q, s, rest
<1>5. \A R, D, X, c, bin, stored : R \subseteq D \cup X => QInv(q, R, D, X, c, bin, stored)
  BY <1>2, <1>3, <1>4, DropAndMore
<1>. QED  BY <1>1, <1>5, CommandBegun

\* The same in another order, before a kit is installed again.
LEMMA repository_clear_OK ==
  ASSUME IInv, NEW k \in Keys, repository_clear_local_dev_registration(k)
  PROVE  IInv'
<1> DEFINE s == IF k \in dirs THEN <<Do("drop", k)>> ELSE <<>>
           first == <<Do("undat", k), Do("untext", k)>>
           q == first \o s
<1>1. Begin("clear", q) /\ Keep(files)
  BY DEF repository_clear_local_dev_registration
<1>2. s \in Seq(StepSet) /\ \A i \in 1 .. Len(s) : s[i] = Do("drop", k)
  BY DropIfThere
<1>3. /\ first \in Seq(StepSet) /\ \E i \in 1 .. Len(first) : first[i] = Do("undat", k)
      /\ \A i \in 1 .. Len(first) : first[i] \in {Do("undat", k), Do("untext", k)}
  BY EntriesGo
<1>4. Joined(q, first, s)
  BY DEF Joined
<1> HIDE DEF q, s, first
<1>5. \A R, D, X, c, bin, stored : R \subseteq D \cup X => QInv(q, R, D, X, c, bin, stored)
  BY <1>2, <1>3, <1>4, DropAndMore
<1>. QED  BY <1>1, <1>5, CommandBegun

\* Everything that is tracked goes; what registry.dat lists beside it stays.
LEMMA clear_all_tracking_OK ==
  ASSUME IInv, clear_all_tracking
  PROVE  IInv'
<1> DEFINE rounds == {<<Do("undat", k)>> : k \in dirs}
           x == Loop(rounds)
           y == Do("drop_all", NoKey)
           q == <<x, y>>
<1>1. Begin("clear", q) /\ Keep(files)
  BY DEF clear_all_tracking, Each
<1>2. dirs \in SUBSET Keys /\ FilesOK
  BY DEF IInv, FilesOK
<1>3. ASSUME NEW k \in dirs
      PROVE  /\ <<Do("undat", k)>> \in Seq(PlainSteps) /\ Len(<<Do("undat", k)>>) = 1
             /\ <<Do("undat", k)>>[1].op = "undat" /\ <<Do("undat", k)>>[1].k = k
             /\ <<Do("undat", k)>>[1].loses = 0 /\ Local(<<Do("undat", k)>>)
  <2> DEFINE u == Do("undat", k)
  <2>1. u \in StepSet /\ u.op = "undat" /\ u.k = k /\ u.loses = 0
    BY <1>2, DropSteps
  <2>2. u \in PlainSteps
    BY <2>1, StepType
  <2> HIDE DEF u
  <2>3. /\ <<u>> \in Seq(PlainSteps) /\ Len(<<u>>) = 1 /\ <<u>>[1].op = "undat" /\ <<u>>[1].k = k
        /\ <<u>>[1].loses = 0 /\ Local(<<u>>)
    BY <2>1, <2>2, OneStep
  <2>. QED  BY <2>3 DEF u
<1>4. \A r \in rounds : /\ r \in Seq(PlainSteps) /\ Len(r) = 1 /\ r[1].op = "undat" /\ Local(r)
                        /\ r[1].k \in dirs
  <2>. SUFFICES ASSUME NEW r \in rounds
                PROVE  /\ r \in Seq(PlainSteps) /\ Len(r) = 1 /\ r[1].op = "undat" /\ Local(r)
                       /\ r[1].k \in dirs
    OBVIOUS
  <2>1. PICK k \in dirs : r = <<Do("undat", k)>>
    OBVIOUS
  <2>. QED  BY <1>3, <2>1, Zenon
<1>5. \A k \in dirs : \E r \in rounds : Len(r) = 1 /\ r[1].op = "undat" /\ r[1].k = k
  <2>. SUFFICES ASSUME NEW k \in dirs
                PROVE  \E r \in rounds : Len(r) = 1 /\ r[1].op = "undat" /\ r[1].k = k
    OBVIOUS
  <2>1. <<Do("undat", k)>> \in rounds
    OBVIOUS
  <2>. QED  BY <1>3, <2>1
<1> HIDE DEF rounds
<1>6. x \in StepSet /\ x.op = "loop" /\ x.loses = 0 /\ x.rounds = rounds
  BY <1>4, LoopType
<1>7. y \in StepSet /\ y.op = "drop_all" /\ y.loses = 0 /\ y.rounds = {}
  <2>1. /\ "drop_all" \in Ops /\ "drop_all" \notin AppOps \cup ToolOps \cup {"install_package", "loop"}
        /\ "drop_all" \notin KeyOps
    BY DEF Ops, OtherOps, KeyOps, AppOps, ToolOps
  <2>. QED  BY <2>1, DoType, PlainType
<1> HIDE DEF x, y
<1>8. /\ q \in Seq(StepSet) /\ Len(q) = 2 /\ q[1] = x /\ q[2] = y
      /\ \A i \in 1 .. Len(q) : i = 1 \/ i = 2
  BY <1>6, <1>7
<1> HIDE DEF q
<1>9. \A r \in rounds : RoundOK(r)
  <2>. SUFFICES ASSUME NEW r \in rounds PROVE RoundOK(r)
    OBVIOUS
  <2>1. Local(r) /\ \A p \in 1 .. Len(r) : r[p].op = "undat"
    BY <1>4
  <2>. QED  BY <2>1 DEF RoundOK, LastOps
<1>10. \A i \in 1 .. Len(q) : /\ q[i].loses = 0 /\ (\A r \in q[i].rounds : RoundOK(r))
                              /\ ~Has(q[i], GrowOps \cup {"dat"}) /\ ~Has(q[i], KitOps)
                              /\ q[i].op # "path"
  <2>1. \A op \in {"undat", "loop", "drop_all"} : op \notin GrowOps \cup {"dat"} /\ op \notin KitOps
    BY DEF GrowOps, KitOps
  <2>2. \A r \in rounds : \A p \in 1 .. Len(r) : r[p].op = "undat"
    BY <1>4
  <2>3. ~Has(x, GrowOps \cup {"dat"}) /\ ~Has(x, KitOps)
    BY <1>6, <2>1, <2>2 DEF Has
  <2>4. ~Has(y, GrowOps \cup {"dat"}) /\ ~Has(y, KitOps)
    BY <1>7, <2>1 DEF Has
  <2>. QED  BY <1>6, <1>7, <1>8, <1>9, <2>3, <2>4
<1>11. ASSUME NEW R, NEW X, NEW c, NEW bin, NEW stored, R \subseteq dirs \cup X
       PROVE  QInv(q, R, dirs, X, c, bin, stored)
  <2>1. ASSUME NEW i \in 1 .. Len(q), NEW k \in Keys \ X, Removes(q[i], k)
        PROVE  Later(q, i, k) \/ k \notin R \/ \E h \in 1 .. i - 1 : Undats(q[h], k)
    <3>1. i = 2
      BY <1>6, <1>8, <2>1 DEF Removes
    <3>2. CASE k \in R
      <4>1. k \in dirs
        BY <1>11, <3>2
      <4>2. Undats(x, k)
        <5>1. PICK r \in rounds : Len(r) = 1 /\ r[1].op = "undat" /\ r[1].k = k
          BY <1>5, <4>1
        <5>2. 1 \in 1 .. Len(r)
          BY <5>1
        <5>. QED  BY <1>6, <5>1, <5>2 DEF Undats
      <4>3. 1 \in 1 .. i - 1
        BY <3>1
      <4>. QED  BY <1>8, <4>2, <4>3
    <3>. QED  BY <3>2
  <2>. QED  BY <1>8, <1>10, <1>11, <2>1, DropBegins
<1>12. dat' = dat /\ dirs' = dirs /\ kits' = kits /\ todo' = q /\ Idle /\ seen' = {}
  BY <1>1 DEF Begin, Keep, files
<1>13. UNCHANGED files /\ UNCHANGED <<excused, troubles>>
  BY <1>1 DEF Keep
<1>14. FilesOK'
  BY <1>2, <1>12, <1>13 DEF FilesOK, files
<1>15. dat' \subseteq dirs' \cup excused' =>
         QInv(todo', dat', dirs', excused', kits'.source, kits'.bin, kits'.stored)
  BY <1>11, <1>12
<1>. QED  BY <1>12, <1>13, <1>14, <1>15, LeftWhenBegun

-----------------------------------------------------------------------------
(* The rounds of the loops in wrap kit *)

\* A round that registers nothing for later steps and leaves applications alone, where a
\* link that is removed is made again or its tracking directory goes, too, and a tool of the
\* kitfile is linked only when it was downloaded: before the loop, as those in T, or in the round.
KitRound(r, s, T) ==
  /\ r \in Seq(PlainSteps) /\ RoundOK(r)
  /\ \A p \in 1 .. Len(r) :
       /\ r[p].op \notin GrowOps /\ r[p].op \notin {"elm_json", "track"}
       /\ r[p].op = "unlink" => \E h \in p + 1 .. Len(r) : r[h].op = "symlink" /\ r[h].k = r[p].k
       /\ r[p].op = "uncache" /\ r[p].k \in dirs =>
            \E h \in p + 1 .. Len(r) : r[h].op = "drop" /\ r[h].k = r[p].k
       /\ r[p].op = "link_tool" /\ r[p].a \in s.tools =>
            \/ r[p].a \in T
            \/ \E h \in 1 .. p - 1 : r[h].op = "download_tool" /\ r[h].a = r[p].a /\ Tied(r, h, p)

\* A round about tools or a package.
LEMMA ToolRound ==
  ASSUME NEW r \in Seq(PlainSteps), NEW s, NEW T, Local(r),
         \A p \in 1 .. Len(r) :
           /\ r[p].op \in {"download_tool", "drop_tool", "link_tool", "install_package"}
           /\ r[p].op = "link_tool" /\ r[p].a \in s.tools =>
                \/ r[p].a \in T
                \/ \E h \in 1 .. p - 1 : r[h].op = "download_tool" /\ r[h].a = r[p].a /\ Tied(r, h, p)
  PROVE  KitRound(r, s, T)
<1>1. \A op \in {"download_tool", "drop_tool", "link_tool", "install_package"} :
        /\ op \notin GrowOps \cup {"path", "dat", "drop"} /\ op \notin LastOps
        /\ op \notin {"elm_json", "track", "unlink", "uncache"}
  BY DEF GrowOps, LastOps
<1>2. RoundOK(r)
  BY <1>1 DEF RoundOK
<1>. QED  BY <1>1, <1>2 DEF KitRound

\* The steps about tools, and about a package.
LEMMA ToolStepType ==
  /\ \A op \in ToolOps, t \in Tools, n \in Nat :
       /\ ToolStep(n, op, t) \in PlainSteps /\ ToolStep(n, op, t) \in StepSet
       /\ ToolStep(n, op, t).op = op /\ ToolStep(n, op, t).a = t
       /\ ToolStep(n, op, t).k = NoKey /\ ToolStep(n, op, t).loses = n
  /\ \A t \in Others, n \in Nat :
       /\ ToolStep(n, "install_package", t) \in PlainSteps /\ ToolStep(n, "install_package", t) \in StepSet
       /\ ToolStep(n, "install_package", t).op = "install_package"
       /\ ToolStep(n, "install_package", t).loses = n
<1>1. ASSUME NEW op \in ToolOps \cup {"install_package"}, NEW t \in Tools \cup Others, NEW n \in Nat,
             op \in ToolOps => t \in Tools, op = "install_package" => t \in Others
      PROVE  /\ ToolStep(n, op, t) \in PlainSteps /\ ToolStep(n, op, t) \in StepSet
             /\ ToolStep(n, op, t).op = op /\ ToolStep(n, op, t).a = t
             /\ ToolStep(n, op, t).k = NoKey /\ ToolStep(n, op, t).loses = n
  <2> DEFINE x == For(op, NoKey, t)
  <2>1. /\ op \in Ops /\ op # "loop" /\ op \notin KeyOps /\ op \notin AppOps
        /\ op \notin {"ensure", "track_if"}
    BY DEF Ops, OtherOps, KeyOps, AppOps, ToolOps
  <2>2. t \in Labels /\ NoKey \in Keys \cup {NoKey}
    BY DEF Labels
  <2>3. /\ x \in PlainSteps /\ x.op = op /\ x.k = NoKey /\ x.a = t
    BY <1>1, <2>1, <2>2, ForType
  <2> HIDE DEF x
  <2>4. /\ Losing(n, x) \in PlainSteps /\ Losing(n, x).op = op /\ Losing(n, x).k = NoKey
        /\ Losing(n, x).a = t /\ Losing(n, x).loses = n
    BY <2>1, <2>3, LosingType
  <2>5. Losing(n, x) \in StepSet
    BY <2>4, PlainType
  <2>. QED  BY <2>4, <2>5 DEF ToolStep, x
<1>2. "install_package" \notin ToolOps
  BY DEF ToolOps
<1>. QED  BY <1>1, <1>2

\* One step.
LEMMA OneToolRound ==
  ASSUME NEW x \in PlainSteps, NEW s, NEW T, x.loses \in {0, 1},
         x.op \in {"download_tool", "drop_tool", "install_package"}
  PROVE  KitRound(<<x>>, s, T)
<1> DEFINE r == <<x>>
<1>1. x \in StepSet /\ x.op # "loop"
  BY PlainType
<1>2. r \in Seq(PlainSteps) /\ Len(r) = 1 /\ r[1] = x /\ Local(r)
  BY <1>1, OneStep
<1> HIDE DEF r
<1>3. \A p \in 1 .. Len(r) : r[p] = x
  BY <1>2
<1>4. KitRound(r, s, T)
  BY <1>2, <1>3, ToolRound
<1>. QED  BY <1>4 DEF r

\* replace_symlink
LEMMA LinkRound ==
  ASSUME NEW t \in Tools, NEW s, NEW T, t \in s.tools => t \in T
  PROVE  KitRound(LinkTool(t), s, T)
<1> DEFINE y == ToolStep(2, "drop_tool", t)
           z == ToolStep(1, "link_tool", t)
           r == <<y, z>>
<1>1. /\ y \in PlainSteps /\ y.op = "drop_tool" /\ y.k = NoKey /\ y.loses = 2
      /\ z \in PlainSteps /\ z.op = "link_tool" /\ z.a = t /\ z.k = NoKey /\ z.loses = 1
  BY ToolStepType DEF ToolOps
<1>2. LinkTool(t) = r
  BY DEF LinkTool
<1> HIDE DEF y, z
<1>3. r \in Seq(PlainSteps) /\ Len(r) = 2 /\ r[1] = y /\ r[2] = z
  BY <1>1
<1> HIDE DEF r
<1>4. \A p \in 1 .. Len(r) : p = 1 \/ p = 2
  BY <1>3
<1>5. Local(r)
  <2>. SUFFICES ASSUME NEW i \in 1 .. Len(r)
                PROVE  /\ i + r[i].loses <= Len(r) + 1
                       /\ \A h \in i .. i + r[i].loses - 1 : r[h].k = r[i].k /\ r[h].op # "loop"
    BY DEF Local
  <2> DEFINE n == r[i].loses
  <2>1. n \in Nat /\ i + n = 3 /\ i \in Nat /\ i >= 1
    BY <1>1, <1>3, <1>4
  <2>2. \A h \in 1 .. Len(r) : r[h].k = NoKey /\ r[h].op # "loop"
    BY <1>1, <1>3, <1>4
  <2> HIDE DEF n
  <2>3. \A h \in i .. i + n - 1 : h \in 1 .. Len(r)
    BY <1>3, <2>1
  <2>4. i + n <= Len(r) + 1 /\ \A h \in i .. i + n - 1 : r[h].k = r[i].k /\ r[h].op # "loop"
    BY <1>3, <2>1, <2>2, <2>3
  <2>. QED  BY <2>4 DEF n
<1>6. \A p \in 1 .. Len(r) :
        /\ r[p].op \in {"download_tool", "drop_tool", "link_tool", "install_package"}
        /\ r[p].op = "link_tool" /\ r[p].a \in s.tools => r[p].a \in T
  BY <1>1, <1>3, <1>4
<1>7. KitRound(r, s, T)
  BY <1>3, <1>5, <1>6, ToolRound
<1>. QED  BY <1>2, <1>7

\* A tool is downloaded, then linked.
LEMMA DownloadRound ==
  ASSUME NEW t \in Tools, NEW s, NEW T
  PROVE  KitRound(<<ToolStep(3, "download_tool", t)>> \o LinkTool(t), s, T)
<1> DEFINE x == ToolStep(3, "download_tool", t)
           y == ToolStep(2, "drop_tool", t)
           z == ToolStep(1, "link_tool", t)
           u == <<x>>
           w == <<y, z>>
           r == u \o w
<1>1. /\ x \in PlainSteps /\ x.op = "download_tool" /\ x.a = t /\ x.k = NoKey /\ x.loses = 3
      /\ y \in PlainSteps /\ y.op = "drop_tool" /\ y.k = NoKey /\ y.loses = 2
      /\ z \in PlainSteps /\ z.op = "link_tool" /\ z.a = t /\ z.k = NoKey /\ z.loses = 1
  BY ToolStepType DEF ToolOps
<1>2. <<x>> \o LinkTool(t) = r
  BY DEF LinkTool
<1> HIDE DEF x, y, z
<1>3. u \in Seq(StepSet) /\ Len(u) = 1 /\ u[1] = x
  BY <1>1, PlainType
<1>4. w \in Seq(StepSet) /\ Len(w) = 2 /\ w[1] = y /\ w[2] = z
  BY <1>1, PlainType
<1>5. Joined(r, u, w)
  BY DEF Joined
<1> HIDE DEF r, u, w
<1>6. /\ r \in Seq(StepSet) /\ Len(r) = 3 /\ r[1] = x /\ r[2] = y /\ r[3] = z
  <2>1. /\ r \in Seq(StepSet) /\ Len(r) = Len(u) + Len(w)
        /\ \A i \in 1 .. Len(u) + Len(w) : r[i] = IF i <= Len(u) THEN u[i] ELSE w[i - Len(u)]
    BY <1>3, <1>4, <1>5, JoinedType
  <2>. QED  BY <1>3, <1>4, <2>1
<1>7. \A p \in 1 .. Len(r) : p = 1 \/ p = 2 \/ p = 3
  BY <1>6
<1>8. r \in Seq(PlainSteps)
  <2>1. \A p \in 1 .. Len(r) : r[p] \in PlainSteps
    BY <1>1, <1>6, <1>7
  <2>. QED  BY <1>6, <2>1, PlainSequence
<1>9. Local(r)
  <2>. SUFFICES ASSUME NEW i \in 1 .. Len(r)
                PROVE  /\ i + r[i].loses <= Len(r) + 1
                       /\ \A h \in i .. i + r[i].loses - 1 : r[h].k = r[i].k /\ r[h].op # "loop"
    BY DEF Local
  <2> DEFINE n == r[i].loses
  <2>1. n \in Nat /\ i + n = 4 /\ i \in Nat /\ i >= 1
    BY <1>1, <1>6, <1>7
  <2>2. \A h \in 1 .. Len(r) : r[h].k = NoKey /\ r[h].op # "loop"
    BY <1>1, <1>6, <1>7
  <2> HIDE DEF n
  <2>3. \A h \in i .. i + n - 1 : h \in 1 .. Len(r)
    BY <1>6, <2>1
  <2>4. i + n <= Len(r) + 1 /\ \A h \in i .. i + n - 1 : r[h].k = r[i].k /\ r[h].op # "loop"
    BY <1>6, <2>1, <2>2, <2>3
  <2>. QED  BY <2>4 DEF n
<1>10. Tied(r, 1, 3)
  BY <1>1, <1>6 DEF Tied
<1>11. \A p \in 1 .. Len(r) :
        /\ r[p].op \in {"download_tool", "drop_tool", "link_tool", "install_package"}
        /\ r[p].op = "link_tool" /\ r[p].a \in s.tools =>
             \E h \in 1 .. p - 1 : r[h].op = "download_tool" /\ r[h].a = r[p].a /\ Tied(r, h, p)
  <2>. SUFFICES ASSUME NEW p \in 1 .. Len(r)
                PROVE  /\ r[p].op \in {"download_tool", "drop_tool", "link_tool", "install_package"}
                       /\ r[p].op = "link_tool" =>
                            \E h \in 1 .. p - 1 : r[h].op = "download_tool" /\ r[h].a = r[p].a /\ Tied(r, h, p)
    OBVIOUS
  <2>1. r[p].op \in {"download_tool", "drop_tool", "link_tool", "install_package"}
    BY <1>1, <1>6, <1>7
  <2>2. ASSUME r[p].op = "link_tool"
        PROVE  \E h \in 1 .. p - 1 : r[h].op = "download_tool" /\ r[h].a = r[p].a /\ Tied(r, h, p)
    <3>1. p = 3
      BY <1>1, <1>6, <1>7, <2>2
    <3>2. 1 \in 1 .. p - 1 /\ r[1].op = "download_tool" /\ r[1].a = r[p].a /\ Tied(r, 1, p)
      BY <1>1, <1>6, <1>10, <3>1
    <3>. QED  BY <3>2
  <2>. QED  BY <2>1, <2>2
<1>12. KitRound(r, s, T)
  BY <1>8, <1>9, <1>11, ToolRound
<1>. QED  BY <1>2, <1>12, Zenon DEF x

\* A local package of a kitfile is linked and registered.
LEMMA RegisterRound ==
  ASSUME NEW k \in Keys, NEW s, NEW T
  PROVE  KitRound(<<Losing(6, Do("unlink", k)), Losing(5, Do("symlink", k))>> \o RegisterFiles(k), s, T)
<1> DEFINE a == Losing(6, Do("unlink", k))
           b == Losing(5, Do("symlink", k))
           r == <<a, b>> \o RegisterFiles(k)
<1>1. /\ a \in PlainSteps /\ a.op = "unlink" /\ a.k = k /\ a.loses = 6
      /\ b \in PlainSteps /\ b.op = "symlink" /\ b.k = k /\ b.loses = 5
  BY RegisterStep
<1> HIDE DEF a, b
<1>2. LinkedAndFiled(r, a, b, k)
  BY DEF LinkedAndFiled
<1> HIDE DEF r
<1>3. r \in Seq(PlainSteps) /\ Len(r) = 6 /\ Registers(r, k) /\ r[1] = a /\ r[2] = b
  BY <1>1, <1>2, RegistersType
<1>4. \A i \in 1 .. Len(r) : i = 1 \/ i = 2 \/ i = 3 \/ i = 4 \/ i = 5 \/ i = 6
  BY <1>3
<1>5. \A i \in 1 .. Len(r) : r[i].k = k /\ r[i].op # "loop"
  <2>1. \A i \in 1 .. 6 : r[i].k = k /\ r[i] \in PlainSteps
    BY <1>3 DEF Registers
  <2>. QED  BY <1>3, <2>1, PlainType
<1>6. \A i \in 1 .. Len(r) : r[i].loses \in Nat /\ i + r[i].loses <= 7
  BY <1>1, <1>3, <1>4 DEF Registers
<1>7. Local(r)
  <2>. SUFFICES ASSUME NEW i \in 1 .. Len(r)
                PROVE  /\ i + r[i].loses <= Len(r) + 1
                       /\ \A h \in i .. i + r[i].loses - 1 : r[h].k = r[i].k /\ r[h].op # "loop"
    BY DEF Local
  <2> DEFINE n == r[i].loses
  <2>1. n \in Nat /\ i + n <= 7 /\ i \in Nat /\ i >= 1
    BY <1>6
  <2> HIDE DEF n
  <2>2. \A h \in i .. i + n - 1 : h \in 1 .. Len(r)
    BY <1>3, <2>1
  <2>3. i + n <= Len(r) + 1 /\ \A h \in i .. i + n - 1 : r[h].k = r[i].k /\ r[h].op # "loop"
    BY <1>3, <1>5, <2>1, <2>2
  <2>. QED  BY <2>3 DEF n
<1>8. \A i \in 1 .. Len(r) :
        /\ r[i].op \in {"unlink", "symlink", "open_path", "path", "text", "dat"}
        /\ (r[i].op = "path" => i = 4) /\ (r[i].op = "dat" => i = 6)
  BY <1>1, <1>3, <1>4 DEF Registers
<1>9. \A op \in {"unlink", "symlink", "open_path", "path", "text", "dat"} :
        /\ op \notin GrowOps /\ op \notin DropOps /\ op \notin LastOps
        /\ op # "drop" /\ op # "link_tool" /\ op # "uncache"
  BY DEF GrowOps, DropOps, LastOps
<1>10. Opens(r, 3, 4) /\ Opens(r, 3, 6)
  BY <1>3 DEF Opens, Registers
<1>11. Tied(r, 3, 4)
  <2>1. \A h \in 1 .. 3 : h = 1 \/ h = 2 \/ h = 3
    OBVIOUS
  <2>2. r[1].loses = 6 /\ r[2].loses = 5 /\ r[3].loses = 2
    BY <1>1, <1>3 DEF Registers
  <2>. QED  BY <2>1, <2>2 DEF Tied
<1>12. RoundOK(r)
  <2>. SUFFICES ASSUME NEW p \in 1 .. Len(r)
                PROVE  /\ r[p].op \in {"path", "dat"} =>
                            /\ \A h \in 1 .. p - 1 : r[h].op \notin DropOps
                            /\ \E h \in 1 .. p - 1 : Opens(r, h, p) /\ (r[p].op = "path" => Tied(r, h, p))
                       /\ r[p].op \notin LastOps
                       /\ r[p].op # "drop"
    BY <1>7 DEF RoundOK
  <2>1. r[p].op \notin LastOps /\ r[p].op # "drop"
    BY <1>8, <1>9
  <2>2. ASSUME r[p].op \in {"path", "dat"}
        PROVE  /\ \A h \in 1 .. p - 1 : r[h].op \notin DropOps
               /\ \E h \in 1 .. p - 1 : Opens(r, h, p) /\ (r[p].op = "path" => Tied(r, h, p))
    <3>1. \A h \in 1 .. p - 1 : h \in 1 .. Len(r)
      OBVIOUS
    <3>2. \A h \in 1 .. p - 1 : r[h].op \notin DropOps
      BY <1>8, <1>9, <3>1
    <3>3. (r[p].op = "path" /\ p = 4) \/ (r[p].op = "dat" /\ p = 6)
      BY <1>8, <2>2
    <3>4. 3 \in 1 .. p - 1 /\ Opens(r, 3, p) /\ (r[p].op = "path" => Tied(r, 3, p))
      BY <1>10, <1>11, <3>3
    <3>. QED  BY <3>2, <3>4
  <2>. QED  BY <2>1, <2>2
<1>13. \A p \in 1 .. Len(r) : /\ r[p].op \notin GrowOps /\ r[p].op # "link_tool" /\ r[p].op # "uncache"
                             /\ r[p].op \notin {"elm_json", "track"}
  BY <1>8, <1>9
<1>14. ASSUME NEW p \in 1 .. Len(r), r[p].op = "unlink"
       PROVE  \E h \in p + 1 .. Len(r) : r[h].op = "symlink" /\ r[h].k = r[p].k
  <2>1. p = 1
    BY <1>1, <1>3, <1>4, <1>14 DEF Registers
  <2>2. 2 \in p + 1 .. Len(r) /\ r[2].op = "symlink" /\ r[2].k = r[p].k
    BY <1>1, <1>3, <2>1
  <2>. QED  BY <2>2
<1>15. KitRound(r, s, T)
  BY <1>3, <1>12, <1>13, <1>14 DEF KitRound
<1>. QED  BY <1>15 DEF r, a, b

\* A local package of the old kitfile is taken out of the cache and the registries.
LEMMA DeregisterRound ==
  ASSUME NEW k \in Keys, NEW s, NEW T
  PROVE  KitRound(<<Try("uncache", k), Try("undat", k), Try("untext", k)>>
                    \o (IF k \in dirs THEN <<Try("drop", k)>> ELSE <<>>), s, T)
<1> DEFINE a == Try("uncache", k)
           b == Try("undat", k)
           c == Try("untext", k)
           d == Try("drop", k)
           u == <<a, b, c>>
           w == IF k \in dirs THEN <<d>> ELSE <<>>
           r == u \o w
<1>1. \A op \in {"uncache", "undat", "untext", "drop"} :
        Try(op, k) \in PlainSteps /\ Try(op, k).op = op /\ Try(op, k).k = k /\ Try(op, k).loses = 1
  <2>. SUFFICES ASSUME NEW op \in {"uncache", "undat", "untext", "drop"}
                PROVE  /\ Try(op, k) \in PlainSteps /\ Try(op, k).op = op /\ Try(op, k).k = k
                       /\ Try(op, k).loses = 1
    OBVIOUS
  <2>1. /\ op \in Ops /\ op \notin AppOps \cup ToolOps \cup {"install_package", "loop"}
        /\ op \notin {"ensure", "track_if"}
    BY DEF Ops, KeyOps, AppOps, ToolOps
  <2> DEFINE x == Do(op, k)
  <2>2. x \in PlainSteps /\ x.op = op /\ x.k = k
    BY <2>1, DoType
  <2> HIDE DEF x
  <2>3. /\ Losing(1, x) \in PlainSteps /\ Losing(1, x).op = op /\ Losing(1, x).k = k
        /\ Losing(1, x).loses = 1
    BY <2>1, <2>2, LosingType
  <2>. QED  BY <2>3 DEF Try, x
<1>2. /\ a \in PlainSteps /\ a.op = "uncache" /\ a.k = k /\ a.loses = 1
      /\ b \in PlainSteps /\ b.op = "undat" /\ b.k = k /\ b.loses = 1
      /\ c \in PlainSteps /\ c.op = "untext" /\ c.k = k /\ c.loses = 1
      /\ d \in PlainSteps /\ d.op = "drop" /\ d.k = k /\ d.loses = 1
  BY <1>1
<1> HIDE DEF a, b, c, d
<1>3. u \in Seq(StepSet) /\ Len(u) = 3 /\ u[1] = a /\ u[2] = b /\ u[3] = c
  BY <1>2, PlainType
<1>4. /\ w \in Seq(StepSet) /\ Len(w) \in {0, 1} /\ \A i \in 1 .. Len(w) : w[i] = d
      /\ k \in dirs => Len(w) = 1
  <2>1. CASE k \in dirs
    <3>1. w = <<d>>
      BY <2>1
    <3> HIDE DEF w
    <3>2. d \in StepSet
      BY <1>2, PlainType
    <3>. QED  BY <3>1, <3>2
  <2>2. CASE k \notin dirs
    <3>1. w = <<>>
      BY <2>2
    <3> HIDE DEF w
    <3>. QED  BY <2>2, <3>1
  <2>. QED  BY <2>1, <2>2
<1>5. Joined(r, u, w)
  BY DEF Joined
<1> HIDE DEF r, u, w
<1>6. /\ r \in Seq(StepSet) /\ Len(r) \in {3, 4} /\ r[1] = a /\ r[2] = b /\ r[3] = c
      /\ Len(r) = 4 => r[4] = d
      /\ k \in dirs => Len(r) = 4
  <2>1. /\ r \in Seq(StepSet) /\ Len(r) = Len(u) + Len(w)
        /\ \A i \in 1 .. Len(u) + Len(w) : r[i] = IF i <= Len(u) THEN u[i] ELSE w[i - Len(u)]
    BY <1>3, <1>4, <1>5, JoinedType
  <2>2. Len(r) = 3 + Len(w)
    BY <1>3, <2>1
  <2>3. Len(r) \in {3, 4} /\ r[1] = a /\ r[2] = b /\ r[3] = c /\ (Len(r) = 4 => r[4] = d)
    BY <1>3, <1>4, <2>1
  <2>4. ASSUME k \in dirs PROVE Len(r) = 4
    <3>1. Len(w) = 1
      BY <1>4, <2>4
    <3>. QED  BY <2>2, <3>1
  <2>. QED  BY <2>1, <2>3, <2>4
<1>7. \A p \in 1 .. Len(r) : p = 1 \/ p = 2 \/ p = 3 \/ (p = 4 /\ Len(r) = 4)
  <2>1. CASE Len(r) = 3
    BY <2>1
  <2>2. CASE Len(r) = 4
    BY <2>2
  <2>. QED  BY <1>6, <2>1, <2>2
<1>8. \A p \in 1 .. Len(r) :
        /\ r[p] \in PlainSteps /\ r[p].k = k /\ r[p].loses = 1
        /\ r[p].op \in {"uncache", "undat", "untext", "drop"} /\ (r[p].op = "drop" => p = 4)
  BY <1>2, <1>6, <1>7
<1>9. r \in Seq(PlainSteps)
  BY <1>6, <1>8, PlainSequence
<1>10. Local(r)
  BY <1>6, <1>8, SmallLosses
<1>11. \A op \in {"uncache", "undat", "untext", "drop"} :
        /\ op \notin GrowOps \cup {"dat"} /\ op \notin {"path", "dat"} /\ op \notin LastOps
        /\ op \notin {"link_tool", "elm_json", "track", "unlink"}
  BY DEF GrowOps, LastOps
<1>12. ASSUME NEW p \in 1 .. Len(r), r[p].op = "drop"
       PROVE  /\ \E h \in 1 .. p - 1 : r[h].op = "undat" /\ r[h].k = r[p].k
              /\ \A h \in 1 .. p - 1 : r[h].op \notin GrowOps \cup {"dat"}
  <2>1. p = 4 /\ 2 \in 1 .. p - 1 /\ 2 \in 1 .. Len(r)
    BY <1>8, <1>12
  <2>2. r[2].op = "undat" /\ r[2].k = r[p].k
    BY <1>2, <1>6, <1>8
  <2>3. \A h \in 1 .. p - 1 : h \in 1 .. Len(r)
    OBVIOUS
  <2>. QED  BY <1>8, <1>11, <2>1, <2>2, <2>3
<1>13. RoundOK(r)
  BY <1>8, <1>10, <1>11, <1>12 DEF RoundOK
<1>15. ASSUME NEW p \in 1 .. Len(r), r[p].op = "uncache", r[p].k \in dirs
       PROVE  \E h \in p + 1 .. Len(r) : r[h].op = "drop" /\ r[h].k = r[p].k
  <2>1. p = 1 /\ Len(r) = 4
    BY <1>2, <1>6, <1>7, <1>8, <1>15
  <2>2. 4 \in p + 1 .. Len(r) /\ r[4].op = "drop" /\ r[4].k = r[p].k
    BY <1>2, <1>6, <2>1
  <2>. QED  BY <2>2
<1>14. KitRound(r, s, T)
  BY <1>8, <1>9, <1>11, <1>13, <1>15 DEF KitRound
<1>. QED  BY <1>14 DEF r, u, w, a, b, c, d

-----------------------------------------------------------------------------
(* Commands of wrap kit *)

\* A loop of such rounds.
KitLoop(st, s, T) ==
  st \in StepSet /\ st.op = "loop" /\ st.loses = 0 /\ \A r \in st.rounds : KitRound(r, s, T)

\* A step outside loops that ends a command of wrap kit.
KitEnd(st, op) == st \in StepSet /\ st.op = op /\ st.loses = 0 /\ st.rounds = {}

\* A command that leaves applications alone, and makes again the links that it removes or
\* removes what tracks them.
Apart(q) ==
  \A i \in 1 .. Len(q) :
    /\ q[i].op \in {"loop", "store", "demote", "promote", "report"}
    /\ \A r \in q[i].rounds : \A p \in 1 .. Len(r) :
         /\ r[p].op \notin GrowOps /\ r[p].op \notin {"elm_json", "track"}
         /\ r[p].op = "unlink" => \E h \in p + 1 .. Len(r) : r[h].op = "symlink" /\ r[h].k = r[p].k
         /\ r[p].op = "uncache" /\ r[p].k \in dirs =>
              \E h \in p + 1 .. Len(r) : r[h].op = "drop" /\ r[h].k = r[p].k

\* Rounds of that form make a loop.
LEMMA KitLoopType ==
  ASSUME NEW rounds, NEW s, NEW T, \A r \in rounds : KitRound(r, s, T)
  PROVE  KitLoop(Loop(rounds), s, T) /\ Loop(rounds).rounds = rounds
<1>1. rounds \in SUBSET Seq(PlainSteps)
  BY DEF KitRound
<1>. QED  BY <1>1, LoopType DEF KitLoop

\* The last steps of a command.
LEMMA KitStepType ==
  \A op \in {"store", "demote", "promote", "report"} : KitEnd(KitStep(op), op)
<1> SUFFICES ASSUME NEW op \in {"store", "demote", "promote", "report"}
             PROVE  KitEnd(KitStep(op), op)
  OBVIOUS
<1>1. /\ op \in Ops /\ op # "loop" /\ op \notin KeyOps /\ op \notin AppOps /\ op \notin ToolOps
      /\ op # "install_package"
  BY DEF Ops, OtherOps, KeyOps, AppOps, ToolOps
<1> DEFINE l == ""
<1>2. l \in Labels /\ NoKey \in Keys \cup {NoKey}
  BY DEF Labels
<1> DEFINE x == For(op, NoKey, l)
<1> HIDE DEF l
<1>3. x \in PlainSteps /\ x.op = op /\ x.loses = 0 /\ x.rounds = {}
  BY <1>1, <1>2, ForType
<1> HIDE DEF x
<1>4. x \in StepSet
  BY <1>3, PlainType
<1>. QED  BY <1>3, <1>4 DEF KitEnd, KitStep, x, l

\* A command of wrap kit: loops, of which those after the first may link what the first has
\* fetched, the kitfile stored before it is promoted, and the report.
LEMMA KitQueueBegins ==
  ASSUME NEW q \in Seq(StepSet), NEW s \in Sources, NEW F,
         NEW R, NEW D, NEW X, NEW bin, NEW stored, R \subseteq D \cup X,
         \A i \in 1 .. Len(q) :
           \/ KitLoop(q[i], s, IF i = 1 THEN {} ELSE F)
           \/ KitEnd(q[i], "store") \/ KitEnd(q[i], "demote") \/ KitEnd(q[i], "promote")
           \/ KitEnd(q[i], "report") /\ i = Len(q),
         \A t \in F : Fetches(q[1], t),
         \A i \in 1 .. Len(q) : q[i].op = "promote" => \E j \in 1 .. i - 1 : q[j].op = "store"
  PROVE  QInv(q, R, D, X, s, bin, stored) /\ Apart(q)
<1>1. \A i \in 1 .. Len(q) :
        /\ q[i].loses = 0 /\ q[i].op \in {"loop", "store", "demote", "promote", "report"}
        /\ q[i].op # "loop" => q[i].rounds = {}
        /\ q[i].op = "report" => i = Len(q)
        /\ q[i].op = "loop" => KitLoop(q[i], s, IF i = 1 THEN {} ELSE F)
  BY DEF KitLoop, KitEnd
<1>2. Local(q)
  BY <1>1, SmallLosses
<1>3. \A i \in 1 .. Len(q) : \A r \in q[i].rounds : KitRound(r, s, IF i = 1 THEN {} ELSE F)
  <2>1. ASSUME NEW i \in 1 .. Len(q), NEW r \in q[i].rounds
        PROVE  KitLoop(q[i], s, IF i = 1 THEN {} ELSE F)
    BY <1>1, <2>1
  <2>. QED  BY <2>1 DEF KitLoop
<1>4. \A i \in 1 .. Len(q) : ~Has(q[i], GrowOps)
  <2>1. \A op \in {"loop", "store", "demote", "promote", "report"} : op \notin GrowOps
    BY DEF GrowOps
  <2>. SUFFICES ASSUME NEW i \in 1 .. Len(q) PROVE ~Has(q[i], GrowOps)
    OBVIOUS
  <2>2. q[i].op \notin GrowOps
    BY <1>1, <2>1
  <2>3. \A r \in q[i].rounds : \A p \in 1 .. Len(r) : r[p].op \notin GrowOps
    BY <1>3 DEF KitRound
  <2>. QED  BY <2>2, <2>3 DEF Has
<1>5. QueueOK(q)
  <2>1. \A i \in 1 .. Len(q) : \A r \in q[i].rounds : RoundOK(r)
    BY <1>3 DEF KitRound
  <2>. QED  BY <1>2, <1>4, <2>1 DEF QueueOK
<1>6. PathsOK(q, D) /\ DatsOK(q, D, X) /\ DropsOK(q, R, X)
  <2>1. \A i \in 1 .. Len(q) : /\ q[i].op # "path" /\ q[i].op # "dat" /\ q[i].op # "drop"
                               /\ q[i].op # "drop_all"
    BY <1>1
  <2>. QED  BY <2>1 DEF PathsOK, DatsOK, DropsOK, Removes
<1>7. \A i \in 1 .. Len(q) : \A j \in 1 .. i - 1 : Tied(q, j, i)
  <2>. SUFFICES ASSUME NEW i \in 1 .. Len(q), NEW j \in 1 .. i - 1, NEW h \in 1 .. j
                PROVE  q[h].loses = 0
    BY DEF Tied
  <2>1. h \in 1 .. Len(q)
    OBVIOUS
  <2>. QED  BY <1>1, <2>1
<1>8. LinksOK(q, s, bin)
  <2>. SUFFICES ASSUME NEW i \in 1 .. Len(q), NEW r \in q[i].rounds, NEW p \in 1 .. Len(r),
                       r[p].op = "link_tool", r[p].a \in s.tools
                PROVE  \/ Ready(q, i, r[p].a, s.version, bin)
                       \/ \E h \in 1 .. p - 1 :
                            r[h].op = "download_tool" /\ r[h].a = r[p].a /\ Tied(r, h, p)
    BY <1>1 DEF LinksOK
  <2>1. \/ r[p].a \in IF i = 1 THEN {} ELSE F
        \/ \E h \in 1 .. p - 1 : r[h].op = "download_tool" /\ r[h].a = r[p].a /\ Tied(r, h, p)
    BY <1>3 DEF KitRound
  <2>2. ASSUME r[p].a \in IF i = 1 THEN {} ELSE F
        PROVE  Ready(q, i, r[p].a, s.version, bin)
    <3>1. i # 1 /\ r[p].a \in F
      BY <2>2
    <3>2. 1 \in 1 .. i - 1
      BY <3>1
    <3>3. Fetches(q[1], r[p].a) /\ Tied(q, 1, i)
      BY <1>7, <3>1, <3>2
    <3>. QED  BY <3>2, <3>3 DEF Ready
  <2>. QED  BY <2>1, <2>2
<1>9. PromotesOK(q, s, stored)
  BY <1>7 DEF PromotesOK
<1>10. KitQueueOK(q, s, bin, stored)
  BY <1>1, <1>8, <1>9 DEF KitQueueOK
<1>11. Apart(q)
  <2>1. ASSUME NEW i \in 1 .. Len(q), NEW r \in q[i].rounds, NEW p \in 1 .. Len(r)
        PROVE  /\ r[p].op \notin GrowOps /\ r[p].op \notin {"elm_json", "track"}
               /\ r[p].op = "unlink" => \E h \in p + 1 .. Len(r) : r[h].op = "symlink" /\ r[h].k = r[p].k
               /\ r[p].op = "uncache" /\ r[p].k \in dirs =>
                    \E h \in p + 1 .. Len(r) : r[h].op = "drop" /\ r[h].k = r[p].k
    <3>1. KitRound(r, s, IF i = 1 THEN {} ELSE F)
      BY <1>3
    <3>. QED  BY <3>1 DEF KitRound
  <2>. QED  BY <1>1, <2>1 DEF Apart
<1>12. QInv(q, R, D, X, s, bin, stored)
  BY <1>5, <1>6, <1>10, QueueBegins
<1>. QED  BY <1>11, <1>12

\* A kitfile lists tools, packages and local packages.
LEMMA KitfileType ==
  ASSUME NEW s \in Sources
  PROVE  /\ s.tools \subseteq Tools /\ s.locals \subseteq Keys /\ UrlTools(s) \subseteq Tools
         /\ FolderTools(s) \subseteq Tools /\ PackagesOf(s) \subseteq Others
         /\ FolderTools(s) \cap s.tools = {} /\ UrlTools(s) \subseteq s.tools /\ s.version \in KitVersions
<1>1. s \in Source
  BY SourcesAreKitfiles
<1>2. s.version \in KitVersions
  BY DEF KitVersions
<1>. QED  BY <1>1, <1>2 DEF Source, UrlTools, FolderTools, PackagesOf

\* A command of wrap kit has begun.
LEMMA KitBegun ==
  ASSUME IInv, NEW command, NEW s \in Sources, NEW steps, NEW q, KitBegin(command, s, steps),
         q = steps \o Report, QInv(q, dat, dirs, excused, s, kits.bin, kits.stored), Apart(q)
  PROVE  IInv' /\ Apart(todo')
<1>1. /\ todo' = q /\ seen' = {}
      /\ kits' = [kits EXCEPT !.source = s, !.before = troubles,
                              !.loose = @ \cup ({kits.source} \ {NoSource})]
      /\ UNCHANGED <<source, link, dirs, path, tracked, text, dat, app, art, stuff, excused, troubles>>
  BY DEF KitBegin, Begin
<1>2. FilesOK'
  BY <1>1 DEF IInv, FilesOK
<1>3. kits \in KitFiles /\ troubles \in 0 .. MaxTroubles
  BY DEF IInv, FilesOK, Usable, KitUsable
<1>4. /\ kits' \in KitFiles /\ kits'.source = s /\ kits'.before = troubles
      /\ kits'.bin = kits.bin /\ kits'.linked = kits.linked /\ kits'.stored = kits.stored
      /\ kits'.current = kits.current
  <2>1. kits.source \in Sources \cup {NoSource} /\ kits.loose \in SUBSET Sources
    BY <1>3 DEF KitFiles
  <2>2. kits.loose \cup ({kits.source} \ {NoSource}) \in SUBSET Sources
    BY <2>1
  <2> DEFINE more == kits.loose \cup ({kits.source} \ {NoSource})
  <2>3. kits' = [kits EXCEPT !.source = s, !.before = troubles, !.loose = more]
    BY <1>1
  <2> HIDE DEF more
  <2>4. more \in SUBSET Sources
    BY <2>2 DEF more
  <2>. QED  BY <1>3, <2>3, <2>4 DEF KitFiles
<1>5. Left'
  BY <1>1, <1>4 DEF Left
<1>6. Usable'
  <2>1. KitUsable'
    BY <1>4 DEF IInv, Usable, KitUsable, Current
  <2>2. StoredOK(kits.stored, kits.current)'
    BY <1>4 DEF IInv, Usable, StoredOK
  <2>3. (kits.before <= troubles)'
    BY <1>1, <1>3, <1>4
  <2>. QED  BY <2>1, <2>2, <2>3 DEF Usable
<1>7. Apart(todo')
  BY <1>1
<1>. QED  BY <1>2, <1>5, <1>6, <1>7 DEF IInv

\* The loops that install what a kitfile lists.
LEMMA InstallLoops ==
  ASSUME IInv, NEW s \in Sources, NEW T
  PROVE  /\ \E x : install_all_local_devs(s) = <<x>> /\ KitLoop(x, s, T)
         /\ \E x : install_all_packages(s) = <<x>> /\ KitLoop(x, s, T)
         /\ \E x, y : install_all_tools(s) = <<x, y>> /\ KitLoop(x, s, T) /\ KitLoop(y, s, T)
<1>1. \E x : install_all_local_devs(s) = <<x>> /\ KitLoop(x, s, T)
  <2> DEFINE f(k) == <<Losing(6, Do("unlink", k)), Losing(5, Do("symlink", k))>> \o RegisterFiles(k)
             rounds == {f(k) : k \in {l \in s.locals : source[l[1]].there}}
  <2>1. \A k \in Keys : KitRound(f(k), s, T)
    BY RegisterRound
  <2>2. s.locals \subseteq Keys
    BY KitfileType
  <2>3. install_all_local_devs(s) = <<Loop(rounds)>>
    BY DEF install_all_local_devs
  <2> HIDE DEF f
  <2>4. \A r \in rounds : KitRound(r, s, T)
    BY <2>1, <2>2
  <2> HIDE DEF rounds
  <2>5. KitLoop(Loop(rounds), s, T)
    BY <2>4, KitLoopType
  <2>. QED  BY <2>3, <2>5
<1>2. \E x : install_all_packages(s) = <<x>> /\ KitLoop(x, s, T)
  <2> DEFINE f(p) == <<ToolStep(1, "install_package", p)>>
             rounds == {f(p) : p \in PackagesOf(s)}
  <2>1. \A p \in Others : KitRound(f(p), s, T)
    <3>. SUFFICES ASSUME NEW p \in Others PROVE KitRound(f(p), s, T)
      OBVIOUS
    <3> DEFINE x == ToolStep(1, "install_package", p)
    <3>1. x \in PlainSteps /\ x.op = "install_package" /\ x.loses = 1
      BY ToolStepType
    <3> HIDE DEF x
    <3>2. KitRound(<<x>>, s, T)
      BY <3>1, OneToolRound
    <3>. QED  BY <3>2 DEF x
  <2>2. PackagesOf(s) \subseteq Others
    BY KitfileType
  <2>3. install_all_packages(s) = <<Loop(rounds)>>
    BY DEF install_all_packages
  <2> HIDE DEF f
  <2>4. \A r \in rounds : KitRound(r, s, T)
    BY <2>1, <2>2
  <2> HIDE DEF rounds
  <2>5. KitLoop(Loop(rounds), s, T)
    BY <2>4, KitLoopType
  <2>. QED  BY <2>3, <2>5
<1>3. \E x, y : install_all_tools(s) = <<x, y>> /\ KitLoop(x, s, T) /\ KitLoop(y, s, T)
  <2> DEFINE f(t) == <<ToolStep(3, "download_tool", t)>> \o LinkTool(t)
             first == {f(t) : t \in UrlTools(s)}
             second == {LinkTool(t) : t \in FolderTools(s)}
  <2>1. UrlTools(s) \subseteq Tools /\ FolderTools(s) \subseteq Tools /\ FolderTools(s) \cap s.tools = {}
    BY KitfileType
  <2>2. \A t \in Tools : KitRound(f(t), s, T)
    BY DownloadRound
  <2>3. install_all_tools(s) = <<Loop(first), Loop(second)>>
    BY DEF install_all_tools
  <2> HIDE DEF f
  <2>4. \A r \in first : KitRound(r, s, T)
    BY <2>1, <2>2
  <2>5. \A r \in second : KitRound(r, s, T)
    <3>. SUFFICES ASSUME NEW t \in FolderTools(s) PROVE KitRound(LinkTool(t), s, T)
      OBVIOUS
    <3>. QED  BY <2>1, LinkRound
  <2> HIDE DEF first, second
  <2>6. KitLoop(Loop(first), s, T) /\ KitLoop(Loop(second), s, T)
    BY <2>4, <2>5, KitLoopType
  <2>. QED  BY <2>3, <2>6
<1>. QED  BY <1>1, <1>2, <1>3

\* A loop may also link what another one has fetched.
LEMMA MoreFetched ==
  ASSUME NEW st, NEW s, NEW T, NEW U, KitLoop(st, s, T), T \subseteq U
  PROVE  KitLoop(st, s, U)
  BY DEF KitLoop, KitRound

\* wrap kit install
LEMMA cmd_kit_install_OK ==
  ASSUME IInv, NEW s \in Sources, cmd_kit_install(s)
  PROVE  IInv' /\ Apart(todo')
<1> DEFINE steps == install_all_local_devs(s) \o install_all_packages(s) \o install_all_tools(s)
           e == KitStep("report")
<1>1. KitBegin("kit install", s, steps)
  BY DEF cmd_kit_install
<1>2. PICK a : install_all_local_devs(s) = <<a>> /\ KitLoop(a, s, {})
  BY InstallLoops
<1>3. PICK b : install_all_packages(s) = <<b>> /\ KitLoop(b, s, {})
  BY InstallLoops
<1>4. PICK c, d : install_all_tools(s) = <<c, d>> /\ KitLoop(c, s, {}) /\ KitLoop(d, s, {})
  BY InstallLoops
<1>5. KitEnd(e, "report")
  BY KitStepType
<1> HIDE DEF e
<1> DEFINE q == (((<<a>> \o <<b>>) \o <<c, d>>) \o <<e>>)
<1>6. q = steps \o Report
  BY <1>2, <1>3, <1>4, Zenon DEF Report, e
<1>7. a \in StepSet /\ b \in StepSet /\ c \in StepSet /\ d \in StepSet /\ e \in StepSet
  BY <1>2, <1>3, <1>4, <1>5 DEF KitLoop, KitEnd
<1>8. /\ q \in Seq(StepSet) /\ Len(q) = 5
      /\ q[1] = a /\ q[2] = b /\ q[3] = c /\ q[4] = d /\ q[5] = e
  BY <1>7
<1> HIDE DEF q, steps
<1>9. \A i \in 1 .. Len(q) : i = 1 \/ i = 2 \/ i = 3 \/ i = 4 \/ i = 5
  BY <1>8
<1>10. \A i \in 1 .. Len(q) : KitLoop(q[i], s, {}) \/ (KitEnd(q[i], "report") /\ i = Len(q))
  <2>1. KitLoop(q[1], s, {}) /\ KitLoop(q[2], s, {}) /\ KitLoop(q[3], s, {}) /\ KitLoop(q[4], s, {})
    BY <1>2, <1>3, <1>4, <1>8, Zenon
  <2>2. KitEnd(q[5], "report") /\ Len(q) = 5
    BY <1>5, <1>8, Zenon
  <2>. SUFFICES ASSUME NEW i \in 1 .. Len(q)
                PROVE  KitLoop(q[i], s, {}) \/ (KitEnd(q[i], "report") /\ i = Len(q))
    OBVIOUS
  <2>3. CASE i = 1 \/ i = 2 \/ i = 3 \/ i = 4
    BY <2>1, <2>3, Zenon
  <2>4. CASE i = 5
    BY <2>2, <2>4, Zenon
  <2>. QED  BY <1>9, <2>3, <2>4
<1>11. \A i \in 1 .. Len(q) : q[i].op # "promote"
  BY <1>10 DEF KitLoop, KitEnd
<1>12. dat \subseteq dirs \cup excused
  BY <1>1, IdleTracked DEF IInv, KitBegin, Begin
<1>13. QInv(q, dat, dirs, excused, s, kits.bin, kits.stored) /\ Apart(q)
  <2>. DEFINE F == {}
  <2>1. \A i \in 1 .. Len(q) :
           \/ KitLoop(q[i], s, IF i = 1 THEN {} ELSE F)
           \/ KitEnd(q[i], "store") \/ KitEnd(q[i], "demote") \/ KitEnd(q[i], "promote")
           \/ KitEnd(q[i], "report") /\ i = Len(q)
    BY <1>10
  <2>2. \A t \in F : Fetches(q[1], t)
    OBVIOUS
  <2> HIDE DEF F
  <2>. QED  BY <1>8, <1>11, <1>12, <2>1, <2>2, KitQueueBegins
<1>. QED  BY <1>1, <1>6, <1>13, KitBegun

\* The loops of an update.
LEMMA UpdateLoops ==
  ASSUME NEW s \in Sources, NEW old \in Sources, NEW T
  PROVE  /\ \E x : /\ kit_download_tools(s) = <<x>> /\ KitLoop(x, s, T)
                  /\ \A t \in UrlTools(s) : Fetches(x, t)
         /\ \E x : remove_old_tool_symlinks(old) = <<x>> /\ KitLoop(x, s, T)
         /\ \E x : deregister_old_local_devs(old) = <<x>> /\ KitLoop(x, s, T)
         /\ \E x : kit_symlink_tools(s) = <<x>> /\ KitLoop(x, s, UrlTools(s))
<1>1. /\ UrlTools(s) \subseteq Tools /\ FolderTools(s) \subseteq Tools /\ FolderTools(s) \cap s.tools = {}
      /\ old.tools \subseteq Tools /\ old.locals \subseteq Keys
  BY KitfileType
<1>2. \E x : /\ kit_download_tools(s) = <<x>> /\ KitLoop(x, s, T)
            /\ \A t \in UrlTools(s) : Fetches(x, t)
  <2> DEFINE f(t) == <<ToolStep(0, "download_tool", t)>>
             rounds == {f(t) : t \in UrlTools(s)}
  <2>1. \A t \in Tools : /\ KitRound(f(t), s, T) /\ f(t) # <<>> /\ f(t)[1].op = "download_tool"
                         /\ f(t)[1].a = t /\ f(t)[1].loses = 0
    <3>. SUFFICES ASSUME NEW t \in Tools
                  PROVE  /\ KitRound(f(t), s, T) /\ f(t) # <<>> /\ f(t)[1].op = "download_tool"
                         /\ f(t)[1].a = t /\ f(t)[1].loses = 0
      OBVIOUS
    <3> DEFINE x == ToolStep(0, "download_tool", t)
    <3>1. x \in PlainSteps /\ x.op = "download_tool" /\ x.a = t /\ x.loses = 0
      BY ToolStepType DEF ToolOps
    <3>2. f(t) = <<x>>
      OBVIOUS
    <3> HIDE DEF x, f
    <3>3. KitRound(<<x>>, s, T)
      BY <3>1, OneToolRound
    <3>4. <<x>> # <<>> /\ <<x>>[1] = x
      OBVIOUS
    <3>. QED  BY <3>1, <3>2, <3>3, <3>4
  <2>2. kit_download_tools(s) = <<Loop(rounds)>>
    BY DEF kit_download_tools
  <2> HIDE DEF f
  <2>3. \A r \in rounds : KitRound(r, s, T)
    BY <1>1, <2>1
  <2>4. \A t \in UrlTools(s) : f(t) \in rounds
    OBVIOUS
  <2> HIDE DEF rounds
  <2>5. KitLoop(Loop(rounds), s, T) /\ Loop(rounds).rounds = rounds
    BY <2>3, KitLoopType
  <2>6. \A t \in UrlTools(s) : Fetches(Loop(rounds), t)
    BY <1>1, <2>1, <2>4, <2>5 DEF Fetches
  <2>. QED  BY <2>2, <2>5, <2>6
<1>3. \E x : remove_old_tool_symlinks(old) = <<x>> /\ KitLoop(x, s, T)
  <2> DEFINE f(t) == <<ToolStep(1, "drop_tool", t)>>
             rounds == {f(t) : t \in old.tools}
  <2>1. \A t \in Tools : KitRound(f(t), s, T)
    <3>. SUFFICES ASSUME NEW t \in Tools PROVE KitRound(f(t), s, T)
      OBVIOUS
    <3> DEFINE x == ToolStep(1, "drop_tool", t)
    <3>1. x \in PlainSteps /\ x.op = "drop_tool" /\ x.loses = 1
      BY ToolStepType DEF ToolOps
    <3> HIDE DEF x
    <3>2. KitRound(<<x>>, s, T)
      BY <3>1, OneToolRound
    <3>. QED  BY <3>2 DEF x
  <2>2. remove_old_tool_symlinks(old) = <<Loop(rounds)>>
    BY DEF remove_old_tool_symlinks
  <2> HIDE DEF f
  <2>3. \A r \in rounds : KitRound(r, s, T)
    BY <1>1, <2>1
  <2> HIDE DEF rounds
  <2>4. KitLoop(Loop(rounds), s, T)
    BY <2>3, KitLoopType
  <2>. QED  BY <2>2, <2>4
<1>4. \E x : deregister_old_local_devs(old) = <<x>> /\ KitLoop(x, s, T)
  <2> DEFINE f(k) == <<Try("uncache", k), Try("undat", k), Try("untext", k)>>
                       \o (IF k \in dirs THEN <<Try("drop", k)>> ELSE <<>>)
             rounds == {f(k) : k \in old.locals}
  <2>1. \A k \in Keys : KitRound(f(k), s, T)
    BY DeregisterRound
  <2>2. deregister_old_local_devs(old) = <<Loop(rounds)>>
    BY DEF deregister_old_local_devs
  <2> HIDE DEF f
  <2>3. \A r \in rounds : KitRound(r, s, T)
    BY <1>1, <2>1
  <2> HIDE DEF rounds
  <2>4. KitLoop(Loop(rounds), s, T)
    BY <2>3, KitLoopType
  <2>. QED  BY <2>2, <2>4
<1>5. \E x : kit_symlink_tools(s) = <<x>> /\ KitLoop(x, s, UrlTools(s))
  <2> DEFINE rounds == {LinkTool(t) : t \in UrlTools(s) \cup FolderTools(s)}
  <2>1. kit_symlink_tools(s) = <<Loop(rounds)>>
    BY DEF kit_symlink_tools
  <2>2. \A r \in rounds : KitRound(r, s, UrlTools(s))
    <3>. SUFFICES ASSUME NEW t \in UrlTools(s) \cup FolderTools(s)
                  PROVE  KitRound(LinkTool(t), s, UrlTools(s))
      OBVIOUS
    <3>. QED  BY <1>1, LinkRound
  <2> HIDE DEF rounds
  <2>3. KitLoop(Loop(rounds), s, UrlTools(s))
    BY <2>2, KitLoopType
  <2>. QED  BY <2>1, <2>3
<1>. QED  BY <1>2, <1>3, <1>4, <1>5

\* wrap kit update, with nothing to take down
LEMMA InstallOrReinstall_OK ==
  ASSUME IInv, NEW s \in Sources, InstallOrReinstall(s)
  PROVE  IInv' /\ Apart(todo')
<1> DEFINE steps == install_all_local_devs(s) \o install_all_packages(s) \o install_all_tools(s)
                      \o <<KitStep("store")>> \o kit_promote_current
           g == KitStep("store")
           h == KitStep("demote")
           m == KitStep("promote")
           e == KitStep("report")
<1>1. KitBegin("kit update", s, steps)
  BY DEF InstallOrReinstall
<1>2. PICK a : install_all_local_devs(s) = <<a>> /\ KitLoop(a, s, {})
  BY InstallLoops
<1>3. PICK b : install_all_packages(s) = <<b>> /\ KitLoop(b, s, {})
  BY InstallLoops
<1>4. PICK c, d : install_all_tools(s) = <<c, d>> /\ KitLoop(c, s, {}) /\ KitLoop(d, s, {})
  BY InstallLoops
<1>5. KitEnd(g, "store") /\ KitEnd(h, "demote") /\ KitEnd(m, "promote") /\ KitEnd(e, "report")
  BY KitStepType
<1> HIDE DEF g, h, m, e
<1> DEFINE q == (((((<<a>> \o <<b>>) \o <<c, d>>) \o <<g>>) \o <<h, m>>) \o <<e>>)
<1>6. q = steps \o Report
  BY <1>2, <1>3, <1>4, Zenon DEF Report, kit_promote_current, g, h, m, e
<1>7. /\ a \in StepSet /\ b \in StepSet /\ c \in StepSet /\ d \in StepSet
      /\ g \in StepSet /\ h \in StepSet /\ m \in StepSet /\ e \in StepSet
  BY <1>2, <1>3, <1>4, <1>5 DEF KitLoop, KitEnd
<1>8. /\ q \in Seq(StepSet) /\ Len(q) = 8
      /\ q[1] = a /\ q[2] = b /\ q[3] = c /\ q[4] = d /\ q[5] = g /\ q[6] = h /\ q[7] = m /\ q[8] = e
  BY <1>7
<1> HIDE DEF q, steps
<1>9. \A i \in 1 .. Len(q) :
        i = 1 \/ i = 2 \/ i = 3 \/ i = 4 \/ i = 5 \/ i = 6 \/ i = 7 \/ i = 8
  BY <1>8
<1>10. \A i \in 1 .. Len(q) :
         \/ KitLoop(q[i], s, {})
         \/ KitEnd(q[i], "store") \/ KitEnd(q[i], "demote") \/ (KitEnd(q[i], "promote") /\ i = 7)
         \/ (KitEnd(q[i], "report") /\ i = Len(q))
  <2>1. KitLoop(q[1], s, {}) /\ KitLoop(q[2], s, {}) /\ KitLoop(q[3], s, {}) /\ KitLoop(q[4], s, {})
    BY <1>2, <1>3, <1>4, <1>8, Zenon
  <2>2. /\ KitEnd(q[5], "store") /\ KitEnd(q[6], "demote") /\ KitEnd(q[7], "promote")
        /\ KitEnd(q[8], "report") /\ Len(q) = 8
    BY <1>5, <1>8, Zenon
  <2>. SUFFICES ASSUME NEW i \in 1 .. Len(q)
                PROVE  \/ KitLoop(q[i], s, {})
                       \/ KitEnd(q[i], "store") \/ KitEnd(q[i], "demote")
                       \/ (KitEnd(q[i], "promote") /\ i = 7)
                       \/ (KitEnd(q[i], "report") /\ i = Len(q))
    OBVIOUS
  <2>3. CASE i = 1 \/ i = 2 \/ i = 3 \/ i = 4
    BY <2>1, <2>3, Zenon
  <2>4. CASE i = 5 \/ i = 6 \/ i = 7 \/ i = 8
    BY <2>2, <2>4, Zenon
  <2>. QED  BY <1>9, <2>3, <2>4
<1>11. \A i \in 1 .. Len(q) : q[i].op = "promote" => \E j \in 1 .. i - 1 : q[j].op = "store"
  <2>. SUFFICES ASSUME NEW i \in 1 .. Len(q), q[i].op = "promote"
                PROVE  \E j \in 1 .. i - 1 : q[j].op = "store"
    OBVIOUS
  <2>1. i = 7
    BY <1>10 DEF KitLoop, KitEnd
  <2>2. 5 \in 1 .. i - 1 /\ q[5].op = "store"
    BY <1>5, <1>8, <2>1 DEF KitEnd
  <2>. QED  BY <2>2
<1>12. dat \subseteq dirs \cup excused
  BY <1>1, IdleTracked DEF IInv, KitBegin, Begin
<1>13. QInv(q, dat, dirs, excused, s, kits.bin, kits.stored) /\ Apart(q)
  <2>. DEFINE F == {}
  <2>1. \A i \in 1 .. Len(q) :
           \/ KitLoop(q[i], s, IF i = 1 THEN {} ELSE F)
           \/ KitEnd(q[i], "store") \/ KitEnd(q[i], "demote") \/ KitEnd(q[i], "promote")
           \/ KitEnd(q[i], "report") /\ i = Len(q)
    BY <1>10
  <2>2. \A t \in F : Fetches(q[1], t)
    OBVIOUS
  <2> HIDE DEF F
  <2>. QED  BY <1>8, <1>11, <1>12, <2>1, <2>2, KitQueueBegins
<1>. QED  BY <1>1, <1>6, <1>13, KitBegun

\* The kitfile that current leads to.
LEMMA CurrentType ==
  ASSUME IInv, Current # NoSource
  PROVE  Current \in Sources
<1>1. kits \in KitFiles
  BY DEF IInv, Usable, KitUsable
<1>2. kits.current # "none"
  BY DEF Current
<1>3. kits.current \in KitVersions /\ kits.stored \in [KitVersions -> Sources \cup {NoSource}]
  BY <1>1, <1>2 DEF KitFiles
<1>4. Current = kits.stored[kits.current]
  BY <1>2 DEF Current
<1>. QED  BY <1>3, <1>4

\* wrap kit update, from one version to another
LEMMA Update_OK ==
  ASSUME IInv, NEW s \in Sources, Update(s)
  PROVE  IInv' /\ Apart(todo')
<1> DEFINE steps == UpdateSteps(s, Current)
           F == UrlTools(s)
           g == KitStep("store")
           h == KitStep("demote")
           m == KitStep("promote")
           e == KitStep("report")
<1>1. KitBegin("kit update", s, steps) /\ Current \in Sources
  BY CurrentType DEF Update
<1>2. PICK x : kit_download_tools(s) = <<x>> /\ KitLoop(x, s, {}) /\ \A t \in F : Fetches(x, t)
  BY <1>1, UpdateLoops
<1>3. PICK y : remove_old_tool_symlinks(Current) = <<y>> /\ KitLoop(y, s, F)
  BY <1>1, UpdateLoops
<1>4. PICK z : deregister_old_local_devs(Current) = <<z>> /\ KitLoop(z, s, F)
  BY <1>1, UpdateLoops
<1>5. PICK w : kit_symlink_tools(s) = <<w>> /\ KitLoop(w, s, F)
  BY <1>1, UpdateLoops
<1>6. PICK a : install_all_local_devs(s) = <<a>> /\ KitLoop(a, s, F)
  BY InstallLoops
<1>7. PICK b : install_all_packages(s) = <<b>> /\ KitLoop(b, s, F)
  BY InstallLoops
<1>8. KitEnd(g, "store") /\ KitEnd(h, "demote") /\ KitEnd(m, "promote") /\ KitEnd(e, "report")
  BY KitStepType
<1> HIDE DEF g, h, m, e, F
<1> DEFINE q == ((((((((<<x>> \o <<g>>) \o <<y>>) \o <<z>>) \o <<w>>) \o <<a>>) \o <<b>>) \o <<h, m>>) \o <<e>>)
<1>9. q = steps \o Report
  BY <1>2, <1>3, <1>4, <1>5, <1>6, <1>7, Zenon DEF UpdateSteps, Report, kit_promote_current, g, h, m, e
<1>10. /\ x \in StepSet /\ y \in StepSet /\ z \in StepSet /\ w \in StepSet /\ a \in StepSet
       /\ b \in StepSet /\ g \in StepSet /\ h \in StepSet /\ m \in StepSet /\ e \in StepSet
  BY <1>2, <1>3, <1>4, <1>5, <1>6, <1>7, <1>8 DEF KitLoop, KitEnd
<1>11. /\ q \in Seq(StepSet) /\ Len(q) = 10
       /\ q[1] = x /\ q[2] = g /\ q[3] = y /\ q[4] = z /\ q[5] = w /\ q[6] = a /\ q[7] = b
       /\ q[8] = h /\ q[9] = m /\ q[10] = e
  BY <1>10
<1> HIDE DEF q, steps
<1>12. \A i \in 1 .. Len(q) : \/ i = 1 \/ i = 2 \/ i = 3 \/ i = 4 \/ i = 5 \/ i = 6 \/ i = 7
                              \/ i = 8 \/ i = 9 \/ i = 10
  BY <1>11
<1>13. \A i \in 1 .. Len(q) :
         \/ KitLoop(q[i], s, IF i = 1 THEN {} ELSE F)
         \/ KitEnd(q[i], "store") \/ KitEnd(q[i], "demote") \/ (KitEnd(q[i], "promote") /\ i = 9)
         \/ (KitEnd(q[i], "report") /\ i = Len(q))
  <2>1. /\ KitLoop(q[1], s, {}) /\ KitLoop(q[3], s, F) /\ KitLoop(q[4], s, F) /\ KitLoop(q[5], s, F)
        /\ KitLoop(q[6], s, F) /\ KitLoop(q[7], s, F)
    BY <1>2, <1>3, <1>4, <1>5, <1>6, <1>7, <1>11, Zenon
  <2>2. /\ KitEnd(q[2], "store") /\ KitEnd(q[8], "demote") /\ KitEnd(q[9], "promote")
        /\ KitEnd(q[10], "report") /\ Len(q) = 10
    BY <1>8, <1>11, Zenon
  <2>. SUFFICES ASSUME NEW i \in 1 .. Len(q)
                PROVE  \/ KitLoop(q[i], s, IF i = 1 THEN {} ELSE F)
                       \/ KitEnd(q[i], "store") \/ KitEnd(q[i], "demote")
                       \/ (KitEnd(q[i], "promote") /\ i = 9)
                       \/ (KitEnd(q[i], "report") /\ i = Len(q))
    OBVIOUS
  <2>3. CASE i = 1
    BY <2>1, <2>3
  <2>4. CASE i = 3 \/ i = 4 \/ i = 5 \/ i = 6 \/ i = 7
    <3>1. (IF i = 1 THEN {} ELSE F) = F
      BY <2>4
    <3>2. KitLoop(q[i], s, F)
      BY <2>1, <2>4, Zenon
    <3>. QED  BY <3>1, <3>2
  <2>5. CASE i = 2 \/ i = 8 \/ i = 9 \/ i = 10
    BY <2>2, <2>5, Zenon
  <2>. QED  BY <1>12, <2>3, <2>4, <2>5
<1>14. \A i \in 1 .. Len(q) : q[i].op = "promote" => \E j \in 1 .. i - 1 : q[j].op = "store"
  <2>. SUFFICES ASSUME NEW i \in 1 .. Len(q), q[i].op = "promote"
                PROVE  \E j \in 1 .. i - 1 : q[j].op = "store"
    OBVIOUS
  <2>1. i = 9
    BY <1>13 DEF KitLoop, KitEnd
  <2>2. 2 \in 1 .. i - 1 /\ q[2].op = "store"
    BY <1>8, <1>11, <2>1 DEF KitEnd
  <2>. QED  BY <2>2
<1>15. dat \subseteq dirs \cup excused
  BY <1>1, IdleTracked DEF IInv, KitBegin, Begin
<1>16. \A t \in F : Fetches(q[1], t)
  BY <1>2, <1>11
<1>17. QInv(q, dat, dirs, excused, s, kits.bin, kits.stored) /\ Apart(q)
  <2>1. \A i \in 1 .. Len(q) :
           \/ KitLoop(q[i], s, IF i = 1 THEN {} ELSE F)
           \/ KitEnd(q[i], "store") \/ KitEnd(q[i], "demote") \/ KitEnd(q[i], "promote")
           \/ KitEnd(q[i], "report") /\ i = Len(q)
    BY <1>13
  <2>. QED  BY <1>11, <1>14, <1>15, <1>16, <2>1, KitQueueBegins
<1>. QED  BY <1>1, <1>9, <1>17, KitBegun

-----------------------------------------------------------------------------
(* The theorems *)

\* Nothing is there when the first command begins.
LEMMA InvBegins == KitInit => IInv
<1> SUFFICES ASSUME KitInit PROVE IInv
  OBVIOUS
<1>1. Init /\ Min(Versions) \in Versions /\ MaxCode \in Nat \ {0} /\ MaxTroubles \in Nat /\ InitialApps \subseteq Json
  BY MinVersion, BoundsAreNumbers, InitialAppsAreJson DEF KitInit
<1>2. FilesOK
  <2> DEFINE Codes == 1 .. MaxCode
             first == Min(Versions)
  <2>1. 1 \in Codes /\ 0 \in 0 .. MaxCode /\ 0 \in 0 .. MaxTroubles /\ first \in Versions
    BY <1>1
  <2>2. source = [n \in Names |-> [there |-> TRUE, version |-> first, needs |-> {}, code |-> 1]]
    BY <1>1 DEF Init
  <2> HIDE DEF Codes, first
  <2>3. source \in [Names -> [there : BOOLEAN, version : Versions, needs : SUBSET Packages, code : Codes]]
    BY <2>1, <2>2
  <2>4. /\ link \in [Keys -> {"none", "copy", "source"}]
        /\ path \in [Keys -> {"none", "empty", "source"}] /\ tracked \in [Keys -> SUBSET Apps]
        /\ \A k \in Keys \ dirs : path[k] = "none" /\ tracked[k] = {}
    BY <1>1 DEF Init
  <2>5. dirs \in SUBSET Keys /\ text \in SUBSET Keys /\ dat \in SUBSET Keys /\ seen \in SUBSET Keys
    BY <1>1 DEF Init
  <2>6. app \in [Apps -> Json]
    BY <1>1 DEF Init
  <2>7. art \in [Names -> 0 .. MaxCode] /\ stuff \in [Apps -> [Names -> 0 .. MaxCode]]
    BY <1>1, <2>1 DEF Init
  <2>8. troubles \in 0 .. MaxTroubles
    BY <1>1, <2>1 DEF Init
  <2>. QED  BY <2>3, <2>4, <2>5, <2>6, <2>7, <2>8 DEF FilesOK, Codes
<1>3. Left
  <2>1. todo = <<>> /\ dat \subseteq dirs \cup excused
    BY <1>1 DEF Init
  <2>. QED  BY <2>1, IdleQueue DEF Left
<1>4. Usable
  <2>1. /\ kits.bin = {} /\ kits.linked = [t \in Tools |-> "none"]
        /\ kits.stored = [v \in KitVersions |-> NoSource] /\ kits.current = "none"
        /\ kits.packages = {} /\ kits.source = NoSource /\ kits.before = 0 /\ kits.loose = {}
        /\ kits = [bin |-> {}, linked |-> [t \in Tools |-> "none"],
                   stored |-> [v \in KitVersions |-> NoSource], current |-> "none",
                   packages |-> {}, source |-> NoSource, before |-> 0, loose |-> {}]
    BY DEF KitInit
  <2>2. 0 \in 0 .. MaxTroubles /\ troubles = 0
    BY <1>1 DEF Init
  <2>3. kits \in KitFiles
    BY <2>1, <2>2 DEF KitFiles
  <2>4. \A t \in Tools : kits.linked[t] \notin KitVersions
    BY <2>1, VersionsAreNamed
  <2>5. KitUsable
    BY <2>1, <2>3, <2>4 DEF KitUsable
  <2>6. StoredOK(kits.stored, kits.current)
    BY <2>1 DEF StoredOK
  <2>. QED  BY <2>1, <2>2, <2>5, <2>6 DEF Usable
<1>. QED  BY <1>2, <1>3, <1>4 DEF IInv

\* A step of a command of LocalDev.
LEMMA Steps_OK == ASSUME IInv, Steps PROVE IInv'
<1>1. CASE next_round
  BY <1>1, next_round_OK
<1>2. CASE unlink_package
  BY <1>2, unlink_package_OK
<1>3. CASE create_package_symlink
  BY <1>3, create_package_symlink_OK
<1>4. CASE open_source_path
  BY <1>4, open_source_path_OK
<1>5. CASE save_local_dev_source_path
  BY <1>5, save_local_dev_source_path_OK
<1>6. CASE register_local_dev_v2_text_registry
  BY <1>6, register_local_dev_v2_text_registry_OK
<1>7. CASE ensure_local_dev_in_registry_dat
  BY <1>7, ensure_local_dev_in_registry_dat_OK
<1>8. CASE register_dependency_tracking
  BY <1>8, register_dependency_tracking_OK
<1>9. CASE elm_json_write
  BY <1>9, elm_json_write_OK
<1>10. CASE ensure_local_dev_symlink
  BY <1>10, ensure_local_dev_symlink_OK
<1>11. CASE register_local_dev_tracking_if_needed
  BY <1>11, register_local_dev_tracking_if_needed_OK
<1>12. CASE refresh_app_indirect_deps
  BY <1>12, refresh_app_indirect_deps_OK
<1>13. CASE prune_app_orphaned_deps
  BY <1>13, prune_app_orphaned_deps_OK
<1>14. CASE drop_tracking_dir
  BY <1>14, drop_tracking_dir_OK
<1>15. CASE drop_all_tracking
  BY <1>15, drop_all_tracking_OK
<1>16. CASE remove_local_dev_from_registry_dat
  BY <1>16, remove_local_dev_from_registry_dat_OK
<1>17. CASE remove_local_dev_from_text_registry
  BY <1>17, remove_local_dev_from_text_registry_OK
<1>18. CASE untrack
  BY <1>18, untrack_OK
<1>19. CASE download_package_recursive
  BY <1>19, download_package_recursive_OK
<1>20. CASE continue_with_needs
  BY <1>20, continue_with_needs_OK
<1>21. CASE reinsert_local_dev
  BY <1>21, reinsert_local_dev_OK
<1>22. CASE builder_compile_local_dev_packages
  BY <1>22, builder_compile_local_dev_packages_OK
<1>23. CASE builder_clean_local_dev_artifacts
  BY <1>23, builder_clean_local_dev_artifacts_OK
<1>24. CASE compiler_make
  BY <1>24, compiler_make_OK
<1>. QED
  BY <1>1, <1>2, <1>3, <1>4, <1>5, <1>6, <1>7, <1>8, <1>9, <1>10, <1>11, <1>12, <1>13, <1>14, <1>15,
     <1>16, <1>17, <1>18, <1>19, <1>20, <1>21, <1>22, <1>23, <1>24 DEF Steps

\* A step of a command of Kit.
LEMMA KitSteps_OK == ASSUME IInv, KitSteps PROVE IInv'
<1>1. CASE download_tool_binary
  BY <1>1, download_tool_binary_OK
<1>2. CASE drop_tool_symlink
  BY <1>2, drop_tool_symlink_OK
<1>3. CASE symlink_tool
  BY <1>3, symlink_tool_OK
<1>4. CASE install_one_package
  BY <1>4, install_one_package_OK
<1>5. CASE kit_remove_cache_symlink
  BY <1>5, kit_remove_cache_symlink_OK
<1>6. CASE kit_store_kitfile
  BY <1>6, kit_store_kitfile_OK
<1>7. CASE unlink_current
  BY <1>7, unlink_current_OK
<1>8. CASE symlink_current
  BY <1>8, symlink_current_OK
<1>9. CASE report
  BY <1>9, report_OK
<1>. QED
  BY <1>1, <1>2, <1>3, <1>4, <1>5, <1>6, <1>7, <1>8, <1>9 DEF KitSteps

\* A command in an application.
LEMMA InApplication_OK == ASSUME IInv, NEW a \in Apps, InApplication(a) PROVE IInv'
<1>1. ASSUME NEW n \in Names, install_local_dev(a, n) PROVE IInv'
  BY <1>1, install_local_dev_OK
<1>2. ASSUME NEW n \in Names, install_listed(a, n) PROVE IInv'
  BY <1>2, install_listed_OK
<1>3. ASSUME NEW n \in Packages, install_package(a, n) PROVE IInv'
  BY <1>3, install_package_OK
<1>4. ASSUME NEW n \in Packages, remove_package(a, n) PROVE IInv'
  BY <1>4, remove_package_OK
<1>5. CASE cmd_make(a)
  BY <1>5, cmd_make_OK
<1>. QED  BY <1>1, <1>2, <1>3, <1>4, <1>5 DEF InApplication

\* A command in a source directory, or an edit of it.
LEMMA InPackage_OK == ASSUME IInv, NEW n \in Names, InPackage(n) PROVE IInv'
<1>1. ASSUME NEW v \in Versions, register_local_dev_package(<<n, v>>) PROVE IInv'
  <2>1. <<n, v>> \in Keys
    BY DEF Keys
  <2>. QED  BY <1>1, <2>1, register_local_dev_package_OK
<1>2. ASSUME NEW v \in Versions, Bump(n, v) PROVE IInv'
  BY <1>2, Bump_OK
<1>3. ASSUME NEW m \in Packages, refresh_local_dev_dependents(n, m) PROVE IInv'
  BY <1>3, refresh_local_dev_dependents_OK
<1>4. ASSUME NEW m \in Packages, prune_local_dev_dependents(n, m) PROVE IInv'
  BY <1>4, prune_local_dev_dependents_OK
<1>5. CASE unregister_local_dev_package(n)
  BY <1>5, unregister_local_dev_package_OK
<1>6. CASE Edit(n)
  BY <1>6, Edit_OK
<1>7. CASE Move(n)
  BY <1>7, Move_OK
<1>. QED  BY <1>1, <1>2, <1>3, <1>4, <1>5, <1>6, <1>7 DEF InPackage

\* A command that does not depend on the directory it is run in.
LEMMA Anywhere_OK == ASSUME IInv, Anywhere PROVE IInv'
<1>1. ASSUME NEW k \in Keys, clear_package_tracking(k) PROVE IInv'
  BY <1>1, clear_package_tracking_OK
<1>2. ASSUME NEW k \in Keys, repository_clear_local_dev_registration(k) PROVE IInv'
  BY <1>2, repository_clear_OK
<1>3. ASSUME NEW k \in Keys, NEW a \in Apps, clear_path_tracking(k, a) PROVE IInv'
  BY <1>3, clear_path_tracking_OK
<1>4. ASSUME NEW k \in Keys, NEW by \in {"copy", "none"}, Replace(k, by) PROVE IInv'
  BY <1>4, Replace_OK
<1>5. CASE clear_all_tracking
  BY <1>5, clear_all_tracking_OK
<1>6. CASE prune_stale_local_dev_connections
  BY <1>6, prune_stale_local_dev_connections_OK
<1>7. CASE ResetRegistry
  BY <1>7, ResetRegistry_OK
<1>. QED  BY <1>1, <1>2, <1>3, <1>4, <1>5, <1>6, <1>7 DEF Anywhere

\* Every step keeps the invariant.
LEMMA InvStays == IInv /\ [KitNext]_vars => IInv'
<1> SUFFICES ASSUME IInv, [KitNext]_vars PROVE IInv'
  OBVIOUS
<1>1. CASE Steps
  BY <1>1, Steps_OK
<1>2. CASE Crash \/ Fail
  BY <1>2, Crash_OK, Fail_OK
<1>3. ASSUME NEW a \in Apps, InApplication(a) PROVE IInv'
  BY <1>3, InApplication_OK
<1>4. ASSUME NEW n \in Names, InPackage(n) PROVE IInv'
  BY <1>4, InPackage_OK
<1>5. CASE Anywhere
  BY <1>5, Anywhere_OK
<1>6. CASE KitSteps
  BY <1>6, KitSteps_OK
<1>7. ASSUME NEW s \in Sources, cmd_kit_install(s) \/ InstallOrReinstall(s) \/ Update(s) PROVE IInv'
  BY <1>7, cmd_kit_install_OK, InstallOrReinstall_OK, Update_OK
<1>8. CASE UNCHANGED vars
  <2>1. UNCHANGED <<source, link, dirs, path, tracked, text, dat, app, art, stuff, kits, todo, seen,
                    excused, troubles>>
    BY <1>8 DEF vars, files
  <2>2. FilesOK'
    BY <2>1 DEF IInv, FilesOK
  <2>3. Left'
    BY <2>1 DEF IInv, Left
  <2>4. Usable'
    BY <2>1 DEF IInv, Usable, KitUsable, Current
  <2>. QED  BY <2>2, <2>3, <2>4 DEF IInv
<1>. QED  BY <1>1, <1>2, <1>3, <1>4, <1>5, <1>6, <1>7, <1>8 DEF KitNext, Next

\* What is stored and what the running command has left, in every state that commands of
\* wrap install, wrap package, wrap kit, crashes and failed writes lead to.
THEOREM KitInvariant == KitSpec => []IInv
<1>. QED  BY InvBegins, InvStays, PTL DEF KitSpec

\* Every file and every step that is left has its type.
THEOREM KitTypes == KitSpec => []TypeOK
<1>1. IInv => TypeOK
  <2>. SUFFICES ASSUME IInv PROVE TypeOK
    OBVIOUS
  <2>1. todo \in Seq(StepSet)
    BY DEF IInv, Left, QInv, QueueOK
  <2>2. \A i \in DOMAIN todo : todo[i].k \in Keys \cup {NoKey} /\ todo[i].j \in Json
    BY <2>1, StepType
  <2>. QED  BY <2>2 DEF IInv, FilesOK, TypeOK
<1>. QED  BY <1>1, KitInvariant, PTL

\* Between commands the tracking directory of a version leads to everything that
\* registry.dat lists of it, unless a command that removes both was cut short: a
\* registration writes the directory first, a removal takes it last.
THEOREM RegisteredStaysTracked == KitSpec => []RegisteredIsTracked
<1>1. IInv => RegisteredIsTracked
  BY IdleTracked DEF IInv, RegisteredIsTracked
<1>. QED  BY <1>1, KitInvariant, PTL

\* Whatever was cut short, a tool is linked only to a binary that was downloaded and the
\* current version only to a kitfile that was stored.
THEOREM KitStaysUsable == KitSpec => []KitUsable
<1>1. IInv => KitUsable
  BY DEF IInv, Usable
<1>. QED  BY <1>1, KitInvariant, PTL
=============================================================================
