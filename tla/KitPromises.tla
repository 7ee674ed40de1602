----------------------------- MODULE KitPromises -----------------------------
(***************************************************************************)
(* What a command that nothing cut short may be relied on for: wrap kit    *)
(* has delivered all that its kitfile lists when it reports success, wrap  *)
(* make compiles the source directories as they are, and an application    *)
(* lists what the packages it tracks need.                                 *)
(*                                                                         *)
(* One invariant says of the steps that are left that they bring about     *)
(* what the kitfile asks for, another that before the compiler starts      *)
(* they make every link and remove everything compiled earlier, a third    *)
(* that the elm.json files they write and the links they make serve every  *)
(* application that is entered with a package or is to be.                 *)
(***************************************************************************)
EXTENDS KitProofs

-----------------------------------------------------------------------------
(* What a command of wrap kit was asked for, and what it has left of it *)

\* A tool is to be linked or a package installed, a local package to be linked, to have its
\* PATH file and to be in the registries.
KeyGoals == {"symlink", "path", "text", "dat"}
Fit(op, x) ==
  \/ op \in KeyGoals /\ x \in Keys
  \/ op = "link_tool" /\ x \in Tools
  \/ op = "install_package" /\ x \in Others

Goal(op, x, s, src) ==
  \/ op = "link_tool" /\ x \in UrlTools(s) \cup FolderTools(s)
  \/ op = "install_package" /\ x \in PackagesOf(s)
  \/ op \in KeyGoals /\ x \in s.locals /\ src[x[1]].there

Reached(op, x, s, ln, pa, te, da, linked, packages) ==
  /\ op = "link_tool" => linked[x] = IF x \in s.tools THEN s.version ELSE "folder"
  /\ op = "install_package" => x \in packages
  /\ op = "symlink" => ln[x] = "source"
  /\ op = "path" => pa[x] = "source"
  /\ op = "text" => x \in te
  /\ op = "dat" => x \in da

Subject(op, st) == IF op \in KeyGoals THEN st.k ELSE st.a
Makes(st, op, x) == st.op = op /\ Subject(op, st) = x
Undoes(st, op, x) ==
  \/ st.op = "drop_all"
  \/ /\ Subject(op, st) = x
     /\ \/ op = "link_tool" /\ st.op = "drop_tool"
        \/ op = "symlink" /\ st.op \in {"unlink", "uncache"}
        \/ op = "path" /\ st.op \in {"open_path", "drop"}
        \/ op = "text" /\ st.op = "untext"
        \/ op = "dat" /\ st.op = "undat"

WillMake(st, op, x) == Makes(st, op, x) \/ \E r \in st.rounds : \E p \in 1 .. Len(r) : Makes(r[p], op, x)
Coming(q, i, op, x) == \E j \in i .. Len(q) : WillMake(q[j], op, x)

\* What a step undoes is made again by a later one.
Mending(q, op, x) ==
  \A i \in 1 .. Len(q) :
    /\ Undoes(q[i], op, x) => Coming(q, i + 1, op, x)
    /\ \A r \in q[i].rounds : \A p \in 1 .. Len(r) : Undoes(r[p], op, x) =>
         Coming(q, i + 1, op, x) \/ \E h \in p + 1 .. Len(r) : Makes(r[h], op, x)

LastReport(q) == Len(q) \in 1 .. Len(q) /\ q[Len(q)].op = "report"

Due(q, s, src, ln, pa, te, da, linked, packages) ==
  /\ LastReport(q)
  /\ \A op, x : Goal(op, x, s, src) =>
       /\ Reached(op, x, s, ln, pa, te, da, linked, packages) \/ Coming(q, 1, op, x)
       /\ Mending(q, op, x)

\* The running command delivers, unless it met trouble.
DeliverInv ==
  kits.source # NoSource /\ troubles = kits.before =>
    Due(todo, kits.source, source, link, path, text, dat, kits.linked, kits.packages)

\* A kitfile asks for what there is.
LEMMA GoalsFit ==
  ASSUME NEW s \in Sources, NEW op, NEW x, NEW src, Goal(op, x, s, src)
  PROVE  Fit(op, x)
  BY KitfileType DEF Goal, Fit

\* What is left is kept when steps come in the place of the first.
LEMMA ShiftComing ==
  ASSUME NEW q, NEW s, NEW q2, Shifted(q, s, q2), NEW op, NEW x, NEW g \in 2 .. Len(q) + 1,
         Coming(q, g, op, x)
  PROVE  Coming(q2, g + Len(s) - 1, op, x)
<1>1. Len(s) \in Nat /\ Len(q) \in Nat \ {0} /\ Len(q2) = Len(s) + Len(q) - 1
  BY DEF Shifted
<1>2. PICK j \in g .. Len(q) : WillMake(q[j], op, x)
  BY DEF Coming
<1>3. j \in 2 .. Len(q)
  BY <1>1
<1>4. q2[j + Len(s) - 1] = q[j] /\ j + Len(s) - 1 \in g + Len(s) - 1 .. Len(q2)
  BY <1>1, <1>3 DEF Shifted
<1>5. WillMake(q2[j + Len(s) - 1], op, x)
  BY <1>2, <1>4
<1>. QED  BY <1>4, <1>5 DEF Coming

\* What steps undo is made again, when others come in the place of the first.
LEMMA ShiftMending ==
  ASSUME NEW q, NEW s, NEW q2, Shifted(q, s, q2), NEW op, NEW x, Mending(q, op, x),
         \A m \in 1 .. Len(s) :
           /\ Undoes(s[m], op, x) => Coming(q, 2, op, x) \/ Coming(s, m + 1, op, x)
           /\ \A r \in s[m].rounds : \A p \in 1 .. Len(r) : Undoes(r[p], op, x) =>
                \/ Coming(q, 2, op, x) \/ Coming(s, m + 1, op, x)
                \/ \E h \in p + 1 .. Len(r) : Makes(r[h], op, x)
  PROVE  Mending(q2, op, x)
<1> SUFFICES ASSUME NEW i \in 1 .. Len(q2)
             PROVE  /\ Undoes(q2[i], op, x) => Coming(q2, i + 1, op, x)
                    /\ \A r \in q2[i].rounds : \A p \in 1 .. Len(r) : Undoes(r[p], op, x) =>
                         \/ Coming(q2, i + 1, op, x)
                         \/ \E h \in p + 1 .. Len(r) : Makes(r[h], op, x)
  BY DEF Mending
<1>1. Len(s) \in Nat /\ Len(q) \in Nat \ {0} /\ Len(q2) = Len(s) + Len(q) - 1
  BY DEF Shifted
<1>2. CASE i <= Len(s)
  <2>1. i \in 1 .. Len(s) /\ q2[i] = s[i]
    BY <1>1, <1>2 DEF Shifted
  <2>2. ASSUME Coming(q, 2, op, x) PROVE Coming(q2, i + 1, op, x)
    <3>1. 2 \in 2 .. Len(q) + 1
      BY <1>1
    <3>2. Coming(q2, 2 + Len(s) - 1, op, x)
      BY <2>2, <3>1, ShiftComing
    <3>3. PICK j \in 2 + Len(s) - 1 .. Len(q2) : WillMake(q2[j], op, x)
      BY <3>2 DEF Coming
    <3>4. j \in i + 1 .. Len(q2)
      BY <1>1, <1>2
    <3>. QED  BY <3>3, <3>4 DEF Coming
  <2>3. ASSUME Coming(s, i + 1, op, x) PROVE Coming(q2, i + 1, op, x)
    <3>1. PICK j \in i + 1 .. Len(s) : WillMake(s[j], op, x)
      BY <2>3 DEF Coming
    <3>2. j \in 1 .. Len(s) /\ j \in i + 1 .. Len(q2)
      BY <1>1
    <3>3. q2[j] = s[j]
      BY <3>2 DEF Shifted
    <3>. QED  BY <3>1, <3>2, <3>3 DEF Coming
  <2>4. Undoes(s[i], op, x) => Coming(q, 2, op, x) \/ Coming(s, i + 1, op, x)
    BY <2>1
  <2>5. \A r \in s[i].rounds : \A p \in 1 .. Len(r) : Undoes(r[p], op, x) =>
           \/ Coming(q, 2, op, x) \/ Coming(s, i + 1, op, x)
           \/ \E h \in p + 1 .. Len(r) : Makes(r[h], op, x)
    BY <2>1
  <2>. QED  BY <2>1, <2>2, <2>3, <2>4, <2>5
<1>3. CASE i > Len(s)
  <2> DEFINE g == i - Len(s) + 1
  <2>1. g \in 2 .. Len(q) /\ q2[i] = q[g] /\ g \in 1 .. Len(q) /\ g + 1 \in 2 .. Len(q) + 1
        /\ (g + 1) + Len(s) - 1 = i + 1
    BY <1>1, <1>3 DEF Shifted
  <2> HIDE DEF g
  <2>2. Coming(q, g + 1, op, x) => Coming(q2, i + 1, op, x)
    <3>1. Coming(q, g + 1, op, x) => Coming(q2, (g + 1) + Len(s) - 1, op, x)
      BY <2>1, ShiftComing
    <3>. QED  BY <2>1, <3>1
  <2>. QED  BY <2>1, <2>2 DEF Mending
<1>. QED  BY <1>1, <1>2, <1>3

\* The report stays the last step.
LEMMA ShiftReport ==
  ASSUME NEW q, NEW s, NEW q2, Shifted(q, s, q2), LastReport(q), Len(q) # 1
  PROVE  LastReport(q2)
<1>1. Len(s) \in Nat /\ Len(q) \in Nat \ {0} /\ Len(q2) = Len(s) + Len(q) - 1
  BY DEF Shifted
<1>2. Len(q) \in 2 .. Len(q)
  <2>1. \A n \in Nat \ {0} : n # 1 => n \in 2 .. n
    OBVIOUS
  <2>. QED  BY <1>1, <2>1
<1>3. q2[Len(q) + Len(s) - 1] = q[Len(q)] /\ Len(q) + Len(s) - 1 = Len(q2)
  BY <1>1, <1>2 DEF Shifted
<1>. QED  BY <1>1, <1>2, <1>3 DEF LastReport

\* A step makes its goal, undoes what it is known to undo and leaves the rest.
Effects ==
  /\ source' = source /\ troubles' = troubles
  /\ kits'.source = kits.source /\ kits'.before = kits.before
  /\ \A op, x :
       /\ Fit(op, x)
       /\ \/ Makes(Step, op, x)
          \/ /\ Reached(op, x, kits.source, link, path, text, dat, kits.linked, kits.packages)
             /\ ~Undoes(Step, op, x)
       => Reached(op, x, kits.source, link', path', text', dat', kits'.linked, kits'.packages)

\* A step that is done leaves what is due reached or to come.
LEMMA DueWhenDone ==
  ASSUME IInv, DeliverInv, NEW o, Doing(o), o # "report", o = "loop" => Step.rounds = {},
         Done, Effects
  PROVE  DeliverInv'
<1> DEFINE s == kits.source
<1> SUFFICES ASSUME s # NoSource, troubles = kits.before
             PROVE  Due(todo', s, source, link', path', text', dat', kits'.linked, kits'.packages)
  BY DEF DeliverInv, Effects
<1>1. /\ todo \in Seq(StepSet) /\ todo # <<>> /\ todo[1] = Step /\ Step.op = o /\ Step.rounds = {}
      /\ todo' = Tail(todo)
  BY FirstStep DEF IInv, Done
<1>2. Due(todo, s, source, link, path, text, dat, kits.linked, kits.packages)
  BY DEF DeliverInv
<1>3. s \in Sources
  <2>1. kits.source \in Sources \cup {NoSource}
    BY DEF IInv, Usable, KitUsable, KitFiles
  <2>. QED  BY <2>1
<1>4. Shifted(todo, <<>>, todo')
  BY <1>1, DoneShifts
<1>5. Len(<<>>) = 0 /\ Len(todo) \in Nat \ {0}
  BY <1>4, EmptySeq DEF Shifted
<1>6. LastReport(todo')
  <2>1. Len(todo) # 1
    BY <1>1, <1>2 DEF Due, LastReport
  <2>. QED  BY <1>2, <1>4, <2>1, ShiftReport DEF Due
<1>7. ASSUME NEW op, NEW x, Goal(op, x, s, source)
      PROVE  /\ \/ Reached(op, x, s, link', path', text', dat', kits'.linked, kits'.packages)
                \/ Coming(todo', 1, op, x)
             /\ Mending(todo', op, x)
  <2>1. Fit(op, x)
    BY <1>3, <1>7, GoalsFit
  <2>2. /\ Reached(op, x, s, link, path, text, dat, kits.linked, kits.packages) \/ Coming(todo, 1, op, x)
        /\ Mending(todo, op, x)
    BY <1>2, <1>7 DEF Due
  <2>3. Coming(todo, 2, op, x) => Coming(todo', 1, op, x)
    <3>1. 2 \in 2 .. Len(todo) + 1 /\ 2 + Len(<<>>) - 1 = 1
      BY <1>5
    <3>2. Coming(todo, 2, op, x) => Coming(todo', 2 + Len(<<>>) - 1, op, x)
      BY <1>4, <3>1, ShiftComing
    <3>. QED  BY <3>1, <3>2
  <2>4. Undoes(Step, op, x) => Coming(todo, 2, op, x)
    <3>1. 1 \in 1 .. Len(todo)
      BY <1>5
    <3>2. Undoes(todo[1], op, x) => Coming(todo, 1 + 1, op, x)
      BY <2>2, <3>1 DEF Mending
    <3>. QED  BY <1>1, <3>2
  <2>5. Coming(todo, 1, op, x) => Makes(Step, op, x) \/ Coming(todo, 2, op, x)
    <3>. SUFFICES ASSUME NEW j \in 1 .. Len(todo), WillMake(todo[j], op, x)
                  PROVE  Makes(Step, op, x) \/ Coming(todo, 2, op, x)
      BY DEF Coming
    <3>1. CASE j = 1
      BY <1>1, <3>1 DEF WillMake
    <3>2. CASE j # 1
      <4>1. j \in 2 .. Len(todo)
        BY <1>5, <3>2
      <4>. QED  BY <4>1 DEF Coming
    <3>. QED  BY <3>1, <3>2
  <2>6. \/ Reached(op, x, s, link', path', text', dat', kits'.linked, kits'.packages)
        \/ Coming(todo', 1, op, x)
    BY <2>1, <2>2, <2>3, <2>4, <2>5 DEF Effects
  <2>7. Mending(todo', op, x)
    <3>1. 1 .. Len(<<>>) = {}
      BY <1>5
    <3>. QED  BY <1>4, <2>2, <3>1, ShiftMending
  <2>. QED  BY <2>6, <2>7
<1>. QED  BY <1>6, <1>7 DEF Due

\* A command of wrap kit has no step that may lead to others.
LEMMA NoMoreInKit ==
  ASSUME IInv, DeliverInv, NEW o \in GrowOps, Doing(o), kits' = kits, troubles' = troubles
  PROVE  DeliverInv'
<1> SUFFICES ASSUME kits.source # NoSource, troubles = kits.before PROVE FALSE
  BY DEF DeliverInv
<1>1. LastReport(todo)
  BY DEF DeliverInv, Due
<1>2. todo[1] = Step /\ Step.op = o /\ QueueOK(todo) /\ 1 \in 1 .. Len(todo)
  BY FirstStep DEF IInv
<1>3. Has(todo[1], GrowOps)
  BY <1>2 DEF Has
<1>4. Has(todo[Len(todo)], DropOps \cup KitOps) /\ Len(todo) \in 1 .. Len(todo)
  BY <1>1 DEF Has, LastReport, KitOps
<1>. QED  BY <1>2, <1>3, <1>4 DEF QueueOK

\* The running command does not deliver after trouble.
LEMMA TroubleIsNotClean ==
  ASSUME IInv, troubles' = troubles + 1, kits' = kits
  PROVE  DeliverInv'
<1>1. kits.before <= troubles /\ kits.before \in Nat /\ troubles \in Nat
  BY DEF IInv, FilesOK, Usable, KitUsable, KitFiles
<1>. QED  BY <1>1 DEF DeliverInv

\* While a command of wrap kit delivers, it has not ended.
LEMMA IdleIsNotDue ==
  ASSUME IInv, DeliverInv, Idle
  PROVE  kits.source = NoSource \/ troubles # kits.before
<1> SUFFICES ASSUME kits.source # NoSource, troubles = kits.before PROVE FALSE
  OBVIOUS
<1>1. LastReport(todo)
  BY DEF DeliverInv, Due
<1>2. todo = <<>> /\ Len(<<>>) = 0
  BY EmptySeq DEF Idle
<1>. QED  BY <1>1, <1>2 DEF LastReport

\* Another command begins.
LEMMA OtherBegins ==
  ASSUME IInv, DeliverInv, Idle, kits' = kits, troubles' \in {troubles, troubles + 1}
  PROVE  DeliverInv'
<1>1. CASE troubles' = troubles + 1
  BY <1>1, TroubleIsNotClean
<1>2. CASE troubles' = troubles
  BY <1>2, IdleIsNotDue DEF DeliverInv
<1>. QED  BY <1>1, <1>2

\* Steps that write or remove the files of local packages.
LEMMA LocalStepsDeliver ==
  ASSUME IInv, DeliverInv
  PROVE  /\ unlink_package => DeliverInv'
         /\ create_package_symlink => DeliverInv'
         /\ open_source_path => DeliverInv'
         /\ save_local_dev_source_path => DeliverInv'
         /\ register_local_dev_v2_text_registry => DeliverInv'
         /\ ensure_local_dev_in_registry_dat => DeliverInv'
         /\ register_dependency_tracking => DeliverInv'
         /\ elm_json_write => DeliverInv'
         /\ drop_tracking_dir => DeliverInv'
         /\ drop_all_tracking => DeliverInv'
         /\ remove_local_dev_from_registry_dat => DeliverInv'
         /\ remove_local_dev_from_text_registry => DeliverInv'
         /\ untrack => DeliverInv'
         /\ builder_clean_local_dev_artifacts => DeliverInv'
         /\ compiler_make => DeliverInv'
         /\ kit_remove_cache_symlink => DeliverInv'
<1>0. /\ kits \in KitFiles
      /\ link \in [Keys -> {"none", "copy", "source"}] /\ path \in [Keys -> {"none", "empty", "source"}]
  BY DEF IInv, Usable, KitUsable, FilesOK
<1>1. ASSUME unlink_package PROVE DeliverInv'
  <2>1. /\ Doing("unlink") /\ Done /\ Step.op = "unlink" /\ UNCHANGED <<source, troubles, path, text, dat, kits>>
          /\ link' = [link EXCEPT ![Step.k] = "none"]
    BY <1>1 DEF unlink_package, Keep, Doing
  <2>2. Effects
    BY <1>0, <2>1 DEF Effects, Fit, Makes, Undoes, Subject, Reached, KeyGoals
  <2>. QED  BY <2>1, <2>2, DueWhenDone
<1>2. ASSUME create_package_symlink PROVE DeliverInv'
  <2>1. /\ Doing("symlink") /\ Done /\ Step.op = "symlink" /\ UNCHANGED <<source, troubles, path, text, dat, kits>>
          /\ link' = [link EXCEPT ![Step.k] = "source"]
    BY <1>2 DEF create_package_symlink, Keep, Doing
  <2>2. Effects
    BY <1>0, <2>1 DEF Effects, Fit, Makes, Undoes, Subject, Reached, KeyGoals
  <2>. QED  BY <2>1, <2>2, DueWhenDone
<1>3. ASSUME open_source_path PROVE DeliverInv'
  <2>1. /\ Doing("open_path") /\ Done /\ Step.op = "open_path" /\ UNCHANGED <<source, troubles, link, text, dat, kits>>
          /\ path' = [path EXCEPT ![Step.k] = "empty"]
    BY <1>3 DEF open_source_path, Keep, Doing
  <2>2. Effects
    BY <1>0, <2>1 DEF Effects, Fit, Makes, Undoes, Subject, Reached, KeyGoals
  <2>. QED  BY <2>1, <2>2, DueWhenDone
<1>4. ASSUME save_local_dev_source_path PROVE DeliverInv'
  <2>1. /\ Doing("path") /\ Done /\ Step.op = "path" /\ UNCHANGED <<source, troubles, link, text, dat, kits>>
          /\ path' = [path EXCEPT ![Step.k] = "source"]
    BY <1>4 DEF save_local_dev_source_path, Keep, Doing
  <2>2. Effects
    BY <1>0, <2>1 DEF Effects, Fit, Makes, Undoes, Subject, Reached, KeyGoals
  <2>. QED  BY <2>1, <2>2, DueWhenDone
<1>5. ASSUME register_local_dev_v2_text_registry PROVE DeliverInv'
  <2>1. /\ Doing("text") /\ Done /\ Step.op = "text" /\ UNCHANGED <<source, troubles, link, path, dat, kits>>
          /\ text' = text \cup {Step.k}
    BY <1>5 DEF register_local_dev_v2_text_registry, Keep, Doing
  <2>2. Effects
    BY <1>0, <2>1 DEF Effects, Fit, Makes, Undoes, Subject, Reached, KeyGoals
  <2>. QED  BY <2>1, <2>2, DueWhenDone
<1>6. ASSUME ensure_local_dev_in_registry_dat PROVE DeliverInv'
  <2>1. /\ Doing("dat") /\ Done /\ Step.op = "dat" /\ UNCHANGED <<source, troubles, link, path, text, kits>>
          /\ dat' = dat \cup {Step.k}
    BY <1>6 DEF ensure_local_dev_in_registry_dat, Keep, Doing
  <2>2. Effects
    BY <1>0, <2>1 DEF Effects, Fit, Makes, Undoes, Subject, Reached, KeyGoals
  <2>. QED  BY <2>1, <2>2, DueWhenDone
<1>7. ASSUME register_dependency_tracking PROVE DeliverInv'
  <2>1. /\ Doing("track") /\ Done /\ Step.op = "track" /\ UNCHANGED <<source, troubles, link, path, text, dat, kits>>
    BY <1>7 DEF register_dependency_tracking, Keep, Doing
  <2>2. Effects
    BY <1>0, <2>1 DEF Effects, Fit, Makes, Undoes, Subject, Reached, KeyGoals
  <2>. QED  BY <2>1, <2>2, DueWhenDone
<1>8. ASSUME elm_json_write PROVE DeliverInv'
  <2>1. /\ Doing("elm_json") /\ Done /\ Step.op = "elm_json" /\ UNCHANGED <<source, troubles, link, path, text, dat, kits>>
    BY <1>8 DEF elm_json_write, Keep, Doing
  <2>2. Effects
    BY <1>0, <2>1 DEF Effects, Fit, Makes, Undoes, Subject, Reached, KeyGoals
  <2>. QED  BY <2>1, <2>2, DueWhenDone
<1>9. ASSUME drop_tracking_dir PROVE DeliverInv'
  <2>1. /\ Doing("drop") /\ Done /\ Step.op = "drop" /\ UNCHANGED <<source, troubles, link, text, dat, kits>>
          /\ path' = [path EXCEPT ![Step.k] = "none"]
    BY <1>9 DEF drop_tracking_dir, Keep, Doing
  <2>2. Effects
    BY <1>0, <2>1 DEF Effects, Fit, Makes, Undoes, Subject, Reached, KeyGoals
  <2>. QED  BY <2>1, <2>2, DueWhenDone
<1>10. ASSUME drop_all_tracking PROVE DeliverInv'
  <2>1. /\ Doing("drop_all") /\ Done /\ Step.op = "drop_all" /\ UNCHANGED <<source, troubles, link, dat, kits>>
    BY <1>10 DEF drop_all_tracking, Keep, Doing
  <2>2. Effects
    BY <1>0, <2>1 DEF Effects, Fit, Makes, Undoes, Subject, Reached, KeyGoals
  <2>. QED  BY <2>1, <2>2, DueWhenDone
<1>11. ASSUME remove_local_dev_from_registry_dat PROVE DeliverInv'
  <2>1. /\ Doing("undat") /\ Done /\ Step.op = "undat" /\ UNCHANGED <<source, troubles, link, path, text, kits>>
          /\ dat' = dat \ {Step.k}
    BY <1>11 DEF remove_local_dev_from_registry_dat, Keep, Doing
  <2>2. Effects
    BY <1>0, <2>1 DEF Effects, Fit, Makes, Undoes, Subject, Reached, KeyGoals
  <2>. QED  BY <2>1, <2>2, DueWhenDone
<1>12. ASSUME remove_local_dev_from_text_registry PROVE DeliverInv'
  <2>1. /\ Doing("untext") /\ Done /\ Step.op = "untext" /\ UNCHANGED <<source, troubles, link, path, dat, kits>>
          /\ text' = text \ {Step.k}
    BY <1>12 DEF remove_local_dev_from_text_registry, Keep, Doing
  <2>2. Effects
    BY <1>0, <2>1 DEF Effects, Fit, Makes, Undoes, Subject, Reached, KeyGoals
  <2>. QED  BY <2>1, <2>2, DueWhenDone
<1>13. ASSUME untrack PROVE DeliverInv'
  <2>1. /\ Doing("untrack") /\ Done /\ Step.op = "untrack" /\ UNCHANGED <<source, troubles, link, path, text, dat, kits>>
    BY <1>13 DEF untrack, Keep, Doing
  <2>2. Effects
    BY <1>0, <2>1 DEF Effects, Fit, Makes, Undoes, Subject, Reached, KeyGoals
  <2>. QED  BY <2>1, <2>2, DueWhenDone
<1>14. ASSUME builder_clean_local_dev_artifacts PROVE DeliverInv'
  <2>1. /\ Doing("clean") /\ Done /\ Step.op = "clean" /\ UNCHANGED <<source, troubles, link, path, text, dat, kits>>
    BY <1>14 DEF builder_clean_local_dev_artifacts, Keep, Doing
  <2>2. Effects
    BY <1>0, <2>1 DEF Effects, Fit, Makes, Undoes, Subject, Reached, KeyGoals
  <2>. QED  BY <2>1, <2>2, DueWhenDone
<1>15. ASSUME compiler_make PROVE DeliverInv'
  <2>1. /\ Doing("build") /\ Done /\ Step.op = "build" /\ UNCHANGED <<source, troubles, link, path, text, dat, kits>>
    BY <1>15 DEF compiler_make, Keep, Doing
  <2>2. Effects
    BY <1>0, <2>1 DEF Effects, Fit, Makes, Undoes, Subject, Reached, KeyGoals
  <2>. QED  BY <2>1, <2>2, DueWhenDone
<1>16. ASSUME kit_remove_cache_symlink PROVE DeliverInv'
  <2>1. /\ Doing("uncache") /\ Done /\ Step.op = "uncache" /\ UNCHANGED <<source, troubles, path, text, dat, kits>>
          /\ link' = [link EXCEPT ![Step.k] = IF @ = "source" THEN "none" ELSE @]
    BY <1>16 DEF kit_remove_cache_symlink, Keep, Doing
  <2>2. Effects
    BY <1>0, <2>1 DEF Effects, Fit, Makes, Undoes, Subject, Reached, KeyGoals
  <2>. QED  BY <2>1, <2>2, DueWhenDone
<1>. QED  BY <1>1, <1>2, <1>3, <1>4, <1>5, <1>6, <1>7, <1>8, <1>9, <1>10, <1>11, <1>12, <1>13, <1>14, <1>15, <1>16

\* Steps that write or remove what a kit has of its own.
LEMMA KitStepsDeliver ==
  ASSUME IInv, DeliverInv
  PROVE  /\ download_tool_binary => DeliverInv'
         /\ drop_tool_symlink => DeliverInv'
         /\ symlink_tool => DeliverInv'
         /\ install_one_package => DeliverInv'
         /\ kit_store_kitfile => DeliverInv'
         /\ unlink_current => DeliverInv'
         /\ symlink_current => DeliverInv'
<1>0. /\ kits \in KitFiles
      /\ link \in [Keys -> {"none", "copy", "source"}] /\ path \in [Keys -> {"none", "empty", "source"}]
  BY DEF IInv, Usable, KitUsable, FilesOK
<1>1. ASSUME download_tool_binary PROVE DeliverInv'
  <2>1. /\ Doing("download_tool") /\ Done /\ Step.op = "download_tool" /\ UNCHANGED <<source, troubles, link, path, text, dat>>
          /\ kits' = [kits EXCEPT !.bin = @ \cup {<<Step.a, kits.source.version>>}]
    BY <1>1 DEF download_tool_binary, KitKeep, Doing
  <2>2. kits'.source = kits.source /\ kits'.before = kits.before
    BY <1>0, <2>1 DEF KitFiles
  <2>3. kits'.linked = kits.linked /\ kits'.packages = kits.packages
    BY <1>0, <2>1 DEF KitFiles
  <2>4. Effects
    BY <1>0, <2>1, <2>2, <2>3 DEF Effects, Fit, Makes, Undoes, Subject, Reached, KeyGoals, KitFiles
  <2>. QED  BY <2>1, <2>4, DueWhenDone
<1>2. ASSUME drop_tool_symlink PROVE DeliverInv'
  <2>1. /\ Doing("drop_tool") /\ Done /\ Step.op = "drop_tool" /\ UNCHANGED <<source, troubles, link, path, text, dat>>
          /\ kits' = [kits EXCEPT !.linked[Step.a] = "none"]
    BY <1>2 DEF drop_tool_symlink, KitKeep, Doing
  <2>2. kits'.source = kits.source /\ kits'.before = kits.before
    BY <1>0, <2>1 DEF KitFiles
  <2>3. kits'.linked = [kits.linked EXCEPT ![Step.a] = "none"] /\ kits'.packages = kits.packages
    BY <1>0, <2>1 DEF KitFiles
  <2>4. Effects
    BY <1>0, <2>1, <2>2, <2>3 DEF Effects, Fit, Makes, Undoes, Subject, Reached, KeyGoals, KitFiles
  <2>. QED  BY <2>1, <2>4, DueWhenDone
<1>3. ASSUME symlink_tool PROVE DeliverInv'
  <2>1. /\ Doing("link_tool") /\ Done /\ Step.op = "link_tool" /\ UNCHANGED <<source, troubles, link, path, text, dat>>
          /\ kits' = [kits EXCEPT !.linked[Step.a] =
                       IF Step.a \in kits.source.tools THEN kits.source.version ELSE "folder"]
    BY <1>3 DEF symlink_tool, KitKeep, Doing
  <2>2. kits'.source = kits.source /\ kits'.before = kits.before
    BY <1>0, <2>1 DEF KitFiles
  <2>3. kits'.packages = kits.packages /\ kits'.linked = [kits.linked EXCEPT ![Step.a] =
               IF Step.a \in kits.source.tools THEN kits.source.version ELSE "folder"]
    BY <1>0, <2>1 DEF KitFiles
  <2>4. Effects
    BY <1>0, <2>1, <2>2, <2>3 DEF Effects, Fit, Makes, Undoes, Subject, Reached, KeyGoals, KitFiles
  <2>. QED  BY <2>1, <2>4, DueWhenDone
<1>4. ASSUME install_one_package PROVE DeliverInv'
  <2>1. /\ Doing("install_package") /\ Done /\ Step.op = "install_package" /\ UNCHANGED <<source, troubles, link, path, text, dat>>
          /\ kits' = [kits EXCEPT !.packages = @ \cup {Step.a}]
    BY <1>4 DEF install_one_package, KitKeep, Doing
  <2>2. kits'.source = kits.source /\ kits'.before = kits.before
    BY <1>0, <2>1 DEF KitFiles
  <2>3. kits'.linked = kits.linked /\ kits'.packages = kits.packages \cup {Step.a}
    BY <1>0, <2>1 DEF KitFiles
  <2>4. Effects
    BY <1>0, <2>1, <2>2, <2>3 DEF Effects, Fit, Makes, Undoes, Subject, Reached, KeyGoals, KitFiles
  <2>. QED  BY <2>1, <2>4, DueWhenDone
<1>5. ASSUME kit_store_kitfile PROVE DeliverInv'
  <2>1. /\ Doing("store") /\ Done /\ Step.op = "store" /\ UNCHANGED <<source, troubles, link, path, text, dat>>
          /\ kits' = [kits EXCEPT !.stored[kits.source.version] = kits.source]
    BY <1>5 DEF kit_store_kitfile, KitKeep, Doing
  <2>2. kits'.source = kits.source /\ kits'.before = kits.before
    BY <1>0, <2>1 DEF KitFiles
  <2>3. kits'.linked = kits.linked /\ kits'.packages = kits.packages
    BY <1>0, <2>1 DEF KitFiles
  <2>4. Effects
    BY <1>0, <2>1, <2>2, <2>3 DEF Effects, Fit, Makes, Undoes, Subject, Reached, KeyGoals, KitFiles
  <2>. QED  BY <2>1, <2>4, DueWhenDone
<1>6. ASSUME unlink_current PROVE DeliverInv'
  <2>1. /\ Doing("demote") /\ Done /\ Step.op = "demote" /\ UNCHANGED <<source, troubles, link, path, text, dat>>
          /\ kits' = [kits EXCEPT !.current = "none"]
    BY <1>6 DEF unlink_current, KitKeep, Doing
  <2>2. kits'.source = kits.source /\ kits'.before = kits.before
    BY <1>0, <2>1 DEF KitFiles
  <2>3. kits'.linked = kits.linked /\ kits'.packages = kits.packages
    BY <1>0, <2>1 DEF KitFiles
  <2>4. Effects
    BY <1>0, <2>1, <2>2, <2>3 DEF Effects, Fit, Makes, Undoes, Subject, Reached, KeyGoals, KitFiles
  <2>. QED  BY <2>1, <2>4, DueWhenDone
<1>7. ASSUME symlink_current PROVE DeliverInv'
  <2>1. /\ Doing("promote") /\ Done /\ Step.op = "promote" /\ UNCHANGED <<source, troubles, link, path, text, dat>>
          /\ kits' = [kits EXCEPT !.current = kits.source.version]
    BY <1>7 DEF symlink_current, KitKeep, Doing
  <2>2. kits'.source = kits.source /\ kits'.before = kits.before
    BY <1>0, <2>1 DEF KitFiles
  <2>3. kits'.linked = kits.linked /\ kits'.packages = kits.packages
    BY <1>0, <2>1 DEF KitFiles
  <2>4. Effects
    BY <1>0, <2>1, <2>2, <2>3 DEF Effects, Fit, Makes, Undoes, Subject, Reached, KeyGoals, KitFiles
  <2>. QED  BY <2>1, <2>4, DueWhenDone
<1>. QED  BY <1>1, <1>2, <1>3, <1>4, <1>5, <1>6, <1>7

\* A loop has begun a round.
RoundBegun(q, r, q2) == q2 = (r \o <<Loop(q[1].rounds \ {r})>>) \o Tail(q)

\* A loop that begins a round still makes what it was going to make.
LEMMA RoundDelivers ==
  ASSUME NEW q \in Seq(StepSet), q # <<>>, NEW r \in q[1].rounds, NEW op, NEW x, Fit(op, x),
         Mending(q, op, x),
         NEW q2, RoundBegun(q, r, q2)
  PROVE  Mending(q2, op, x) /\ (Coming(q, 1, op, x) => Coming(q2, 1, op, x))
<1> DEFINE L == Loop(q[1].rounds \ {r})
           s == r \o <<L>>
<1>1. /\ 1 \in 1 .. Len(q) /\ q[1] \in StepSet /\ q[1].op = "loop"
      /\ q[1].rounds \in SUBSET Seq(PlainSteps)
  <2>1. 1 \in 1 .. Len(q) /\ q[1] \in StepSet
    OBVIOUS
  <2>. QED  BY <2>1, RoundType, StepType
<1>2. /\ r \in Seq(StepSet) /\ Len(r) \in Nat
      /\ \A p \in 1 .. Len(r) : r[p] \in PlainSteps /\ r[p] \in StepSet
  BY <1>1, RoundType
<1>3. L \in StepSet /\ L.op = "loop" /\ L.rounds = q[1].rounds \ {r}
  BY <1>1, LoopType
<1>4. q2 = s \o Tail(q)
  BY DEF RoundBegun
<1> HIDE DEF L
<1>5. /\ s \in Seq(StepSet) /\ Len(s) = Len(r) + 1 /\ s[Len(r) + 1] = L
      /\ \A p \in 1 .. Len(r) : s[p] = r[p]
  BY <1>2, <1>3
<1> HIDE DEF s
<1>6. Shifted(q, s, q2)
  BY <1>4, <1>5, ThenShifts
<1>7. /\ Len(q) \in Nat \ {0} /\ Len(q2) = Len(s) + Len(q) - 1
      /\ \A m \in 1 .. Len(s) : q2[m] = s[m]
  BY <1>6 DEF Shifted
<1>8. \A m \in 1 .. Len(s) : m \in 1 .. Len(r) \/ (m = Len(r) + 1 /\ s[m] = L)
  BY <1>2, <1>5
<1>9. ~Makes(q[1], op, x)
  BY <1>1 DEF Makes, Fit, KeyGoals
<1>10. ~Undoes(L, op, x)
  BY <1>3 DEF Undoes
<1>11. \A m \in 1 .. Len(r) : Undoes(r[m], op, x) => Coming(q, 2, op, x) \/ Coming(s, m + 1, op, x)
  <2>. SUFFICES ASSUME NEW m \in 1 .. Len(r), Undoes(r[m], op, x)
                PROVE  Coming(q, 2, op, x) \/ Coming(s, m + 1, op, x)
    OBVIOUS
  <2>1. Coming(q, 1 + 1, op, x) \/ \E h \in m + 1 .. Len(r) : Makes(r[h], op, x)
    BY <1>1 DEF Mending
  <2>2. ASSUME NEW h \in m + 1 .. Len(r), Makes(r[h], op, x) PROVE Coming(s, m + 1, op, x)
    <3>1. h \in 1 .. Len(r) /\ h \in m + 1 .. Len(s)
      BY <1>2, <1>5
    <3>2. WillMake(s[h], op, x)
      BY <1>5, <2>2, <3>1 DEF WillMake
    <3>. QED  BY <3>1, <3>2 DEF Coming
  <2>. QED  BY <2>1, <2>2
<1>12. \A y \in L.rounds : \A p \in 1 .. Len(y) : Undoes(y[p], op, x) =>
         Coming(q, 2, op, x) \/ \E h \in p + 1 .. Len(y) : Makes(y[h], op, x)
  <2>1. \A y \in q[1].rounds : \A p \in 1 .. Len(y) : Undoes(y[p], op, x) =>
          Coming(q, 1 + 1, op, x) \/ \E h \in p + 1 .. Len(y) : Makes(y[h], op, x)
    BY <1>1 DEF Mending
  <2>. QED  BY <1>3, <2>1
<1>13. Mending(q2, op, x)
  <2>. SUFFICES ASSUME NEW m \in 1 .. Len(s)
                PROVE  /\ Undoes(s[m], op, x) => Coming(q, 2, op, x) \/ Coming(s, m + 1, op, x)
                       /\ \A y \in s[m].rounds : \A p \in 1 .. Len(y) : Undoes(y[p], op, x) =>
                            \/ Coming(q, 2, op, x) \/ Coming(s, m + 1, op, x)
                            \/ \E h \in p + 1 .. Len(y) : Makes(y[h], op, x)
    BY <1>6, ShiftMending
  <2>1. CASE m \in 1 .. Len(r)
    <3>1. s[m] = r[m] /\ r[m].rounds = {}
      BY <1>2, <1>5, <2>1, PlainType
    <3>. QED  BY <1>11, <2>1, <3>1
  <2>2. CASE s[m] = L
    BY <1>10, <1>12, <2>2
  <2>. QED  BY <1>8, <2>1, <2>2
<1>14. ASSUME Coming(q, 1, op, x) PROVE Coming(q2, 1, op, x)
  <2>1. PICK j \in 1 .. Len(q) : WillMake(q[j], op, x)
    BY <1>14 DEF Coming
  <2>2. ASSUME NEW m \in 1 .. Len(s), WillMake(s[m], op, x) PROVE Coming(q2, 1, op, x)
    <3>1. m \in 1 .. Len(q2) /\ q2[m] = s[m]
      BY <1>2, <1>5, <1>7
    <3>. QED  BY <2>2, <3>1 DEF Coming
  <2>3. CASE j = 1
    <3>1. PICK y \in q[1].rounds : \E p \in 1 .. Len(y) : Makes(y[p], op, x)
      BY <1>9, <2>1, <2>3 DEF WillMake
    <3>2. CASE y = r
      <4>1. PICK p \in 1 .. Len(r) : Makes(r[p], op, x)
        BY <3>1, <3>2
      <4>2. p \in 1 .. Len(s) /\ WillMake(s[p], op, x)
        BY <1>2, <1>5, <4>1 DEF WillMake
      <4>. QED  BY <2>2, <4>2
    <3>3. CASE y # r
      <4>1. y \in L.rounds
        BY <1>3, <3>3
      <4>2. WillMake(L, op, x)
        BY <3>1, <4>1 DEF WillMake
      <4>3. Len(r) + 1 \in 1 .. Len(s)
        BY <1>2, <1>5
      <4>. QED  BY <1>5, <2>2, <4>2, <4>3
    <3>. QED  BY <3>2, <3>3
  <2>4. CASE j # 1
    <3>1. j \in 2 .. Len(q) /\ 2 \in 2 .. Len(q) + 1
      BY <1>7, <2>4
    <3>2. Coming(q, 2, op, x)
      BY <2>1, <3>1 DEF Coming
    <3>3. Coming(q2, 2 + Len(s) - 1, op, x)
      BY <1>6, <3>1, <3>2, ShiftComing
    <3>4. PICK h \in 2 + Len(s) - 1 .. Len(q2) : WillMake(q2[h], op, x)
      BY <3>3 DEF Coming
    <3>5. h \in 1 .. Len(q2)
      BY <1>2, <1>5, <1>7
    <3>. QED  BY <3>4, <3>5 DEF Coming
  <2>. QED  BY <2>3, <2>4
<1>. QED  BY <1>13, <1>14

\* The report stays the last step when a loop begins a round.
LEMMA RoundReport ==
  ASSUME NEW q \in Seq(StepSet), q # <<>>, NEW r \in q[1].rounds, LastReport(q), Len(q) # 1
  PROVE  LastReport((r \o <<Loop(q[1].rounds \ {r})>>) \o Tail(q))
<1> DEFINE L == Loop(q[1].rounds \ {r})
           s == r \o <<L>>
<1>1. 1 \in 1 .. Len(q) /\ q[1] \in StepSet
  OBVIOUS
<1>2. r \in Seq(StepSet) /\ q[1].rounds \in SUBSET Seq(PlainSteps)
  BY <1>1, RoundType, StepType
<1>3. L \in StepSet
  BY <1>2, LoopType
<1> HIDE DEF L
<1>4. s \in Seq(StepSet)
  BY <1>2, <1>3
<1> HIDE DEF s
<1>5. Shifted(q, s, s \o Tail(q))
  BY <1>4, ThenShifts
<1>6. LastReport(s \o Tail(q))
  BY <1>5, ShiftReport
<1>. QED  BY <1>6 DEF s, L

\* A loop ends or begins a round.
LEMMA LoopsDeliver == ASSUME IInv, DeliverInv, next_round PROVE DeliverInv'
<1>1. Doing("loop") /\ UNCHANGED <<files, seen, excused, troubles>>
  BY DEF next_round
<1>2. /\ todo \in Seq(StepSet) /\ todo # <<>> /\ todo[1] = Step /\ Step.op = "loop"
  BY <1>1, FirstStep DEF IInv
<1>3. UNCHANGED <<source, link, path, text, dat, kits, troubles>>
  BY <1>1 DEF files
<1>4. CASE Step.rounds = {} /\ Done
  <2>1. Effects
    BY <1>2, <1>3 DEF Effects, Fit, KeyGoals, Makes
  <2>. QED  BY <1>1, <1>4, <2>1, DueWhenDone
<1>5. ASSUME NEW r \in Step.rounds, Then(r \o <<Loop(Step.rounds \ {r})>>)
      PROVE  DeliverInv'
  <2> DEFINE u == kits.source
             q2 == (r \o <<Loop(todo[1].rounds \ {r})>>) \o Tail(todo)
  <2>1. todo' = q2
    BY <1>2, <1>5 DEF Then
  <2>. SUFFICES ASSUME u # NoSource, troubles = kits.before
                PROVE  Due(todo', u, source, link, path, text, dat, kits.linked, kits.packages)
    BY <1>3 DEF DeliverInv
  <2>2. Due(todo, u, source, link, path, text, dat, kits.linked, kits.packages)
    BY DEF DeliverInv
  <2>3. u \in Sources
    <3>1. kits.source \in Sources \cup {NoSource}
      BY DEF IInv, Usable, KitUsable, KitFiles
    <3>. QED  BY <3>1
  <2>4. LastReport(todo')
    <3>1. Len(todo) # 1
      BY <1>2, <2>2 DEF Due, LastReport
    <3>2. LastReport(todo)
      BY <2>2 DEF Due
    <3>. QED  BY <1>2, <1>5, <2>1, <3>1, <3>2, RoundReport
  <2> HIDE DEF q2
  <2>5. ASSUME NEW op, NEW x, Goal(op, x, u, source)
        PROVE  /\ \/ Reached(op, x, u, link, path, text, dat, kits.linked, kits.packages)
                  \/ Coming(todo', 1, op, x)
               /\ Mending(todo', op, x)
    <3>1. Fit(op, x)
      BY <2>3, <2>5, GoalsFit
    <3>2. /\ \/ Reached(op, x, u, link, path, text, dat, kits.linked, kits.packages)
             \/ Coming(todo, 1, op, x)
          /\ Mending(todo, op, x)
      BY <2>2, <2>5 DEF Due
    <3>3. Mending(q2, op, x) /\ (Coming(todo, 1, op, x) => Coming(q2, 1, op, x))
      <4>1. r \in todo[1].rounds /\ todo \in Seq(StepSet) /\ todo # <<>> /\ Mending(todo, op, x)
        BY <1>2, <1>5, <3>2
      <4>2. RoundBegun(todo, r, q2)
        BY Zenon DEF RoundBegun, q2
      <4>. QED  BY <3>1, <4>1, <4>2, RoundDelivers
    <3>. QED  BY <2>1, <3>2, <3>3
  <2>. QED  BY <2>4, <2>5 DEF Due
<1>. QED  BY <1>4, <1>5 DEF next_round

\* A step or a loop makes again what it undoes.
Heals(r, op, x) ==
  \A p \in 1 .. Len(r) : Undoes(r[p], op, x) => \E h \in p + 1 .. Len(r) : Makes(r[h], op, x)
StepMends(st, op, x) == ~Undoes(st, op, x) /\ \A r \in st.rounds : Heals(r, op, x)
SelfMending(st) == st \in StepSet /\ \A op, x : Fit(op, x) => StepMends(st, op, x)

\* A loop of rounds that do so.
LEMMA LoopMends ==
  ASSUME NEW rounds \in SUBSET Seq(PlainSteps),
         \A r \in rounds : \A op, x : Fit(op, x) => Heals(r, op, x)
  PROVE  SelfMending(Loop(rounds)) /\ Loop(rounds).rounds = rounds
<1>1. Loop(rounds) \in StepSet /\ Loop(rounds).rounds = rounds /\ Loop(rounds).op = "loop"
  BY LoopType
<1>2. \A op, x : ~Undoes(Loop(rounds), op, x)
  BY <1>1 DEF Undoes
<1>. QED  BY <1>1, <1>2 DEF SelfMending, StepMends

\* A loop makes what one of its rounds makes.
LEMMA LoopMakes ==
  ASSUME NEW rounds \in SUBSET Seq(PlainSteps), NEW r \in rounds, NEW p \in 1 .. Len(r), NEW op, NEW x,
         Makes(r[p], op, x)
  PROVE  WillMake(Loop(rounds), op, x)
<1>1. Loop(rounds).rounds = rounds
  BY LoopType
<1>. QED  BY <1>1 DEF WillMake

\* The last steps of a command undo nothing.
LEMMA EndMends ==
  ASSUME NEW st, NEW op \in {"store", "demote", "promote", "report"}, KitEnd(st, op)
  PROVE  SelfMending(st)
  BY DEF KitEnd, SelfMending, StepMends, Undoes

\* A registration makes all it is about.
LEMMA RegisterMakes ==
  ASSUME NEW k \in Keys, NEW r,
         r = <<Losing(6, Do("unlink", k)), Losing(5, Do("symlink", k))>> \o RegisterFiles(k)
  PROVE  /\ r \in Seq(PlainSteps)
         /\ \A op, x : Fit(op, x) => Heals(r, op, x)
         /\ \A op \in KeyGoals : \E p \in 1 .. Len(r) : Makes(r[p], op, k)
<1> DEFINE a == Losing(6, Do("unlink", k))
           b == Losing(5, Do("symlink", k))
<1>1. /\ a \in PlainSteps /\ a.op = "unlink" /\ a.k = k /\ a.loses = 6
      /\ b \in PlainSteps /\ b.op = "symlink" /\ b.k = k /\ b.loses = 5
  BY RegisterStep
<1> DEFINE all == <<a, b>> \o RegisterFiles(k)
<1>0. r = all
  OBVIOUS
<1> HIDE DEF a, b
<1>2. LinkedAndFiled(all, a, b, k)
  BY DEF LinkedAndFiled
<1> HIDE DEF all
<1>3. r \in Seq(PlainSteps) /\ Len(r) = 6 /\ Registers(r, k)
  <2>1. all \in Seq(PlainSteps) /\ Len(all) = 6 /\ Registers(all, k)
    BY <1>1, <1>2, RegistersType
  <2>. QED  BY <1>0, <2>1, Zenon
<1>4. \A i \in 1 .. Len(r) : i = 1 \/ i = 2 \/ i = 3 \/ i = 4 \/ i = 5 \/ i = 6
  BY <1>3
<1>5. /\ r[1].op = "unlink" /\ r[2].op = "symlink" /\ r[3].op = "open_path" /\ r[4].op = "path"
      /\ r[5].op = "text" /\ r[6].op = "dat" /\ r[1].k = k /\ r[2].k = k /\ r[3].k = k /\ r[4].k = k
      /\ r[5].k = k /\ r[6].k = k
  BY <1>3 DEF Registers
<1>6. ASSUME NEW op, NEW x, Fit(op, x), NEW p \in 1 .. Len(r), Undoes(r[p], op, x)
      PROVE  \E h \in p + 1 .. Len(r) : Makes(r[h], op, x)
  <2>1. (p = 1 /\ op = "symlink" /\ x = k) \/ (p = 3 /\ op = "path" /\ x = k)
    BY <1>4, <1>5, <1>6 DEF Undoes, Subject, KeyGoals
  <2>2. CASE p = 1 /\ op = "symlink" /\ x = k
    <3>1. 2 \in p + 1 .. Len(r) /\ Makes(r[2], op, x)
      BY <1>3, <1>5, <2>2 DEF Makes, Subject, KeyGoals
    <3>. QED  BY <3>1
  <2>3. CASE p = 3 /\ op = "path" /\ x = k
    <3>1. 4 \in p + 1 .. Len(r) /\ Makes(r[4], op, x)
      BY <1>3, <1>5, <2>3 DEF Makes, Subject, KeyGoals
    <3>. QED  BY <3>1
  <2>. QED  BY <2>1, <2>2, <2>3
<1>7. ASSUME NEW op \in KeyGoals PROVE \E p \in 1 .. Len(r) : Makes(r[p], op, k)
  <2>1. /\ 2 \in 1 .. Len(r) /\ 4 \in 1 .. Len(r) /\ 5 \in 1 .. Len(r) /\ 6 \in 1 .. Len(r)
    BY <1>3
  <2>2. Makes(r[2], "symlink", k) /\ Makes(r[4], "path", k) /\ Makes(r[5], "text", k) /\ Makes(r[6], "dat", k)
    BY <1>5 DEF Makes, Subject, KeyGoals
  <2>. QED  BY <2>1, <2>2 DEF KeyGoals
<1>. QED  BY <1>3, <1>6, <1>7 DEF Heals

\* A link is removed and made.
LEMMA LinkMakes ==
  ASSUME NEW t \in Tools, NEW r, r = LinkTool(t)
  PROVE  /\ r \in Seq(PlainSteps) /\ Len(r) = 2 /\ Makes(r[2], "link_tool", t)
         /\ \A op, x : Fit(op, x) => Heals(r, op, x)
<1> DEFINE y == ToolStep(2, "drop_tool", t)
           z == ToolStep(1, "link_tool", t)
<1>1. /\ y \in PlainSteps /\ y.op = "drop_tool" /\ y.a = t
      /\ z \in PlainSteps /\ z.op = "link_tool" /\ z.a = t
  BY ToolStepType DEF ToolOps
<1>2. r = <<y, z>>
  BY DEF LinkTool
<1> HIDE DEF y, z
<1>3. r \in Seq(PlainSteps) /\ Len(r) = 2 /\ r[1] = y /\ r[2] = z
  BY <1>1, <1>2
<1>4. \A p \in 1 .. Len(r) : p = 1 \/ p = 2
  BY <1>3
<1>5. Makes(r[2], "link_tool", t)
  BY <1>1, <1>3 DEF Makes, Subject, KeyGoals
<1>6. ASSUME NEW op, NEW x, Fit(op, x), NEW p \in 1 .. Len(r), Undoes(r[p], op, x)
      PROVE  \E h \in p + 1 .. Len(r) : Makes(r[h], op, x)
  <2>1. p = 1 /\ op = "link_tool" /\ x = t
    BY <1>1, <1>3, <1>4, <1>6 DEF Undoes, Subject, KeyGoals
  <2>2. 2 \in p + 1 .. Len(r)
    BY <1>3, <2>1
  <2>. QED  BY <1>5, <2>1, <2>2
<1>. QED  BY <1>3, <1>5, <1>6 DEF Heals

\* A tool is downloaded, then linked.
LEMMA DownloadMakes ==
  ASSUME NEW t \in Tools, NEW r, r = <<ToolStep(3, "download_tool", t)>> \o LinkTool(t)
  PROVE  /\ r \in Seq(PlainSteps) /\ Len(r) = 3 /\ Makes(r[3], "link_tool", t)
         /\ \A op, x : Fit(op, x) => Heals(r, op, x)
<1> DEFINE w == ToolStep(3, "download_tool", t)
           y == ToolStep(2, "drop_tool", t)
           z == ToolStep(1, "link_tool", t)
<1>1. /\ w \in PlainSteps /\ w.op = "download_tool"
      /\ y \in PlainSteps /\ y.op = "drop_tool" /\ y.a = t
      /\ z \in PlainSteps /\ z.op = "link_tool" /\ z.a = t
  BY ToolStepType DEF ToolOps
<1> DEFINE all == <<w>> \o <<y, z>>
<1>2. r = all
  BY DEF LinkTool
<1> HIDE DEF w, y, z
<1>3. r \in Seq(PlainSteps) /\ Len(r) = 3 /\ r[1] = w /\ r[2] = y /\ r[3] = z
  <2>1. all \in Seq(PlainSteps) /\ Len(all) = 3 /\ all[1] = w /\ all[2] = y /\ all[3] = z
    BY <1>1
  <2>. QED  BY <1>2, <2>1, Zenon
<1> HIDE DEF all
<1>4. \A p \in 1 .. Len(r) : p = 1 \/ p = 2 \/ p = 3
  BY <1>3
<1>5. Makes(r[3], "link_tool", t)
  BY <1>1, <1>3 DEF Makes, Subject, KeyGoals
<1>6. ASSUME NEW op, NEW x, Fit(op, x), NEW p \in 1 .. Len(r), Undoes(r[p], op, x)
      PROVE  \E h \in p + 1 .. Len(r) : Makes(r[h], op, x)
  <2>1. p = 2 /\ op = "link_tool" /\ x = t
    BY <1>1, <1>3, <1>4, <1>6 DEF Undoes, Subject, KeyGoals
  <2>2. 3 \in p + 1 .. Len(r)
    BY <1>3, <2>1
  <2>. QED  BY <1>5, <2>1, <2>2
<1>. QED  BY <1>3, <1>5, <1>6 DEF Heals

\* A step that undoes nothing, alone.
LEMMA OneStepMends ==
  ASSUME NEW st \in PlainSteps, st.op \in {"download_tool", "install_package"}
  PROVE  /\ <<st>> \in Seq(PlainSteps) /\ Len(<<st>>) = 1 /\ <<st>>[1] = st
         /\ \A op, x : Fit(op, x) => Heals(<<st>>, op, x)
<1> DEFINE r == <<st>>
<1>1. r \in Seq(PlainSteps) /\ Len(r) = 1 /\ r[1] = st
  OBVIOUS
<1> HIDE DEF r
<1>2. \A p \in 1 .. Len(r) : r[p] = st
  BY <1>1
<1>3. \A op, x : ~Undoes(st, op, x)
  BY DEF Undoes
<1>4. \A op, x : Fit(op, x) => Heals(r, op, x)
  BY <1>2, <1>3 DEF Heals
<1>. QED  BY <1>1, <1>4 DEF r

\* A step or a loop that undoes only goals of these kinds for good.
MendsBut(st, O) == st \in StepSet /\ \A op, x : Fit(op, x) /\ op \notin O => StepMends(st, op, x)

\* What a step about a tool or a package is about.
LEMMA ToolStepIsAbout ==
  ASSUME NEW p \in Others
  PROVE  /\ ToolStep(1, "install_package", p) \in PlainSteps
         /\ ToolStep(1, "install_package", p).op = "install_package"
         /\ ToolStep(1, "install_package", p).a = p
<1> DEFINE x == For("install_package", NoKey, p)
<1>1. /\ "install_package" \in Ops /\ "install_package" \notin KeyOps /\ "install_package" \notin AppOps
      /\ "install_package" \notin ToolOps
  BY DEF Ops, OtherOps, KeyOps, AppOps, ToolOps
<1>2. p \in Labels /\ NoKey \in Keys \cup {NoKey}
  BY DEF Labels
<1>3. x \in PlainSteps /\ x.op = "install_package" /\ x.a = p
  BY <1>1, <1>2, ForType
<1> HIDE DEF x
<1>4. Losing(1, x) \in PlainSteps /\ Losing(1, x).op = "install_package" /\ Losing(1, x).a = p
  BY <1>3, LosingType
<1>. QED  BY <1>4 DEF ToolStep, x

\* A loop that links tools links all of them.
LEMMA LinksMake ==
  ASSUME NEW S \in SUBSET Tools
  PROVE  /\ SelfMending(Loop({LinkTool(t) : t \in S}))
         /\ \A y \in S : WillMake(Loop({LinkTool(t) : t \in S}), "link_tool", y)
<1> DEFINE rounds == {LinkTool(t) : t \in S}
<1>1. \A t \in Tools : /\ LinkTool(t) \in Seq(PlainSteps) /\ Len(LinkTool(t)) = 2
                       /\ Makes(LinkTool(t)[2], "link_tool", t)
                       /\ \A op, x : Fit(op, x) => Heals(LinkTool(t), op, x)
  BY LinkMakes
<1>2. /\ rounds \in SUBSET Seq(PlainSteps)
      /\ \A r \in rounds : \A op, x : Fit(op, x) => Heals(r, op, x)
      /\ \A t \in S : LinkTool(t) \in rounds
  BY <1>1
<1> HIDE DEF rounds
<1>3. SelfMending(Loop(rounds))
  BY <1>2, LoopMends
<1>4. ASSUME NEW t \in S PROVE WillMake(Loop(rounds), "link_tool", t)
  <2>1. 2 \in 1 .. Len(LinkTool(t)) /\ Makes(LinkTool(t)[2], "link_tool", t)
    BY <1>1
  <2>. QED  BY <1>2, <2>1, LoopMakes
<1>. QED  BY <1>3, <1>4 DEF rounds

\* The loops that install what a kitfile lists make all of it.
LEMMA InstallMakes ==
  ASSUME NEW s \in Sources
  PROVE  /\ \E x : /\ install_all_local_devs(s) = <<x>> /\ SelfMending(x)
                   /\ \A op \in KeyGoals, k \in s.locals : source[k[1]].there => WillMake(x, op, k)
         /\ \E x : /\ install_all_packages(s) = <<x>> /\ SelfMending(x)
                   /\ \A p \in PackagesOf(s) : WillMake(x, "install_package", p)
         /\ \E x, y : /\ install_all_tools(s) = <<x, y>> /\ SelfMending(x) /\ SelfMending(y)
                      /\ \A t \in UrlTools(s) : WillMake(x, "link_tool", t)
                      /\ \A t \in FolderTools(s) : WillMake(y, "link_tool", t)
<1>1. \E x : /\ install_all_local_devs(s) = <<x>> /\ SelfMending(x)
             /\ \A op \in KeyGoals, k \in s.locals : source[k[1]].there => WillMake(x, op, k)
  <2> DEFINE f(k) == <<Losing(6, Do("unlink", k)), Losing(5, Do("symlink", k))>> \o RegisterFiles(k)
             rounds == {f(k) : k \in {l \in s.locals : source[l[1]].there}}
  <2>1. \A k \in Keys : /\ f(k) \in Seq(PlainSteps) /\ \A op, x : Fit(op, x) => Heals(f(k), op, x)
                        /\ \A op \in KeyGoals : \E p \in 1 .. Len(f(k)) : Makes(f(k)[p], op, k)
    BY RegisterMakes
  <2>2. s.locals \subseteq Keys
    BY KitfileType
  <2>3. install_all_local_devs(s) = <<Loop(rounds)>>
    BY DEF install_all_local_devs
  <2> HIDE DEF f
  <2>4. /\ rounds \in SUBSET Seq(PlainSteps)
        /\ \A r \in rounds : \A op, x : Fit(op, x) => Heals(r, op, x)
    BY <2>1, <2>2
  <2>5. \A k \in s.locals : source[k[1]].there => f(k) \in rounds
    OBVIOUS
  <2> HIDE DEF rounds
  <2>6. SelfMending(Loop(rounds))
    BY <2>4, LoopMends
  <2>7. ASSUME NEW op \in KeyGoals, NEW k \in s.locals, source[k[1]].there
        PROVE  WillMake(Loop(rounds), op, k)
    <3>1. f(k) \in rounds /\ k \in Keys
      BY <2>2, <2>5, <2>7
    <3>2. PICK p \in 1 .. Len(f(k)) : Makes(f(k)[p], op, k)
      BY <2>1, <3>1
    <3>. QED  BY <2>4, <3>1, <3>2, LoopMakes
  <2>. QED  BY <2>3, <2>6, <2>7
<1>2. \E x : /\ install_all_packages(s) = <<x>> /\ SelfMending(x)
             /\ \A p \in PackagesOf(s) : WillMake(x, "install_package", p)
  <2> DEFINE f(p) == <<ToolStep(1, "install_package", p)>>
             rounds == {f(p) : p \in PackagesOf(s)}
  <2>1. ASSUME NEW p \in Others
        PROVE  /\ f(p) \in Seq(PlainSteps) /\ \A op, x : Fit(op, x) => Heals(f(p), op, x)
               /\ Len(f(p)) = 1 /\ Makes(f(p)[1], "install_package", p)
    <3> DEFINE x == ToolStep(1, "install_package", p)
    <3>1. x \in PlainSteps /\ x.op = "install_package" /\ x.a = p
      BY ToolStepIsAbout
    <3> HIDE DEF x
    <3>2. Makes(x, "install_package", p)
      BY <3>1 DEF Makes, Subject, KeyGoals
    <3>3. /\ <<x>> \in Seq(PlainSteps) /\ Len(<<x>>) = 1 /\ <<x>>[1] = x
          /\ \A op, z : Fit(op, z) => Heals(<<x>>, op, z)
      BY <3>1, OneStepMends
    <3>. QED  BY <3>2, <3>3 DEF x
  <2>2. PackagesOf(s) \subseteq Others
    BY KitfileType
  <2>3. install_all_packages(s) = <<Loop(rounds)>>
    BY DEF install_all_packages
  <2> HIDE DEF f
  <2>4. /\ rounds \in SUBSET Seq(PlainSteps)
        /\ \A r \in rounds : \A op, x : Fit(op, x) => Heals(r, op, x)
    BY <2>1, <2>2
  <2>5. \A p \in PackagesOf(s) : f(p) \in rounds
    OBVIOUS
  <2> HIDE DEF rounds
  <2>6. SelfMending(Loop(rounds))
    BY <2>4, LoopMends
  <2>7. ASSUME NEW p \in PackagesOf(s) PROVE WillMake(Loop(rounds), "install_package", p)
    <3>1. f(p) \in rounds /\ p \in Others
      BY <2>2, <2>5
    <3>2. 1 \in 1 .. Len(f(p)) /\ Makes(f(p)[1], "install_package", p)
      BY <2>1, <3>1
    <3>. QED  BY <2>4, <3>1, <3>2, LoopMakes
  <2>. QED  BY <2>3, <2>6, <2>7
<1>3. \E x, y : /\ install_all_tools(s) = <<x, y>> /\ SelfMending(x) /\ SelfMending(y)
                /\ \A t \in UrlTools(s) : WillMake(x, "link_tool", t)
                /\ \A t \in FolderTools(s) : WillMake(y, "link_tool", t)
  <2> DEFINE f(t) == <<ToolStep(3, "download_tool", t)>> \o LinkTool(t)
             first == {f(t) : t \in UrlTools(s)}
             second == {LinkTool(t) : t \in FolderTools(s)}
  <2>1. UrlTools(s) \subseteq Tools /\ FolderTools(s) \subseteq Tools
    BY KitfileType
  <2>2. \A t \in Tools : /\ f(t) \in Seq(PlainSteps) /\ Len(f(t)) = 3 /\ Makes(f(t)[3], "link_tool", t)
                         /\ \A op, x : Fit(op, x) => Heals(f(t), op, x)
    BY DownloadMakes
  <2>3. install_all_tools(s) = <<Loop(first), Loop(second)>>
    BY DEF install_all_tools
  <2> HIDE DEF f
  <2>4. /\ first \in SUBSET Seq(PlainSteps)
        /\ \A r \in first : \A op, x : Fit(op, x) => Heals(r, op, x)
        /\ \A t \in UrlTools(s) : f(t) \in first
    BY <2>1, <2>2
  <2> HIDE DEF first
  <2>5. SelfMending(Loop(first))
    BY <2>4, LoopMends
  <2>6. ASSUME NEW t \in UrlTools(s) PROVE WillMake(Loop(first), "link_tool", t)
    <3>1. f(t) \in first /\ t \in Tools
      BY <2>1, <2>4
    <3>2. 3 \in 1 .. Len(f(t)) /\ Makes(f(t)[3], "link_tool", t)
      BY <2>2, <3>1
    <3>. QED  BY <2>4, <3>1, <3>2, LoopMakes
  <2>7. SelfMending(Loop(second)) /\ \A t \in FolderTools(s) : WillMake(Loop(second), "link_tool", t)
    BY <2>1, LinksMake
  <2>. QED  BY <2>3, <2>5, <2>6, <2>7
<1>. QED  BY <1>1, <1>2, <1>3


\* A loop of rounds that undo only goals of these kinds.
LEMMA LoopMendsBut ==
  ASSUME NEW rounds \in SUBSET Seq(PlainSteps), NEW O,
         \A r \in rounds : \A op, x : Fit(op, x) /\ op \notin O => Heals(r, op, x)
  PROVE  MendsBut(Loop(rounds), O)
<1>1. Loop(rounds) \in StepSet /\ Loop(rounds).rounds = rounds /\ Loop(rounds).op = "loop"
  BY LoopType
<1>2. \A op, x : ~Undoes(Loop(rounds), op, x)
  BY <1>1 DEF Undoes
<1>. QED  BY <1>1, <1>2 DEF MendsBut, StepMends

\* What is deregistered loses only what a local package has.
LEMMA DeregisterUndoes ==
  ASSUME NEW k \in Keys, NEW r,
         r = <<Try("uncache", k), Try("undat", k), Try("untext", k)>>
               \o (IF k \in dirs THEN <<Try("drop", k)>> ELSE <<>>)
  PROVE  /\ r \in Seq(PlainSteps)
         /\ \A op, x : Fit(op, x) /\ op \notin KeyGoals => Heals(r, op, x)
<1> DEFINE u == <<Try("uncache", k), Try("undat", k), Try("untext", k)>>
           w == IF k \in dirs THEN <<Try("drop", k)>> ELSE <<>>
<1>1. \A op \in {"uncache", "undat", "untext", "drop"} :
        Try(op, k) \in PlainSteps /\ Try(op, k).op = op
  <2>. SUFFICES ASSUME NEW op \in {"uncache", "undat", "untext", "drop"}
                PROVE  Try(op, k) \in PlainSteps /\ Try(op, k).op = op
    OBVIOUS
  <2>1. /\ op \in Ops /\ op \notin AppOps \cup ToolOps \cup {"install_package", "loop"}
        /\ op \notin {"ensure", "track_if"}
    BY DEF Ops, KeyOps, AppOps, ToolOps
  <2> DEFINE x == Do(op, k)
  <2>2. x \in PlainSteps /\ x.op = op
    BY <2>1, DoType
  <2> HIDE DEF x
  <2>3. Losing(1, x) \in PlainSteps /\ Losing(1, x).op = op
    BY <2>1, <2>2, LosingType
  <2>. QED  BY <2>3 DEF Try, x
<1> DEFINE Undoing == {st \in PlainSteps : st.op \in {"uncache", "undat", "untext", "drop"}}
<1>2. \A op \in {"uncache", "undat", "untext", "drop"} : Try(op, k) \in Undoing
  BY <1>1
<1>3. \A st \in Undoing : \A op, x : op \notin KeyGoals => ~Undoes(st, op, x)
  BY DEF Undoes, KeyGoals
<1>4. Undoing \subseteq PlainSteps
  OBVIOUS
<1> HIDE DEF Undoing
<1>5. r \in Seq(Undoing)
  <2> DEFINE v == u \o w
  <2>1. r = v
    OBVIOUS
  <2>2. u \in Seq(Undoing)
    BY <1>2
  <2>3. w \in Seq(Undoing)
    BY <1>2
  <2> HIDE DEF u, w
  <2>4. v \in Seq(Undoing)
    BY <2>2, <2>3
  <2>. QED  BY <2>1, <2>4, Zenon
<1>6. \A p \in 1 .. Len(r) : r[p] \in Undoing
  BY <1>5
<1>7. \A op, x : Fit(op, x) /\ op \notin KeyGoals => Heals(r, op, x)
  BY <1>3, <1>6 DEF Heals
<1>8. r \in Seq(PlainSteps)
  <2>1. \A A, B : A \subseteq B => \A z \in Seq(A) : z \in Seq(B)
    OBVIOUS
  <2>. QED  BY <1>4, <1>5, <2>1, Zenon
<1>. QED  BY <1>7, <1>8

\* The loops of an update: what takes the old version down undoes links of tools, or what
\* local packages have.
LEMMA UpdateMakes ==
  ASSUME NEW s \in Sources, NEW old \in Sources
  PROVE  /\ \E x : kit_download_tools(s) = <<x>> /\ SelfMending(x)
         /\ \E x : remove_old_tool_symlinks(old) = <<x>> /\ MendsBut(x, {"link_tool"})
         /\ \E x : deregister_old_local_devs(old) = <<x>> /\ MendsBut(x, KeyGoals)
         /\ \E x : /\ kit_symlink_tools(s) = <<x>> /\ SelfMending(x)
                   /\ \A t \in UrlTools(s) \cup FolderTools(s) : WillMake(x, "link_tool", t)
<1>1. /\ UrlTools(s) \subseteq Tools /\ FolderTools(s) \subseteq Tools
      /\ old.tools \subseteq Tools /\ old.locals \subseteq Keys
  BY KitfileType
<1>2. \E x : kit_download_tools(s) = <<x>> /\ SelfMending(x)
  <2> DEFINE f(t) == <<ToolStep(0, "download_tool", t)>>
             rounds == {f(t) : t \in UrlTools(s)}
  <2>1. ASSUME NEW t \in Tools
        PROVE  f(t) \in Seq(PlainSteps) /\ \A op, x : Fit(op, x) => Heals(f(t), op, x)
    <3> DEFINE y == ToolStep(0, "download_tool", t)
    <3>1. y \in PlainSteps /\ y.op = "download_tool"
      BY ToolStepType DEF ToolOps
    <3> HIDE DEF y
    <3>2. <<y>> \in Seq(PlainSteps) /\ \A op, x : Fit(op, x) => Heals(<<y>>, op, x)
      BY <3>1, OneStepMends
    <3>. QED  BY <3>2 DEF y
  <2>2. kit_download_tools(s) = <<Loop(rounds)>>
    BY DEF kit_download_tools
  <2> HIDE DEF f
  <2>3. /\ rounds \in SUBSET Seq(PlainSteps)
        /\ \A r \in rounds : \A op, x : Fit(op, x) => Heals(r, op, x)
    BY <1>1, <2>1
  <2> HIDE DEF rounds
  <2>4. SelfMending(Loop(rounds))
    BY <2>3, LoopMends
  <2>. QED  BY <2>2, <2>4
<1>3. \E x : remove_old_tool_symlinks(old) = <<x>> /\ MendsBut(x, {"link_tool"})
  <2> DEFINE f(t) == <<ToolStep(1, "drop_tool", t)>>
             rounds == {f(t) : t \in old.tools}
  <2>1. ASSUME NEW t \in Tools
        PROVE  /\ f(t) \in Seq(PlainSteps)
               /\ \A op, x : Fit(op, x) /\ op \notin {"link_tool"} => Heals(f(t), op, x)
    <3> DEFINE y == ToolStep(1, "drop_tool", t)
    <3>1. y \in PlainSteps /\ y.op = "drop_tool"
      BY ToolStepType DEF ToolOps
    <3> HIDE DEF y
    <3>2. <<y>> \in Seq(PlainSteps) /\ \A p \in 1 .. Len(<<y>>) : <<y>>[p] = y
      BY <3>1
    <3>3. \A op, x : op # "link_tool" => ~Undoes(y, op, x)
      BY <3>1 DEF Undoes
    <3>4. \A op, x : op \notin {"link_tool"} => Heals(<<y>>, op, x)
      BY <3>2, <3>3 DEF Heals
    <3>. QED  BY <3>2, <3>4 DEF y
  <2>2. remove_old_tool_symlinks(old) = <<Loop(rounds)>>
    BY DEF remove_old_tool_symlinks
  <2> HIDE DEF f
  <2>3. /\ rounds \in SUBSET Seq(PlainSteps)
        /\ \A r \in rounds : \A op, x : Fit(op, x) /\ op \notin {"link_tool"} => Heals(r, op, x)
    BY <1>1, <2>1
  <2> HIDE DEF rounds
  <2>4. MendsBut(Loop(rounds), {"link_tool"})
    BY <2>3, LoopMendsBut
  <2>. QED  BY <2>2, <2>4
<1>4. \E x : deregister_old_local_devs(old) = <<x>> /\ MendsBut(x, KeyGoals)
  <2> DEFINE f(k) == <<Try("uncache", k), Try("undat", k), Try("untext", k)>>
                       \o (IF k \in dirs THEN <<Try("drop", k)>> ELSE <<>>)
             rounds == {f(k) : k \in old.locals}
  <2>1. \A k \in Keys : /\ f(k) \in Seq(PlainSteps)
                        /\ \A op, x : Fit(op, x) /\ op \notin KeyGoals => Heals(f(k), op, x)
    BY DeregisterUndoes
  <2>2. deregister_old_local_devs(old) = <<Loop(rounds)>>
    BY DEF deregister_old_local_devs
  <2> HIDE DEF f
  <2>3. /\ rounds \in SUBSET Seq(PlainSteps)
        /\ \A r \in rounds : \A op, x : Fit(op, x) /\ op \notin KeyGoals => Heals(r, op, x)
    BY <1>1, <2>1
  <2> HIDE DEF rounds
  <2>4. MendsBut(Loop(rounds), KeyGoals)
    BY <2>3, LoopMendsBut
  <2>. QED  BY <2>2, <2>4
<1>5. \E x : /\ kit_symlink_tools(s) = <<x>> /\ SelfMending(x)
             /\ \A t \in UrlTools(s) \cup FolderTools(s) : WillMake(x, "link_tool", t)
  BY <1>1, LinksMake DEF kit_symlink_tools
<1>. QED  BY <1>2, <1>3, <1>4, <1>5

-----------------------------------------------------------------------------
(* A command of wrap kit begins with all it was asked for to come *)

\* What steps undo is made again when each mends itself or a later one makes it.
LEMMA MendedLater ==
  ASSUME NEW q, NEW op, NEW x,
         \A i \in 1 .. Len(q) : StepMends(q[i], op, x) \/ Coming(q, i + 1, op, x)
  PROVE  Mending(q, op, x)
  BY DEF Mending, StepMends, Heals

\* The command delivers what its steps make.
LEMMA DueBegins ==
  ASSUME IInv, NEW command, NEW s \in Sources, NEW steps, NEW q,
         KitBegin(command, s, steps), q = steps \o Report, LastReport(q),
         \A op, x : Goal(op, x, s, source) =>
           /\ Coming(q, 1, op, x)
           /\ \A i \in 1 .. Len(q) : StepMends(q[i], op, x) \/ Coming(q, i + 1, op, x)
  PROVE  DeliverInv'
<1>1. /\ todo' = q
      /\ kits' = [kits EXCEPT !.source = s, !.before = troubles,
                              !.loose = @ \cup ({kits.source} \ {NoSource})]
      /\ UNCHANGED <<source, link, path, text, dat, troubles>>
  BY DEF KitBegin, Begin
<1>2. kits \in KitFiles
  BY DEF IInv, Usable, KitUsable
<1>3. kits'.source = s
  BY <1>1, <1>2 DEF KitFiles
<1>4. \A op, x : Goal(op, x, s, source) => Mending(q, op, x)
  BY MendedLater
<1>5. \A ln, pa, te, da, linked, packages : Due(q, s, source, ln, pa, te, da, linked, packages)
  BY <1>4 DEF Due
<1>. QED  BY <1>1, <1>3, <1>5 DEF DeliverInv

\* Four steps make all that a kitfile asks for.
LEMMA AllToCome ==
  ASSUME NEW q, NEW s \in Sources, NEW g \in Nat,
         NEW i \in g .. Len(q), NEW j \in g .. Len(q), NEW m \in g .. Len(q), NEW n \in g .. Len(q),
         \A op \in KeyGoals, k \in s.locals : source[k[1]].there => WillMake(q[i], op, k),
         \A p \in PackagesOf(s) : WillMake(q[j], "install_package", p),
         \A t \in UrlTools(s) : WillMake(q[m], "link_tool", t),
         \A t \in FolderTools(s) : WillMake(q[n], "link_tool", t)
  PROVE  \A op, x : Goal(op, x, s, source) => Coming(q, g, op, x)
<1> SUFFICES ASSUME NEW op, NEW x, Goal(op, x, s, source)
             PROVE  \E h \in g .. Len(q) : WillMake(q[h], op, x)
  BY DEF Coming
<1>1. CASE op = "link_tool" /\ x \in UrlTools(s) \cup FolderTools(s)
  BY <1>1
<1>2. CASE op = "install_package" /\ x \in PackagesOf(s)
  BY <1>2
<1>3. CASE op \in KeyGoals /\ x \in s.locals /\ source[x[1]].there
  BY <1>3
<1>. QED  BY <1>1, <1>2, <1>3 DEF Goal

\* wrap kit install
LEMMA InstallDelivers ==
  ASSUME IInv, NEW s \in Sources, cmd_kit_install(s)
  PROVE  DeliverInv'
<1> DEFINE steps == install_all_local_devs(s) \o install_all_packages(s) \o install_all_tools(s)
           e == KitStep("report")
<1>1. KitBegin("kit install", s, steps)
  BY DEF cmd_kit_install
<1>2. PICK a : /\ install_all_local_devs(s) = <<a>> /\ SelfMending(a)
               /\ \A op \in KeyGoals, k \in s.locals : source[k[1]].there => WillMake(a, op, k)
  BY InstallMakes
<1>3. PICK b : /\ install_all_packages(s) = <<b>> /\ SelfMending(b)
               /\ \A p \in PackagesOf(s) : WillMake(b, "install_package", p)
  BY InstallMakes
<1>4. PICK c, d : /\ install_all_tools(s) = <<c, d>> /\ SelfMending(c) /\ SelfMending(d)
                  /\ \A t \in UrlTools(s) : WillMake(c, "link_tool", t)
                  /\ \A t \in FolderTools(s) : WillMake(d, "link_tool", t)
  BY InstallMakes
<1>5. KitEnd(e, "report") /\ SelfMending(e)
  BY KitStepType, EndMends
<1> HIDE DEF e
<1> DEFINE q == (((<<a>> \o <<b>>) \o <<c, d>>) \o <<e>>)
<1>6. q = steps \o Report
  BY <1>2, <1>3, <1>4, Zenon DEF Report, e
<1>7. a \in StepSet /\ b \in StepSet /\ c \in StepSet /\ d \in StepSet /\ e \in StepSet
  BY <1>2, <1>3, <1>4, <1>5 DEF SelfMending
<1>8. Len(q) = 5 /\ q[1] = a /\ q[2] = b /\ q[3] = c /\ q[4] = d /\ q[5] = e
  BY <1>7
<1> HIDE DEF q, steps
<1>9. \A i \in 1 .. Len(q) : i = 1 \/ i = 2 \/ i = 3 \/ i = 4 \/ i = 5
  BY <1>8
<1>10. \A i \in 1 .. Len(q) : SelfMending(q[i])
  BY <1>2, <1>3, <1>4, <1>5, <1>8, <1>9, Zenon
<1>11. LastReport(q)
  BY <1>5, <1>8 DEF KitEnd, LastReport
<1>12. /\ 1 \in Nat /\ 1 \in 1 .. Len(q) /\ 2 \in 1 .. Len(q) /\ 3 \in 1 .. Len(q) /\ 4 \in 1 .. Len(q)
  BY <1>8
<1>13. /\ \A op \in KeyGoals, k \in s.locals : source[k[1]].there => WillMake(q[1], op, k)
       /\ \A p \in PackagesOf(s) : WillMake(q[2], "install_package", p)
       /\ \A t \in UrlTools(s) : WillMake(q[3], "link_tool", t)
       /\ \A t \in FolderTools(s) : WillMake(q[4], "link_tool", t)
  BY <1>2, <1>3, <1>4, <1>8, Zenon
<1>14. \A op, x : Goal(op, x, s, source) => Coming(q, 1, op, x)
  BY <1>12, <1>13, AllToCome
<1>15. \A op, x : Goal(op, x, s, source) => \A i \in 1 .. Len(q) : StepMends(q[i], op, x)
  BY <1>10, GoalsFit DEF SelfMending
<1>. QED  BY <1>1, <1>6, <1>11, <1>14, <1>15, DueBegins

\* wrap kit update, with nothing to take down
LEMMA ReinstallDelivers ==
  ASSUME IInv, NEW s \in Sources, InstallOrReinstall(s)
  PROVE  DeliverInv'
<1> DEFINE steps == install_all_local_devs(s) \o install_all_packages(s) \o install_all_tools(s)
                      \o <<KitStep("store")>> \o kit_promote_current
           g == KitStep("store")
           h == KitStep("demote")
           m == KitStep("promote")
           e == KitStep("report")
<1>1. KitBegin("kit update", s, steps)
  BY DEF InstallOrReinstall
<1>2. PICK a : /\ install_all_local_devs(s) = <<a>> /\ SelfMending(a)
               /\ \A op \in KeyGoals, k \in s.locals : source[k[1]].there => WillMake(a, op, k)
  BY InstallMakes
<1>3. PICK b : /\ install_all_packages(s) = <<b>> /\ SelfMending(b)
               /\ \A p \in PackagesOf(s) : WillMake(b, "install_package", p)
  BY InstallMakes
<1>4. PICK c, d : /\ install_all_tools(s) = <<c, d>> /\ SelfMending(c) /\ SelfMending(d)
                  /\ \A t \in UrlTools(s) : WillMake(c, "link_tool", t)
                  /\ \A t \in FolderTools(s) : WillMake(d, "link_tool", t)
  BY InstallMakes
<1>5. /\ KitEnd(e, "report") /\ SelfMending(g) /\ SelfMending(h) /\ SelfMending(m) /\ SelfMending(e)
  BY KitStepType, EndMends
<1> HIDE DEF g, h, m, e
<1> DEFINE q == (((((<<a>> \o <<b>>) \o <<c, d>>) \o <<g>>) \o <<h, m>>) \o <<e>>)
<1>6. q = steps \o Report
  BY <1>2, <1>3, <1>4, Zenon DEF Report, kit_promote_current, g, h, m, e
<1>7. /\ a \in StepSet /\ b \in StepSet /\ c \in StepSet /\ d \in StepSet
      /\ g \in StepSet /\ h \in StepSet /\ m \in StepSet /\ e \in StepSet
  BY <1>2, <1>3, <1>4, <1>5 DEF SelfMending
<1>8. /\ Len(q) = 8
      /\ q[1] = a /\ q[2] = b /\ q[3] = c /\ q[4] = d /\ q[5] = g /\ q[6] = h /\ q[7] = m /\ q[8] = e
  BY <1>7
<1> HIDE DEF q, steps
<1>9. \A i \in 1 .. Len(q) :
        i = 1 \/ i = 2 \/ i = 3 \/ i = 4 \/ i = 5 \/ i = 6 \/ i = 7 \/ i = 8
  BY <1>8
<1>10. \A i \in 1 .. Len(q) : SelfMending(q[i])
  BY <1>2, <1>3, <1>4, <1>5, <1>8, <1>9, Zenon
<1>11. LastReport(q)
  BY <1>5, <1>8 DEF KitEnd, LastReport
<1>12. /\ 1 \in Nat /\ 1 \in 1 .. Len(q) /\ 2 \in 1 .. Len(q) /\ 3 \in 1 .. Len(q) /\ 4 \in 1 .. Len(q)
  BY <1>8
<1>13. /\ \A op \in KeyGoals, k \in s.locals : source[k[1]].there => WillMake(q[1], op, k)
       /\ \A p \in PackagesOf(s) : WillMake(q[2], "install_package", p)
       /\ \A t \in UrlTools(s) : WillMake(q[3], "link_tool", t)
       /\ \A t \in FolderTools(s) : WillMake(q[4], "link_tool", t)
  BY <1>2, <1>3, <1>4, <1>8, Zenon
<1>14. \A op, x : Goal(op, x, s, source) => Coming(q, 1, op, x)
  BY <1>12, <1>13, AllToCome
<1>15. \A op, x : Goal(op, x, s, source) => \A i \in 1 .. Len(q) : StepMends(q[i], op, x)
  BY <1>10, GoalsFit DEF SelfMending
<1>. QED  BY <1>1, <1>6, <1>11, <1>14, <1>15, DueBegins

\* wrap kit update, from one version to another: what it takes down of the old version and
\* the new one has is made again.
LEMMA UpdateDelivers ==
  ASSUME IInv, NEW s \in Sources, Update(s)
  PROVE  DeliverInv'
<1> DEFINE steps == UpdateSteps(s, Current)
           g == KitStep("store")
           h == KitStep("demote")
           m == KitStep("promote")
           e == KitStep("report")
<1>1. KitBegin("kit update", s, steps) /\ Current \in Sources
  BY CurrentType DEF Update
<1>2. PICK x : kit_download_tools(s) = <<x>> /\ SelfMending(x)
  BY <1>1, UpdateMakes
<1>3. PICK y : remove_old_tool_symlinks(Current) = <<y>> /\ MendsBut(y, {"link_tool"})
  BY <1>1, UpdateMakes
<1>4. PICK z : deregister_old_local_devs(Current) = <<z>> /\ MendsBut(z, KeyGoals)
  BY <1>1, UpdateMakes
<1>5. PICK w : /\ kit_symlink_tools(s) = <<w>> /\ SelfMending(w)
               /\ \A t \in UrlTools(s) \cup FolderTools(s) : WillMake(w, "link_tool", t)
  BY <1>1, UpdateMakes
<1>6. PICK a : /\ install_all_local_devs(s) = <<a>> /\ SelfMending(a)
               /\ \A op \in KeyGoals, k \in s.locals : source[k[1]].there => WillMake(a, op, k)
  BY InstallMakes
<1>7. PICK b : /\ install_all_packages(s) = <<b>> /\ SelfMending(b)
               /\ \A p \in PackagesOf(s) : WillMake(b, "install_package", p)
  BY InstallMakes
<1>8. /\ KitEnd(e, "report") /\ SelfMending(g) /\ SelfMending(h) /\ SelfMending(m) /\ SelfMending(e)
  BY KitStepType, EndMends
<1> HIDE DEF g, h, m, e
<1> DEFINE q == ((((((((<<x>> \o <<g>>) \o <<y>>) \o <<z>>) \o <<w>>) \o <<a>>) \o <<b>>) \o <<h, m>>) \o <<e>>)
<1>9. q = steps \o Report
  BY <1>2, <1>3, <1>4, <1>5, <1>6, <1>7, Zenon DEF UpdateSteps, Report, kit_promote_current, g, h, m, e
<1>10. /\ x \in StepSet /\ y \in StepSet /\ z \in StepSet /\ w \in StepSet /\ a \in StepSet
       /\ b \in StepSet /\ g \in StepSet /\ h \in StepSet /\ m \in StepSet /\ e \in StepSet
  BY <1>2, <1>3, <1>4, <1>5, <1>6, <1>7, <1>8 DEF SelfMending, MendsBut
<1>11. /\ Len(q) = 10
       /\ q[1] = x /\ q[2] = g /\ q[3] = y /\ q[4] = z /\ q[5] = w /\ q[6] = a /\ q[7] = b
       /\ q[8] = h /\ q[9] = m /\ q[10] = e
  BY <1>10
<1> HIDE DEF q, steps
<1>12. \A i \in 1 .. Len(q) : \/ i = 1 \/ i = 2 \/ i = 3 \/ i = 4 \/ i = 5 \/ i = 6 \/ i = 7
                              \/ i = 8 \/ i = 9 \/ i = 10
  BY <1>11
<1>13. /\ \A i \in 1 .. Len(q) : i = 3 \/ i = 4 \/ SelfMending(q[i])
       /\ MendsBut(q[3], {"link_tool"}) /\ MendsBut(q[4], KeyGoals)
  BY <1>2, <1>3, <1>4, <1>5, <1>6, <1>7, <1>8, <1>11, <1>12, Zenon
<1>14. LastReport(q)
  BY <1>8, <1>11 DEF KitEnd, LastReport
<1>15. /\ \A t \in UrlTools(s) \cup FolderTools(s) : WillMake(q[5], "link_tool", t)
       /\ \A op \in KeyGoals, k \in s.locals : source[k[1]].there => WillMake(q[6], op, k)
       /\ \A p \in PackagesOf(s) : WillMake(q[7], "install_package", p)
  BY <1>5, <1>6, <1>7, <1>11, Zenon
<1>16. \A f \in {1, 4, 5} : \A op, v : Goal(op, v, s, source) => Coming(q, f, op, v)
  <2>. SUFFICES ASSUME NEW f \in {1, 4, 5}
                PROVE  \A op, v : Goal(op, v, s, source) => Coming(q, f, op, v)
    OBVIOUS
  <2>1. f \in Nat /\ 5 \in f .. Len(q) /\ 6 \in f .. Len(q) /\ 7 \in f .. Len(q)
    BY <1>11
  <2>2. \A t \in UrlTools(s) : WillMake(q[5], "link_tool", t)
    BY <1>15
  <2>3. \A t \in FolderTools(s) : WillMake(q[5], "link_tool", t)
    BY <1>15
  <2>. QED  BY <1>15, <2>1, <2>2, <2>3, AllToCome
<1>17. ASSUME NEW op, NEW v, Goal(op, v, s, source), NEW i \in 1 .. Len(q)
       PROVE  StepMends(q[i], op, v) \/ Coming(q, i + 1, op, v)
  <2>1. Fit(op, v)
    BY <1>17, GoalsFit
  <2>2. CASE i = 3
    <3>1. Coming(q, 4, op, v)
      BY <1>16, <1>17
    <3>. QED  BY <2>2, <3>1
  <2>3. CASE i = 4
    <3>1. Coming(q, 5, op, v)
      BY <1>16, <1>17
    <3>. QED  BY <2>3, <3>1
  <2>4. CASE SelfMending(q[i])
    BY <2>1, <2>4 DEF SelfMending
  <2>. QED  BY <1>13, <2>2, <2>3, <2>4
<1>18. \A op, v : Goal(op, v, s, source) => Coming(q, 1, op, v)
  BY <1>16
<1>. QED  BY <1>1, <1>9, <1>14, <1>17, <1>18, DueBegins

\* A step of a command of LocalDev.
LEMMA StepsDeliver == ASSUME IInv, DeliverInv, Steps PROVE DeliverInv'
<1>1. CASE next_round
  BY <1>1, LoopsDeliver
<1>2. CASE \/ unlink_package \/ create_package_symlink \/ open_source_path
           \/ save_local_dev_source_path \/ register_local_dev_v2_text_registry
           \/ ensure_local_dev_in_registry_dat \/ register_dependency_tracking \/ elm_json_write
           \/ drop_tracking_dir \/ drop_all_tracking \/ remove_local_dev_from_registry_dat
           \/ remove_local_dev_from_text_registry \/ untrack \/ builder_clean_local_dev_artifacts
           \/ compiler_make
  BY <1>2, LocalStepsDeliver, Zenon
<1>3. CASE \/ ensure_local_dev_symlink \/ register_local_dev_tracking_if_needed
           \/ refresh_app_indirect_deps \/ prune_app_orphaned_deps \/ download_package_recursive
           \/ continue_with_needs \/ reinsert_local_dev \/ builder_compile_local_dev_packages
  <2>1. kits' = kits /\ troubles' = troubles
    BY <1>3 DEF ensure_local_dev_symlink, register_local_dev_tracking_if_needed,
                refresh_app_indirect_deps, prune_app_orphaned_deps, download_package_recursive,
                continue_with_needs, reinsert_local_dev, builder_compile_local_dev_packages, Keep,
                files
  <2>2. \/ Doing("ensure") \/ Doing("track_if") \/ Doing("refresh") \/ Doing("prune") \/ Doing("fetch")
        \/ Doing("have") \/ Doing("reinsert") \/ Doing("compile")
    BY <1>3 DEF ensure_local_dev_symlink, register_local_dev_tracking_if_needed,
                refresh_app_indirect_deps, prune_app_orphaned_deps, download_package_recursive,
                continue_with_needs, reinsert_local_dev, builder_compile_local_dev_packages
  <2>3. PICK o \in GrowOps : Doing(o)
    BY <2>2 DEF GrowOps
  <2>. QED  BY <2>1, <2>3, NoMoreInKit
<1>. QED  BY <1>1, <1>2, <1>3 DEF Steps

\* The report ends the command.
LEMMA ReportEnds == ASSUME IInv, report PROVE DeliverInv'
<1>1. kits \in KitFiles
  BY DEF IInv, Usable, KitUsable
<1>2. kits'.source = NoSource
  BY <1>1 DEF report, KitFiles
<1>. QED  BY <1>2 DEF DeliverInv

\* What another command or an edit does to what wrap kit keeps: nothing.
LEMMA OthersBegin ==
  ASSUME \/ \E a \in Apps : InApplication(a)
         \/ \E n \in Names : InPackage(n)
         \/ Anywhere
  PROVE  Idle /\ kits' = kits /\ troubles' \in {troubles, troubles + 1}
<1>1. ASSUME NEW a \in Apps, InApplication(a)
      PROVE  Idle /\ kits' = kits /\ troubles' \in {troubles, troubles + 1}
  BY <1>1 DEF InApplication, install_local_dev, install_listed, install_package, remove_package,
              cmd_make, Begin, Keep
<1>2. ASSUME NEW n \in Names, InPackage(n)
      PROVE  Idle /\ kits' = kits /\ troubles' \in {troubles, troubles + 1}
  <2>1. ASSUME NEW v \in Versions, register_local_dev_package(<<n, v>>) \/ Bump(n, v)
        PROVE  Idle /\ kits' = kits /\ troubles' \in {troubles, troubles + 1}
    BY <2>1 DEF register_local_dev_package, Bump, Begin, Keep
  <2>2. ASSUME NEW m \in Packages, refresh_local_dev_dependents(n, m) \/ prune_local_dev_dependents(n, m)
        PROVE  Idle /\ kits' = kits /\ troubles' \in {troubles, troubles + 1}
    BY <2>2 DEF refresh_local_dev_dependents, prune_local_dev_dependents, Begin, Keep
  <2>3. ASSUME unregister_local_dev_package(n) \/ Edit(n) \/ Move(n)
        PROVE  Idle /\ kits' = kits /\ troubles' \in {troubles, troubles + 1}
    BY <2>3 DEF unregister_local_dev_package, Edit, Move, Troubled, Begin, Keep
  <2>. QED  BY <1>2, <2>1, <2>2, <2>3 DEF InPackage
<1>3. ASSUME Anywhere
      PROVE  Idle /\ kits' = kits /\ troubles' \in {troubles, troubles + 1}
  BY <1>3 DEF Anywhere, clear_package_tracking, repository_clear_local_dev_registration,
              clear_path_tracking, Replace, clear_all_tracking, prune_stale_local_dev_connections,
              ResetRegistry, Troubled, Begin, Keep
<1>. QED  BY <1>1, <1>2, <1>3

\* Every step keeps what is due.
LEMMA DeliverStays == IInv /\ DeliverInv /\ [KitNext]_vars => DeliverInv'
<1> SUFFICES ASSUME IInv, DeliverInv, [KitNext]_vars PROVE DeliverInv'
  OBVIOUS
<1>1. CASE Steps
  BY <1>1, StepsDeliver
<1>2. CASE Crash \/ Fail
  <2>1. troubles' = troubles + 1 /\ kits' = kits
    BY <1>2 DEF Crash, Fail, Troubled, files
  <2>. QED  BY <2>1, TroubleIsNotClean
<1>3. CASE \/ \E a \in Apps : InApplication(a)
           \/ \E n \in Names : InPackage(n)
           \/ Anywhere
  <2>1. Idle /\ kits' = kits /\ troubles' \in {troubles, troubles + 1}
    BY <1>3, OthersBegin
  <2>. QED  BY <2>1, OtherBegins
<1>4. CASE KitSteps
  BY <1>4, LocalStepsDeliver, KitStepsDeliver, ReportEnds DEF KitSteps
<1>5. ASSUME NEW s \in Sources, cmd_kit_install(s) \/ InstallOrReinstall(s) \/ Update(s)
      PROVE  DeliverInv'
  BY <1>5, InstallDelivers, ReinstallDelivers, UpdateDelivers
<1>6. CASE UNCHANGED vars
  <2>1. UNCHANGED <<source, link, path, text, dat, kits, todo, troubles>>
    BY <1>6 DEF vars, files
  <2>. QED  BY <2>1 DEF DeliverInv
<1>. QED  BY <1>1, <1>2, <1>3, <1>4, <1>5, <1>6 DEF KitNext, Next

\* Trouble is never forgotten.
LEMMA TroublesStay == [KitNext]_vars => troubles' \in {troubles, troubles + 1}
<1> SUFFICES ASSUME [KitNext]_vars PROVE troubles' \in {troubles, troubles + 1}
  OBVIOUS
<1>1. CASE Steps
  <2>1. \/ next_round \/ UNCHANGED troubles
    BY <1>1 DEF Steps, unlink_package, create_package_symlink, open_source_path,
                save_local_dev_source_path, register_local_dev_v2_text_registry,
                ensure_local_dev_in_registry_dat, register_dependency_tracking, elm_json_write,
                ensure_local_dev_symlink, register_local_dev_tracking_if_needed,
                refresh_app_indirect_deps, prune_app_orphaned_deps, drop_tracking_dir,
                drop_all_tracking, remove_local_dev_from_registry_dat,
                remove_local_dev_from_text_registry, untrack, download_package_recursive,
                continue_with_needs, reinsert_local_dev, builder_compile_local_dev_packages,
                builder_clean_local_dev_artifacts, compiler_make, Keep
  <2>. QED  BY <2>1 DEF next_round
<1>2. CASE Crash \/ Fail
  BY <1>2 DEF Crash, Fail, Troubled
<1>3. CASE \/ \E a \in Apps : InApplication(a)
           \/ \E n \in Names : InPackage(n)
           \/ Anywhere
  BY <1>3, OthersBegin
<1>4. CASE KitSteps
  BY <1>4 DEF KitSteps, download_tool_binary, drop_tool_symlink, symlink_tool, install_one_package,
              kit_remove_cache_symlink, kit_store_kitfile, unlink_current, symlink_current, report,
              KitKeep, Keep
<1>5. ASSUME NEW s \in Sources, cmd_kit_install(s) \/ InstallOrReinstall(s) \/ Update(s)
      PROVE  troubles' = troubles
  BY <1>5 DEF cmd_kit_install, InstallOrReinstall, Update, KitBegin
<1>6. CASE UNCHANGED vars
  BY <1>6 DEF vars
<1>. QED  BY <1>1, <1>2, <1>3, <1>4, <1>5, <1>6 DEF KitNext, Next

\* What is due when only the report is left has been reached.
LEMMA CleanReportDelivers ==
  IInv /\ DeliverInv /\ [KitNext]_vars => [ReportsClean => Delivered(kits.source)]_vars
<1> SUFFICES ASSUME IInv, DeliverInv, [KitNext]_vars, ReportsClean
             PROVE  Delivered(kits.source)
  OBVIOUS
<1> DEFINE s == kits.source
<1>1. Doing("report") /\ troubles' = kits.before
  BY DEF ReportsClean
<1>2. s \in Sources /\ s # NoSource
  BY <1>1, KitStepIsAbout DEF KitOps
<1>3. troubles = kits.before
  <2>1. troubles \in Nat /\ kits.before \in Nat /\ kits.before <= troubles
    BY DEF IInv, FilesOK, Usable, KitUsable, KitFiles
  <2>. QED  BY <1>1, <2>1, TroublesStay
<1>4. todo[1] = Step /\ Step.op = "report" /\ 1 \in 1 .. Len(todo) /\ todo \in Seq(StepSet)
  BY <1>1, FirstStep DEF IInv
<1>5. Len(todo) = 1
  BY <1>4 DEF IInv, Left, QInv, KitQueueOK
<1>6. Step.rounds = {}
  BY <1>4, StepType
<1>7. \A op, x : Fit(op, x) => ~Coming(todo, 1, op, x)
  <2>1. \A op, x : Fit(op, x) => op # "report"
    BY DEF Fit, KeyGoals
  <2>2. \A op, x : Fit(op, x) => ~WillMake(Step, op, x)
    BY <1>4, <1>6, <2>1 DEF WillMake, Makes
  <2>. QED  BY <1>4, <1>5, <2>2 DEF Coming
<1>8. \A op, x : Goal(op, x, s, source) =>
        Reached(op, x, s, link, path, text, dat, kits.linked, kits.packages)
  BY <1>2, <1>3, <1>7, GoalsFit DEF DeliverInv, Due
<1> HIDE DEF s
<1>9. /\ UrlTools(s) \subseteq s.tools /\ FolderTools(s) \cap s.tools = {}
  BY <1>2, KitfileType
<1>10. \A t \in UrlTools(s) \cup FolderTools(s) :
         kits.linked[t] = IF t \in s.tools THEN s.version ELSE "folder"
  <2>1. \A t \in UrlTools(s) \cup FolderTools(s) : Goal("link_tool", t, s, source)
    BY DEF Goal
  <2>. QED  BY <1>8, <2>1 DEF Reached
<1>11. \A p \in PackagesOf(s) : p \in kits.packages
  <2>1. \A p \in PackagesOf(s) : Goal("install_package", p, s, source)
    BY DEF Goal
  <2>. QED  BY <1>8, <2>1 DEF Reached
<1>12. \A k \in s.locals : source[k[1]].there =>
         link[k] = "source" /\ path[k] = "source" /\ k \in text /\ k \in dat
  <2>1. \A k \in s.locals : source[k[1]].there =>
          /\ Goal("symlink", k, s, source) /\ Goal("path", k, s, source)
          /\ Goal("text", k, s, source) /\ Goal("dat", k, s, source)
    BY DEF Goal, KeyGoals
  <2>. QED  BY <1>8, <2>1 DEF Reached
<1>13. Delivered(s)
  BY <1>9, <1>10, <1>11, <1>12 DEF Delivered
<1>. QED  BY <1>13 DEF s

\* A command of wrap kit that meets no trouble delivers everything its kitfile asks for,
\* whatever earlier commands, crashes and failed writes left behind: its loops make every
\* goal, whatever order they take, and what a later step undoes is made again.
THEOREM KitAlwaysDelivers == KitSpec => KitDelivers
<1>1. KitInit => DeliverInv
  <2>1. KitInit => kits.source = NoSource
    BY DEF KitInit
  <2>. QED  BY <2>1 DEF DeliverInv
<1>2. IInv /\ DeliverInv /\ [KitNext]_vars => DeliverInv'
  BY DeliverStays
<1>3. KitSpec => [](IInv /\ DeliverInv)
  BY <1>1, <1>2, KitInvariant, PTL DEF KitSpec
<1>. QED  BY <1>3, CleanReportDelivers, PTL DEF KitSpec, KitDelivers

-----------------------------------------------------------------------------
(* What is left of wrap make *)

\* No step and no round builds.
Buildless(q) == \A i \in 1 .. Len(q) : ~Has(q[i], {"build"})

WorkOps == {"loop", "fetch", "ensure", "have", "unlink", "symlink", "dat", "reinsert", "compile"}

\* A step that comes before the cleaning.
Works(st) ==
  /\ st.op \in WorkOps
  /\ st.op = "reinsert" => st.loses = 0
  /\ \A r \in st.rounds : Len(r) = 1 /\ r[1].op \in {"fetch", "compile"}

Cleans(q, i, a) ==
  i = Len(q) - 1 /\ q[i].op = "clean" /\ q[i].a = a /\ q[i].k = NoKey /\ q[i].loses = 1

Making(q, a) ==
  /\ Len(q) \in 1 .. Len(q)
  /\ q[Len(q)].op = "build" /\ q[Len(q)].a = a
  /\ \A i \in 1 .. Len(q) - 1 : Works(q[i]) \/ Cleans(q, i, a)

\* A version whose source the build is to use.
Wanted(a, k, X) ==
  k \in ListedKeys(app[a]) \ X /\ a \in tracked[k] /\ path[k] = "source" /\ source[k[1]].there

Fetched(st, k) ==
  \/ st.op = "fetch" /\ st.k = k
  \/ \E r \in st.rounds : r[1].op = "fetch" /\ r[1].k = k

\* The step sees to the link, unless a version that was looked at is not looked at again.
Fixes(st, k, S) == (st.op \in {"ensure", "symlink"} /\ st.k = k) \/ (k \notin S /\ Fetched(st, k))
ToFix(q, k, S) == \E i \in 1 .. Len(q) : Fixes(q[i], k, S)

Relinks(q, k) ==
  \A i \in 1 .. Len(q) : q[i].op = "unlink" /\ q[i].k = k =>
    \E j \in i + 1 .. Len(q) : q[j].op = "symlink" /\ q[j].k = k

Linking(q, k, S, ln) == (ln[k] = "source" \/ ToFix(q, k, S)) /\ Relinks(q, k)
Clearing(q, a, n, ar, st) == (\E i \in 1 .. Len(q) : Cleans(q, i, a)) \/ (ar[n] = 0 /\ st[a][n] = 0)

\* For a build, unless its application is excused.
Prepared(q, a, S, ln, ar, st, X) ==
  <<a>> \notin X => \A k \in Keys : Wanted(a, k, X) => Linking(q, k, S, ln) /\ Clearing(q, a, k[1], ar, st)

BuildInv ==
  \/ Buildless(todo)
  \/ \E a \in Apps : Making(todo, a) /\ Prepared(todo, a, seen, link, art, stuff, excused)

\* Steps that work build nothing.
LEMMA WorkBuildsNothing ==
  ASSUME NEW st, Works(st)
  PROVE  ~Has(st, {"build"})
<1>1. st.op # "build"
  BY DEF Works, WorkOps
<1>2. ASSUME NEW r \in st.rounds, NEW p \in 1 .. Len(r) PROVE r[p].op # "build"
  <2>1. Len(r) = 1 /\ r[1].op \in {"fetch", "compile"}
    BY DEF Works
  <2>2. p = 1
    BY <2>1
  <2>. QED  BY <2>1, <2>2
<1>. QED  BY <1>1, <1>2 DEF Has

\* A queue that builds nothing does not when steps that do not come in the place of the first.
LEMMA ShiftBuildless ==
  ASSUME NEW q, NEW s, NEW q2, Shifted(q, s, q2), Buildless(q), Buildless(s)
  PROVE  Buildless(q2)
<1>1. \A i \in 1 .. Len(q2) : i <= Len(s) \/ i > Len(s)
  BY DEF Shifted
<1>2. ASSUME NEW i \in 1 .. Len(q2), i <= Len(s) PROVE ~Has(q2[i], {"build"})
  <2>1. i \in 1 .. Len(s) /\ q2[i] = s[i]
    BY <1>2 DEF Shifted
  <2>. QED  BY <2>1 DEF Buildless
<1>3. ASSUME NEW i \in 1 .. Len(q2), i > Len(s) PROVE ~Has(q2[i], {"build"})
  <2> DEFINE g == i - Len(s) + 1
  <2>1. g \in 2 .. Len(q) /\ q2[i] = q[g]
    BY <1>3 DEF Shifted
  <2> HIDE DEF g
  <2>2. g \in 1 .. Len(q)
    BY <2>1
  <2>. QED  BY <2>1, <2>2 DEF Buildless
<1>. QED  BY <1>1, <1>2, <1>3 DEF Buildless

\* Nor when its first steps are gone.
LEMMA DropBuildless ==
  ASSUME NEW q, NEW n, NEW q2, Dropped(q, n, q2), Buildless(q)
  PROVE  Buildless(q2)
  BY DEF Dropped, Buildless

\* Making goes on when steps that work come in the place of one.
LEMMA ShiftMaking ==
  ASSUME NEW q, NEW s, NEW q2, Shifted(q, s, q2), NEW a, Making(q, a), q[1].op \in WorkOps,
         \A i \in 1 .. Len(s) : Works(s[i])
  PROVE  /\ Making(q2, a)
         /\ (\E i \in 1 .. Len(q) : Cleans(q, i, a)) => \E i \in 1 .. Len(q2) : Cleans(q2, i, a)
<1>1. /\ Len(q) \in Nat \ {0} /\ Len(s) \in Nat /\ Len(q2) = Len(s) + Len(q) - 1
  BY DEF Shifted
<1>2. Len(q) # 1
  BY DEF Making, WorkOps
<1> DEFINE l == Len(q)
           n == Len(s)
<1> HIDE DEF l, n
<1>3. Len(q) \in 2 .. Len(q) /\ Len(q) + Len(s) - 1 = Len(q2) /\ Len(q2) \in 1 .. Len(q2)
  <2>1. l \in Nat \ {0} /\ n \in Nat /\ l # 1 /\ Len(q2) = n + l - 1
    BY <1>1, <1>2 DEF l, n
  <2>2. l \in 2 .. l /\ l + n - 1 = Len(q2) /\ Len(q2) \in 1 .. Len(q2)
    BY <2>1
  <2>. QED  BY <2>2 DEF l, n
<1>4. q2[Len(q2)] = q[Len(q)]
  BY <1>3 DEF Shifted
<1>5. ASSUME NEW i \in 1 .. Len(q2) - 1 PROVE Works(q2[i]) \/ Cleans(q2, i, a)
  <2>1. i \in 1 .. Len(q2)
    BY <1>1, <1>3
  <2>2. CASE i <= Len(s)
    <3>1. i \in 1 .. Len(s) /\ q2[i] = s[i]
      BY <1>1, <2>1, <2>2 DEF Shifted
    <3>. QED  BY <3>1
  <2>3. CASE i > Len(s)
    <3> DEFINE g == i - Len(s) + 1
    <3>1. g \in 2 .. Len(q) /\ q2[i] = q[g]
      BY <2>1, <2>3 DEF Shifted
    <3>2. g \in 1 .. Len(q) - 1 /\ (g = Len(q) - 1 => i = Len(q2) - 1)
      BY <1>1, <3>1
    <3> HIDE DEF g
    <3>3. Works(q[g]) \/ Cleans(q, g, a)
      BY <3>2 DEF Making
    <3>. QED  BY <3>1, <3>2, <3>3 DEF Cleans
  <2>. QED  BY <1>1, <2>1, <2>2, <2>3
<1>6. Making(q2, a)
  BY <1>3, <1>4, <1>5 DEF Making
<1>7. ASSUME NEW i \in 1 .. Len(q), Cleans(q, i, a) PROVE \E m \in 1 .. Len(q2) : Cleans(q2, m, a)
  <2>1. i # 1
    BY <1>7 DEF Cleans, WorkOps
  <2> DEFINE m == i + Len(s) - 1
  <2>2. i \in 2 .. Len(q)
    BY <1>1, <2>1
  <2>3. m \in 1 .. Len(q2) /\ q2[m] = q[i]
    BY <2>2 DEF Shifted
  <2>4. i = Len(q) - 1
    BY <1>7 DEF Cleans
  <2>5. m = Len(q2) - 1
    BY <1>1, <2>4
  <2> HIDE DEF m
  <2>6. Cleans(q2, m, a)
    BY <1>7, <2>3, <2>5 DEF Cleans
  <2>. QED  BY <2>3, <2>6
<1>. QED  BY <1>6, <1>7

\* A version that is to be linked still is.
LEMMA ShiftFixes ==
  ASSUME NEW q, NEW s, NEW q2, Shifted(q, s, q2), NEW k, NEW S
  PROVE  /\ ToFix(s, k, S) => ToFix(q2, k, S)
         /\ (\E i \in 2 .. Len(q) : Fixes(q[i], k, S)) => ToFix(q2, k, S)
<1>1. Len(q) \in Nat \ {0} /\ Len(s) \in Nat /\ Len(q2) = Len(s) + Len(q) - 1
  BY DEF Shifted
<1>2. ASSUME NEW i \in 1 .. Len(s), Fixes(s[i], k, S) PROVE ToFix(q2, k, S)
  <2>1. i \in 1 .. Len(q2) /\ q2[i] = s[i]
    BY <1>1 DEF Shifted
  <2>. QED  BY <1>2, <2>1 DEF ToFix
<1>3. ASSUME NEW i \in 2 .. Len(q), Fixes(q[i], k, S) PROVE ToFix(q2, k, S)
  <2> DEFINE m == i + Len(s) - 1
  <2>1. m \in 1 .. Len(q2) /\ q2[m] = q[i]
    BY DEF Shifted
  <2> HIDE DEF m
  <2>. QED  BY <1>3, <2>1 DEF ToFix
<1>. QED  BY <1>2, <1>3 DEF ToFix

\* What is removed is still made again.
LEMMA ShiftRelinks ==
  ASSUME NEW q, NEW s, NEW q2, Shifted(q, s, q2), NEW k, Relinks(q, k), Relinks(s, k)
  PROVE  Relinks(q2, k)
<1>1. Len(q) \in Nat \ {0} /\ Len(s) \in Nat /\ Len(q2) = Len(s) + Len(q) - 1
  BY DEF Shifted
<1> SUFFICES ASSUME NEW i \in 1 .. Len(q2), q2[i].op = "unlink", q2[i].k = k
             PROVE  \E j \in i + 1 .. Len(q2) : q2[j].op = "symlink" /\ q2[j].k = k
  BY DEF Relinks
<1>2. CASE i <= Len(s)
  <2>1. i \in 1 .. Len(s) /\ q2[i] = s[i]
    BY <1>1, <1>2 DEF Shifted
  <2>2. PICK j \in i + 1 .. Len(s) : s[j].op = "symlink" /\ s[j].k = k
    BY <2>1 DEF Relinks
  <2>3. j \in 1 .. Len(s) /\ j \in i + 1 .. Len(q2)
    BY <1>1, <2>1
  <2>4. q2[j] = s[j]
    BY <2>3 DEF Shifted
  <2>. QED  BY <2>2, <2>3, <2>4
<1>3. CASE i > Len(s)
  <2> DEFINE g == i - Len(s) + 1
  <2>1. g \in 2 .. Len(q) /\ q2[i] = q[g]
    BY <1>3 DEF Shifted
  <2>2. g + Len(s) - 1 = i
    BY <1>1, <1>3
  <2> HIDE DEF g
  <2>3. g \in 1 .. Len(q)
    BY <2>1
  <2>4. PICK j \in g + 1 .. Len(q) : q[j].op = "symlink" /\ q[j].k = k
    BY <2>1, <2>3 DEF Relinks
  <2>5. j \in 2 .. Len(q)
    BY <2>1
  <2> DEFINE m == j + Len(s) - 1
  <2>6. m \in 1 .. Len(q2) /\ q2[m] = q[j]
    BY <2>5 DEF Shifted
  <2>7. m \in i + 1 .. Len(q2)
    BY <1>1, <2>1, <2>2, <2>5, <2>6
  <2> HIDE DEF m
  <2>. QED  BY <2>4, <2>6, <2>7
<1>. QED  BY <1>1, <1>2, <1>3

\* A command that builds nothing goes on, begins or ends.
LEMMA BuildsNothing ==
  ASSUME Buildless(todo')
  PROVE  BuildInv'
  BY DEF BuildInv

\* Nothing builds nothing.
LEMMA NothingIsBuildless == Buildless(<<>>)
<1>1. Len(<<>>) = 0
  BY EmptySeq
<1>. QED  BY <1>1 DEF Buildless

\* A step of a command that builds nothing leads to no build.
LEMMA BuildlessGoesOn ==
  ASSUME Left, Buildless(todo), NEW op, Doing(op), NEW s \in Seq(StepSet), todo' = s \o Tail(todo),
         Buildless(s)
  PROVE  BuildInv'
<1>1. todo \in Seq(StepSet) /\ todo # <<>>
  BY FirstStep
<1>2. Shifted(todo, s, s \o Tail(todo))
  BY <1>1, ThenShifts
<1>. QED  BY <1>2, ShiftBuildless, BuildsNothing

\* A step of a build that leads to steps that work, and leaves what is wanted to be linked.
LEMMA MakingGoesOn ==
  ASSUME IInv, NEW a \in Apps, Making(todo, a),
         Prepared(todo, a, seen, link, art, stuff, excused),
         NEW op \in WorkOps, Doing(op),
         UNCHANGED <<source, path, tracked, app, art, stuff, excused>>,
         NEW s \in Seq(StepSet), todo' = s \o Tail(todo),
         \A i \in 1 .. Len(s) : Works(s[i]),
         \A k \in Keys :
           /\ Relinks(s, k)
           /\ path[k] = "source" /\ source[k[1]].there =>
                /\ (link[k] = "source" /\ ~(op = "unlink" /\ Step.k = k)) \/ Fixes(Step, k, seen) =>
                     link'[k] = "source" \/ ToFix(s, k, seen')
                /\ k \in seen' \ seen => link'[k] = "source" \/ ToFix(s, k, seen')
  PROVE  BuildInv'
<1>1. todo \in Seq(StepSet) /\ todo # <<>> /\ todo[1] = Step /\ Step.op = op
  BY FirstStep DEF IInv
<1>2. Shifted(todo, s, todo')
  BY <1>1, ThenShifts
<1>3. Len(todo) \in Nat \ {0} /\ 1 \in 1 .. Len(todo)
  BY <1>2 DEF Shifted
<1>4. /\ Making(todo', a)
      /\ (\E i \in 1 .. Len(todo) : Cleans(todo, i, a)) => \E i \in 1 .. Len(todo') : Cleans(todo', i, a)
  BY <1>1, <1>2, ShiftMaking
<1>5. ASSUME <<a>> \notin excused', NEW k \in Keys, Wanted(a, k, excused)'
      PROVE  Linking(todo', k, seen', link') /\ Clearing(todo', a, k[1], art', stuff')
  <2>1. Wanted(a, k, excused) /\ <<a>> \notin excused
    BY <1>5 DEF Wanted
  <2>2. Linking(todo, k, seen, link) /\ Clearing(todo, a, k[1], art, stuff)
    BY <2>1 DEF Prepared
  <2>3. path[k] = "source" /\ source[k[1]].there
    BY <2>1 DEF Wanted
  <2>4. Clearing(todo', a, k[1], art', stuff')
    BY <1>4, <2>2 DEF Clearing
  <2>5. Relinks(todo', k)
    BY <1>2, <2>2, ShiftRelinks DEF Linking
  <2>6. CASE op = "unlink" /\ Step.k = k
    <3>1. PICK j \in 1 + 1 .. Len(todo) : todo[j].op = "symlink" /\ todo[j].k = k
      BY <1>1, <1>3, <2>2, <2>6 DEF Linking, Relinks
    <3>2. j \in 2 .. Len(todo) /\ Fixes(todo[j], k, seen')
      BY <3>1 DEF Fixes
    <3>3. ToFix(todo', k, seen')
      BY <1>2, <3>2, ShiftFixes
    <3>. QED  BY <2>4, <2>5, <3>3 DEF Linking
  <2>7. CASE ~(op = "unlink" /\ Step.k = k)
    <3>1. CASE link[k] = "source" \/ Fixes(Step, k, seen)
      <4>1. link'[k] = "source" \/ ToFix(s, k, seen')
        BY <2>3, <2>7, <3>1
      <4>2. ToFix(s, k, seen') => ToFix(todo', k, seen')
        BY <1>2, ShiftFixes
      <4>. QED  BY <2>4, <2>5, <4>1, <4>2 DEF Linking
    <3>2. CASE ~(link[k] = "source" \/ Fixes(Step, k, seen))
      <4>1. PICK i \in 1 .. Len(todo) : Fixes(todo[i], k, seen)
        BY <2>2, <3>2 DEF Linking, ToFix
      <4>2. i \in 2 .. Len(todo)
        <5>1. i # 1
          BY <1>1, <3>2, <4>1
        <5>. QED  BY <1>3, <5>1
      <4>3. CASE Fixes(todo[i], k, seen')
        <5>1. ToFix(todo', k, seen')
          BY <1>2, <4>2, <4>3, ShiftFixes
        <5>. QED  BY <2>4, <2>5, <5>1 DEF Linking
      <4>4. CASE ~Fixes(todo[i], k, seen')
        <5>1. k \in seen' \ seen
          BY <4>1, <4>4 DEF Fixes
        <5>2. link'[k] = "source" \/ ToFix(s, k, seen')
          BY <2>3, <5>1
        <5>3. ToFix(s, k, seen') => ToFix(todo', k, seen')
          BY <1>2, ShiftFixes
        <5>. QED  BY <2>4, <2>5, <5>2, <5>3 DEF Linking
      <4>. QED  BY <4>3, <4>4
    <3>. QED  BY <3>1, <3>2
  <2>. QED  BY <2>4, <2>6, <2>7
<1>6. Prepared(todo, a, seen, link, art, stuff, excused)'
  BY <1>5 DEF Prepared
<1>. QED  BY <1>4, <1>6 DEF BuildInv

\* What a step of a build may be.
LEMMA MakingStep ==
  ASSUME Left, NEW a, Making(todo, a), NEW op, Doing(op)
  PROVE  \/ op \in WorkOps /\ Works(Step)
         \/ op = "clean" /\ Step.a = a /\ Step.k = NoKey /\ Step.loses = 1 /\ Len(todo) = 2
         \/ op = "build" /\ Step.a = a /\ Len(todo) = 1
<1>1. todo \in Seq(StepSet) /\ todo # <<>> /\ todo[1] = Step /\ Step.op = op
  BY FirstStep
<1>2. Len(todo) \in Nat \ {0}
  BY <1>1, EmptySeq
<1>3. CASE Len(todo) = 1
  BY <1>1, <1>3 DEF Making
<1>4. CASE Len(todo) # 1
  <2>1. 1 \in 1 .. Len(todo) - 1
    BY <1>2, <1>4
  <2>2. Works(Step) \/ Cleans(todo, 1, a)
    BY <1>1, <2>1 DEF Making
  <2>3. CASE Works(Step)
    BY <1>1, <2>3 DEF Works
  <2>4. CASE Cleans(todo, 1, a)
    <3>1. Len(todo) = 2
      BY <1>2, <2>4 DEF Cleans
    <3>. QED  BY <1>1, <2>4, <3>1 DEF Cleans
  <2>. QED  BY <2>2, <2>3, <2>4
<1>. QED  BY <1>3, <1>4

\* A step that leads to no others is done.
LEMMA StepIsDone ==
  ASSUME IInv, BuildInv, NEW op, Doing(op), Done, op \notin {"clean", "build"},
         op \in WorkOps =>
           /\ UNCHANGED <<source, path, tracked, app, art, stuff, excused, seen>>
           /\ \A k \in Keys : path[k] = "source" /\ source[k[1]].there =>
                ((link[k] = "source" /\ ~(op = "unlink" /\ Step.k = k)) \/ Fixes(Step, k, seen) =>
                  link'[k] = "source")
  PROVE  BuildInv'
<1>1. todo \in Seq(StepSet) /\ todo # <<>>
  BY FirstStep DEF IInv
<1>2. <<>> \in Seq(StepSet) /\ Len(<<>>) = 0
  BY EmptySeq
<1>3. todo' = <<>> \o Tail(todo)
  <2>1. Tail(todo) \in Seq(StepSet)
    BY <1>1, HeadTailProperties
  <2>2. <<>> \o Tail(todo) = Tail(todo)
    BY <2>1, ConcatEmptySeq
  <2>. QED  BY <2>2 DEF Done
<1>4. CASE Buildless(todo)
  BY <1>2, <1>3, <1>4, NothingIsBuildless, BuildlessGoesOn DEF IInv
<1>5. ASSUME NEW a \in Apps, Making(todo, a), Prepared(todo, a, seen, link, art, stuff, excused)
      PROVE  BuildInv'
  <2>1. op \in WorkOps
    BY <1>5, MakingStep DEF IInv
  <2>2. \A i \in 1 .. Len(<<>>) : Works(<<>>[i])
    BY <1>2
  <2>3. \A k \in Keys : Relinks(<<>>, k) /\ k \notin seen' \ seen
    BY <1>2, <2>1 DEF Relinks
  <2>. QED  BY <1>2, <1>3, <1>5, <2>1, <2>2, <2>3, MakingGoesOn
<1>. QED  BY <1>4, <1>5 DEF BuildInv

\* Steps that write one file.
LEMMA FilesStepsPrepare ==
  ASSUME IInv, BuildInv
  PROVE  /\ unlink_package => BuildInv'
         /\ create_package_symlink => BuildInv'
         /\ open_source_path => BuildInv'
         /\ save_local_dev_source_path => BuildInv'
         /\ register_local_dev_v2_text_registry => BuildInv'
         /\ ensure_local_dev_in_registry_dat => BuildInv'
         /\ register_dependency_tracking => BuildInv'
         /\ elm_json_write => BuildInv'
         /\ drop_tracking_dir => BuildInv'
         /\ drop_all_tracking => BuildInv'
         /\ remove_local_dev_from_registry_dat => BuildInv'
         /\ remove_local_dev_from_text_registry => BuildInv'
         /\ untrack => BuildInv'
         /\ reinsert_local_dev => BuildInv'
<1>0. link \in [Keys -> {"none", "copy", "source"}]
  BY DEF IInv, FilesOK
<1>1. ASSUME unlink_package PROVE BuildInv'
  <2>1. /\ Doing("unlink") /\ Done /\ link' = [link EXCEPT ![Step.k] = "none"]
        /\ UNCHANGED <<source, path, tracked, app, art, stuff, excused, seen>>
    BY <1>1 DEF unlink_package, Keep
  <2>2. Step.op = "unlink" /\ Step.rounds = {}
    BY <2>1, FirstStep DEF IInv
  <2>3. \A k \in Keys : (link[k] = "source" /\ ~("unlink" = "unlink" /\ Step.k = k)) \/ Fixes(Step, k, seen) =>
          link'[k] = "source"
    BY <1>0, <2>1, <2>2 DEF Fixes, Fetched
  <2>. QED  BY <2>1, <2>3, StepIsDone
<1>2. ASSUME create_package_symlink PROVE BuildInv'
  <2>1. /\ Doing("symlink") /\ Done /\ link' = [link EXCEPT ![Step.k] = "source"]
        /\ UNCHANGED <<source, path, tracked, app, art, stuff, excused, seen>>
    BY <1>2 DEF create_package_symlink, Keep
  <2>2. Step.op = "symlink" /\ Step.rounds = {}
    BY <2>1, FirstStep DEF IInv
  <2>3. \A k \in Keys : (link[k] = "source" /\ ~("symlink" = "unlink" /\ Step.k = k)) \/ Fixes(Step, k, seen) =>
          link'[k] = "source"
    BY <1>0, <2>1, <2>2 DEF Fixes, Fetched
  <2>. QED  BY <2>1, <2>3, StepIsDone
<1>3. ASSUME open_source_path PROVE BuildInv'
  <2>1. Doing("open_path") /\ Done
    BY <1>3 DEF open_source_path
  <2>. QED  BY <2>1, StepIsDone DEF WorkOps
<1>4. ASSUME save_local_dev_source_path PROVE BuildInv'
  <2>1. Doing("path") /\ Done
    BY <1>4 DEF save_local_dev_source_path
  <2>. QED  BY <2>1, StepIsDone DEF WorkOps
<1>5. ASSUME register_local_dev_v2_text_registry PROVE BuildInv'
  <2>1. Doing("text") /\ Done
    BY <1>5 DEF register_local_dev_v2_text_registry
  <2>. QED  BY <2>1, StepIsDone DEF WorkOps
<1>6. ASSUME ensure_local_dev_in_registry_dat PROVE BuildInv'
  <2>1. /\ Doing("dat") /\ Done /\ link' = link
        /\ UNCHANGED <<source, path, tracked, app, art, stuff, excused, seen>>
    BY <1>6 DEF ensure_local_dev_in_registry_dat, Keep
  <2>2. Step.op = "dat" /\ Step.rounds = {}
    BY <2>1, FirstStep DEF IInv
  <2>3. \A k \in Keys : (link[k] = "source" /\ ~("dat" = "unlink" /\ Step.k = k)) \/ Fixes(Step, k, seen) =>
          link'[k] = "source"
    BY <1>0, <2>1, <2>2 DEF Fixes, Fetched
  <2>. QED  BY <2>1, <2>3, StepIsDone
<1>7. ASSUME register_dependency_tracking PROVE BuildInv'
  <2>1. Doing("track") /\ Done
    BY <1>7 DEF register_dependency_tracking
  <2>. QED  BY <2>1, StepIsDone DEF WorkOps
<1>8. ASSUME elm_json_write PROVE BuildInv'
  <2>1. Doing("elm_json") /\ Done
    BY <1>8 DEF elm_json_write
  <2>. QED  BY <2>1, StepIsDone DEF WorkOps
<1>9. ASSUME drop_tracking_dir PROVE BuildInv'
  <2>1. Doing("drop") /\ Done
    BY <1>9 DEF drop_tracking_dir
  <2>. QED  BY <2>1, StepIsDone DEF WorkOps
<1>10. ASSUME drop_all_tracking PROVE BuildInv'
  <2>1. Doing("drop_all") /\ Done
    BY <1>10 DEF drop_all_tracking
  <2>. QED  BY <2>1, StepIsDone DEF WorkOps
<1>11. ASSUME remove_local_dev_from_registry_dat PROVE BuildInv'
  <2>1. Doing("undat") /\ Done
    BY <1>11 DEF remove_local_dev_from_registry_dat
  <2>. QED  BY <2>1, StepIsDone DEF WorkOps
<1>12. ASSUME remove_local_dev_from_text_registry PROVE BuildInv'
  <2>1. Doing("untext") /\ Done
    BY <1>12 DEF remove_local_dev_from_text_registry
  <2>. QED  BY <2>1, StepIsDone DEF WorkOps
<1>13. ASSUME untrack PROVE BuildInv'
  <2>1. Doing("untrack") /\ Done
    BY <1>13 DEF untrack
  <2>. QED  BY <2>1, StepIsDone DEF WorkOps
<1>14. ASSUME reinsert_local_dev PROVE BuildInv'
  <2>1. /\ Doing("reinsert") /\ Done /\ link' = link
        /\ UNCHANGED <<source, path, tracked, app, art, stuff, excused, seen>>
    BY <1>14 DEF reinsert_local_dev, Keep
  <2>2. Step.op = "reinsert" /\ Step.rounds = {}
    BY <2>1, FirstStep DEF IInv
  <2>3. \A k \in Keys : (link[k] = "source" /\ ~("reinsert" = "unlink" /\ Step.k = k)) \/ Fixes(Step, k, seen) =>
          link'[k] = "source"
    BY <1>0, <2>1, <2>2 DEF Fixes, Fetched
  <2>. QED  BY <2>1, <2>3, StepIsDone
<1>. QED  BY <1>1, <1>2, <1>3, <1>4, <1>5, <1>6, <1>7, <1>8, <1>9, <1>10, <1>11, <1>12, <1>13, <1>14

\* What was compiled earlier is removed.
LEMMA CompiledIsRemoved ==
  ASSUME IInv, BuildInv, builder_clean_local_dev_artifacts
  PROVE  BuildInv'
<1>1. /\ Doing("clean") /\ Done
      /\ UNCHANGED <<source, link, path, tracked, app, excused, seen>>
  BY DEF builder_clean_local_dev_artifacts, Keep
<1>2. /\ todo \in Seq(StepSet) /\ todo # <<>> /\ todo[1] = Step /\ Step.op = "clean"
      /\ art \in [Names -> 0 .. MaxCode] /\ stuff \in [Apps -> [Names -> 0 .. MaxCode]]
  BY <1>1, FirstStep DEF IInv, FilesOK
<1>3. todo' = Tail(todo) /\ todo' \in Seq(StepSet) /\ Shifted(todo, <<>>, todo')
  BY <1>1, <1>2, HeadTailProperties, DoneShifts DEF Done
<1>4. CASE Buildless(todo)
  BY <1>3, <1>4, NothingIsBuildless, ShiftBuildless, BuildsNothing
<1>5. ASSUME NEW a \in Apps, Making(todo, a), Prepared(todo, a, seen, link, art, stuff, excused)
      PROVE  BuildInv'
  <2>1. Step.a = a /\ Len(todo) = 2 /\ Cleans(todo, 1, a)
    <3>1. Step.a = a /\ Step.k = NoKey /\ Step.loses = 1 /\ Len(todo) = 2
      BY <1>1, <1>5, MakingStep DEF WorkOps, IInv
    <3>2. 1 = Len(todo) - 1
      BY <3>1
    <3>. QED  BY <1>2, <3>1, <3>2 DEF Cleans
  <2>2. Len(todo') = 1 /\ todo'[1] = todo[2]
    <3>1. Len(Tail(todo)) = Len(todo) - 1 /\ \A i \in 1 .. Len(Tail(todo)) : Tail(todo)[i] = todo[i + 1]
      BY <1>2, HeadTailProperties
    <3>2. Len(Tail(todo)) = 1
      BY <2>1, <3>1
    <3>3. 1 \in 1 .. Len(Tail(todo)) /\ 1 + 1 = 2
      BY <3>2
    <3>4. Tail(todo)[1] = todo[2]
      BY <3>1, <3>3
    <3>. QED  BY <1>3, <3>2, <3>4
  <2>3. Making(todo', a)
    <3>1. todo'[1].op = "build" /\ todo'[1].a = a
      BY <1>5, <2>1, <2>2 DEF Making
    <3>2. Len(todo') \in 1 .. Len(todo') /\ 1 .. Len(todo') - 1 = {}
      BY <2>2
    <3>. QED  BY <2>2, <3>1, <3>2 DEF Making
  <2>4. ASSUME <<a>> \notin excused', NEW k \in Keys, Wanted(a, k, excused)'
        PROVE  Linking(todo', k, seen', link') /\ Clearing(todo', a, k[1], art', stuff')
    <3>1. Wanted(a, k, excused) /\ <<a>> \notin excused
      BY <1>1, <2>4 DEF Wanted
    <3>2. Linking(todo, k, seen, link)
      BY <1>5, <3>1 DEF Prepared
    <3>3. ~ToFix(todo, k, seen)
      <4>1. todo[2].op = "build" /\ todo[2] \in StepSet
        <5>1. todo[2].op = "build"
          BY <1>5, <2>1 DEF Making
        <5>2. 2 \in 1 .. Len(todo)
          BY <2>1
        <5>3. todo[2] \in StepSet
          BY <1>2, <5>2
        <5>. QED  BY <5>1, <5>3
      <4>2. Step.rounds = {} /\ todo[2].rounds = {}
        BY <1>1, <4>1, FirstStep, StepType DEF IInv
      <4>3. ASSUME NEW i \in 1 .. Len(todo) PROVE ~Fixes(todo[i], k, seen)
        <5>1. i = 1 \/ i = 2
          BY <2>1
        <5>2. CASE i = 1
          BY <1>2, <4>2, <5>2 DEF Fixes, Fetched
        <5>3. CASE i = 2
          BY <4>1, <4>2, <5>3 DEF Fixes, Fetched
        <5>. QED  BY <5>1, <5>2, <5>3
      <4>. QED  BY <4>3 DEF ToFix
    <3>4. link[k] = "source" /\ Linked(k) /\ k \in TrackedBy(a)
      BY <3>1, <3>2, <3>3 DEF Linking, Linked, Wanted, TrackedBy
    <3>5. k[1] \in Names
      BY DEF Keys
    <3>6. art'[k[1]] = 0 /\ stuff'[a][k[1]] = 0
      BY <1>2, <2>1, <3>4, <3>5 DEF builder_clean_local_dev_artifacts
    <3>7. Relinks(todo', k)
      <4>1. Relinks(<<>>, k)
        BY EmptySeq DEF Relinks
      <4>. QED  BY <1>3, <3>2, <4>1, ShiftRelinks DEF Linking
    <3>. QED  BY <1>1, <3>4, <3>6, <3>7 DEF Linking, Clearing
  <2>. QED  BY <2>3, <2>4 DEF Prepared, BuildInv
<1>. QED  BY <1>4, <1>5 DEF BuildInv

\* A build ends its command.
LEMMA BuildEnds ==
  ASSUME IInv, BuildInv, compiler_make
  PROVE  BuildInv'
<1>1. Doing("build") /\ Done
  BY DEF compiler_make
<1>2. todo \in Seq(StepSet) /\ todo # <<>> /\ todo[1] = Step /\ Step.op = "build"
  BY <1>1, FirstStep DEF IInv
<1>3. todo' = Tail(todo) /\ Shifted(todo, <<>>, todo')
  BY <1>1, <1>2, DoneShifts DEF Done
<1>4. CASE Buildless(todo)
  BY <1>3, <1>4, NothingIsBuildless, ShiftBuildless, BuildsNothing
<1>5. ASSUME NEW a \in Apps, Making(todo, a) PROVE BuildInv'
  <2>1. Len(todo) = 1
    BY <1>1, <1>5, MakingStep DEF WorkOps, IInv
  <2>2. Len(todo') = 0
    <3>1. Len(Tail(todo)) = Len(todo) - 1
      BY <1>2, HeadTailProperties
    <3>. QED  BY <1>3, <2>1, <3>1
  <2>3. Buildless(todo')
    BY <2>2 DEF Buildless
  <2>. QED  BY <2>3, BuildsNothing
<1>. QED  BY <1>4, <1>5 DEF BuildInv

\* A loop of fetching or compiling works, and fetches what it is given.
LEMMA EachWorks ==
  ASSUME NEW op \in {"fetch", "compile"}, NEW S \in SUBSET Keys
  PROVE  /\ Each(op, S) \in StepSet /\ Works(Each(op, S)) /\ Each(op, S).op = "loop"
         /\ op = "fetch" => \A k \in S : Fetched(Each(op, S), k)
<1> DEFINE rounds == {<<Do(op, k)>> : k \in S}
<1>1. ASSUME NEW k \in S
      PROVE  Len(<<Do(op, k)>>) = 1 /\ <<Do(op, k)>>[1].op = op /\ <<Do(op, k)>>[1].k = k
  BY DEF Do, Made
<1>2. Each(op, S).rounds = rounds /\ Each(op, S).op = "loop" /\ Each(op, S) \in StepSet
  <2>1. Each(op, S) \in StepSet /\ Each(op, S).op = "loop"
    BY EachType
  <2>. QED  BY <2>1 DEF Each, Loop, Made
<1>3. \A r \in rounds : Len(r) = 1 /\ r[1].op = op
  BY <1>1
<1>4. Works(Each(op, S))
  BY <1>2, <1>3 DEF Works, WorkOps
<1>5. ASSUME op = "fetch", NEW k \in S PROVE Fetched(Each(op, S), k)
  <2>1. <<Do(op, k)>> \in rounds
    OBVIOUS
  <2>2. <<Do(op, k)>>[1].op = "fetch" /\ <<Do(op, k)>>[1].k = k
    BY <1>1, <1>5
  <2> DEFINE r == <<Do(op, k)>>
  <2>3. r \in rounds /\ r[1].op = "fetch" /\ r[1].k = k
    BY <2>1, <2>2
  <2> HIDE DEF r, rounds
  <2>. QED  BY <1>2, <2>3 DEF Fetched
<1>. QED  BY <1>2, <1>4, <1>5

\* Other steps that work.
LEMMA PlainWorks ==
  ASSUME NEW st \in PlainSteps, st.op \in WorkOps, st.op # "reinsert" \/ st.loses = 0
  PROVE  Works(st) /\ st \in StepSet
  BY PlainType DEF Works

\* Steps that work come in the place of one that looked first.
LEMMA WorkFollows ==
  ASSUME IInv, BuildInv, NEW op \in WorkOps, op # "unlink", Doing(op),
         UNCHANGED <<source, link, path, tracked, app, art, stuff, excused>>,
         NEW s \in Seq(StepSet), Then(s), \A i \in 1 .. Len(s) : Works(s[i]),
         \A k \in Keys :
           /\ Relinks(s, k)
           /\ path[k] = "source" /\ source[k[1]].there =>
                /\ Fixes(Step, k, seen) => link[k] = "source" \/ ToFix(s, k, seen')
                /\ k \in seen' \ seen => link[k] = "source" \/ ToFix(s, k, seen')
  PROVE  BuildInv'
<1>1. todo' = s \o Tail(todo)
  BY DEF Then
<1>2. CASE Buildless(todo)
  <2>1. Buildless(s)
    BY WorkBuildsNothing DEF Buildless
  <2>. QED  BY <1>1, <1>2, <2>1, BuildlessGoesOn DEF IInv
<1>3. ASSUME NEW a \in Apps, Making(todo, a), Prepared(todo, a, seen, link, art, stuff, excused)
      PROVE  BuildInv'
  <2>1. \A k \in Keys : path[k] = "source" /\ source[k[1]].there =>
          ((link[k] = "source" /\ ~(op = "unlink" /\ Step.k = k)) \/ Fixes(Step, k, seen) =>
             link'[k] = "source" \/ ToFix(s, k, seen'))
    OBVIOUS
  <2>2. \A k \in Keys : path[k] = "source" /\ source[k[1]].there =>
          (k \in seen' \ seen => link'[k] = "source" \/ ToFix(s, k, seen'))
    OBVIOUS
  <2>. QED  BY <1>1, <1>3, <2>1, <2>2, MakingGoesOn
<1>. QED  BY <1>2, <1>3 DEF BuildInv

\* A link is looked at, and made if the version has a source.
LEMMA LinkIsRepaired ==
  ASSUME IInv, BuildInv, ensure_local_dev_symlink
  PROVE  BuildInv'
<1>1. /\ Doing("ensure")
      /\ UNCHANGED <<source, link, path, tracked, app, art, stuff, excused, seen>>
  BY DEF ensure_local_dev_symlink, files
<1>2. Step.k \in Keys /\ Step.loses \in {0, 1} /\ Step.op = "ensure" /\ Step.rounds = {}
  <2>1. Step.k \in Keys
    BY <1>1, StepIsAbout DEF Ops, KeyOps, AppOps, OtherOps
  <2>2. Step \in StepSet /\ Step.op = "ensure" /\ Step.rounds = {}
    BY <1>1, FirstStep DEF IInv
  <2>. QED  BY <2>1, <2>2, StepType DEF Fits
<1>3. \A k \in Keys : Fixes(Step, k, seen) <=> k = Step.k
  BY <1>2 DEF Fixes, Fetched
<1> DEFINE a == Losing(3 * Step.loses, Do("unlink", Step.k))
           b == Losing(2 * Step.loses, Do("symlink", Step.k))
           c == Try("dat", Step.k)
<1>4. \/ /\ Done
         /\ path[Step.k] # "source" \/ link[Step.k] = "source" \/ ~source[Step.k[1]].there
      \/ Then(<<a, b, c>>)
      \/ todo' = <<>>
  BY DEF ensure_local_dev_symlink
<1>5. /\ a \in PlainSteps /\ b \in PlainSteps /\ c \in PlainSteps
      /\ a.k = Step.k /\ b.k = Step.k /\ a.op = "unlink" /\ b.op = "symlink" /\ c.op = "dat"
  BY <1>2, RepairSteps
<1> HIDE DEF a, b, c
<1>6. ASSUME Done, path[Step.k] # "source" \/ link[Step.k] = "source" \/ ~source[Step.k[1]].there
      PROVE  BuildInv'
  BY <1>1, <1>3, <1>6, StepIsDone
<1>7. ASSUME Then(<<a, b, c>>) PROVE BuildInv'
  <2> DEFINE s == <<a, b, c>>
  <2>1. s \in Seq(StepSet) /\ Len(s) = 3 /\ s[1] = a /\ s[2] = b /\ s[3] = c
    BY <1>5, PlainType
  <2>2. Then(s)
    BY <1>7
  <2> HIDE DEF s
  <2>3. \A i \in 1 .. Len(s) : i = 1 \/ i = 2 \/ i = 3
    BY <2>1
  <2>4. \A i \in 1 .. Len(s) : Works(s[i])
    <3>1. Works(a) /\ Works(b) /\ Works(c)
      BY <1>5, PlainWorks DEF WorkOps
    <3>. QED  BY <2>1, <2>3, <3>1
  <2>5. 2 \in 1 .. Len(s) /\ 2 \in 1 + 1 .. Len(s)
    BY <2>1
  <2>6. ASSUME NEW k \in Keys PROVE Relinks(s, k)
    <3>1. \A i \in 1 .. Len(s) : s[i].op = "unlink" => i = 1
      BY <1>5, <2>1, <2>3
    <3>. QED  BY <1>5, <2>1, <2>5, <3>1 DEF Relinks
  <2>7. ToFix(s, Step.k, seen')
    BY <1>5, <2>1, <2>5 DEF ToFix, Fixes
  <2>8. "ensure" \in WorkOps
    BY DEF WorkOps
  <2>. QED  BY <1>1, <1>3, <2>1, <2>2, <2>4, <2>6, <2>7, <2>8, WorkFollows
<1>8. ASSUME todo' = <<>> PROVE BuildInv'
  BY <1>8, NothingIsBuildless, BuildsNothing
<1>. QED  BY <1>4, <1>6, <1>7, <1>8

\* A version is looked at: its link is to be repaired.
LEMMA VersionIsFetched ==
  ASSUME IInv, BuildInv, download_package_recursive
  PROVE  BuildInv'
<1>1. /\ Doing("fetch") /\ seen' = seen \cup {Step.k}
      /\ UNCHANGED <<source, link, path, tracked, app, art, stuff, excused>>
  BY DEF download_package_recursive, files
<1>2. Step.k \in Keys /\ Step.op = "fetch" /\ Step.rounds = {}
  <2>1. Step.k \in Keys
    BY <1>1, StepIsAbout DEF Ops, KeyOps, AppOps, OtherOps
  <2>. QED  BY <1>1, <2>1, FirstStep DEF IInv
<1>3. \A k \in Keys : Fixes(Step, k, seen) <=> k = Step.k /\ k \notin seen
  BY <1>2 DEF Fixes, Fetched
<1> DEFINE a == Try("ensure", Step.k)
           b == Do("have", Step.k)
<1>4. (Done /\ Step.k \in seen) \/ Then(<<a, b>>)
  BY DEF download_package_recursive
<1>5. ASSUME Done, Step.k \in seen PROVE BuildInv'
  <2>1. seen' = seen
    BY <1>1, <1>5
  <2>. QED  BY <1>1, <1>3, <1>5, <2>1, StepIsDone
<1>6. ASSUME Then(<<a, b>>) PROVE BuildInv'
  <2>1. a \in PlainSteps /\ a.op = "ensure" /\ a.k = Step.k
    <3>1. Do("ensure", Step.k) \in PlainSteps /\ Do("ensure", Step.k).op = "ensure"
      BY <1>2, MakeStep
    <3>2. Do("ensure", Step.k).k = Step.k
      BY DEF Do, Made
    <3> DEFINE d == Do("ensure", Step.k)
    <3>3. a = Losing(1, d)
      BY DEF Try
    <3> HIDE DEF a, d
    <3>4. d \in PlainSteps /\ d.op = "ensure" /\ d.k = Step.k /\ 1 \in Nat /\ 1 \in {0, 1}
      BY <3>1, <3>2 DEF d
    <3>. QED  BY <3>3, <3>4, LosingType
  <2>2. b \in PlainSteps /\ b.op = "have"
    BY <1>2, MakeStep
  <2> HIDE DEF a, b
  <2> DEFINE s == <<a, b>>
  <2>3. s \in Seq(StepSet) /\ Len(s) = 2 /\ s[1] = a /\ s[2] = b
    BY <2>1, <2>2, PlainType
  <2>4. Then(s)
    BY <1>6
  <2> HIDE DEF s
  <2>5. \A i \in 1 .. Len(s) : i = 1 \/ i = 2
    BY <2>3
  <2>6. \A i \in 1 .. Len(s) : Works(s[i])
    <3>1. Works(a) /\ Works(b)
      BY <2>1, <2>2, PlainWorks DEF WorkOps
    <3>. QED  BY <2>3, <2>5, <3>1
  <2>7. \A k \in Keys : Relinks(s, k)
    BY <2>1, <2>2, <2>3, <2>5 DEF Relinks
  <2>8. ToFix(s, Step.k, seen')
    <3>1. 1 \in 1 .. Len(s) /\ Fixes(s[1], Step.k, seen')
      BY <2>1, <2>3 DEF Fixes
    <3>. QED  BY <3>1 DEF ToFix
  <2>9. "fetch" \in WorkOps
    BY DEF WorkOps
  <2>. QED  BY <1>1, <1>3, <2>3, <2>4, <2>6, <2>7, <2>8, <2>9, WorkFollows
<1>. QED  BY <1>4, <1>5, <1>6

\* What a version needs is fetched.
LEMMA NeedsAreFetched ==
  ASSUME IInv, BuildInv, continue_with_needs \/ builder_compile_local_dev_packages
  PROVE  BuildInv'
<1> DEFINE T(needs) == {<<n, Newest(n)>> : n \in needs \cap Names}
           c == Do("reinsert", NoKey)
<1>1. \E op \in {"have", "compile"} : Doing(op)
  BY DEF continue_with_needs, builder_compile_local_dev_packages
<1>2. PICK op \in {"have", "compile"} : Doing(op)
  BY <1>1
<1>3. op \in WorkOps /\ Step.op = op /\ Step.rounds = {}
  BY <1>2, FirstStep DEF IInv, WorkOps
<1>4. \A k \in Keys : ~Fixes(Step, k, seen)
  BY <1>3 DEF Fixes, Fetched
<1>5. UNCHANGED <<source, link, path, tracked, app, art, stuff, excused>>
  BY DEF continue_with_needs, builder_compile_local_dev_packages, files
<1>6. \/ todo' = <<>>
      \/ Done /\ seen' = seen
      \/ seen' = seen /\ \E needs : (\A n \in needs : Known(n)) /\ Then(<<Each("fetch", T(needs))>>)
      \/ seen' = seen /\ \E needs : (\A n \in needs : Known(n)) /\ Then(<<Each("fetch", T(needs)), c>>)
  <2>1. CASE continue_with_needs
    BY <2>1 DEF continue_with_needs, Stop
  <2>2. CASE builder_compile_local_dev_packages
    BY <2>2 DEF builder_compile_local_dev_packages, Stop
  <2>. QED  BY <2>1, <2>2
<1>7. CASE todo' = <<>>
  BY <1>7, NothingIsBuildless, BuildsNothing
<1>8. CASE Done /\ seen' = seen
  BY <1>2, <1>3, <1>4, <1>5, <1>8, StepIsDone
<1>9. ASSUME seen' = seen, NEW needs, \A n \in needs : Known(n), Then(<<Each("fetch", T(needs))>>)
      PROVE  BuildInv'
  <2> DEFINE b == Each("fetch", T(needs))
  <2>1. b \in StepSet /\ Works(b) /\ b.op = "loop"
    <3>1. T(needs) \in SUBSET Keys
      BY <1>9, NewestKeys
    <3> HIDE DEF T
    <3>. QED  BY <3>1, EachWorks
  <2> HIDE DEF b, T
  <2> DEFINE s == <<b>>
  <2>2. s \in Seq(StepSet) /\ Len(s) = 1 /\ s[1] = b
    BY <2>1
  <2>3. Then(s)
    BY <1>9 DEF b
  <2> HIDE DEF s
  <2>4. \A i \in 1 .. Len(s) : s[i] = b
    BY <2>2
  <2>5. \A k \in Keys : Relinks(s, k)
    BY <2>1, <2>4 DEF Relinks
  <2>. QED  BY <1>2, <1>3, <1>4, <1>5, <1>9, <2>1, <2>2, <2>3, <2>4, <2>5, WorkFollows
<1>10. ASSUME seen' = seen, NEW needs, \A n \in needs : Known(n), Then(<<Each("fetch", T(needs)), c>>)
       PROVE  BuildInv'
  <2> DEFINE b == Each("fetch", T(needs))
  <2>1. b \in StepSet /\ Works(b) /\ b.op = "loop"
    <3>1. T(needs) \in SUBSET Keys
      BY <1>10, NewestKeys
    <3> HIDE DEF T
    <3>. QED  BY <3>1, EachWorks
  <2>2. c \in StepSet /\ Works(c) /\ c.op = "reinsert"
    <3>1. c \in PlainSteps /\ c.op = "reinsert" /\ c.loses = 0
      BY MakeStep
    <3> HIDE DEF c
    <3>. QED  BY <3>1, PlainWorks DEF WorkOps
  <2> HIDE DEF b, c, T
  <2> DEFINE s == <<b, c>>
  <2>3. s \in Seq(StepSet) /\ Len(s) = 2 /\ s[1] = b /\ s[2] = c
    BY <2>1, <2>2
  <2>4. Then(s)
    BY <1>10 DEF b
  <2> HIDE DEF s
  <2>5. \A i \in 1 .. Len(s) : i = 1 \/ i = 2
    BY <2>3
  <2>6. \A i \in 1 .. Len(s) : s[i] = b \/ s[i] = c
    BY <2>3, <2>5
  <2>7. \A k \in Keys : Relinks(s, k)
    BY <2>1, <2>2, <2>6 DEF Relinks
  <2>8. \A i \in 1 .. Len(s) : Works(s[i])
    BY <2>1, <2>2, <2>6
  <2>. QED  BY <1>2, <1>3, <1>4, <1>5, <1>10, <2>3, <2>4, <2>7, <2>8, WorkFollows
<1>. QED  BY <1>6, <1>7, <1>8, <1>9, <1>10

\* A loop ends or begins a round.
LEMMA RoundPrepares ==
  ASSUME IInv, BuildInv, next_round
  PROVE  BuildInv'
<1>1. Doing("loop") /\ UNCHANGED <<source, link, path, tracked, app, art, stuff, excused, seen>>
  BY DEF next_round, files
<1>2. /\ todo \in Seq(StepSet) /\ todo # <<>> /\ todo[1] = Step /\ Step.op = "loop" /\ Step \in StepSet
      /\ 1 \in 1 .. Len(todo)
  BY <1>1, FirstStep DEF IInv
<1>3. CASE Step.rounds = {} /\ Done
  <2>1. \A k \in Keys : ~Fixes(Step, k, seen)
    BY <1>2, <1>3 DEF Fixes, Fetched
  <2>. QED  BY <1>1, <1>3, <2>1, StepIsDone
<1>4. ASSUME NEW r \in Step.rounds, Then(r \o <<Loop(Step.rounds \ {r})>>)
      PROVE  BuildInv'
  <2> DEFINE L == Loop(Step.rounds \ {r})
             s == r \o <<L>>
  <2>1. /\ r \in Seq(StepSet) /\ Len(r) \in Nat
        /\ \A p \in 1 .. Len(r) : r[p] \in PlainSteps /\ r[p] \in StepSet
    BY <1>2, RoundType
  <2>2. L \in StepSet /\ L.op = "loop" /\ L.rounds = Step.rounds \ {r}
    <3>1. Step.rounds \in SUBSET Seq(PlainSteps)
      BY <1>2, StepType
    <3>. QED  BY <3>1, LoopType
  <2>3. todo' = s \o Tail(todo) /\ Then(s)
    BY <1>4 DEF Then
  <2> HIDE DEF L
  <2>4. /\ s \in Seq(StepSet) /\ Len(s) = Len(r) + 1 /\ s[Len(r) + 1] = L
        /\ \A p \in 1 .. Len(r) : s[p] = r[p]
    BY <2>1, <2>2
  <2> HIDE DEF s
  <2>5. \A i \in 1 .. Len(s) : i \in 1 .. Len(r) \/ (i = Len(r) + 1 /\ s[i] = L)
    BY <2>1, <2>4
  <2>6. CASE Buildless(todo)
    <3>1. ~Has(Step, {"build"})
      BY <1>2, <2>6 DEF Buildless
    <3>2. ~Has(L, {"build"})
      BY <2>2, <3>1 DEF Has
    <3>3. ASSUME NEW p \in 1 .. Len(r) PROVE ~Has(s[p], {"build"})
      <4>1. r[p].op # "build" /\ r[p].rounds = {}
        BY <2>1, <3>1, PlainType DEF Has
      <4>. QED  BY <2>4, <4>1 DEF Has
    <3>4. Buildless(s)
      BY <2>5, <3>2, <3>3 DEF Buildless
    <3>. QED  BY <1>1, <2>3, <2>4, <2>6, <3>4, BuildlessGoesOn DEF IInv
  <2>7. ASSUME NEW a \in Apps, Making(todo, a) PROVE BuildInv'
    <3>1. Works(Step) /\ "loop" \in WorkOps
      BY <1>1, <2>7, MakingStep DEF WorkOps, IInv
    <3>2. Len(r) = 1 /\ r[1].op \in {"fetch", "compile"}
      BY <3>1 DEF Works
    <3>3. s[1] = r[1] /\ s[2] = L /\ Len(s) = 2 /\ r[1] \in PlainSteps
      BY <2>1, <2>4, <3>2
    <3>4. \A i \in 1 .. Len(s) : i = 1 \/ i = 2
      BY <3>3
    <3>5. Works(r[1]) /\ Works(L)
      <4>1. Works(r[1])
        BY <3>2, <3>3, PlainWorks DEF WorkOps
      <4>. QED  BY <2>2, <3>1, <4>1 DEF Works
    <3>6. \A i \in 1 .. Len(s) : Works(s[i])
      BY <3>3, <3>4, <3>5
    <3>7. \A k \in Keys : Relinks(s, k)
      BY <2>2, <3>2, <3>3, <3>4 DEF Relinks
    <3>8. 1 \in 1 .. Len(s) /\ 2 \in 1 .. Len(s)
      BY <3>3
    <3>9. ASSUME NEW k \in Keys, Fixes(Step, k, seen) PROVE ToFix(s, k, seen')
      <4>1. k \notin seen' /\ \E x \in Step.rounds : x[1].op = "fetch" /\ x[1].k = k
        BY <1>1, <1>2, <3>9 DEF Fixes, Fetched
      <4>2. PICK x \in Step.rounds : x[1].op = "fetch" /\ x[1].k = k
        BY <4>1
      <4>3. CASE x = r
        <5>1. Fixes(s[1], k, seen')
          BY <3>3, <4>1, <4>2, <4>3 DEF Fixes, Fetched
        <5>. QED  BY <3>8, <5>1 DEF ToFix
      <4>4. CASE x # r
        <5>1. x \in L.rounds
          BY <2>2, <4>4
        <5>2. Fixes(s[2], k, seen')
          BY <3>3, <4>1, <4>2, <5>1 DEF Fixes, Fetched
        <5>. QED  BY <3>8, <5>2 DEF ToFix
      <4>. QED  BY <4>3, <4>4
    <3>. QED  BY <1>1, <2>3, <2>4, <3>1, <3>6, <3>7, <3>9, WorkFollows
  <2>. QED  BY <2>6, <2>7 DEF BuildInv
<1>. QED  BY <1>3, <1>4 DEF next_round

\* A command that does anything else builds nothing.
LEMMA OtherStepsAreBuildless ==
  ASSUME Left, BuildInv, NEW op, Doing(op), op \notin WorkOps \cup {"clean", "build"}
  PROVE  Buildless(todo)
  BY MakingStep DEF BuildInv

\* One step that builds nothing comes in the place of another.
LEMMA OneMoreBuildless ==
  ASSUME Left, BuildInv, NEW op, Doing(op), op \notin WorkOps \cup {"clean", "build"},
         NEW x \in StepSet, ~Has(x, {"build"}), Then(<<x>>)
  PROVE  BuildInv'
<1> DEFINE s == <<x>>
<1>1. s \in Seq(StepSet) /\ Len(s) = 1 /\ s[1] = x
  OBVIOUS
<1>2. todo' = s \o Tail(todo)
  BY DEF Then
<1> HIDE DEF s
<1>3. \A i \in 1 .. Len(s) : s[i] = x
  BY <1>1
<1>4. Buildless(s)
  BY <1>3 DEF Buildless
<1>. QED  BY <1>1, <1>2, <1>4, OtherStepsAreBuildless, BuildlessGoesOn

\* An application is tracked, or gets a new elm.json.
LEMMA ApplicationsFollow ==
  ASSUME IInv, BuildInv,
         \/ register_local_dev_tracking_if_needed
         \/ refresh_app_indirect_deps \/ prune_app_orphaned_deps
  PROVE  BuildInv'
<1>1. ASSUME NEW op \in {"refresh", "prune"}, Doing(op), NEW j \in Json,
             Then(<<Losing(1, Write(Step.a, j))>>)
      PROVE  BuildInv'
  <2>1. Step.a \in Apps
    BY <1>1, StepIsAbout DEF Ops, KeyOps, AppOps, OtherOps
  <2> DEFINE x == Losing(1, Write(Step.a, j))
  <2>2. x \in PlainSteps /\ x.op \in CalmOps
    BY <2>1, WriteStep
  <2>3. x.op # "build"
    BY DEF Losing, Write, Made
  <2> HIDE DEF x
  <2>4. x \in StepSet /\ ~Has(x, {"build"})
    BY <2>2, <2>3, PlainType DEF Has
  <2>5. Then(<<x>>)
    BY <1>1 DEF x
  <2>6. op \notin WorkOps \cup {"clean", "build"}
    BY DEF WorkOps
  <2>. QED  BY <1>1, <2>4, <2>5, <2>6, OneMoreBuildless DEF IInv
<1>2. {"refresh", "prune", "track_if"} \cap (WorkOps \cup {"clean", "build"}) = {}
  BY DEF WorkOps
<1>3. CASE register_local_dev_tracking_if_needed
  <2> DEFINE x == [Step EXCEPT !.op = "track"]
  <2>1. Doing("track_if") /\ (Done \/ Then(<<x>>))
    BY <1>3 DEF register_local_dev_tracking_if_needed
  <2>2. Step \in StepSet /\ Step.rounds = {} /\ Step.op = "track_if"
    BY <2>1, FirstStep DEF IInv
  <2>3. x \in StepSet /\ x.op = "track" /\ x.rounds = {}
    <3>1. "track" \in Ops /\ "track" # "loop" /\ "track" \notin ToolOps /\ "track_if" \in KeyOps
          /\ "track_if" \in AppOps
      BY DEF Ops, KeyOps, AppOps, ToolOps
    <3>2. /\ Step \in [op : Ops, k : Keys \cup {NoKey}, a : Labels, j : Json, loses : Nat,
                       rounds : SUBSET Seq(PlainSteps)]
          /\ Step.k \in Keys /\ Step.a \in Apps
      BY <2>2, <3>1 DEF StepSet, Fits
    <3>3. /\ x \in [op : Ops, k : Keys \cup {NoKey}, a : Labels, j : Json, loses : Nat,
                    rounds : SUBSET Seq(PlainSteps)]
          /\ x.op = "track" /\ x.k = Step.k /\ x.a = Step.a /\ x.rounds = Step.rounds
      BY <3>1, <3>2
    <3> HIDE DEF x
    <3>4. Fits(x)
      BY <3>1, <3>2, <3>3 DEF Fits
    <3>. QED  BY <2>2, <3>3, <3>4 DEF StepSet
  <2> HIDE DEF x
  <2>4. ~Has(x, {"build"})
    BY <2>3 DEF Has
  <2>5. CASE Done
    BY <1>2, <2>1, <2>5, StepIsDone
  <2>6. CASE Then(<<x>>)
    BY <1>2, <2>1, <2>3, <2>4, <2>6, OneMoreBuildless DEF IInv
  <2>. QED  BY <2>1, <2>5, <2>6
<1>4. CASE refresh_app_indirect_deps
  <2> DEFINE wanted == source[Step.k[1]].needs \ Listed(app[Step.a])
             S == app[Step.a].indirect \cup Changes(app[Step.a], wanted)
             j == [app[Step.a] EXCEPT !.indirect = S]
  <2>1. /\ Doing("refresh")
        /\ Done \/ (Solvable(app[Step.a], wanted) /\ Then(<<Losing(1, Write(Step.a, j))>>))
    BY <1>4 DEF refresh_app_indirect_deps
  <2>2. Step.a \in Apps
    BY <2>1, StepIsAbout DEF Ops, KeyOps, AppOps, OtherOps
  <2>3. ASSUME Solvable(app[Step.a], wanted), Then(<<Losing(1, Write(Step.a, j))>>) PROVE BuildInv'
    <3>1. app[Step.a] \in Json
      BY <2>2 DEF IInv, FilesOK
    <3>2. Changes(app[Step.a], wanted) \subseteq Entries
      BY <2>3, <3>1, ChangesType DEF IInv
    <3>3. S \in SUBSET Entries
      BY <3>1, <3>2, JsonType
    <3> HIDE DEF S
    <3>4. j \in Json
      BY <3>1, <3>3, JsonExcept
    <3> HIDE DEF j
    <3>. QED  BY <1>1, <2>1, <2>3, <3>4
  <2>4. CASE Done
    BY <1>2, <2>1, <2>4, StepIsDone
  <2>. QED  BY <2>1, <2>3, <2>4
<1>5. CASE prune_app_orphaned_deps
  <2> DEFINE S == app[Step.a].indirect \ Orphans(app[Step.a])
             j == [app[Step.a] EXCEPT !.indirect = S]
  <2>1. Doing("prune") /\ (Done \/ Then(<<Losing(1, Write(Step.a, j))>>))
    BY <1>5 DEF prune_app_orphaned_deps
  <2>2. Step.a \in Apps
    BY <2>1, StepIsAbout DEF Ops, KeyOps, AppOps, OtherOps
  <2>3. j \in Json
    <3>1. app[Step.a] \in Json
      BY <2>2 DEF IInv, FilesOK
    <3>2. S \in SUBSET Entries
      BY <3>1, JsonType
    <3> HIDE DEF S
    <3>. QED  BY <3>1, <3>2, JsonExcept
  <2> HIDE DEF j
  <2>4. CASE Done
    BY <1>2, <2>1, <2>4, StepIsDone
  <2>. QED  BY <1>1, <2>1, <2>3, <2>4
<1>. QED  BY <1>3, <1>4, <1>5

\* The steps of wrap kit build nothing.
LEMMA KitStepsPrepare ==
  ASSUME IInv, BuildInv, KitSteps
  PROVE  BuildInv'
<1> DEFINE O == {"download_tool", "drop_tool", "link_tool", "install_package", "uncache", "store",
                 "demote", "promote", "report"}
<1>1. \E op \in O : Doing(op) /\ Done
  BY DEF KitSteps, download_tool_binary, drop_tool_symlink, symlink_tool, install_one_package,
         kit_remove_cache_symlink, kit_store_kitfile, unlink_current, symlink_current, report
<1>2. O \cap (WorkOps \cup {"clean", "build"}) = {}
  BY DEF WorkOps
<1> HIDE DEF O
<1>3. PICK op \in O : Doing(op) /\ Done
  BY <1>1
<1>4. op \notin WorkOps /\ op \notin {"clean", "build"}
  BY <1>2
<1>. QED  BY <1>3, <1>4, StepIsDone

\* The steps that module LocalDev has.
LEMMA StepsPrepare ==
  ASSUME IInv, BuildInv, Steps
  PROVE  BuildInv'
BY FilesStepsPrepare, CompiledIsRemoved, BuildEnds, LinkIsRepaired, VersionIsFetched,
   NeedsAreFetched, RoundPrepares, ApplicationsFollow
   DEF Steps

\* What is cut has its applications excused, too.
LEMMA CutApplication ==
  ASSUME NEW q \in Seq(StepSet), NEW i \in 1 .. Len(q), q[i].a \in Apps
  PROVE  <<q[i].a>> \in Cut(q) \ {NoKey, <<"">>}
<1>1. <<q[i].a>> \in Cut(q)
  <2>1. i \in DOMAIN q
    OBVIOUS
  <2>2. <<q[i].a>> \in CutStep(q[i])
    BY DEF CutStep
  <2>. QED  BY <2>1, <2>2 DEF Cut
<1> DEFINE e == ""
           b == q[i].a
<1>2. b # e
  BY AppsAreNamed, Zenon
<1> HIDE DEF e, b
<1>3. <<b>> # <<>> /\ <<b>> # <<e>>
  BY <1>2
<1>4. <<b>> \notin {<<>>, <<e>>}
  BY <1>3, Zenon
<1>. QED  BY <1>1, <1>4, Zenon DEF b, e, NoKey

\* Making goes on when the first steps are gone and the last is not.
LEMMA DropMaking ==
  ASSUME NEW q, NEW n, NEW q2, Dropped(q, n, q2), n # Len(q), NEW a, Making(q, a)
  PROVE  /\ Making(q2, a)
         /\ \A i \in 1 .. Len(q) : Cleans(q, i, a) /\ i > n => i - n \in 1 .. Len(q2) /\ Cleans(q2, i - n, a)
<1>1. n \in 1 .. Len(q) /\ Len(q) \in Nat \ {0} /\ Len(q2) = Len(q) - n
  BY DEF Dropped
<1>2. Len(q2) \in 1 .. Len(q2) /\ Len(q2) + n = Len(q)
  BY <1>1
<1>3. q2[Len(q2)] = q[Len(q)]
  BY <1>2 DEF Dropped
<1>4. ASSUME NEW i \in 1 .. Len(q2) - 1 PROVE Works(q2[i]) \/ Cleans(q2, i, a)
  <2> DEFINE g == i + n
  <2>1. i \in 1 .. Len(q2) /\ g \in 1 .. Len(q) - 1 /\ (g = Len(q) - 1 => i = Len(q2) - 1)
    BY <1>1
  <2>2. q2[i] = q[g]
    BY <2>1 DEF Dropped
  <2> HIDE DEF g
  <2>3. Works(q[g]) \/ Cleans(q, g, a)
    BY <2>1 DEF Making
  <2>. QED  BY <2>1, <2>2, <2>3 DEF Cleans
<1>5. Making(q2, a)
  BY <1>2, <1>3, <1>4 DEF Making
<1>6. ASSUME NEW i \in 1 .. Len(q), Cleans(q, i, a), i > n
      PROVE  i - n \in 1 .. Len(q2) /\ Cleans(q2, i - n, a)
  <2> DEFINE g == i - n
  <2>1. g \in 1 .. Len(q2) /\ q2[g] = q[i]
    BY <1>6 DEF Dropped
  <2>2. i = Len(q) - 1
    BY <1>6 DEF Cleans
  <2>3. g = Len(q2) - 1
    BY <1>1, <2>2
  <2> HIDE DEF g
  <2>4. g \in 1 .. Len(q2) /\ Cleans(q2, g, a)
    BY <1>6, <2>1, <2>3 DEF Cleans
  <2>. QED  BY <2>4 DEF g
<1>. QED  BY <1>5, <1>6

\* What is removed is still made again.
LEMMA DropRelinks ==
  ASSUME NEW q, NEW n, NEW q2, Dropped(q, n, q2), NEW k, Relinks(q, k)
  PROVE  Relinks(q2, k)
<1>1. n \in 1 .. Len(q) /\ Len(q) \in Nat \ {0} /\ Len(q2) = Len(q) - n
  BY DEF Dropped
<1> SUFFICES ASSUME NEW i \in 1 .. Len(q2), q2[i].op = "unlink", q2[i].k = k
             PROVE  \E j \in i + 1 .. Len(q2) : q2[j].op = "symlink" /\ q2[j].k = k
  BY DEF Relinks
<1> DEFINE g == i + n
<1>2. g \in 1 .. Len(q) /\ q2[i] = q[g] /\ g = i + n
  BY DEF Dropped
<1> HIDE DEF g
<1>3. PICK j \in g + 1 .. Len(q) : q[j].op = "symlink" /\ q[j].k = k
  BY <1>2 DEF Relinks
<1> DEFINE m == j - n
<1>4. j \in 1 .. Len(q) /\ j > n /\ m \in i + 1 .. Len(q2)
  BY <1>1, <1>2, <1>3
<1>5. q2[m] = q[j]
  BY <1>4 DEF Dropped
<1> HIDE DEF m
<1>. QED  BY <1>3, <1>4, <1>5

\* A write that fails in a build takes with it what a version that is then excused was to get.
LEMMA LossIsExcused ==
  ASSUME IInv, NEW a \in Apps, Making(todo, a), Prepared(todo, a, seen, link, art, stuff, excused),
         Works(Step), todo # <<>>, Step.loses # 0, Dropped(todo, Step.loses, todo'),
         Step.loses # Len(todo), Step.k \in excused' \cup {NoKey}, excused \subseteq excused',
         UNCHANGED <<source, link, path, tracked, app, art, stuff, seen>>
  PROVE  BuildInv'
<1>1. todo \in Seq(StepSet) /\ todo[1] = Step /\ Step \in StepSet /\ Local(todo)
  <2>1. Doing(Step.op)
    BY DEF Doing, Idle
  <2>. QED  BY <2>1, FirstStep DEF IInv, Left, QInv, QueueOK
<1>2. Step.k \in Keys
  <2>1. Step.op \in WorkOps \ {"loop", "reinsert"}
    BY <1>1, StepType DEF Works
  <2>2. Step.op \in KeyOps
    BY <2>1 DEF WorkOps, KeyOps
  <2>. QED  BY <1>1, <2>2, StepType DEF Fits
<1>3. NoKey \notin Keys
  BY KeyIsNoOther
<1>4. \A h \in 1 .. Len(todo) : h <= Step.loses => todo[h].k = Step.k /\ todo[h].op # "loop"
  BY <1>1, LostIsLocal
<1>5. /\ Making(todo', a)
      /\ \A i \in 1 .. Len(todo) : Cleans(todo, i, a) /\ i > Step.loses =>
           i - Step.loses \in 1 .. Len(todo') /\ Cleans(todo', i - Step.loses, a)
  BY DropMaking
<1>6. \A i \in 1 .. Len(todo) : i <= Step.loses \/ i > Step.loses
  BY DEF Dropped
<1>7. ASSUME <<a>> \notin excused', NEW k \in Keys, Wanted(a, k, excused)'
      PROVE  Linking(todo', k, seen', link') /\ Clearing(todo', a, k[1], art', stuff')
  <2>1. Wanted(a, k, excused) /\ <<a>> \notin excused /\ k # Step.k
    BY <1>2, <1>3, <1>7 DEF Wanted
  <2>2. Linking(todo, k, seen, link) /\ Clearing(todo, a, k[1], art, stuff)
    BY <2>1 DEF Prepared
  <2>3. Clearing(todo', a, k[1], art', stuff')
    <3>1. ASSUME NEW i \in 1 .. Len(todo), Cleans(todo, i, a)
          PROVE  \E m \in 1 .. Len(todo') : Cleans(todo', m, a)
      <4>1. i > Step.loses
        BY <1>2, <1>3, <1>4, <1>6, <3>1 DEF Cleans
      <4>2. i - Step.loses \in 1 .. Len(todo') /\ Cleans(todo', i - Step.loses, a)
        BY <1>5, <3>1, <4>1
      <4> DEFINE m == i - Step.loses
      <4>3. m \in 1 .. Len(todo') /\ Cleans(todo', m, a)
        BY <4>2
      <4> HIDE DEF m
      <4>. QED  BY <4>3
    <3>. QED  BY <2>2, <3>1 DEF Clearing
  <2>4. Relinks(todo', k)
    BY <2>2, DropRelinks DEF Linking
  <2>5. ASSUME NEW i \in 1 .. Len(todo), Fixes(todo[i], k, seen) PROVE ToFix(todo', k, seen')
    <3>1. i > Step.loses
      <4>1. CASE i <= Step.loses
        <5>1. todo[i].k # k /\ todo[i].op # "loop"
          BY <1>4, <2>1, <4>1
        <5>2. todo[i] \in StepSet
          BY <1>1
        <5>3. todo[i].rounds = {}
          BY <5>1, <5>2, StepType
        <5>. QED  BY <2>5, <5>1, <5>3 DEF Fixes, Fetched
      <4>. QED  BY <1>6, <4>1
    <3> DEFINE m == i - Step.loses
    <3>2. m \in 1 .. Len(todo') /\ todo'[m] = todo[i]
      BY <3>1 DEF Dropped
    <3> HIDE DEF m
    <3>3. Fixes(todo'[m], k, seen')
      BY <2>5, <3>2
    <3>. QED  BY <3>2, <3>3 DEF ToFix
  <2>6. link'[k] = "source" \/ ToFix(todo', k, seen')
    BY <2>2, <2>5 DEF Linking, ToFix
  <2>. QED  BY <2>3, <2>4, <2>6 DEF Linking
<1>8. Prepared(todo, a, seen, link, art, stuff, excused)'
  BY <1>7 DEF Prepared
<1>. QED  BY <1>5, <1>8 DEF BuildInv

\* Neither a crash nor a write that fails leaves a build of something else.
LEMMA TroublePrepares ==
  ASSUME IInv, BuildInv, Crash \/ Fail
  PROVE  BuildInv'
<1>1. CASE todo' = <<>>
  BY <1>1, NothingIsBuildless, BuildsNothing
<1>2. CASE Crash
  BY <1>1, <1>2 DEF Crash, Stop
<1>3. CASE Fail /\ Step.loses = 0
  BY <1>1, <1>3 DEF Fail, Stop
<1>4. CASE Fail /\ Step.loses # 0
  <2>1. /\ todo' = SubSeq(todo, Step.loses + 1, Len(todo)) /\ UNCHANGED <<files, seen>>
        /\ Excuse(<<Step>>) /\ ~Idle
    BY <1>4 DEF Fail
  <2>2. /\ todo \in Seq(StepSet) /\ todo # <<>> /\ todo[1] = Step /\ Step \in StepSet /\ Local(todo)
        /\ Doing(Step.op)
    <3>1. Doing(Step.op)
      BY <2>1 DEF Doing
    <3>. QED  BY <3>1, FirstStep DEF IInv, Left, QInv, QueueOK
  <2>3. Dropped(todo, Step.loses, todo')
    <3>1. 1 \in 1 .. Len(todo) /\ Len(todo) \in Nat
      BY <2>2, EmptySeq
    <3>2. Step.loses \in Nat
      BY <2>2, StepType
    <3>3. 1 + Step.loses <= Len(todo) + 1
      BY <2>2, <3>1 DEF Local
    <3> DEFINE l == Step.loses
    <3>4. l \in 1 .. Len(todo)
      BY <1>4, <3>1, <3>2, <3>3
    <3> HIDE DEF l
    <3>5. Dropped(todo, l, SubSeq(todo, l + 1, Len(todo)))
      BY <2>2, <3>4, FailDrops
    <3>. QED  BY <2>1, <3>5 DEF l
  <2>4. CASE Buildless(todo)
    BY <2>3, <2>4, DropBuildless, BuildsNothing
  <2>5. CASE Step.loses = Len(todo)
    <3>1. Len(todo') = 0
      BY <2>3, <2>5 DEF Dropped
    <3>2. Buildless(todo')
      BY <3>1 DEF Buildless
    <3>. QED  BY <3>2, BuildsNothing
  <2>6. ASSUME NEW a \in Apps, Making(todo, a), Prepared(todo, a, seen, link, art, stuff, excused),
               Step.loses # Len(todo)
        PROVE  BuildInv'
    <3>1. <<Step>> \in Seq(StepSet) /\ <<Step>>[1] = Step /\ 1 \in 1 .. Len(<<Step>>)
      BY <2>2
    <3>2. excused' = excused \cup (Cut(<<Step>>) \ {NoKey, <<"">>})
      BY <2>1 DEF Excuse
    <3> DEFINE s == <<Step>>
               C == Cut(<<Step>>) \ {NoKey, <<"">>}
    <3>3. s \in Seq(StepSet) /\ s[1] = Step /\ 1 \in 1 .. Len(s) /\ excused' = excused \cup C
      BY <3>1, <3>2
    <3>4. C = Cut(s) \ {NoKey, <<"">>}
      OBVIOUS
    <3> HIDE DEF s, C
    <3>5. Step.k \in C \cup {NoKey}
      BY <3>3, <3>4, CutIsExcused
    <3>6. Step.a \in Apps => <<Step.a>> \in C
      BY <3>3, <3>4, CutApplication
    <3>7. CASE Works(Step)
      BY <1>4, <2>1, <2>2, <2>3, <2>6, <3>3, <3>5, <3>7, LossIsExcused DEF files
    <3>8. CASE ~Works(Step)
      <4>1. Step.a = a
        BY <2>2, <2>6, <3>8, MakingStep DEF IInv
      <4>2. <<a>> \in excused'
        BY <3>3, <3>6, <4>1
      <4>3. Making(todo', a)
        BY <2>3, <2>6, DropMaking
      <4>. QED  BY <4>2, <4>3 DEF Prepared, BuildInv
    <3>. QED  BY <3>7, <3>8
  <2>. QED  BY <2>4, <2>5, <2>6 DEF BuildInv
<1>. QED  BY <1>2, <1>3, <1>4

-----------------------------------------------------------------------------
(* Commands that begin, and build nothing *)

\* A step that is no loop.
LEMMA PlainBuildsNothing ==
  ASSUME NEW op, op # "build", NEW k, NEW a, NEW j, NEW n
  PROVE  /\ ~Has(Do(op, k), {"build"}) /\ ~Has(For(op, k, a), {"build"}) /\ ~Has(Write(a, j), {"build"})
         /\ ~Has(Losing(n, For(op, k, a)), {"build"})
  BY DEF Has, Do, For, Write, Losing, Made

\* A loop whose rounds build nothing.
LEMMA LoopBuildsNothing ==
  ASSUME NEW rounds, \A r \in rounds : \A p \in 1 .. Len(r) : r[p].op # "build"
  PROVE  ~Has(Loop(rounds), {"build"})
  BY DEF Has, Loop, Made

\* One step.
LEMMA OneBuildless ==
  ASSUME NEW a, ~Has(a, {"build"})
  PROVE  Buildless(<<a>>)
<1> DEFINE q == <<a>>
<1>1. Len(q) = 1 /\ q[1] = a
  OBVIOUS
<1> HIDE DEF q
<1>2. Buildless(q)
  BY <1>1 DEF Buildless
<1>. QED  BY <1>2 DEF q

\* Two steps.
LEMMA TwoBuildless ==
  ASSUME NEW a, NEW b, ~Has(a, {"build"}), ~Has(b, {"build"})
  PROVE  Buildless(<<a, b>>)
<1> DEFINE q == <<a, b>>
<1>1. Len(q) = 2 /\ q[1] = a /\ q[2] = b
  OBVIOUS
<1> HIDE DEF q
<1>2. \A i \in 1 .. Len(q) : i = 1 \/ i = 2
  BY <1>1
<1>3. Buildless(q)
  BY <1>1, <1>2 DEF Buildless
<1>. QED  BY <1>3 DEF q

\* One sequence of steps after another.
LEMMA ConcatBuildless ==
  ASSUME NEW S, NEW s \in Seq(S), NEW t \in Seq(S), Buildless(s), Buildless(t)
  PROVE  Buildless(s \o t)
<1> DEFINE q == s \o t
<1>1. /\ Len(q) = Len(s) + Len(t) /\ Len(s) \in Nat /\ Len(t) \in Nat
      /\ \A i \in 1 .. Len(s) + Len(t) : q[i] = IF i <= Len(s) THEN s[i] ELSE t[i - Len(s)]
  BY ConcatProperties
<1> HIDE DEF q
<1>2. ASSUME NEW i \in 1 .. Len(q) PROVE ~Has(q[i], {"build"})
  <2>1. CASE i <= Len(s)
    <3>1. i \in 1 .. Len(s) /\ q[i] = s[i]
      BY <1>1, <2>1
    <3>. QED  BY <3>1 DEF Buildless
  <2>2. CASE ~(i <= Len(s))
    <3> DEFINE g == i - Len(s)
    <3>1. g \in 1 .. Len(t) /\ q[i] = t[g]
      BY <1>1, <2>2
    <3> HIDE DEF g
    <3>. QED  BY <3>1 DEF Buildless
  <2>. QED  BY <2>1, <2>2
<1>3. Buildless(q)
  BY <1>2 DEF Buildless
<1>. QED  BY <1>3 DEF q

\* What registers a version.
LEMMA RegisterBuildsNothing ==
  ASSUME NEW k \in Keys
  PROVE  RegisterSteps(k) \in Seq(StepSet) /\ Buildless(RegisterSteps(k))
<1> DEFINE a == Do("unlink", k)
           b == Do("symlink", k)
           q == RegisterSteps(k)
<1>1. LinkedAndFiled(q, a, b, k)
  BY DEF LinkedAndFiled, RegisterSteps
<1>2. /\ a \in PlainSteps /\ a.op = "unlink" /\ a.k = k
      /\ b \in PlainSteps /\ b.op = "symlink" /\ b.k = k
  BY RegisterStep
<1> HIDE DEF a, b, q
<1>3. q \in Seq(StepSet) /\ Len(q) = 6 /\ Registers(q, k)
  BY <1>1, <1>2, RegistersType
<1>4. \A i \in 1 .. Len(q) : i = 1 \/ i = 2 \/ i = 3 \/ i = 4 \/ i = 5 \/ i = 6
  BY <1>3
<1>5. \A i \in 1 .. Len(q) : q[i].op # "build" /\ q[i].rounds = {}
  <2>1. \A i \in 1 .. 6 : q[i].rounds = {}
    BY <1>3, PlainType DEF Registers
  <2>. QED  BY <1>3, <1>4, <2>1 DEF Registers
<1>6. Buildless(q)
  BY <1>5 DEF Buildless, Has
<1>. QED  BY <1>3, <1>6 DEF q

\* The directory goes if it is there.
LEMMA DropBuildsNothing ==
  ASSUME NEW k, NEW s, s = IF k \in dirs THEN <<Do("drop", k)>> ELSE <<>>
  PROVE  s \in Seq({Do("drop", k)}) /\ Buildless(s)
<1> DEFINE x == Do("drop", k)
<1>1. ~Has(x, {"build"})
  BY PlainBuildsNothing
<1>2. s = IF k \in dirs THEN <<x>> ELSE <<>>
  OBVIOUS
<1> HIDE DEF x
<1>3. <<>> \in Seq({x}) /\ Buildless(<<>>)
  BY EmptySeq, NothingIsBuildless
<1>4. <<x>> \in Seq({x}) /\ Buildless(<<x>>)
  BY <1>1, OneBuildless
<1>. QED  BY <1>2, <1>3, <1>4 DEF x

\* A step that writes an elm.json.
LEMMA WriteBuildsNothing == ASSUME NEW a, NEW j PROVE ~Has(Write(a, j), {"build"})
  BY DEF Has, Write, Made

\* A loop over rounds of one step.
LEMMA SinglesBuildNothing ==
  ASSUME NEW op, op # "build", NEW rounds,
         \A r \in rounds : \E x : x.op = op /\ r = <<x>>
  PROVE  Buildless(<<Loop(rounds)>>) /\ ~Has(Loop(rounds), {"build"})
<1>1. ASSUME NEW r \in rounds PROVE \A p \in 1 .. Len(r) : r[p].op # "build"
  <2>1. PICK x : x.op = op /\ r = <<x>>
    OBVIOUS
  <2>2. Len(r) = 1 /\ r[1] = x
    BY <2>1
  <2>3. \A p \in 1 .. Len(r) : p = 1
    BY <2>2
  <2>. QED  BY <2>1, <2>2, <2>3
<1>2. ~Has(Loop(rounds), {"build"})
  BY <1>1, LoopBuildsNothing
<1>. QED  BY <1>2, OneBuildless

\* The commands that begin with no step.
LEMMA IdleBuildsNothing ==
  ASSUME \/ \E n \in Names : Edit(n) \/ Move(n) \/ (\E v \in Versions : Bump(n, v))
         \/ \E k \in Keys : \E by \in {"copy", "none"} : Replace(k, by)
         \/ ResetRegistry
  PROVE  Buildless(todo')
<1>1. todo' = <<>>
  BY DEF Edit, Move, ResetRegistry, Bump, Replace, Begin
<1>. QED  BY <1>1, NothingIsBuildless

\* wrap install --local-dev in a package.
LEMMA register_local_dev_package_builds_nothing ==
  ASSUME NEW k \in Keys, register_local_dev_package(k)
  PROVE  Buildless(todo')
<1>1. todo' = RegisterSteps(k)
  BY DEF register_local_dev_package, Begin
<1>. QED  BY <1>1, RegisterBuildsNothing

\* wrap install --local-dev --from-path.
LEMMA install_local_dev_builds_nothing ==
  ASSUME IInv, NEW a \in Apps, NEW n \in Names, install_local_dev(a, n)
  PROVE  Buildless(todo')
<1> DEFINE k == <<n, source[n].version>>
           wanted == source[n].needs \ Listed(app[a])
           j == [app[a] EXCEPT !.indirect = @ \cup (IF wanted = {} THEN {} ELSE Changes(app[a], wanted))]
           x == Write(a, AddOrUpdate(j, k))
           y == Losing(1, For("track", k, a))
           S == StepSet \cup {x, y}
           s == RegisterSteps(k)
           t == <<x, y>>
<1>1. todo' = s \o t
  BY DEF install_local_dev, Begin
<1>2. k \in Keys
  BY SourceType DEF Keys
<1>3. ~Has(x, {"build"}) /\ ~Has(y, {"build"})
  BY PlainBuildsNothing
<1> HIDE DEF k, j, wanted, x, y
<1>4. t \in Seq(S) /\ Buildless(t)
  BY <1>3, TwoBuildless
<1>5. s \in Seq(StepSet) /\ Buildless(s)
  BY <1>2, RegisterBuildsNothing
<1>6. s \in Seq(S)
  BY <1>5
<1> HIDE DEF s, t, S
<1>. QED  BY <1>1, <1>4, <1>5, <1>6, ConcatBuildless

\* wrap install in an application.
LEMMA install_package_builds_nothing ==
  ASSUME NEW a \in Apps, NEW n, install_package(a, n)
  PROVE  Buildless(todo')
<1>1. PICK changes, j : todo' = <<Write(a, j), EnsureAndTrack(a, changes)>>
  <2> DEFINE changes == Changes(app[a], {n})
             j == [direct |-> app[a].direct \cup {e \in changes : e[1] = n},
                   indirect |-> app[a].indirect \cup {e \in changes : e[1] # n}]
  <2>1. todo' = <<Write(a, j), EnsureAndTrack(a, changes)>>
    BY DEF install_package, Begin
  <2> HIDE DEF changes, j
  <2>. QED  BY <2>1
<1> DEFINE rounds == {<<Try("ensure", k), Losing(1, For("track_if", k, a))>> : k \in changes \cap Keys}
<1>2. ASSUME NEW r \in rounds PROVE \A p \in 1 .. Len(r) : r[p].op # "build"
  <2>1. PICK k : r = <<Try("ensure", k), Losing(1, For("track_if", k, a))>>
    OBVIOUS
  <2> DEFINE x == Try("ensure", k)
             y == Losing(1, For("track_if", k, a))
  <2>2. x.op = "ensure" /\ y.op = "track_if"
    BY DEF Try, Losing, Do, For, Made
  <2> HIDE DEF x, y
  <2>3. r = <<x, y>>
    BY <2>1 DEF x, y
  <2>4. Len(r) = 2 /\ r[1] = x /\ r[2] = y
    BY <2>3
  <2>5. \A p \in 1 .. Len(r) : p = 1 \/ p = 2
    BY <2>4
  <2>. QED  BY <2>2, <2>4, <2>5
<1>3. ~Has(EnsureAndTrack(a, changes), {"build"})
  <2>1. EnsureAndTrack(a, changes) = Loop(rounds)
    BY DEF EnsureAndTrack
  <2> HIDE DEF rounds
  <2>. QED  BY <1>2, <2>1, LoopBuildsNothing
<1>4. ~Has(Write(a, j), {"build"})
  BY WriteBuildsNothing
<1>. QED  BY <1>1, <1>3, <1>4, TwoBuildless

\* Of a package that is listed.
LEMMA install_listed_builds_nothing ==
  ASSUME NEW a \in Apps, NEW n, install_listed(a, n)
  PROVE  Buildless(todo')
<1> DEFINE k == <<n, VersionIn(app[a], n)>>
           x == Do("ensure", k)
           y == Write(a, [direct |-> app[a].direct \cup {k}, indirect |-> app[a].indirect \ {k}])
           rest == IF k \in app[a].direct THEN <<>> ELSE <<y>>
           S == {x, y}
<1>1. todo' = <<x>> \o rest
  BY DEF install_listed, Begin
<1>2. ~Has(x, {"build"}) /\ ~Has(y, {"build"})
  <2>1. ~Has(x, {"build"})
    BY PlainBuildsNothing
  <2>2. ~Has(y, {"build"})
    BY WriteBuildsNothing
  <2>. QED  BY <2>1, <2>2
<1> HIDE DEF k, x, y
<1>3. Buildless(<<x>>) /\ <<x>> \in Seq(S)
  BY <1>2, OneBuildless
<1>4. Buildless(rest) /\ rest \in Seq(S)
  <2>1. Buildless(<<y>>) /\ <<y>> \in Seq(S)
    BY <1>2, OneBuildless
  <2>2. Buildless(<<>>) /\ <<>> \in Seq(S)
    BY EmptySeq, NothingIsBuildless
  <2>. QED  BY <2>1, <2>2
<1> HIDE DEF rest, S
<1>. QED  BY <1>1, <1>3, <1>4, ConcatBuildless

\* wrap remove.
LEMMA remove_package_builds_nothing ==
  ASSUME NEW a \in Apps, NEW n, remove_package(a, n)
  PROVE  Buildless(todo')
<1>1. PICK j : todo' = <<Write(a, j)>>
  <2> DEFINE e == <<n, VersionIn(app[a], n)>>
             demoted == [direct |-> app[a].direct \ {e}, indirect |-> app[a].indirect \cup {e}]
             j == [demoted EXCEPT !.indirect = @ \ Orphans(demoted)]
  <2>1. todo' = <<Write(a, j)>>
    BY DEF remove_package, Begin
  <2> HIDE DEF j
  <2>. QED  BY <2>1
<1>2. ~Has(Write(a, j), {"build"})
  BY WriteBuildsNothing
<1>. QED  BY <1>1, <1>2, OneBuildless

\* The applications that follow a package.
LEMMA DependentsBuildNothing ==
  ASSUME NEW op, op # "build", NEW k
  PROVE  Buildless(Dependents(op, k))
<1> DEFINE A == IF k = NoKey THEN {} ELSE tracked[k]
           rounds == {<<For(op, k, a)>> : a \in A}
<1>1. Dependents(op, k) = <<Loop(rounds)>>
  BY DEF Dependents
<1> HIDE DEF A
<1>2. ASSUME NEW r \in rounds PROVE \E x : x.op = op /\ r = <<x>>
  <2>1. PICK a \in A : r = <<For(op, k, a)>>
    OBVIOUS
  <2> DEFINE x == For(op, k, a)
  <2>2. x.op = op
    BY DEF For, Made
  <2> HIDE DEF x
  <2>3. r = <<x>>
    BY <2>1 DEF x
  <2>. QED  BY <2>2, <2>3
<1> HIDE DEF rounds
<1>. QED  BY <1>1, <1>2, SinglesBuildNothing

\* A loop of one step for each of some versions.
LEMMA EachBuildsNothing ==
  ASSUME NEW op, op # "build", NEW S
  PROVE  ~Has(Each(op, S), {"build"})
<1> DEFINE rounds == {<<Do(op, k)>> : k \in S}
<1>1. Each(op, S) = Loop(rounds)
  BY DEF Each
<1>2. ASSUME NEW r \in rounds PROVE \E x : x.op = op /\ r = <<x>>
  <2>1. PICK k \in S : r = <<Do(op, k)>>
    OBVIOUS
  <2> DEFINE x == Do(op, k)
  <2>2. x.op = op
    BY DEF Do, Made
  <2> HIDE DEF x
  <2>3. r = <<x>>
    BY <2>1 DEF x
  <2>. QED  BY <2>2, <2>3
<1> HIDE DEF rounds
<1>. QED  BY <1>1, <1>2, SinglesBuildNothing

\* The other commands in a package.
LEMMA PackageBuildsNothing ==
  ASSUME NEW n \in Names, InPackage(n)
  PROVE  Buildless(todo')
<1>1. ASSUME NEW v \in Versions, register_local_dev_package(<<n, v>>) PROVE Buildless(todo')
  <2>1. <<n, v>> \in Keys
    BY DEF Keys
  <2>. QED  BY <1>1, <2>1, register_local_dev_package_builds_nothing
<1>2. ASSUME NEW m \in Packages, refresh_local_dev_dependents(n, m) PROVE Buildless(todo')
  <2>1. PICK k : todo' = Dependents("refresh", k)
    BY <1>2 DEF refresh_local_dev_dependents, Begin
  <2>. QED  BY <2>1, DependentsBuildNothing
<1>3. ASSUME NEW m \in Packages, prune_local_dev_dependents(n, m) PROVE Buildless(todo')
  <2>1. PICK k : todo' = Dependents("prune", k)
    BY <1>3 DEF prune_local_dev_dependents, Begin
  <2>. QED  BY <2>1, DependentsBuildNothing
<1>4. ASSUME unregister_local_dev_package(n) PROVE Buildless(todo')
  <2> DEFINE k == <<n, source[n].version>>
             s == IF k \in dirs THEN <<Do("drop", k)>> ELSE <<>>
             x == Do("drop", k)
             y == Do("undat", k)
             S == {x, y}
  <2>1. todo' = s \o <<y>>
    BY <1>4 DEF unregister_local_dev_package, Begin
  <2>2. s \in Seq({x}) /\ Buildless(s)
    BY DropBuildsNothing
  <2>3. ~Has(y, {"build"})
    BY PlainBuildsNothing
  <2> HIDE DEF s, k, x, y
  <2>4. s \in Seq(S) /\ <<y>> \in Seq(S) /\ Buildless(<<y>>)
    BY <2>2, <2>3, OneBuildless
  <2> HIDE DEF S
  <2>. QED  BY <2>1, <2>2, <2>4, ConcatBuildless
<1>5. ASSUME NEW v \in Versions, Bump(n, v) PROVE Buildless(todo')
  BY <1>5, IdleBuildsNothing
<1>6. ASSUME Edit(n) \/ Move(n) PROVE Buildless(todo')
  BY <1>6, IdleBuildsNothing
<1>. QED  BY <1>1, <1>2, <1>3, <1>4, <1>5, <1>6 DEF InPackage

\* wrap repository local-dev, before and after the directory goes.
LEMMA ClearBuildsNothing ==
  ASSUME NEW k, clear_package_tracking(k) \/ repository_clear_local_dev_registration(k)
  PROVE  Buildless(todo')
<1> DEFINE x == Do("drop", k)
           y == Do("undat", k)
           z == Do("untext", k)
           s == IF k \in dirs THEN <<x>> ELSE <<>>
           S == {x, y, z}
           t == <<y, z>>
<1>1. todo' = s \o t \/ todo' = t \o s
  BY DEF clear_package_tracking, repository_clear_local_dev_registration, Begin
<1>2. s \in Seq({x}) /\ Buildless(s)
  BY DropBuildsNothing
<1>3. ~Has(y, {"build"}) /\ ~Has(z, {"build"})
  BY PlainBuildsNothing
<1> HIDE DEF s, x, y, z
<1>4. s \in Seq(S) /\ t \in Seq(S) /\ Buildless(t)
  BY <1>2, <1>3, TwoBuildless
<1> HIDE DEF S, t
<1>. QED  BY <1>1, <1>2, <1>4, ConcatBuildless

\* The commands in no directory of their own.
LEMMA AnywhereBuildsNothing ==
  ASSUME Anywhere
  PROVE  Buildless(todo')
<1>1. ASSUME NEW k \in Keys, clear_package_tracking(k) \/ repository_clear_local_dev_registration(k)
      PROVE  Buildless(todo')
  BY <1>1, ClearBuildsNothing
<1>2. ASSUME NEW k \in Keys, NEW a \in Apps, clear_path_tracking(k, a) PROVE Buildless(todo')
  <2>1. todo' = <<For("untrack", k, a)>>
    BY <1>2 DEF clear_path_tracking, Begin
  <2>2. ~Has(For("untrack", k, a), {"build"})
    BY DEF Has, For, Made
  <2>. QED  BY <2>1, <2>2, OneBuildless
<1>3. ASSUME NEW k \in Keys, NEW by \in {"copy", "none"}, Replace(k, by) PROVE Buildless(todo')
  BY <1>3, IdleBuildsNothing
<1>4. ASSUME clear_all_tracking PROVE Buildless(todo')
  <2>1. todo' = <<Each("undat", dirs), Do("drop_all", NoKey)>>
    BY <1>4 DEF clear_all_tracking, Begin
  <2>2. ~Has(Each("undat", dirs), {"build"})
    BY EachBuildsNothing
  <2>3. ~Has(Do("drop_all", NoKey), {"build"})
    BY DEF Has, Do, Made
  <2>. QED  BY <2>1, <2>2, <2>3, TwoBuildless
<1>5. ASSUME prune_stale_local_dev_connections PROVE Buildless(todo')
  <2> DEFINE stale == {c \in Keys \X Apps : /\ c[2] \in tracked[c[1]]
                                            /\ \A e \in app[c[2]].direct : e[1] # c[1][1]}
             rounds == {<<For("untrack", c[1], c[2])>> : c \in stale}
  <2>1. todo' = <<Loop(rounds)>>
    BY <1>5 DEF prune_stale_local_dev_connections, Begin
  <2> HIDE DEF stale
  <2>2. ASSUME NEW r \in rounds PROVE \E x : x.op = "untrack" /\ r = <<x>>
    <3>1. PICK c \in stale : r = <<For("untrack", c[1], c[2])>>
      OBVIOUS
    <3> DEFINE x == For("untrack", c[1], c[2])
    <3>2. x.op = "untrack"
      BY DEF For, Made
    <3> HIDE DEF x
    <3>3. r = <<x>>
      BY <3>1 DEF x
    <3>. QED  BY <3>2, <3>3
  <2> HIDE DEF rounds
  <2>3. \A op \in {"untrack"} : (\A r \in rounds : \E x : x.op = op /\ r = <<x>>) => Buildless(<<Loop(rounds)>>)
    BY SinglesBuildNothing
  <2>. QED  BY <2>1, <2>2, <2>3
<1>6. ASSUME ResetRegistry PROVE Buildless(todo')
  BY <1>6, IdleBuildsNothing
<1>. QED  BY <1>1, <1>2, <1>3, <1>4, <1>5, <1>6 DEF Anywhere

\* wrap kit.
LEMMA KitBuildsNothing ==
  ASSUME IInv, IInv', DeliverInv',
         NEW s \in Sources, cmd_kit_install(s) \/ InstallOrReinstall(s) \/ Update(s)
  PROVE  Buildless(todo')
<1>1. kits'.source = s /\ kits'.before = troubles /\ troubles' = troubles
  <2>1. /\ kits' = [kits EXCEPT !.source = s, !.before = troubles,
                                 !.loose = @ \cup ({kits.source} \ {NoSource})]
        /\ troubles' = troubles
    BY DEF cmd_kit_install, InstallOrReinstall, Update, KitBegin
  <2>2. kits \in KitFiles
    BY DEF IInv, Usable, KitUsable
  <2>. QED  BY <2>1, <2>2 DEF KitFiles
<1>2. s # NoSource
  <2>1. s.version \in KitVersions /\ NoSource.version = "none"
    BY DEF KitVersions, NoSource
  <2>. QED  BY <2>1, VersionsAreNamed
<1>3. LastReport(todo')
  BY <1>1, <1>2 DEF DeliverInv, Due
<1>4. QueueOK(todo')
  BY DEF IInv, Left, QInv
<1>5. ASSUME NEW q, QueueOK(q), LastReport(q) PROVE Buildless(q)
  <2>1. Has(q[Len(q)], DropOps \cup KitOps)
    BY <1>5 DEF LastReport, Has, KitOps
  <2>2. \A i \in 1 .. Len(q) : ~Has(q[i], GrowOps)
    BY <1>5, <2>1 DEF QueueOK, LastReport
  <2>3. \A st : Has(st, {"build"}) => Has(st, GrowOps)
    BY DEF Has, GrowOps
  <2>. QED  BY <2>2, <2>3 DEF Buildless
<1>. QED  BY <1>3, <1>4, <1>5

\* wrap make looks at what the application lists, and cleans before it builds.
LEMMA MakeBegins ==
  ASSUME IInv, NEW a \in Apps, cmd_make(a)
  PROVE  BuildInv'
<1> DEFINE b == Each("fetch", ListedKeys(app[a]))
           c == Do("reinsert", NoKey)
           d == Each("compile", TrackedBy(a))
           e == Losing(1, For("clean", NoKey, a))
           f == For("build", NoKey, a)
           q == <<b, c, d, e, f>>
<1>1. todo' = q /\ seen' = {} /\ app' = app
  BY DEF cmd_make, Begin, Keep, files
<1>2. ListedKeys(app[a]) \in SUBSET Keys /\ TrackedBy(a) \in SUBSET Keys
  BY DEF ListedKeys, TrackedBy
<1>3. Works(b) /\ b.op = "loop" /\ \A k \in ListedKeys(app[a]) : Fetched(b, k)
  BY <1>2, EachWorks
<1>4. Works(d) /\ d.op = "loop"
  BY <1>2, EachWorks
<1>5. Works(c) /\ c.op = "reinsert"
  BY DEF Works, WorkOps, Do, Made
<1>6. e.op = "clean" /\ e.a = a /\ e.k = NoKey /\ e.loses = 1
  BY DEF Losing, For, Made
<1>7. f.op = "build" /\ f.a = a
  BY DEF For, Made
<1> HIDE DEF b, c, d, e, f
<1>8. Len(q) = 5 /\ q[1] = b /\ q[2] = c /\ q[3] = d /\ q[4] = e /\ q[5] = f
  OBVIOUS
<1> HIDE DEF q
<1>9. Cleans(q, 4, a)
  BY <1>6, <1>8 DEF Cleans
<1>10. \A i \in 1 .. Len(q) - 1 : i = 1 \/ i = 2 \/ i = 3 \/ i = 4
  BY <1>8
<1>11. \A i \in 1 .. Len(q) - 1 : Works(q[i]) \/ Cleans(q, i, a)
  BY <1>3, <1>4, <1>5, <1>8, <1>9, <1>10
<1>12. Making(q, a)
  BY <1>7, <1>8, <1>11 DEF Making
<1>13. \A i \in 1 .. Len(q) : q[i].op # "unlink"
  <2>1. \A i \in 1 .. Len(q) : i = 1 \/ i = 2 \/ i = 3 \/ i = 4 \/ i = 5
    BY <1>8
  <2>. QED  BY <1>3, <1>4, <1>5, <1>6, <1>7, <1>8, <2>1
<1>14. \A k : Relinks(q, k)
  BY <1>13 DEF Relinks
<1>15. ASSUME NEW k \in ListedKeys(app[a]) PROVE ToFix(q, k, {})
  <2>1. Fixes(q[1], k, {})
    BY <1>3, <1>8 DEF Fixes
  <2>. QED  BY <1>8, <2>1 DEF ToFix
<1>16. Prepared(todo, a, seen, link, art, stuff, excused)'
  <2>1. ASSUME NEW k \in Keys, Wanted(a, k, excused)'
        PROVE  Linking(todo', k, seen', link') /\ Clearing(todo', a, k[1], art', stuff')
    <3>1. k \in ListedKeys(app[a])
      BY <1>1, <2>1 DEF Wanted, ListedKeys
    <3>2. Linking(todo', k, seen', link')
      BY <1>1, <1>14, <1>15, <3>1 DEF Linking
    <3>3. Clearing(todo', a, k[1], art', stuff')
      BY <1>1, <1>8, <1>9 DEF Clearing
    <3>. QED  BY <3>2, <3>3
  <2>. QED  BY <2>1 DEF Prepared
<1>17. Making(todo, a)'
  BY <1>1, <1>12 DEF Making
<1>. QED  BY <1>16, <1>17 DEF BuildInv

\* A command in an application: only wrap make builds.
LEMMA ApplicationPrepares ==
  ASSUME IInv, NEW a \in Apps, InApplication(a)
  PROVE  BuildInv'
<1>1. CASE cmd_make(a)
  BY <1>1, MakeBegins
<1>2. ASSUME NEW n \in Names, install_local_dev(a, n) \/ install_listed(a, n) PROVE Buildless(todo')
  BY <1>2, install_local_dev_builds_nothing, install_listed_builds_nothing
<1>3. ASSUME NEW n \in Packages, install_package(a, n) \/ remove_package(a, n) PROVE Buildless(todo')
  BY <1>3, install_package_builds_nothing, remove_package_builds_nothing
<1>. QED  BY <1>1, <1>2, <1>3, BuildsNothing DEF InApplication

\* Every step keeps what a build relies on.
LEMMA BuildStays == IInv /\ DeliverInv /\ BuildInv /\ [KitNext]_vars => BuildInv'
<1> SUFFICES ASSUME IInv, DeliverInv, BuildInv, [KitNext]_vars PROVE BuildInv'
  OBVIOUS
<1>1. CASE Steps
  BY <1>1, StepsPrepare
<1>2. CASE Crash \/ Fail
  BY <1>2, TroublePrepares
<1>3. ASSUME NEW a \in Apps, InApplication(a) PROVE BuildInv'
  BY <1>3, ApplicationPrepares
<1>4. CASE (\E n \in Names : InPackage(n)) \/ Anywhere
  BY <1>4, PackageBuildsNothing, AnywhereBuildsNothing, BuildsNothing
<1>5. CASE KitSteps
  BY <1>5, KitStepsPrepare
<1>6. ASSUME NEW s \in Sources, cmd_kit_install(s) \/ InstallOrReinstall(s) \/ Update(s)
      PROVE  BuildInv'
  <2>1. IInv' /\ DeliverInv'
    BY InvStays, DeliverStays
  <2>. QED  BY <1>6, <2>1, KitBuildsNothing, BuildsNothing
<1>7. CASE UNCHANGED vars
  <2>1. UNCHANGED <<source, link, path, tracked, app, art, stuff, excused, todo, seen>>
    BY <1>7 DEF vars, files
  <2>2. \A a \in Apps : Prepared(todo, a, seen, link, art, stuff, excused)' <=>
                        Prepared(todo, a, seen, link, art, stuff, excused)
    BY <2>1 DEF Prepared, Wanted, ListedKeys
  <2>. QED  BY <2>1, <2>2 DEF BuildInv
<1>. QED  BY <1>1, <1>2, <1>3, <1>4, <1>5, <1>6, <1>7 DEF KitNext, Next

\* What is compiled is the source when the link leads there and nothing compiled is left.
LEMMA CleanBuildCompilesTheSource ==
  ASSUME IInv, NEW a \in Apps, compiler_make, Step.a = a, NEW k \in ListedKeys(app[a]),
         Linked(k), art[k[1]] = 0, stuff[a][k[1]] = 0
  PROVE  stuff'[a][k[1]] = source[k[1]].code
<1>1. k \in Keys /\ k[1] \in Names
  BY DEF ListedKeys, Keys
<1> DEFINE linked == {n \in Names : \E l \in ListedKeys(app[a]) : l[1] = n /\ Linked(l)}
           code(n) == IF n \notin linked THEN 0
                      ELSE IF stuff[a][n] # 0 THEN stuff[a][n]
                      ELSE IF art[n] # 0 THEN art[n] ELSE source[n].code
           codes == [n \in Names |-> code(n)]
<1>2. stuff' = [stuff EXCEPT ![a] = codes]
  BY DEF compiler_make
<1>3. k[1] \in linked
  BY <1>1
<1>4. codes[k[1]] = source[k[1]].code
  BY <1>1, <1>3
<1> HIDE DEF codes
<1>5. stuff'[a] = codes
  BY <1>2 DEF IInv, FilesOK
<1>. QED  BY <1>4, <1>5

\* The step that builds finds the links made and nothing compiled.
LEMMA BuildIsPrepared ==
  ASSUME IInv, BuildInv, Doing("build"), <<Step.a>> \notin excused, NEW k \in Keys,
         Wanted(Step.a, k, excused)
  PROVE  Linked(k) /\ art[k[1]] = 0 /\ stuff[Step.a][k[1]] = 0
<1>1. todo \in Seq(StepSet) /\ todo # <<>> /\ todo[1] = Step /\ Step.op = "build" /\ 1 \in 1 .. Len(todo)
  BY FirstStep DEF IInv
<1>2. ~Buildless(todo)
  BY <1>1 DEF Buildless, Has
<1>3. PICK a \in Apps : Making(todo, a) /\ Prepared(todo, a, seen, link, art, stuff, excused)
  BY <1>2 DEF BuildInv
<1>4. Step.a = a /\ Len(todo) = 1
  BY <1>3, MakingStep DEF WorkOps, IInv
<1>5. Step.rounds = {}
  BY <1>1, StepType
<1>6. Linking(todo, k, seen, link) /\ Clearing(todo, a, k[1], art, stuff)
  BY <1>3, <1>4 DEF Prepared
<1>7. \A i \in 1 .. Len(todo) : i = 1
  BY <1>4
<1>8. ~ToFix(todo, k, seen)
  BY <1>1, <1>5, <1>7 DEF ToFix, Fixes, Fetched
<1>9. \A i \in 1 .. Len(todo) : ~Cleans(todo, i, a)
  BY <1>1, <1>7 DEF Cleans
<1>. QED  BY <1>4, <1>6, <1>8, <1>9 DEF Linking, Clearing, Linked, Wanted

\* Only compiler_make takes that step.
LEMMA OnlyTheCompilerBuilds ==
  ASSUME IInv, [KitNext]_vars, Doing("build"), Done, troubles' = troubles
  PROVE  compiler_make
<1>1. todo \in Seq(StepSet) /\ todo # <<>> /\ Step.op = "build"
  BY FirstStep DEF IInv
<1>2. ~Idle
  BY DEF Doing
<1>3. todo' # todo
  <2>1. Len(Tail(todo)) = Len(todo) - 1 /\ Len(todo) \in Nat
    BY <1>1, HeadTailProperties
  <2>. QED  BY <2>1 DEF Done
<1>4. ~(Crash \/ Fail)
  <2>1. troubles \in Nat
    BY DEF IInv, FilesOK
  <2>. QED  BY <2>1 DEF Crash, Fail, Troubled
<1>5. ~(\/ \E a \in Apps : InApplication(a)
        \/ \E n \in Names : InPackage(n)
        \/ Anywhere)
  BY <1>2, OthersBegin
<1>6. ~(\E s \in Sources : cmd_kit_install(s) \/ InstallOrReinstall(s) \/ Update(s))
  BY <1>2 DEF cmd_kit_install, InstallOrReinstall, Update, KitBegin, Begin
<1>7. ~KitSteps
  BY <1>1 DEF KitSteps, download_tool_binary, drop_tool_symlink, symlink_tool, install_one_package,
              kit_remove_cache_symlink, kit_store_kitfile, unlink_current, symlink_current, report,
              Doing
<1>8. Steps
  BY <1>3, <1>4, <1>5, <1>6, <1>7 DEF KitNext, Next, vars
<1>. QED  BY <1>1, <1>8
     DEF Steps, next_round, unlink_package, create_package_symlink, open_source_path,
         save_local_dev_source_path, register_local_dev_v2_text_registry,
         ensure_local_dev_in_registry_dat, register_dependency_tracking, elm_json_write,
         ensure_local_dev_symlink, register_local_dev_tracking_if_needed,
         refresh_app_indirect_deps, prune_app_orphaned_deps, drop_tracking_dir,
         drop_all_tracking, remove_local_dev_from_registry_dat,
         remove_local_dev_from_text_registry, untrack, download_package_recursive,
         continue_with_needs, reinsert_local_dev, builder_compile_local_dev_packages,
         builder_clean_local_dev_artifacts, Doing

\* A build that nothing cut short uses the code of the source directory as it is, for what
\* the application lists and tracks: when the compiler starts, every link was repaired, by a
\* step that looked at it or one that came after it, and the cleaning is done.
THEOREM BuildsAlwaysUseTheSource == KitSpec => BuildsUseTheSource
<1>1. KitInit => BuildInv
  <2>1. KitInit => todo = <<>>
    BY DEF KitInit, Init
  <2>. QED  BY <2>1, NothingIsBuildless DEF BuildInv
<1>2. KitInit => DeliverInv
  <2>1. KitInit => kits.source = NoSource
    BY DEF KitInit
  <2>. QED  BY <2>1 DEF DeliverInv
<1>3. IInv /\ DeliverInv /\ BuildInv /\ [KitNext]_vars => DeliverInv' /\ BuildInv'
  BY DeliverStays, BuildStays
<1>4. IInv /\ BuildInv /\ [KitNext]_vars =>
        [\A a \in {b \in Apps : <<b>> \notin excused} :
           Doing("build") /\ Step.a = a /\ Done /\ troubles' = troubles =>
             \A k \in ListedKeys(app[a]) \ excused :
               k \in TrackedBy(a) /\ path[k] = "source" /\ source[k[1]].there =>
                 stuff'[a][k[1]] = source[k[1]].code]_vars
  <2> SUFFICES ASSUME IInv, BuildInv, [KitNext]_vars,
                      NEW a \in {b \in Apps : <<b>> \notin excused},
                      Doing("build"), Step.a = a, Done, troubles' = troubles,
                      NEW k \in ListedKeys(app[a]) \ excused,
                      k \in TrackedBy(a), path[k] = "source", source[k[1]].there
               PROVE  stuff'[a][k[1]] = source[k[1]].code
    OBVIOUS
  <2>1. compiler_make
    BY OnlyTheCompilerBuilds
  <2>2. k \in Keys /\ Wanted(a, k, excused)
    BY DEF TrackedBy, Wanted
  <2>3. Linked(k) /\ art[k[1]] = 0 /\ stuff[a][k[1]] = 0
    BY <2>2, BuildIsPrepared
  <2>. QED  BY <2>1, <2>3, CleanBuildCompilesTheSource
<1>5. KitSpec => [](IInv /\ DeliverInv /\ BuildInv)
  BY <1>1, <1>2, <1>3, KitInvariant, PTL DEF KitSpec
<1>. QED  BY <1>4, <1>5, PTL DEF KitSpec, BuildsUseTheSource

-----------------------------------------------------------------------------
(* Applications that follow the packages they track *)

FileOps == {"unlink", "symlink", "open_path", "path", "text", "dat", "ensure"}
FollowOps == {"refresh", "prune"}

\* Before an elm.json is written come only steps for one version.
WritesOK(q) ==
  \A i \in 1 .. Len(q) :
    /\ q[i].op = "elm_json" =>
         q[i].k = NoKey /\ q[i].loses \in {0, 1} /\ \A h \in 1 .. i - 1 : q[h].op \in FileOps
    /\ \A r \in q[i].rounds : \A p \in 1 .. Len(r) : r[p].op # "elm_json"

\* A step after which the command may end with the others not taken.
Halting(st) == st.op \in {"fetch", "have", "compile"} \/ (st.op = "ensure" /\ st.loses = 0)
Halts(st) == Halting(st) \/ \E r \in st.rounds : \E p \in 1 .. Len(r) : Halting(r[p])
HaltsOK(q) == \A i \in 1 .. Len(q) : \A j \in i .. Len(q) : Halts(q[i]) => ~Has(q[j], {"symlink"})

\* The applications of a package are refreshed or pruned by a command that does nothing else.
FollowStep(st, op) ==
  /\ st.op \in {"loop", "elm_json", op} /\ st.loses \in {0, 1}
  /\ \A r \in st.rounds : \A p \in 1 .. Len(r) : r[p].op = op /\ r[p].loses \in {0, 1}
Following(q, op) == \A i \in 1 .. Len(q) : FollowStep(q[i], op)
FollowOK(q) ==
  \/ \A i \in 1 .. Len(q) : ~Has(q[i], FollowOps)
  \/ \E op \in FollowOps : Following(q, op)

RelinksOK(q) ==
  \A k \in Keys : Relinks(q, k) /\ \A i \in 1 .. Len(q) : \A r \in q[i].rounds : Relinks(r, k)

ShapeOK(q) == WritesOK(q) /\ HaltsOK(q) /\ FollowOK(q) /\ RelinksOK(q)

\* The step, or one of its rounds, enters the application.
Enters(st, k, a) == st.op \in {"track", "track_if"} /\ st.k = k /\ st.a = a
Tracks(st, k, a) == Enters(st, k, a) \/ \E r \in st.rounds : \E p \in 1 .. Len(r) : Enters(r[p], k, a)
ToTrack(q, k, a) == \E i \in 1 .. Len(q) : Tracks(q[i], k, a)

\* The step, or one of its rounds, looks at what the package needs now.
Looks(st, n, a) == st.op = "refresh" /\ st.k[1] = n /\ st.a = a
Refreshes(st, n, a) == Looks(st, n, a) \/ \E r \in st.rounds : \E p \in 1 .. Len(r) : Looks(r[p], n, a)
ToRefresh(q, n, a) == \E i \in 1 .. Len(q) : Refreshes(q[i], n, a)

Writing(st, a) == st.op = "elm_json" /\ st.a = a
ToWrite(q, a) == \E i \in 1 .. Len(q) : Writing(q[i], a)
WritesFirst(q, a) == 1 \in 1 .. Len(q) /\ Writing(q[1], a)

Links(st, k) == st.op = "symlink" /\ st.k = k
ToLink(q, k) == \E i \in 1 .. Len(q) : Links(q[i], k)

\* The step, or one of its rounds, removes the link of the version,
Uncaching(st, k) == st.op = "uncache" /\ st.k = k
Uncaches(st, k) == Uncaching(st, k) \/ \E r \in st.rounds : \E p \in 1 .. Len(r) : Uncaching(r[p], k)
ToUncache(q, k) == \E i \in 1 .. Len(q) : Uncaches(q[i], k)

\* or its tracking files.
Dropping(st, k) == st.op = "drop" /\ st.k = k
Drops(st, k) == Dropping(st, k) \/ \E r \in st.rounds : \E p \in 1 .. Len(r) : Dropping(r[p], k)
ToDrop(q, k) == \E i \in 1 .. Len(q) : Drops(q[i], k)

\* The files go after the link.
Ends(q, k) == \A i \in 1 .. Len(q) : Uncaching(q[i], k) => \E j \in i + 1 .. Len(q) : Dropping(q[j], k)
EndsOK(q, k) == Ends(q, k) /\ \A i \in 1 .. Len(q) : \A r \in q[i].rounds : Ends(r, k)

Serves(j, k) == source[k[1]].needs \subseteq Listed(j)
Linkable(q, k) == source[k[1]].there /\ (link[k] = "source" \/ ToLink(q, k))

\* An application that tracks a version lists what it needs, or is about to, unless it is
\* about to track it no more.
NowOK(q, a, k) ==
  k \in ListedKeys(app[a]) /\ a \in tracked[k] /\ ~ToDrop(q, k) =>
    Linkable(q, k) /\ (Serves(app[a], k) \/ ToRefresh(q, k[1], a) \/ WritesFirst(q, a))

\* So it does when the elm.json that a step holds is written,
ThenOK(q, a, k) ==
  \A i \in 1 .. Len(q) :
    Writing(q[i], a) /\ k \in ListedKeys(q[i].j) /\ (a \in tracked[k] \/ ToTrack(q, k, a)) =>
      Linkable(q, k) /\ Serves(q[i].j, k)

\* and when it is entered.
SoonOK(q, a, k) ==
  ~ToWrite(q, a) /\ k \in ListedKeys(app[a]) /\ ToTrack(q, k, a) =>
    Linkable(q, k) /\ Serves(app[a], k)

\* A version keeps its link as long as the application tracks it.
GoneOK(q, a, k) ==
  /\ a \in tracked[k] => EndsOK(q, k)
  /\ ToTrack(q, k, a) => ~ToUncache(q, k)

FollowsOK(q, a, k) == NowOK(q, a, k) /\ ThenOK(q, a, k) /\ SoonOK(q, a, k) /\ GoneOK(q, a, k)

FollowInv ==
  /\ ShapeOK(todo)
  /\ \A a \in Apps, k \in Keys : <<a>> \notin excused /\ k \notin excused => FollowsOK(todo, a, k)

-----------------------------------------------------------------------------
(* What the solver finds *)

\* What is listed is a package.
LEMMA ListedType ==
  ASSUME NEW j \in Json
  PROVE  Listed(j) \subseteq Packages
<1>1. \A e \in Entries : e[1] \in Packages
  BY DEF Entries, Keys, Packages
<1>. QED  BY <1>1, JsonType DEF Listed

\* A solution holds what is listed and what is wanted besides.
LEMMA SolutionHolds ==
  ASSUME NEW j \in Json, NEW S \in SUBSET Packages
  PROVE  Listed(j) \cup S \subseteq Solution(j, S)
<1>1. Listed(j) \cup S \subseteq Packages
  BY ListedType
<1>. QED  BY <1>1 DEF Solution

\* What is seen of the needs of a version are packages.
LEMMA NeedsType ==
  ASSUME FilesOK, NEW k
  PROVE  NeedsSeen(k) \subseteq Packages
<1>1. CASE k \in Keys
  <2>1. k[1] \in Names
    BY <1>1 DEF Keys
  <2>2. source[k[1]].needs \subseteq Packages
    BY <2>1 DEF FilesOK
  <2>. QED  BY <2>2 DEF NeedsSeen
<1>. QED  BY <1>1 DEF NeedsSeen

\* And what the versions in it need.
LEMMA SolutionIsClosed ==
  ASSUME FilesOK, NEW j, NEW S, NEW n \in Solution(j, S), Known(n) \/ n \in Listed(j)
  PROVE  NeedsSeen(Chosen(j, n)) \subseteq Solution(j, S)
<1> DEFINE N == NeedsSeen(Chosen(j, n))
<1>1. N \subseteq Packages
  BY NeedsType
<1>2. ASSUME NEW m \in N, NEW T \in SUBSET Packages, Listed(j) \cup S \subseteq T, Closed(j, T)
      PROVE  m \in T
  <2>1. n \in T
    BY <1>2 DEF Solution
  <2>2. N \subseteq T
    BY <1>2, <2>1 DEF Closed
  <2>. QED  BY <2>2
<1> HIDE DEF N
<1>3. N \subseteq Solution(j, S)
  BY <1>1, <1>2 DEF Solution
<1>. QED  BY <1>3 DEF N

\* A package under development that is in it can be read, and all it needs is in it.
LEMMA SolutionServes ==
  ASSUME FilesOK, NEW j \in Json, NEW S, Solvable(j, S), NEW n \in Solution(j, S), n \in Names
  PROVE  Linked(Chosen(j, n)) /\ source[n].needs \subseteq Solution(j, S)
<1>1. (n \in Listed(j) \/ Known(n)) /\ Linked(Chosen(j, n))
  BY DEF Solvable
<1> DEFINE c == Chosen(j, n)
<1>2. c \in Keys
  <2>1. CASE n \in Listed(j)
    BY <2>1, VersionInType DEF Chosen
  <2>2. CASE n \notin Listed(j)
    BY <1>1, <2>2, NewestType DEF Chosen
  <2>. QED  BY <2>1, <2>2
<1>3. c[1] = n
  BY DEF Chosen
<1>4. NeedsSeen(c) \subseteq Solution(j, S)
  BY <1>1, SolutionIsClosed
<1> HIDE DEF c
<1>5. Linked(c)
  BY <1>1 DEF c
<1>6. NeedsSeen(c) = source[n].needs
  BY <1>2, <1>3, <1>5 DEF NeedsSeen
<1>. QED  BY <1>1, <1>4, <1>6

\* An elm.json with all that the solver adds lists the solution.
LEMMA ChangesComplete ==
  ASSUME FilesOK, NEW j \in Json, NEW S \in SUBSET Packages, NEW j2 \in Json,
         j2.direct \cup j2.indirect = (j.direct \cup j.indirect) \cup Changes(j, S)
  PROVE  Listed(j2) = Solution(j, S)
<1> DEFINE N == Solution(j, S)
           E == j.direct \cup j.indirect
           C == Changes(j, S)
<1>1. Listed(j) \subseteq N
  BY SolutionHolds
<1>2. \A n : Chosen(j, n)[1] = n
  BY DEF Chosen
<1>3. ASSUME NEW n \in N, n \notin Listed(j) PROVE \E e \in C : e[1] = n
  <2>1. Chosen(j, n) \in C
    BY <1>3 DEF Changes
  <2>. QED  BY <1>2, <2>1
<1>4. ASSUME NEW e \in C PROVE e[1] \in N
  BY <1>2, <1>4 DEF Changes
<1>5. /\ Listed(j) = {e[1] : e \in E}
      /\ Listed(j2) = {e[1] : e \in E \cup C}
  BY DEF Listed
<1> HIDE DEF N, E, C
<1>6. \A n \in N : \E e \in E \cup C : e[1] = n
  BY <1>3, <1>5
<1>7. \A e \in E \cup C : e[1] \in N
  BY <1>1, <1>4, <1>5
<1>8. {e[1] : e \in E \cup C} = N
  BY <1>6, <1>7
<1>. QED  BY <1>5, <1>8 DEF N

\* What it adds can be read, and what the packages in it need is listed then.
LEMMA ChangesServe ==
  ASSUME FilesOK, NEW j \in Json, NEW S \in SUBSET Packages, Solvable(j, S), NEW j2 \in Json,
         j2.direct \cup j2.indirect = (j.direct \cup j.indirect) \cup Changes(j, S),
         NEW k \in ListedKeys(j2)
  PROVE  Serves(j2, k) /\ (k \in Changes(j, S) => Linked(k)) /\ k \in ListedKeys(j) \cup Changes(j, S)
<1>1. Listed(j2) = Solution(j, S)
  BY ChangesComplete
<1>2. k \in Keys /\ k \in j2.direct \cup j2.indirect
  BY DEF ListedKeys
<1>3. k[1] \in Names /\ k[1] \in Listed(j2)
  BY <1>2 DEF Keys, Listed
<1>4. source[k[1]].needs \subseteq Solution(j, S)
  BY <1>1, <1>3, SolutionServes
<1>5. ASSUME k \in Changes(j, S) PROVE Linked(k)
  <2>1. PICK n \in Solution(j, S) : k = Chosen(j, n)
    BY <1>5 DEF Changes
  <2>2. n = k[1]
    BY <2>1 DEF Chosen
  <2>. QED  BY <1>3, <2>1, <2>2, SolutionServes
<1>6. k \in ListedKeys(j) \cup Changes(j, S)
  BY <1>2 DEF ListedKeys
<1>. QED  BY <1>1, <1>4, <1>5, <1>6 DEF Serves

\* What is reached from the direct entries holds what it needs.
LEMMA ReachIsClosed ==
  ASSUME FilesOK, NEW j, NEW from, NEW e \in j.direct \cup j.indirect, e[1] \in Reach(j, from)
  PROVE  NeedsSeen(e) \subseteq Reach(j, from)
<1> DEFINE N == NeedsSeen(e)
<1>1. N \subseteq Packages
  BY NeedsType
<1>2. ASSUME NEW m \in N, NEW T \in SUBSET Packages, from \subseteq T,
             \A x \in j.direct \cup j.indirect : x[1] \in T => NeedsSeen(x) \subseteq T
      PROVE  m \in T
  <2>1. e[1] \in T
    BY <1>2 DEF Reach
  <2>. QED  BY <1>2, <2>1
<1> HIDE DEF N
<1>3. N \subseteq Reach(j, from)
  BY <1>1, <1>2 DEF Reach
<1>. QED  BY <1>3 DEF N

\* Without its orphans an elm.json still lists what the packages that stay need.
LEMMA OrphansServe ==
  ASSUME FilesOK, NEW j \in Json, NEW j2 \in Json,
         j2.direct = j.direct, j2.indirect = j.indirect \ Orphans(j),
         NEW k \in ListedKeys(j2), Serves(j, k), Linked(k)
  PROVE  Serves(j2, k) /\ k \in ListedKeys(j)
<1> DEFINE from == {d[1] : d \in j.direct}
           R == Reach(j, from)
<1>1. k \in Keys /\ (k \in j.direct \/ k \in j.indirect \ Orphans(j))
  BY DEF ListedKeys
<1>2. from \subseteq R
  <2>1. from \subseteq Listed(j)
    BY DEF Listed
  <2>2. from \subseteq Packages
    BY <2>1, ListedType
  <2> HIDE DEF from
  <2>. QED  BY <2>2 DEF Reach
<1>3. k[1] \in R
  <2>1. CASE k \in j.direct
    BY <1>2, <2>1
  <2>2. CASE k \in j.indirect \ Orphans(j)
    BY <2>2 DEF Orphans
  <2>. QED  BY <1>1, <2>1, <2>2
<1>4. NeedsSeen(k) \subseteq R
  BY <1>1, <1>3, ReachIsClosed
<1>5. NeedsSeen(k) = source[k[1]].needs
  BY <1>1 DEF NeedsSeen
<1>6. ASSUME NEW n \in source[k[1]].needs PROVE n \in Listed(j2)
  <2>1. n \in R /\ n \in Listed(j)
    BY <1>4, <1>5, <1>6 DEF Serves
  <2>2. PICK e \in j.direct \cup j.indirect : e[1] = n
    BY <2>1 DEF Listed
  <2>3. e \notin Orphans(j)
    BY <2>1, <2>2 DEF Orphans
  <2>4. e \in j2.direct \cup j2.indirect
    BY <2>2, <2>3
  <2>. QED  BY <2>2, <2>4 DEF Listed
<1>7. k \in ListedKeys(j)
  BY <1>1 DEF ListedKeys
<1>. QED  BY <1>6, <1>7 DEF Serves

-----------------------------------------------------------------------------
(* The shape of what is left *)

\* A link and its tracking files go in the order in which the step has them go.
LeavesOK(st, s, k) ==
  /\ ToUncache(s, k) => Uncaches(st, k)
  /\ (\A r \in st.rounds : Ends(r, k)) => EndsOK(s, k)
  /\ Drops(st, k) => Dropping(st, k) \/ ToDrop(s, k)

\* What may come in the place of a step.
ShiftsOK(st, s) ==
  /\ WritesOK(s) /\ HaltsOK(s) /\ RelinksOK(s)
  /\ \A i \in 1 .. Len(s) : (Halts(s[i]) => Halts(st)) /\ (Has(s[i], FollowOps) => Has(st, FollowOps))
  /\ st.op \in FileOps => \A i \in 1 .. Len(s) : s[i].op \in FileOps
  /\ \A op \in FollowOps : FollowStep(st, op) => Following(s, op)
  /\ \A k \in Keys : LeavesOK(st, s, k)

\* Nothing is left to do.
LEMMA NothingHasShape == ShapeOK(<<>>)
<1> DEFINE e == <<>>
<1>1. Len(e) = 0
  BY EmptySeq
<1> HIDE DEF e
<1>2. \A i \in 1 .. Len(e) : FALSE
  BY <1>1
<1>3. WritesOK(e) /\ HaltsOK(e) /\ FollowOK(e) /\ RelinksOK(e)
  BY <1>2 DEF WritesOK, HaltsOK, FollowOK, RelinksOK, Relinks
<1>4. ShapeOK(e)
  BY <1>3 DEF ShapeOK
<1>. QED  BY <1>4 DEF e

\* A step may come to its end.
LEMMA NothingShifts ==
  ASSUME NEW st, st.rounds = {}
  PROVE  ShiftsOK(st, <<>>)
<1> DEFINE e == <<>>
<1>1. Len(e) = 0
  BY EmptySeq
<1>2. WritesOK(e) /\ HaltsOK(e) /\ RelinksOK(e)
  BY NothingHasShape DEF ShapeOK
<1> HIDE DEF e
<1>3. \A i \in 1 .. Len(e) : FALSE
  BY <1>1
<1>4. \A op \in FollowOps : Following(e, op)
  BY <1>3 DEF Following
<1>5. \A k \in Keys : LeavesOK(st, e, k)
  BY <1>3 DEF LeavesOK, ToUncache, EndsOK, Ends, Drops
<1>6. ShiftsOK(st, e)
  BY <1>2, <1>3, <1>4, <1>5 DEF ShiftsOK
<1>. QED  BY <1>6 DEF e

\* A step of the queue comes from what was put in, or was there.
LEMMA ShiftedFrom ==
  ASSUME NEW q, NEW s \in Seq(StepSet), NEW t, Shifted(q, s, t), NEW i \in 1 .. Len(t)
  PROVE  \/ i \in 1 .. Len(s) /\ t[i] = s[i]
         \/ \E g \in 2 .. Len(q) : g \in 1 .. Len(q) /\ g = i - Len(s) + 1 /\ t[i] = q[g]
<1>1. Len(q) \in Nat \ {0} /\ Len(s) \in Nat /\ Len(t) = Len(s) + Len(q) - 1
  BY DEF Shifted
<1>2. CASE i <= Len(s)
  <2>1. i \in 1 .. Len(s)
    BY <1>1, <1>2
  <2>. QED  BY <2>1 DEF Shifted
<1>3. CASE i > Len(s)
  <2> DEFINE g == i - Len(s) + 1
  <2>1. g \in 2 .. Len(q) /\ t[i] = q[g]
    BY <1>3 DEF Shifted
  <2>2. g = i - Len(s) + 1
    OBVIOUS
  <2> HIDE DEF g
  <2>3. g \in 1 .. Len(q)
    BY <2>1
  <2>. QED  BY <2>1, <2>2, <2>3
<1>. QED  BY <1>1, <1>2, <1>3

\* A step that stays was there.
LEMMA DroppedFrom ==
  ASSUME NEW q, NEW n, NEW t, Dropped(q, n, t), NEW i \in 1 .. Len(t)
  PROVE  \E g \in 1 .. Len(q) : g = i + n /\ t[i] = q[g]
<1> DEFINE g == i + n
<1>1. g \in 1 .. Len(q) /\ t[i] = q[g] /\ g = i + n
  BY DEF Dropped
<1> HIDE DEF g
<1>. QED  BY <1>1

\* Before an elm.json come only steps for one version.
LEMMA ShiftWrites ==
  ASSUME NEW q \in Seq(StepSet), NEW s \in Seq(StepSet), NEW t, Shifted(q, s, t), WritesOK(q),
         ShiftsOK(q[1], s)
  PROVE  WritesOK(t)
<1>1. Len(q) \in Nat \ {0} /\ Len(s) \in Nat /\ Len(t) = Len(s) + Len(q) - 1
  BY DEF Shifted
<1>2. WritesOK(s) /\ (q[1].op \in FileOps => \A i \in 1 .. Len(s) : s[i].op \in FileOps)
  BY DEF ShiftsOK
<1>3. ASSUME NEW i \in 1 .. Len(t) PROVE \A r \in t[i].rounds : \A p \in 1 .. Len(r) : r[p].op # "elm_json"
  <2>1. \A h \in 1 .. Len(q) : \A r \in q[h].rounds : \A p \in 1 .. Len(r) : r[p].op # "elm_json"
    BY DEF WritesOK
  <2>2. \A h \in 1 .. Len(s) : \A r \in s[h].rounds : \A p \in 1 .. Len(r) : r[p].op # "elm_json"
    BY <1>2 DEF WritesOK
  <2>. QED  BY <2>1, <2>2, ShiftedFrom
<1>4. ASSUME NEW i \in 1 .. Len(t), t[i].op = "elm_json"
      PROVE  t[i].k = NoKey /\ t[i].loses \in {0, 1} /\ \A h \in 1 .. i - 1 : t[h].op \in FileOps
  <2>1. CASE i \in 1 .. Len(s) /\ t[i] = s[i]
    <3>1. s[i].k = NoKey /\ s[i].loses \in {0, 1} /\ \A h \in 1 .. i - 1 : s[h].op \in FileOps
      BY <1>2, <1>4, <2>1 DEF WritesOK
    <3>2. ASSUME NEW h \in 1 .. i - 1 PROVE t[h].op \in FileOps
      <4>1. h \in 1 .. Len(s)
        BY <1>1, <2>1
      <4>2. t[h] = s[h]
        BY <4>1 DEF Shifted
      <4>. QED  BY <3>1, <4>2
    <3>. QED  BY <2>1, <3>1, <3>2
  <2>2. ASSUME NEW g \in 2 .. Len(q), g \in 1 .. Len(q), g = i - Len(s) + 1, t[i] = q[g]
        PROVE  t[i].k = NoKey /\ t[i].loses \in {0, 1} /\ \A h \in 1 .. i - 1 : t[h].op \in FileOps
    <3>1. q[g].k = NoKey /\ q[g].loses \in {0, 1} /\ \A h \in 1 .. g - 1 : q[h].op \in FileOps
      BY <1>4, <2>2 DEF WritesOK
    <3>2. q[1].op \in FileOps
      <4>1. 1 \in 1 .. g - 1
        BY <2>2
      <4>. QED  BY <3>1, <4>1
    <3>3. ASSUME NEW h \in 1 .. i - 1 PROVE t[h].op \in FileOps
      <4>1. h \in 1 .. Len(t)
        BY <1>1
      <4>2. CASE h \in 1 .. Len(s) /\ t[h] = s[h]
        BY <1>2, <3>2, <4>2
      <4>3. ASSUME NEW f \in 2 .. Len(q), f = h - Len(s) + 1, t[h] = q[f] PROVE t[h].op \in FileOps
        <5>1. f \in 1 .. g - 1
          BY <1>1, <2>2, <4>3
        <5>. QED  BY <3>1, <4>3, <5>1
      <4>. QED  BY <4>1, <4>2, <4>3, ShiftedFrom
    <3>. QED  BY <2>2, <3>1, <3>3
  <2>. QED  BY <2>1, <2>2, ShiftedFrom
<1>. QED  BY <1>3, <1>4 DEF WritesOK

\* After a step with which the command may end nothing is linked.
LEMMA ShiftHalts ==
  ASSUME NEW q \in Seq(StepSet), NEW s \in Seq(StepSet), NEW t, Shifted(q, s, t), HaltsOK(q),
         ShiftsOK(q[1], s)
  PROVE  HaltsOK(t)
<1>1. Len(q) \in Nat \ {0} /\ Len(s) \in Nat /\ Len(t) = Len(s) + Len(q) - 1
  BY DEF Shifted
<1>2. HaltsOK(s) /\ \A i \in 1 .. Len(s) : Halts(s[i]) => Halts(q[1])
  BY DEF ShiftsOK
<1>3. ASSUME NEW i \in 1 .. Len(t), NEW j \in i .. Len(t), Halts(t[i]) PROVE ~Has(t[j], {"symlink"})
  <2>1. j \in 1 .. Len(t)
    OBVIOUS
  <2>2. CASE j \in 1 .. Len(s) /\ t[j] = s[j]
    <3>1. i \in 1 .. Len(s) /\ j \in i .. Len(s)
      BY <1>1, <2>2
    <3>2. t[i] = s[i]
      BY <3>1 DEF Shifted
    <3>. QED  BY <1>2, <1>3, <2>2, <3>1, <3>2 DEF HaltsOK
  <2>3. ASSUME NEW f \in 2 .. Len(q), f = j - Len(s) + 1, t[j] = q[f] PROVE ~Has(t[j], {"symlink"})
    <3>1. CASE i \in 1 .. Len(s) /\ t[i] = s[i]
      <4>1. Halts(q[1]) /\ 1 \in 1 .. Len(q) /\ f \in 1 .. Len(q)
        BY <1>1, <1>2, <1>3, <3>1
      <4>. QED  BY <2>3, <4>1 DEF HaltsOK
    <3>2. ASSUME NEW g \in 2 .. Len(q), g \in 1 .. Len(q), g = i - Len(s) + 1, t[i] = q[g]
          PROVE  ~Has(t[j], {"symlink"})
      <4>1. f \in g .. Len(q)
        BY <1>1, <2>3, <3>2
      <4>. QED  BY <1>3, <2>3, <3>2, <4>1 DEF HaltsOK
    <3>. QED  BY <3>1, <3>2, ShiftedFrom
  <2>. QED  BY <2>1, <2>2, <2>3, ShiftedFrom
<1>. QED  BY <1>3 DEF HaltsOK

\* A command that refreshes applications, or prunes them, does nothing else.
LEMMA ShiftFollowing ==
  ASSUME NEW q \in Seq(StepSet), NEW s \in Seq(StepSet), NEW t, Shifted(q, s, t), FollowOK(q),
         ShiftsOK(q[1], s)
  PROVE  FollowOK(t)
<1>1. 1 \in 1 .. Len(q)
  BY DEF Shifted
<1>2. CASE \A i \in 1 .. Len(q) : ~Has(q[i], FollowOps)
  <2>1. \A i \in 1 .. Len(s) : ~Has(s[i], FollowOps)
    BY <1>1, <1>2 DEF ShiftsOK
  <2>2. ASSUME NEW i \in 1 .. Len(t) PROVE ~Has(t[i], FollowOps)
    BY <1>2, <2>1, ShiftedFrom
  <2>. QED  BY <2>2 DEF FollowOK
<1>3. ASSUME NEW op \in FollowOps, Following(q, op) PROVE FollowOK(t)
  <2>1. Following(s, op)
    BY <1>1, <1>3 DEF ShiftsOK, Following
  <2>2. ASSUME NEW i \in 1 .. Len(t) PROVE FollowStep(t[i], op)
    BY <1>3, <2>1, ShiftedFrom DEF Following
  <2>. QED  BY <2>2 DEF FollowOK, Following
<1>. QED  BY <1>2, <1>3 DEF FollowOK

\* The shape stays when a step is replaced.
LEMMA ShiftShape ==
  ASSUME NEW q \in Seq(StepSet), NEW s \in Seq(StepSet), NEW t, Shifted(q, s, t), ShapeOK(q),
         ShiftsOK(q[1], s)
  PROVE  ShapeOK(t)
<1>1. WritesOK(t) /\ HaltsOK(t) /\ FollowOK(t)
  BY ShiftWrites, ShiftHalts, ShiftFollowing DEF ShapeOK
<1>2. ASSUME NEW k \in Keys PROVE Relinks(t, k)
  <2>1. Relinks(q, k) /\ Relinks(s, k)
    BY DEF ShapeOK, ShiftsOK, RelinksOK
  <2>. QED  BY <2>1, ShiftRelinks
<1>3. ASSUME NEW k \in Keys, NEW i \in 1 .. Len(t), NEW r \in t[i].rounds PROVE Relinks(r, k)
  <2>1. RelinksOK(q) /\ RelinksOK(s)
    BY DEF ShapeOK, ShiftsOK
  <2>2. CASE i \in 1 .. Len(s) /\ t[i] = s[i]
    BY <1>3, <2>1, <2>2 DEF RelinksOK
  <2>3. ASSUME NEW g \in 2 .. Len(q), g \in 1 .. Len(q), t[i] = q[g] PROVE Relinks(r, k)
    BY <1>3, <2>1, <2>3 DEF RelinksOK
  <2>. QED  BY <2>2, <2>3, ShiftedFrom
<1>4. RelinksOK(t)
  BY <1>2, <1>3 DEF RelinksOK
<1>. QED  BY <1>1, <1>4 DEF ShapeOK

\* The shape stays when the first steps are gone.
LEMMA DropShape ==
  ASSUME NEW q, NEW n, NEW t, Dropped(q, n, t), ShapeOK(q)
  PROVE  ShapeOK(t)
<1>1. n \in 1 .. Len(q) /\ Len(t) = Len(q) - n
  BY DEF Dropped
<1>2. WritesOK(t)
  <2>1. ASSUME NEW i \in 1 .. Len(t)
        PROVE  /\ t[i].op = "elm_json" =>
                    t[i].k = NoKey /\ t[i].loses \in {0, 1} /\ \A h \in 1 .. i - 1 : t[h].op \in FileOps
               /\ \A r \in t[i].rounds : \A p \in 1 .. Len(r) : r[p].op # "elm_json"
    <3>1. PICK g \in 1 .. Len(q) : g = i + n /\ t[i] = q[g]
      BY DroppedFrom
    <3>2. /\ q[g].op = "elm_json" =>
               q[g].k = NoKey /\ q[g].loses \in {0, 1} /\ \A h \in 1 .. g - 1 : q[h].op \in FileOps
          /\ \A r \in q[g].rounds : \A p \in 1 .. Len(r) : r[p].op # "elm_json"
      BY DEF ShapeOK, WritesOK
    <3>3. ASSUME t[i].op = "elm_json", NEW h \in 1 .. i - 1 PROVE t[h].op \in FileOps
      <4>1. h \in 1 .. Len(t)
        BY <1>1
      <4>2. PICK f \in 1 .. Len(q) : f = h + n /\ t[h] = q[f]
        BY <4>1, DroppedFrom
      <4>3. f \in 1 .. g - 1
        BY <1>1, <3>1, <4>2
      <4>. QED  BY <3>1, <3>2, <3>3, <4>2, <4>3
    <3>. QED  BY <3>1, <3>2, <3>3
  <2>. QED  BY <2>1 DEF WritesOK
<1>3. HaltsOK(t)
  <2>1. ASSUME NEW i \in 1 .. Len(t), NEW j \in i .. Len(t), Halts(t[i]) PROVE ~Has(t[j], {"symlink"})
    <3>1. PICK g \in 1 .. Len(q) : g = i + n /\ t[i] = q[g]
      BY DroppedFrom
    <3>2. j \in 1 .. Len(t)
      OBVIOUS
    <3>3. PICK f \in 1 .. Len(q) : f = j + n /\ t[j] = q[f]
      BY <3>2, DroppedFrom
    <3>4. f \in g .. Len(q)
      BY <1>1, <3>1, <3>3
    <3>. QED  BY <2>1, <3>1, <3>3, <3>4 DEF ShapeOK, HaltsOK
  <2>. QED  BY <2>1 DEF HaltsOK
<1>4. FollowOK(t)
  <2>1. CASE \A i \in 1 .. Len(q) : ~Has(q[i], FollowOps)
    <3>1. ASSUME NEW i \in 1 .. Len(t) PROVE ~Has(t[i], FollowOps)
      BY <2>1, DroppedFrom
    <3>. QED  BY <3>1 DEF FollowOK
  <2>2. ASSUME NEW op \in FollowOps, Following(q, op) PROVE FollowOK(t)
    <3>1. ASSUME NEW i \in 1 .. Len(t) PROVE FollowStep(t[i], op)
      BY <2>2, DroppedFrom DEF Following
    <3>. QED  BY <3>1 DEF FollowOK, Following
  <2>. QED  BY <2>1, <2>2 DEF ShapeOK, FollowOK
<1>5. RelinksOK(t)
  <2>1. ASSUME NEW k \in Keys PROVE Relinks(t, k)
    <3>1. Relinks(q, k)
      BY DEF ShapeOK, RelinksOK
    <3>. QED  BY <3>1, DropRelinks
  <2>2. ASSUME NEW k \in Keys, NEW i \in 1 .. Len(t), NEW r \in t[i].rounds PROVE Relinks(r, k)
    <3>1. PICK g \in 1 .. Len(q) : g = i + n /\ t[i] = q[g]
      BY DroppedFrom
    <3>. QED  BY <2>2, <3>1 DEF ShapeOK, RelinksOK
  <2>. QED  BY <2>1, <2>2 DEF RelinksOK
<1>. QED  BY <1>2, <1>3, <1>4, <1>5 DEF ShapeOK

\* What is still to be done when a step is replaced.
LEMMA ShiftToDo ==
  ASSUME NEW q \in Seq(StepSet), NEW s \in Seq(StepSet), NEW t, Shifted(q, s, t), NEW k, NEW a
  PROVE  /\ ToTrack(t, k, a) => ToTrack(q, k, a) \/ ToTrack(s, k, a)
         /\ ToLink(q, k) => ToLink(t, k) \/ Links(q[1], k)
         /\ ToWrite(q, a) => ToWrite(t, a) \/ Writing(q[1], a)
<1>1. ASSUME ToTrack(t, k, a) PROVE ToTrack(q, k, a) \/ ToTrack(s, k, a)
  <2>1. PICK i \in 1 .. Len(t) : Tracks(t[i], k, a)
    BY <1>1 DEF ToTrack
  <2>. QED  BY <2>1, ShiftedFrom DEF ToTrack
<1>2. ASSUME NEW i \in 2 .. Len(q) PROVE \E m \in 1 .. Len(t) : t[m] = q[i]
  <2> DEFINE m == i + Len(s) - 1
  <2>1. m \in 1 .. Len(t) /\ t[m] = q[i]
    BY DEF Shifted
  <2> HIDE DEF m
  <2>. QED  BY <2>1
<1>3. \A i \in 1 .. Len(q) : i = 1 \/ i \in 2 .. Len(q)
  OBVIOUS
<1>4. ASSUME ToLink(q, k) PROVE ToLink(t, k) \/ Links(q[1], k)
  <2>1. PICK i \in 1 .. Len(q) : Links(q[i], k)
    BY <1>4 DEF ToLink
  <2>. QED  BY <1>2, <1>3, <2>1 DEF ToLink
<1>5. ASSUME ToWrite(q, a) PROVE ToWrite(t, a) \/ Writing(q[1], a)
  <2>1. PICK i \in 1 .. Len(q) : Writing(q[i], a)
    BY <1>5 DEF ToWrite
  <2>. QED  BY <1>2, <1>3, <2>1 DEF ToWrite
<1>. QED  BY <1>1, <1>4, <1>5

\* What is still to be looked at when a step is replaced.
LEMMA ShiftToRefresh ==
  ASSUME NEW q \in Seq(StepSet), NEW s \in Seq(StepSet), NEW t, Shifted(q, s, t), NEW n, NEW a
  PROVE  /\ ToRefresh(q, n, a) => ToRefresh(t, n, a) \/ Refreshes(q[1], n, a)
         /\ ToRefresh(s, n, a) => ToRefresh(t, n, a)
<1>1. ASSUME ToRefresh(q, n, a) PROVE ToRefresh(t, n, a) \/ Refreshes(q[1], n, a)
  <2>1. PICK i \in 1 .. Len(q) : Refreshes(q[i], n, a)
    BY <1>1 DEF ToRefresh
  <2>2. ASSUME i # 1 PROVE ToRefresh(t, n, a)
    <3>1. i \in 2 .. Len(q)
      BY <2>2
    <3> DEFINE m == i + Len(s) - 1
    <3>2. m \in 1 .. Len(t) /\ t[m] = q[i]
      BY <3>1 DEF Shifted
    <3> HIDE DEF m
    <3>. QED  BY <2>1, <3>2 DEF ToRefresh
  <2>. QED  BY <2>1, <2>2
<1>2. ASSUME ToRefresh(s, n, a) PROVE ToRefresh(t, n, a)
  <2>1. PICK i \in 1 .. Len(s) : Refreshes(s[i], n, a)
    BY <1>2 DEF ToRefresh
  <2>2. i \in 1 .. Len(t) /\ t[i] = s[i]
    BY DEF Shifted
  <2>. QED  BY <2>1, <2>2 DEF ToRefresh
<1>. QED  BY <1>1, <1>2

\* What is still to be removed when a step is replaced.
LEMMA ShiftToDrop ==
  ASSUME NEW q \in Seq(StepSet), NEW s \in Seq(StepSet), NEW t, Shifted(q, s, t), NEW k
  PROVE  /\ ToUncache(t, k) => ToUncache(q, k) \/ ToUncache(s, k)
         /\ ToDrop(q, k) => ToDrop(t, k) \/ Drops(q[1], k)
         /\ ToDrop(s, k) => ToDrop(t, k)
<1>1. ASSUME ToUncache(t, k) PROVE ToUncache(q, k) \/ ToUncache(s, k)
  <2>1. PICK i \in 1 .. Len(t) : Uncaches(t[i], k)
    BY <1>1 DEF ToUncache
  <2>. QED  BY <2>1, ShiftedFrom DEF ToUncache
<1>2. ASSUME NEW i \in 2 .. Len(q) PROVE \E m \in 1 .. Len(t) : t[m] = q[i]
  <2> DEFINE m == i + Len(s) - 1
  <2>1. m \in 1 .. Len(t) /\ t[m] = q[i]
    BY DEF Shifted
  <2> HIDE DEF m
  <2>. QED  BY <2>1
<1>3. \A i \in 1 .. Len(q) : i = 1 \/ i \in 2 .. Len(q)
  OBVIOUS
<1>4. ASSUME ToDrop(q, k) PROVE ToDrop(t, k) \/ Drops(q[1], k)
  <2>1. PICK i \in 1 .. Len(q) : Drops(q[i], k)
    BY <1>4 DEF ToDrop
  <2>. QED  BY <1>2, <1>3, <2>1 DEF ToDrop
<1>5. ASSUME ToDrop(s, k) PROVE ToDrop(t, k)
  <2>1. PICK i \in 1 .. Len(s) : Drops(s[i], k)
    BY <1>5 DEF ToDrop
  <2>2. i \in 1 .. Len(t) /\ t[i] = s[i]
    BY DEF Shifted
  <2>. QED  BY <2>1, <2>2 DEF ToDrop
<1>. QED  BY <1>1, <1>4, <1>5

\* Files still go after their link when a step is replaced.
LEMMA ShiftEnds ==
  ASSUME NEW q \in Seq(StepSet), NEW s \in Seq(StepSet), NEW t, Shifted(q, s, t), NEW k, EndsOK(q, k), EndsOK(s, k)
  PROVE  EndsOK(t, k)
<1>1. Len(q) \in Nat \ {0} /\ Len(s) \in Nat /\ Len(t) = Len(s) + Len(q) - 1
  BY DEF Shifted
<1>2. ASSUME NEW i \in 1 .. Len(t), Uncaching(t[i], k) PROVE \E j \in i + 1 .. Len(t) : Dropping(t[j], k)
  <2>1. CASE i \in 1 .. Len(s) /\ t[i] = s[i]
    <3>1. PICK j \in i + 1 .. Len(s) : Dropping(s[j], k)
      BY <1>2, <2>1 DEF EndsOK, Ends
    <3>2. j \in 1 .. Len(s) /\ j \in i + 1 .. Len(t)
      BY <1>1, <2>1
    <3>3. t[j] = s[j]
      BY <3>2 DEF Shifted
    <3>. QED  BY <3>1, <3>2, <3>3
  <2>2. ASSUME NEW g \in 2 .. Len(q), g \in 1 .. Len(q), g = i - Len(s) + 1, t[i] = q[g]
        PROVE  \E j \in i + 1 .. Len(t) : Dropping(t[j], k)
    <3>1. PICK j \in g + 1 .. Len(q) : Dropping(q[j], k)
      BY <1>2, <2>2 DEF EndsOK, Ends
    <3>2. j \in 2 .. Len(q)
      BY <2>2
    <3> DEFINE m == j + Len(s) - 1
    <3>3. m \in 1 .. Len(t) /\ t[m] = q[j]
      BY <3>2 DEF Shifted
    <3>4. m \in i + 1 .. Len(t)
      BY <1>1, <2>2, <3>2, <3>3
    <3> HIDE DEF m
    <3>. QED  BY <3>1, <3>3, <3>4
  <2>. QED  BY <2>1, <2>2, ShiftedFrom
<1>3. ASSUME NEW i \in 1 .. Len(t), NEW r \in t[i].rounds PROVE Ends(r, k)
  <2>1. /\ \A h \in 1 .. Len(q) : \A x \in q[h].rounds : Ends(x, k)
        /\ \A h \in 1 .. Len(s) : \A x \in s[h].rounds : Ends(x, k)
    BY DEF EndsOK
  <2>. QED  BY <1>3, <2>1, ShiftedFrom
<1>4. Ends(t, k)
  BY <1>2 DEF Ends
<1>. QED  BY <1>3, <1>4 DEF EndsOK

\* And when the first steps are gone.
LEMMA DropEnds ==
  ASSUME NEW q, NEW n, NEW t, Dropped(q, n, t), NEW k, EndsOK(q, k)
  PROVE  EndsOK(t, k)
<1>1. n \in 1 .. Len(q) /\ Len(q) \in Nat \ {0} /\ Len(t) = Len(q) - n
  BY DEF Dropped
<1>2. ASSUME NEW i \in 1 .. Len(t), Uncaching(t[i], k) PROVE \E j \in i + 1 .. Len(t) : Dropping(t[j], k)
  <2>1. PICK g \in 1 .. Len(q) : g = i + n /\ t[i] = q[g]
    BY DroppedFrom
  <2>2. PICK j \in g + 1 .. Len(q) : Dropping(q[j], k)
    BY <1>2, <2>1 DEF EndsOK, Ends
  <2> DEFINE m == j - n
  <2>3. j \in 1 .. Len(q) /\ j > n /\ m \in i + 1 .. Len(t)
    BY <1>1, <2>1, <2>2
  <2>4. t[m] = q[j]
    BY <2>3 DEF Dropped
  <2> HIDE DEF m
  <2>. QED  BY <2>2, <2>3, <2>4
<1>3. ASSUME NEW i \in 1 .. Len(t), NEW r \in t[i].rounds PROVE Ends(r, k)
  <2>1. PICK g \in 1 .. Len(q) : g = i + n /\ t[i] = q[g]
    BY DroppedFrom
  <2>. QED  BY <1>3, <2>1 DEF EndsOK
<1>4. Ends(t, k)
  BY <1>2 DEF Ends
<1>. QED  BY <1>3, <1>4 DEF EndsOK

\* Where no link is removed, none is removed before its files.
LEMMA NoneIsUncached ==
  ASSUME NEW q, NEW k, ~ToUncache(q, k)
  PROVE  EndsOK(q, k)
  BY DEF ToUncache, Uncaches, EndsOK, Ends

\* Steps that remove no link.
LEMMA NoLinkGoes ==
  ASSUME NEW q, \A i \in 1 .. Len(q) : ~Has(q[i], {"uncache"}), NEW k
  PROVE  ~ToUncache(q, k)
  BY DEF ToUncache, Uncaches, Uncaching, Has

\* When applications are entered, every elm.json is written.
LEMMA TracksAfterWriting ==
  ASSUME NEW q \in Seq(StepSet), 1 \in 1 .. Len(q), WritesOK(q), NEW k, NEW a, Tracks(q[1], k, a), NEW b
  PROVE  ~ToWrite(q, b)
<1>1. q[1] \in StepSet
  OBVIOUS
<1>2. q[1].op \notin FileOps /\ q[1].op # "elm_json"
  <2>1. q[1].op \in {"track", "track_if", "loop"}
    <3>1. CASE Enters(q[1], k, a)
      BY <3>1 DEF Enters
    <3>2. CASE ~Enters(q[1], k, a)
      <4>1. q[1].rounds # {}
        BY <3>2 DEF Tracks
      <4>. QED  BY <1>1, <4>1, StepType
    <3>. QED  BY <3>1, <3>2
  <2>. QED  BY <2>1 DEF FileOps
<1>3. ASSUME NEW i \in 1 .. Len(q), q[i].op = "elm_json" PROVE FALSE
  <2>1. i # 1
    BY <1>2, <1>3
  <2>2. 1 \in 1 .. i - 1
    BY <2>1
  <2>3. \A h \in 1 .. i - 1 : q[h].op \in FileOps
    BY <1>3 DEF WritesOK
  <2>. QED  BY <1>2, <2>2, <2>3
<1>. QED  BY <1>3 DEF ToWrite, Writing

\* An application goes on to follow when a step is replaced that writes nothing for it.
LEMMA FollowsOn ==
  ASSUME NEW s \in Seq(StepSet), Shifted(todo, s, todo'), source' = source, NEW a \in Apps, NEW k \in Keys,
         FollowsOK(todo, a, k), WritesOK(todo), app'[a] = app[a], ~Writing(todo[1], a), ~ToWrite(s, a),
         a \in tracked'[k] => a \in tracked[k] \/ Tracks(todo[1], k, a),
         ToTrack(s, k, a) => Tracks(todo[1], k, a),
         link[k] = "source" \/ Links(todo[1], k) => link'[k] = "source" \/ ToLink(todo', k),
         Refreshes(todo[1], k[1], a) => ToRefresh(s, k[1], a) \/ Serves(app[a], k),
         LeavesOK(todo[1], s, k), Dropping(todo[1], k) => a \notin tracked'[k]
  PROVE  FollowsOK(todo, a, k)'
<1>1. todo \in Seq(StepSet) /\ 1 \in 1 .. Len(todo)
  BY DEF Shifted
<1>2. /\ ToTrack(todo', k, a) => ToTrack(todo, k, a) \/ ToTrack(s, k, a)
      /\ ToLink(todo, k) => ToLink(todo', k) \/ Links(todo[1], k)
      /\ ToWrite(todo, a) => ToWrite(todo', a)
  BY <1>1, ShiftToDo
<1>3. Tracks(todo[1], k, a) => ToTrack(todo, k, a)
  BY <1>1 DEF ToTrack
<1>4. ToTrack(todo', k, a) => ToTrack(todo, k, a)
  BY <1>2, <1>3
<1>5. Linkable(todo, k) => Linkable(todo, k)'
  BY <1>2 DEF Linkable
<1>6. Serves(app[a], k) => Serves(app[a], k)'
  BY DEF Serves
<1>7. Tracks(todo[1], k, a) => ~ToWrite(todo, a)
  BY <1>1, TracksAfterWriting
<1>8. ~WritesFirst(todo, a)
  BY DEF WritesFirst
<1>9. NowOK(todo, a, k)'
  <2>1. ASSUME k \in ListedKeys(app[a]), a \in tracked'[k], ~ToDrop(todo', k)
        PROVE  Linkable(todo, k)' /\ (Serves(app[a], k)' \/ ToRefresh(todo', k[1], a))
    <3>1. CASE a \in tracked[k]
      <4>0. ~ToDrop(todo, k)
        <5>1. /\ ToDrop(todo, k) => ToDrop(todo', k) \/ Drops(todo[1], k)
              /\ ToDrop(s, k) => ToDrop(todo', k)
          BY <1>1, ShiftToDrop
        <5>. QED  BY <2>1, <5>1 DEF LeavesOK
      <4>1. Linkable(todo, k) /\ (Serves(app[a], k) \/ ToRefresh(todo, k[1], a))
        BY <1>8, <2>1, <3>1, <4>0 DEF FollowsOK, NowOK
      <4>2. ToRefresh(todo, k[1], a) => ToRefresh(todo', k[1], a) \/ Refreshes(todo[1], k[1], a)
        BY <1>1, ShiftToRefresh
      <4>3. ToRefresh(s, k[1], a) => ToRefresh(todo', k[1], a)
        BY <1>1, ShiftToRefresh
      <4>. QED  BY <1>5, <1>6, <4>1, <4>2, <4>3
    <3>2. CASE Tracks(todo[1], k, a)
      <4>1. Linkable(todo, k) /\ Serves(app[a], k)
        BY <1>3, <1>7, <2>1, <3>2 DEF FollowsOK, SoonOK
      <4>. QED  BY <1>5, <1>6, <4>1
    <3>. QED  BY <2>1, <3>1, <3>2
  <2>. QED  BY <2>1 DEF NowOK
<1>10. ThenOK(todo, a, k)'
  <2>1. ASSUME NEW i \in 1 .. Len(todo'), Writing(todo'[i], a), k \in ListedKeys(todo'[i].j),
               a \in tracked'[k] \/ ToTrack(todo', k, a)
        PROVE  Linkable(todo, k)' /\ Serves(todo[i].j, k)'
    <3>1. PICK g \in 2 .. Len(todo) : g \in 1 .. Len(todo) /\ todo'[i] = todo[g]
      BY <1>1, <2>1, ShiftedFrom DEF ToWrite
    <3>2. a \in tracked[k] \/ ToTrack(todo, k, a)
      BY <1>3, <1>4, <2>1
    <3>3. Writing(todo[g], a) /\ k \in ListedKeys(todo[g].j)
      BY <2>1, <3>1
    <3>4. Linkable(todo, k) /\ Serves(todo[g].j, k)
      BY <3>1, <3>2, <3>3 DEF FollowsOK, ThenOK
    <3>. QED  BY <1>5, <3>1, <3>4 DEF Serves
  <2>. QED  BY <2>1 DEF ThenOK
<1>11. SoonOK(todo, a, k)'
  BY <1>2, <1>4, <1>5, <1>6 DEF FollowsOK, SoonOK
<1>12. ToUncache(todo', k) => ToUncache(todo, k)
  <2>1. ToUncache(todo', k) => ToUncache(todo, k) \/ ToUncache(s, k)
    BY <1>1, ShiftToDrop
  <2>2. Uncaches(todo[1], k) => ToUncache(todo, k)
    BY <1>1 DEF ToUncache
  <2>. QED  BY <2>1, <2>2 DEF LeavesOK
<1>13. ASSUME a \in tracked'[k] PROVE EndsOK(todo', k)
  <2>1. CASE a \in tracked[k]
    <3>1. EndsOK(todo, k)
      BY <2>1 DEF FollowsOK, GoneOK
    <3>2. EndsOK(s, k)
      BY <1>1, <3>1 DEF LeavesOK, EndsOK
    <3>. QED  BY <1>1, <3>1, <3>2, ShiftEnds
  <2>2. CASE Tracks(todo[1], k, a)
    <3>1. ~ToUncache(todo', k)
      BY <1>3, <1>12, <2>2 DEF FollowsOK, GoneOK
    <3>. QED  BY <3>1, NoneIsUncached
  <2>. QED  BY <1>13, <2>1, <2>2
<1>14. GoneOK(todo, a, k)'
  BY <1>4, <1>12, <1>13 DEF FollowsOK, GoneOK
<1>. QED  BY <1>9, <1>10, <1>11, <1>14 DEF FollowsOK

\* After a step that is for no version no elm.json is written.
LEMMA NoneIsWritten ==
  ASSUME NEW q \in Seq(StepSet), NEW s \in Seq(StepSet), NEW t, Shifted(q, s, t), Len(s) = 0,
         WritesOK(q), q[1].op \notin FileOps
  PROVE  \A i \in 1 .. Len(t) : t[i].op # "elm_json"
<1>1. ASSUME NEW g \in 2 .. Len(q), g \in 1 .. Len(q), q[g].op = "elm_json" PROVE FALSE
  <2>1. 1 \in 1 .. g - 1
    BY <1>1
  <2>2. \A h \in 1 .. g - 1 : q[h].op \in FileOps
    BY <1>1 DEF WritesOK
  <2>. QED  BY <2>1, <2>2
<1>2. ASSUME NEW i \in 1 .. Len(t) PROVE t[i].op # "elm_json"
  <2> DEFINE g == i - Len(s) + 1
  <2>1. i > Len(s)
    OBVIOUS
  <2>2. g \in 2 .. Len(q) /\ t[i] = q[g]
    BY <2>1 DEF Shifted
  <2> HIDE DEF g
  <2>3. g \in 1 .. Len(q)
    BY <2>2
  <2>. QED  BY <1>1, <2>2, <2>3
<1>. QED  BY <1>2

-----------------------------------------------------------------------------
(* Steps that follow *)

\* Steps come in the place of the first, and no elm.json is written.
LEMMA FollowGoesOn ==
  ASSUME FollowInv, NEW s \in Seq(StepSet), Shifted(todo, s, todo'), ShiftsOK(todo[1], s),
         source' = source, app' = app, excused \subseteq excused', todo[1].op # "elm_json",
         \A i \in 1 .. Len(s) : s[i].op # "elm_json",
         \A a \in Apps, k \in Keys : <<a>> \notin excused' /\ k \notin excused' =>
           /\ a \in tracked'[k] => a \in tracked[k] \/ Tracks(todo[1], k, a)
           /\ ToTrack(s, k, a) => Tracks(todo[1], k, a)
           /\ link[k] = "source" \/ Links(todo[1], k) => link'[k] = "source" \/ ToLink(todo', k)
           /\ Refreshes(todo[1], k[1], a) => ToRefresh(s, k[1], a) \/ Serves(app[a], k)
           /\ Dropping(todo[1], k) => a \notin tracked'[k]
  PROVE  FollowInv'
<1>1. todo \in Seq(StepSet) /\ todo' \in Seq(StepSet)
  BY DEF Shifted
<1>2. ShapeOK(todo')
  BY <1>1, ShiftShape DEF FollowInv
<1>3. ASSUME NEW a \in Apps, NEW k \in Keys, <<a>> \notin excused', k \notin excused'
      PROVE  FollowsOK(todo, a, k)'
  <2>1. FollowsOK(todo, a, k) /\ WritesOK(todo)
    BY <1>3 DEF FollowInv, ShapeOK
  <2>2. app'[a] = app[a] /\ ~Writing(todo[1], a) /\ ~ToWrite(s, a)
    BY DEF Writing, ToWrite
  <2>3. /\ a \in tracked'[k] => a \in tracked[k] \/ Tracks(todo[1], k, a)
        /\ ToTrack(s, k, a) => Tracks(todo[1], k, a)
        /\ link[k] = "source" \/ Links(todo[1], k) => link'[k] = "source" \/ ToLink(todo', k)
        /\ Refreshes(todo[1], k[1], a) => ToRefresh(s, k[1], a) \/ Serves(app[a], k)
        /\ Dropping(todo[1], k) => a \notin tracked'[k]
    BY <1>3
  <2>4. LeavesOK(todo[1], s, k)
    BY DEF ShiftsOK
  <2>. QED  BY <2>1, <2>2, <2>3, <2>4, FollowsOn
<1>. QED  BY <1>2, <1>3 DEF FollowInv

\* A step that is done follows, when what it enters was to be entered.
LEMMA FollowDone ==
  ASSUME IInv, FollowInv, NEW op, Doing(op), Done, op \notin {"elm_json", "loop"},
         source' = source, app' = app, excused \subseteq excused',
         \A k \in Keys, a \in Apps :
           a \in tracked'[k] => a \in tracked[k] \/ (op = "track" /\ Step.k = k /\ Step.a = a),
         \A k \in Keys : link[k] = "source" \/ (op = "symlink" /\ Step.k = k) =>
                           link'[k] = "source" \/ (op = "unlink" /\ Step.k = k),
         op = "refresh" => \A k \in Keys : k[1] = Step.k[1] /\ <<Step.a>> \notin excused' =>
                             Serves(app[Step.a], k),
         op = "drop" => \A k \in Keys : Step.k = k => tracked'[k] = {}
  PROVE  FollowInv'
<1>1. /\ todo \in Seq(StepSet) /\ todo # <<>> /\ todo[1] = Step /\ Step.op = op /\ 1 \in 1 .. Len(todo)
      /\ Step.rounds = {}
  BY FirstStep DEF IInv
<1> DEFINE e == <<>>
<1>2. Shifted(todo, e, todo') /\ e \in Seq(StepSet) /\ Len(e) = 0 /\ ShiftsOK(todo[1], e)
  BY <1>1, DoneShifts, NoSteps, NothingShifts DEF Done
<1> HIDE DEF e
<1>3. \A i \in 1 .. Len(e) : e[i].op # "elm_json"
  BY <1>2
<1>4. ASSUME NEW a \in Apps, NEW k \in Keys, <<a>> \notin excused', k \notin excused'
      PROVE  /\ a \in tracked'[k] => a \in tracked[k] \/ Tracks(todo[1], k, a)
             /\ ToTrack(e, k, a) => Tracks(todo[1], k, a)
             /\ link[k] = "source" \/ Links(todo[1], k) => link'[k] = "source" \/ ToLink(todo', k)
             /\ Refreshes(todo[1], k[1], a) => ToRefresh(e, k[1], a) \/ Serves(app[a], k)
             /\ Dropping(todo[1], k) => a \notin tracked'[k]
  <2>1. ~ToTrack(e, k, a)
    BY <1>2 DEF ToTrack
  <2>2. a \in tracked'[k] => a \in tracked[k] \/ Tracks(todo[1], k, a)
    BY <1>1 DEF Tracks, Enters
  <2>3. ASSUME op = "unlink", Step.k = k PROVE ToLink(todo', k)
    <3>1. Relinks(todo, k)
      BY DEF FollowInv, ShapeOK, RelinksOK
    <3>2. PICK j \in 1 + 1 .. Len(todo) : todo[j].op = "symlink" /\ todo[j].k = k
      BY <1>1, <2>3, <3>1 DEF Relinks
    <3>3. j \in 1 .. Len(todo)
      OBVIOUS
    <3>4. ToLink(todo, k)
      BY <3>2, <3>3 DEF ToLink, Links
    <3>5. ~Links(todo[1], k)
      BY <1>1, <2>3 DEF Links
    <3>. QED  BY <1>1, <1>2, <3>4, <3>5, ShiftToDo
  <2>4. link[k] = "source" \/ Links(todo[1], k) => link'[k] = "source" \/ ToLink(todo', k)
    BY <1>1, <2>3 DEF Links
  <2>5. ASSUME Refreshes(todo[1], k[1], a) PROVE Serves(app[a], k)
    <3>1. op = "refresh" /\ k[1] = Step.k[1] /\ Step.a = a
      BY <1>1, <2>5 DEF Refreshes, Looks
    <3>. QED  BY <1>4, <3>1
  <2>6. Dropping(todo[1], k) => a \notin tracked'[k]
    BY <1>1 DEF Dropping
  <2>. QED  BY <2>1, <2>2, <2>4, <2>5, <2>6
<1>. QED  BY <1>1, <1>2, <1>3, <1>4, FollowGoesOn

\* Steps that write one file.
LEMMA FilesStepsFollow ==
  ASSUME IInv, FollowInv,
         \/ unlink_package \/ create_package_symlink \/ open_source_path \/ save_local_dev_source_path
         \/ register_local_dev_v2_text_registry \/ ensure_local_dev_in_registry_dat
         \/ register_dependency_tracking \/ drop_tracking_dir \/ drop_all_tracking
         \/ remove_local_dev_from_registry_dat \/ remove_local_dev_from_text_registry \/ untrack
         \/ reinsert_local_dev \/ builder_clean_local_dev_artifacts \/ compiler_make
  PROVE  FollowInv'
<1>1. link \in [Keys -> {"none", "copy", "source"}] /\ tracked \in [Keys -> SUBSET Apps]
  BY DEF IInv, FilesOK
<1> DEFINE O == {"open_path", "path", "text", "dat", "undat", "untext", "reinsert", "clean", "build"}
<1>2. ASSUME NEW op \in O, Doing(op), Done, UNCHANGED <<source, link, tracked, app, excused>>
      PROVE  FollowInv'
  <2>1. op \notin {"elm_json", "loop", "unlink", "symlink", "track", "refresh", "drop"}
    OBVIOUS
  <2>. QED  BY <1>2, <2>1, FollowDone
<1>3. CASE \/ open_source_path \/ save_local_dev_source_path
           \/ register_local_dev_v2_text_registry \/ ensure_local_dev_in_registry_dat
           \/ remove_local_dev_from_registry_dat \/ remove_local_dev_from_text_registry
           \/ reinsert_local_dev \/ builder_clean_local_dev_artifacts \/ compiler_make
  <2>1. /\ \E op \in O : Doing(op)
        /\ Done /\ UNCHANGED <<source, link, tracked, app, excused>>
    BY <1>3 DEF open_source_path, save_local_dev_source_path, register_local_dev_v2_text_registry,
       ensure_local_dev_in_registry_dat, remove_local_dev_from_registry_dat,
       remove_local_dev_from_text_registry, reinsert_local_dev, builder_clean_local_dev_artifacts,
       compiler_make, Keep
  <2>2. PICK op \in O : Doing(op)
    BY <2>1
  <2> HIDE DEF O
  <2>. QED  BY <1>2, <2>1, <2>2
<1>4. CASE unlink_package
  <2>1. /\ Doing("unlink") /\ Done /\ UNCHANGED <<source, tracked, app, excused>>
        /\ link' = [link EXCEPT ![Step.k] = "none"]
    BY <1>4 DEF unlink_package, Keep
  <2>2. \A k \in Keys : k # Step.k => link'[k] = link[k]
    BY <1>1, <2>1
  <2>. QED  BY <2>1, <2>2, FollowDone
<1>5. CASE create_package_symlink
  <2>1. /\ Doing("symlink") /\ Done /\ UNCHANGED <<source, tracked, app, excused>>
        /\ link' = [link EXCEPT ![Step.k] = "source"]
    BY <1>5 DEF create_package_symlink, Keep
  <2>2. \A k \in Keys : link'[k] = link[k] \/ link'[k] = "source"
    BY <1>1, <2>1
  <2>3. \A k \in Keys : Step.k = k => link'[k] = "source"
    BY <1>1, <2>1
  <2>. QED  BY <2>1, <2>2, <2>3, FollowDone
<1>6. CASE register_dependency_tracking
  <2>1. /\ Doing("track") /\ Done /\ UNCHANGED <<source, link, app, excused>>
        /\ tracked' = [tracked EXCEPT ![Step.k] = @ \cup {Step.a}]
    BY <1>6 DEF register_dependency_tracking, Keep
  <2>2. \A k \in Keys, a \in Apps : a \in tracked'[k] => a \in tracked[k] \/ (Step.k = k /\ Step.a = a)
    BY <1>1, <2>1
  <2>. QED  BY <2>1, <2>2, FollowDone
<1>7. CASE drop_tracking_dir
  <2>1. /\ Doing("drop") /\ Done /\ UNCHANGED <<source, link, app, excused>>
        /\ tracked' = [tracked EXCEPT ![Step.k] = {}]
    BY <1>7 DEF drop_tracking_dir, Keep
  <2>2. \A k \in Keys, a \in Apps : a \in tracked'[k] => a \in tracked[k]
    BY <1>1, <2>1
  <2>3. \A k \in Keys : Step.k = k => tracked'[k] = {}
    BY <1>1, <2>1
  <2>. QED  BY <2>1, <2>2, <2>3, FollowDone
<1>8. CASE drop_all_tracking
  <2>1. /\ Doing("drop_all") /\ Done /\ UNCHANGED <<source, link, app, excused>>
        /\ tracked' = [k \in Keys |-> {}]
    BY <1>8 DEF drop_all_tracking, Keep
  <2>2. \A k \in Keys, a \in Apps : a \notin tracked'[k]
    BY <2>1
  <2>. QED  BY <2>1, <2>2, FollowDone
<1>9. CASE untrack
  <2>1. /\ Doing("untrack") /\ Done /\ UNCHANGED <<source, link, app, excused>>
        /\ tracked' = [tracked EXCEPT ![Step.k] = @ \ {Step.a}]
    BY <1>9 DEF untrack, Keep
  <2>2. \A k \in Keys, a \in Apps : a \in tracked'[k] => a \in tracked[k]
    BY <1>1, <2>1
  <2>. QED  BY <2>1, <2>2, FollowDone
<1>. QED  BY <1>3, <1>4, <1>5, <1>6, <1>7, <1>8, <1>9

\* The steps of wrap kit, but for the link it removes.
LEMMA KitStepsFollow ==
  ASSUME IInv, FollowInv,
         \/ download_tool_binary \/ drop_tool_symlink \/ symlink_tool \/ install_one_package
         \/ kit_store_kitfile \/ unlink_current \/ symlink_current \/ report
  PROVE  FollowInv'
<1> DEFINE O == {"download_tool", "drop_tool", "link_tool", "install_package", "store", "demote",
                 "promote", "report"}
<1>1. (\E op \in O : Doing(op)) /\ Done /\ UNCHANGED <<source, link, tracked, app, excused>>
  BY DEF download_tool_binary, drop_tool_symlink, symlink_tool, install_one_package,
         kit_store_kitfile, unlink_current, symlink_current, report, KitKeep
<1>2. ASSUME NEW op \in O, Doing(op) PROVE FollowInv'
  <2>1. op \notin {"elm_json", "loop", "unlink", "symlink", "track", "refresh", "drop"}
    OBVIOUS
  <2>. QED  BY <1>1, <1>2, <2>1, FollowDone
<1> HIDE DEF O
<1>. QED  BY <1>1, <1>2

\* A link goes before the tracking files do.
LEMMA LinkGoes ==
  ASSUME IInv, FollowInv, kit_remove_cache_symlink
  PROVE  FollowInv'
<1>1. /\ Doing("uncache") /\ Done /\ source' = source /\ tracked' = tracked /\ app' = app
      /\ excused' = excused /\ link' = [link EXCEPT ![Step.k] = IF @ = "source" THEN "none" ELSE @]
  BY DEF kit_remove_cache_symlink, Keep
<1>2. /\ todo \in Seq(StepSet) /\ todo # <<>> /\ todo[1] = Step /\ Step.op = "uncache"
      /\ 1 \in 1 .. Len(todo) /\ Step.rounds = {}
  BY <1>1, FirstStep DEF IInv
<1>3. \A k \in Keys : k # Step.k => link'[k] = link[k]
  <2>1. link \in [Keys -> {"none", "copy", "source"}]
    BY DEF IInv, FilesOK
  <2>. QED  BY <1>1, <2>1
<1> DEFINE e == <<>>
<1>4. Shifted(todo, e, todo') /\ e \in Seq(StepSet) /\ Len(e) = 0 /\ ShiftsOK(todo[1], e)
  BY <1>1, <1>2, DoneShifts, NoSteps, NothingShifts DEF Done
<1> HIDE DEF e
<1>5. ShapeOK(todo')
  BY <1>4, <1>2, ShiftShape DEF FollowInv
<1>6. \A i \in 1 .. Len(todo') : todo'[i].op # "elm_json"
  <2>1. WritesOK(todo) /\ todo[1].op \notin FileOps
    BY <1>2 DEF FollowInv, ShapeOK, FileOps
  <2>. QED  BY <1>2, <1>4, <2>1, NoneIsWritten
<1>7. ASSUME NEW a \in Apps, NEW k \in Keys, <<a>> \notin excused', k \notin excused'
      PROVE  FollowsOK(todo, a, k)'
  <2>1. FollowsOK(todo, a, k) /\ WritesOK(todo)
    BY <1>1, <1>7 DEF FollowInv, ShapeOK
  <2>2. CASE k = Step.k
    <3>1. ToUncache(todo, k)
      BY <1>2, <2>2 DEF ToUncache, Uncaches, Uncaching
    <3>2. ~ToTrack(todo', k, a)
      <4>1. ~ToTrack(todo, k, a) /\ ~ToTrack(e, k, a)
        BY <1>4, <2>1, <3>1 DEF FollowsOK, GoneOK, ToTrack
      <4>2. ToTrack(todo', k, a) => ToTrack(todo, k, a) \/ ToTrack(e, k, a)
        BY <1>2, <1>4, ShiftToDo
      <4>. QED  BY <4>1, <4>2
    <3>3. ASSUME a \in tracked[k] PROVE EndsOK(todo', k) /\ ToDrop(todo', k)
      <4>1. EndsOK(todo, k)
        BY <2>1, <3>3 DEF FollowsOK, GoneOK
      <4>2. EndsOK(e, k)
        BY <1>4 DEF EndsOK, Ends
      <4>3. EndsOK(todo', k)
        BY <1>2, <1>4, <4>1, <4>2, ShiftEnds
      <4>4. PICK j \in 1 + 1 .. Len(todo) : Dropping(todo[j], k)
        BY <1>2, <2>2, <4>1 DEF EndsOK, Ends, Uncaching
      <4>5. j \in 1 .. Len(todo)
        OBVIOUS
      <4>6. ToDrop(todo, k)
        BY <4>4, <4>5 DEF ToDrop, Drops
      <4>7. ~Drops(todo[1], k)
        BY <1>2 DEF Drops, Dropping
      <4>8. ToDrop(todo, k) => ToDrop(todo', k) \/ Drops(todo[1], k)
        BY <1>2, <1>4, ShiftToDrop
      <4>. QED  BY <4>3, <4>6, <4>7, <4>8
    <3>4. NowOK(todo, a, k)'
      BY <1>1, <3>3 DEF NowOK
    <3>5. SoonOK(todo, a, k)'
      BY <3>2 DEF SoonOK
    <3>6. ThenOK(todo, a, k)'
      BY <1>6 DEF ThenOK, Writing
    <3>7. GoneOK(todo, a, k)'
      BY <1>1, <3>2, <3>3 DEF GoneOK
    <3>. QED  BY <3>4, <3>5, <3>6, <3>7 DEF FollowsOK
  <2>3. CASE k # Step.k
    <3>1. /\ ~Links(todo[1], k) /\ ~Refreshes(todo[1], k[1], a) /\ ~ToTrack(e, k, a) /\ ~ToWrite(e, a)
          /\ ~Writing(todo[1], a) /\ ~Dropping(todo[1], k)
      BY <1>2, <1>4 DEF Links, Refreshes, Looks, ToTrack, ToWrite, Writing, Dropping
    <3>2. app'[a] = app[a] /\ tracked'[k] = tracked[k] /\ link'[k] = link[k]
      BY <1>1, <1>3, <2>3
    <3>3. LeavesOK(todo[1], e, k)
      BY <1>4 DEF ShiftsOK
    <3>. QED  BY <1>1, <1>4, <2>1, <3>1, <3>2, <3>3, FollowsOn
  <2>. QED  BY <2>2, <2>3
<1>. QED  BY <1>5, <1>7 DEF FollowInv

\* More steps come in the place of one, and none that enters or writes what was not to be.
LEMMA FollowMore ==
  ASSUME IInv, FollowInv, NEW op, Doing(op), op \notin {"elm_json", "symlink", "drop"},
         UNCHANGED <<source, link, tracked, app, excused>>, NEW s \in Seq(StepSet), Then(s),
         ShiftsOK(Step, s), \A i \in 1 .. Len(s) : s[i].op # "elm_json",
         \A a \in Apps, k \in Keys : /\ ToTrack(s, k, a) => Tracks(Step, k, a)
                                     /\ Refreshes(Step, k[1], a) => ToRefresh(s, k[1], a)
  PROVE  FollowInv'
<1>1. todo \in Seq(StepSet) /\ todo # <<>> /\ todo[1] = Step /\ Step.op = op
  BY FirstStep DEF IInv
<1>2. Shifted(todo, s, todo')
  BY <1>1, ThenShifts DEF Then
<1>3. ASSUME NEW a \in Apps, NEW k \in Keys
      PROVE  /\ a \in tracked'[k] => a \in tracked[k] \/ Tracks(todo[1], k, a)
             /\ ToTrack(s, k, a) => Tracks(todo[1], k, a)
             /\ link[k] = "source" \/ Links(todo[1], k) => link'[k] = "source" \/ ToLink(todo', k)
             /\ Refreshes(todo[1], k[1], a) => ToRefresh(s, k[1], a) \/ Serves(app[a], k)
             /\ Dropping(todo[1], k) => a \notin tracked'[k]
  BY <1>1 DEF Links, Dropping
<1>. QED  BY <1>1, <1>2, <1>3, FollowGoesOn

\* Steps that remove no link, in the place of one that is no loop.
LEMMA NoLinkLeaves ==
  ASSUME NEW st, st.rounds = {}, NEW s, \A i \in 1 .. Len(s) : ~Has(s[i], {"uncache"}), NEW k
  PROVE  LeavesOK(st, s, k)
<1>1. ~ToUncache(s, k)
  BY NoLinkGoes
<1>2. EndsOK(s, k)
  BY <1>1, NoneIsUncached
<1>3. Drops(st, k) => Dropping(st, k)
  BY DEF Drops
<1>. QED  BY <1>1, <1>2, <1>3 DEF LeavesOK

\* What may come in the place of a step of a build.
LEMMA BuildShifts ==
  ASSUME NEW s \in Seq(StepSet), NEW st \in StepSet, st.op \in {"fetch", "have", "compile"},
         \A i \in 1 .. Len(s) : ~Has(s[i], FollowOps \cup {"elm_json", "unlink", "symlink", "uncache"})
  PROVE  ShiftsOK(st, s) /\ \A i \in 1 .. Len(s) : s[i].op # "elm_json"
<1>1. \A i \in 1 .. Len(s) : ~Has(s[i], FollowOps) /\ ~Has(s[i], {"elm_json", "unlink", "symlink"}) /\ ~Has(s[i], {"uncache"})
  BY DEF Has
<1>2. Halts(st) /\ st.op \notin FileOps
  BY DEF Halts, Halting, FileOps
<1>3. WritesOK(s) /\ \A i \in 1 .. Len(s) : s[i].op # "elm_json"
  BY <1>1 DEF WritesOK, Has
<1>4. HaltsOK(s)
  <2>1. \A j \in 1 .. Len(s) : ~Has(s[j], {"symlink"})
    BY <1>1 DEF Has
  <2>2. \A i \in 1 .. Len(s) : \A j \in i .. Len(s) : j \in 1 .. Len(s)
    OBVIOUS
  <2>. QED  BY <2>1, <2>2 DEF HaltsOK
<1>5. RelinksOK(s)
  <2>1. \A i \in 1 .. Len(s) : s[i].op # "unlink" /\ \A r \in s[i].rounds : \A p \in 1 .. Len(r) : r[p].op # "unlink"
    BY <1>1 DEF Has
  <2>. QED  BY <2>1 DEF RelinksOK, Relinks
<1>6. \A o \in FollowOps : ~FollowStep(st, o)
  BY DEF FollowStep, FollowOps
<1>7. st.rounds = {} /\ st.op # "drop"
  BY StepType
<1>8. ASSUME NEW k \in Keys PROVE LeavesOK(st, s, k)
  BY <1>1, <1>7, NoLinkLeaves
<1>. QED  BY <1>1, <1>2, <1>3, <1>4, <1>5, <1>6, <1>8 DEF ShiftsOK

\* A loop over versions has steps of one kind.
LEMMA EachHas ==
  ASSUME NEW op, NEW S, NEW O, op \notin O, "loop" \notin O
  PROVE  ~Has(Each(op, S), O)
<1>1. Each(op, S).op = "loop" /\ Each(op, S).rounds = {<<Do(op, k)>> : k \in S}
  BY DEF Each, Loop, Made
<1>2. ASSUME NEW r \in Each(op, S).rounds, NEW p \in 1 .. Len(r) PROVE r[p].op = op
  <2>1. PICK k \in S : r = <<Do(op, k)>>
    BY <1>1, <1>2
  <2> DEFINE d == Do(op, k)
  <2>2. d.op = op
    BY DEF Do, Made
  <2>3. r = <<d>>
    BY <2>1
  <2> HIDE DEF d
  <2>4. Len(r) = 1 /\ r[1] = d
    BY <2>3
  <2>5. p = 1
    BY <2>4
  <2>. QED  BY <2>2, <2>4, <2>5
<1>. QED  BY <1>1, <1>2 DEF Has

\* A command that ends where it may.
LEMMA FollowStops ==
  ASSUME IInv, FollowInv, NEW op \in {"fetch", "have", "compile", "ensure"}, Doing(op),
         op = "ensure" => Step.loses = 0, todo' = <<>>, UNCHANGED <<source, link, tracked, app, excused>>
  PROVE  FollowInv'
<1>1. /\ todo \in Seq(StepSet) /\ todo[1] = Step /\ Step.op = op /\ 1 \in 1 .. Len(todo)
      /\ Step.rounds = {}
  BY FirstStep DEF IInv
<1>2. ShapeOK(todo') /\ Len(todo') = 0
  BY NothingHasShape, EmptySeq
<1>3. Halts(todo[1])
  BY <1>1 DEF Halts, Halting
<1>4. ASSUME NEW k \in Keys PROVE ~ToLink(todo, k)
  <2>1. \A j \in 1 .. Len(todo) : ~Has(todo[j], {"symlink"})
    BY <1>1, <1>3 DEF FollowInv, ShapeOK, HaltsOK
  <2>. QED  BY <2>1 DEF ToLink, Links, Has
<1>5. \A i \in 1 .. Len(todo) : ~Has(todo[i], FollowOps)
  <2>1. ASSUME NEW o \in FollowOps, Following(todo, o) PROVE FALSE
    <3>1. FollowStep(todo[1], o)
      BY <1>1, <2>1 DEF Following
    <3>. QED  BY <1>1, <3>1 DEF FollowStep, FollowOps
  <2>. QED  BY <2>1 DEF FollowInv, ShapeOK, FollowOK
<1>7. \A k \in Keys : ~ToDrop(todo, k)
  <2>0. todo[1].op \in GrowOps
    BY <1>1 DEF GrowOps
  <2>1. QueueOK(todo) /\ Has(todo[1], GrowOps)
    BY <2>0 DEF IInv, Left, QInv, Has
  <2>2. \A j \in 1 .. Len(todo) : ~Has(todo[j], {"drop"})
    BY <1>1, <2>1 DEF QueueOK, Has, DropOps
  <2>. QED  BY <2>2 DEF ToDrop, Drops, Dropping, Has
<1>6. ASSUME NEW a \in Apps, NEW k \in Keys, <<a>> \notin excused', k \notin excused'
      PROVE  FollowsOK(todo, a, k)'
  <2>1. FollowsOK(todo, a, k)
    BY <1>6 DEF FollowInv
  <2>2. ~ToRefresh(todo, k[1], a)
    <3>1. ASSUME NEW i \in 1 .. Len(todo) PROVE ~Refreshes(todo[i], k[1], a)
      BY <1>5 DEF Refreshes, Looks, Has, FollowOps
    <3>. QED  BY <3>1 DEF ToRefresh
  <2>3. ~WritesFirst(todo, a)
    BY <1>1 DEF WritesFirst, Writing
  <2>4. ~ToTrack(todo', k, a)
    BY <1>2 DEF ToTrack
  <2>5. Linkable(todo, k) => Linkable(todo, k)'
    BY <1>4 DEF Linkable
  <2>6. Serves(app[a], k) => Serves(app[a], k)'
    BY DEF Serves
  <2>7. NowOK(todo, a, k)'
    BY <1>7, <2>1, <2>2, <2>3, <2>5, <2>6 DEF FollowsOK, NowOK
  <2>8. ThenOK(todo, a, k)'
    BY <1>2 DEF ThenOK
  <2>9. SoonOK(todo, a, k)'
    BY <2>4 DEF SoonOK
  <2>10. GoneOK(todo, a, k)'
    BY <1>2, <2>4 DEF GoneOK, EndsOK, Ends
  <2>. QED  BY <2>7, <2>8, <2>9, <2>10 DEF FollowsOK
<1>. QED  BY <1>2, <1>6 DEF FollowInv

\* A link is looked at, and made if the version has a source.
LEMMA LinkIsKept ==
  ASSUME IInv, FollowInv, ensure_local_dev_symlink
  PROVE  FollowInv'
<1>1. /\ Doing("ensure") /\ UNCHANGED <<source, link, tracked, app, excused>>
  BY DEF ensure_local_dev_symlink, files
<1>2. Step.k \in Keys /\ Step.loses \in {0, 1} /\ Step.op = "ensure" /\ Step.rounds = {}
  <2>1. Step.k \in Keys
    BY <1>1, StepIsAbout DEF Ops, KeyOps, AppOps, OtherOps
  <2>2. Step \in StepSet /\ Step.op = "ensure" /\ Step.rounds = {}
    BY <1>1, FirstStep DEF IInv
  <2>. QED  BY <2>1, <2>2, StepType DEF Fits
<1> DEFINE a == Losing(3 * Step.loses, Do("unlink", Step.k))
           b == Losing(2 * Step.loses, Do("symlink", Step.k))
           c == Try("dat", Step.k)
<1>3. Done \/ Then(<<a, b, c>>) \/ (Step.loses = 0 /\ todo' = <<>>)
  BY DEF ensure_local_dev_symlink
<1>4. /\ a \in PlainSteps /\ b \in PlainSteps /\ c \in PlainSteps
      /\ a.k = Step.k /\ b.k = Step.k /\ a.op = "unlink" /\ b.op = "symlink" /\ c.op = "dat"
  BY <1>2, RepairSteps
<1> HIDE DEF a, b, c
<1>5. CASE Done
  <2>1. "ensure" \notin {"elm_json", "loop", "unlink", "symlink", "track", "refresh", "drop"}
    OBVIOUS
  <2>. QED  BY <1>1, <1>5, <2>1, FollowDone
<1>6. CASE Step.loses = 0 /\ todo' = <<>>
  BY <1>1, <1>6, FollowStops
<1>7. ASSUME Then(<<a, b, c>>) PROVE FollowInv'
  <2> DEFINE s == <<a, b, c>>
  <2>1. s \in Seq(StepSet) /\ Len(s) = 3 /\ s[1] = a /\ s[2] = b /\ s[3] = c
    BY <1>4, PlainType
  <2>2. Then(s)
    BY <1>7
  <2> HIDE DEF s
  <2>3. \A i \in 1 .. Len(s) : i = 1 \/ i = 2 \/ i = 3
    BY <2>1
  <2>4. /\ \A i \in 1 .. Len(s) : s[i].op \in {"unlink", "symlink", "dat"} /\ s[i].rounds = {}
        /\ \A i \in 1 .. Len(s) : s[i].op = "unlink" => i = 1
    BY <1>4, <2>1, <2>3, PlainType
  <2>5. 2 \in 1 + 1 .. Len(s)
    BY <2>1
  <2>6. WritesOK(s) /\ HaltsOK(s)
    BY <2>4 DEF WritesOK, HaltsOK, Halts, Halting
  <2>7. RelinksOK(s)
    BY <1>4, <2>1, <2>4, <2>5 DEF RelinksOK, Relinks
  <2>8. /\ \A i \in 1 .. Len(s) : ~Halts(s[i]) /\ ~Has(s[i], FollowOps) /\ s[i].op \in FileOps
    BY <2>4 DEF Halts, Halting, Has, FollowOps, FileOps
  <2>9. \A o \in FollowOps : ~FollowStep(Step, o)
    BY <1>2 DEF FollowStep, FollowOps
  <2>14. \A k \in Keys : LeavesOK(Step, s, k)
    <3>1. \A i \in 1 .. Len(s) : ~Has(s[i], {"uncache"})
      BY <2>4 DEF Has
    <3>. QED  BY <1>2, <3>1, NoLinkLeaves
  <2>10. ShiftsOK(Step, s)
    BY <2>6, <2>7, <2>8, <2>9, <2>14 DEF ShiftsOK
  <2>11. ASSUME NEW x \in Apps, NEW k \in Keys
         PROVE  /\ ToTrack(s, k, x) => Tracks(Step, k, x)
                /\ Refreshes(Step, k[1], x) => ToRefresh(s, k[1], x)
    <3>1. ~ToTrack(s, k, x)
      BY <2>4 DEF ToTrack, Tracks, Enters
    <3>2. ~Refreshes(Step, k[1], x)
      BY <1>2 DEF Refreshes, Looks
    <3>. QED  BY <3>1, <3>2
  <2>12. \A i \in 1 .. Len(s) : s[i].op # "elm_json"
    BY <2>4
  <2>13. "ensure" \notin {"elm_json", "symlink", "drop"}
    OBVIOUS
  <2>. QED  BY <1>1, <2>1, <2>2, <2>10, <2>11, <2>12, <2>13, FollowMore
<1>. QED  BY <1>3, <1>5, <1>6, <1>7

\* A version is entered if it is registered.
LEMMA VersionIsEntered ==
  ASSUME IInv, FollowInv, register_local_dev_tracking_if_needed
  PROVE  FollowInv'
<1> DEFINE x == [Step EXCEPT !.op = "track"]
<1>1. Doing("track_if") /\ (Done \/ Then(<<x>>)) /\ UNCHANGED <<source, link, tracked, app, excused>>
  BY DEF register_local_dev_tracking_if_needed, files
<1>2. Step \in StepSet /\ Step.rounds = {} /\ Step.op = "track_if"
  BY <1>1, FirstStep DEF IInv
<1>3. x \in StepSet /\ x.op = "track" /\ x.rounds = {} /\ x.k = Step.k /\ x.a = Step.a
  <2>1. "track" \in Ops /\ "track" # "loop" /\ "track" \notin ToolOps /\ "track_if" \in KeyOps
        /\ "track_if" \in AppOps
    BY DEF Ops, KeyOps, AppOps, ToolOps
  <2>2. /\ Step \in [op : Ops, k : Keys \cup {NoKey}, a : Labels, j : Json, loses : Nat,
                     rounds : SUBSET Seq(PlainSteps)]
        /\ Step.k \in Keys /\ Step.a \in Apps
    BY <1>2, <2>1 DEF StepSet, Fits
  <2>3. /\ x \in [op : Ops, k : Keys \cup {NoKey}, a : Labels, j : Json, loses : Nat,
                  rounds : SUBSET Seq(PlainSteps)]
        /\ x.op = "track" /\ x.k = Step.k /\ x.a = Step.a /\ x.rounds = Step.rounds
    BY <2>1, <2>2
  <2> HIDE DEF x
  <2>4. Fits(x)
    BY <2>1, <2>2, <2>3 DEF Fits
  <2>. QED  BY <1>2, <2>3, <2>4 DEF StepSet
<1> HIDE DEF x
<1>4. CASE Done
  <2>1. "track_if" \notin {"elm_json", "loop", "unlink", "symlink", "track", "refresh", "drop"}
    OBVIOUS
  <2>. QED  BY <1>1, <1>4, <2>1, FollowDone
<1>5. CASE Then(<<x>>)
  <2> DEFINE s == <<x>>
  <2>1. s \in Seq(StepSet) /\ Len(s) = 1 /\ s[1] = x
    BY <1>3
  <2>2. Then(s)
    BY <1>5
  <2> HIDE DEF s
  <2>3. \A i \in 1 .. Len(s) : s[i] = x
    BY <2>1
  <2>4. WritesOK(s) /\ HaltsOK(s) /\ RelinksOK(s)
    BY <1>3, <2>3 DEF WritesOK, HaltsOK, Halts, Halting, RelinksOK, Relinks
  <2>5. ~Halts(x) /\ ~Has(x, FollowOps) /\ Step.op \notin FileOps
    BY <1>2, <1>3 DEF Halts, Halting, Has, FollowOps, FileOps
  <2>6. \A o \in FollowOps : ~FollowStep(Step, o)
    BY <1>2 DEF FollowStep, FollowOps
  <2>11. \A k \in Keys : LeavesOK(Step, s, k)
    <3>1. \A i \in 1 .. Len(s) : ~Has(s[i], {"uncache"})
      BY <1>3, <2>3 DEF Has
    <3>. QED  BY <1>2, <3>1, NoLinkLeaves
  <2>7. ShiftsOK(Step, s)
    BY <2>3, <2>4, <2>5, <2>6, <2>11 DEF ShiftsOK
  <2>8. ASSUME NEW a \in Apps, NEW k \in Keys
        PROVE  /\ ToTrack(s, k, a) => Tracks(Step, k, a)
               /\ Refreshes(Step, k[1], a) => ToRefresh(s, k[1], a)
    <3>1. Tracks(x, k, a) => Tracks(Step, k, a)
      BY <1>2, <1>3 DEF Tracks, Enters
    <3>2. ~Refreshes(Step, k[1], a)
      BY <1>2 DEF Refreshes, Looks
    <3>. QED  BY <2>3, <3>1, <3>2 DEF ToTrack
  <2>9. \A i \in 1 .. Len(s) : s[i].op # "elm_json"
    BY <1>3, <2>3
  <2>10. "track_if" \notin {"elm_json", "symlink", "drop"}
    OBVIOUS
  <2>. QED  BY <1>1, <2>1, <2>2, <2>7, <2>8, <2>9, <2>10, FollowMore
<1>. QED  BY <1>1, <1>4, <1>5

\* A version is looked at: its link, then whether it is there.
LEMMA FetchFollows ==
  ASSUME IInv, FollowInv, download_package_recursive
  PROVE  FollowInv'
<1>1. Doing("fetch") /\ UNCHANGED <<source, link, tracked, app, excused>>
  BY DEF download_package_recursive, files
<1>2. Step.k \in Keys /\ Step.op = "fetch" /\ Step.rounds = {} /\ Step \in StepSet
  <2>1. Step.k \in Keys
    BY <1>1, StepIsAbout DEF Ops, KeyOps, AppOps, OtherOps
  <2>. QED  BY <1>1, <2>1, FirstStep DEF IInv
<1> DEFINE a == Try("ensure", Step.k)
           b == Do("have", Step.k)
<1>3. Done \/ Then(<<a, b>>)
  BY DEF download_package_recursive
<1>4. CASE Done
  <2>1. "fetch" \notin {"elm_json", "loop", "unlink", "symlink", "track", "refresh", "drop"}
    OBVIOUS
  <2>. QED  BY <1>1, <1>4, <2>1, FollowDone
<1>5. ASSUME Then(<<a, b>>) PROVE FollowInv'
  <2>1. a \in PlainSteps /\ a.op = "ensure"
    <3>1. Do("ensure", Step.k) \in PlainSteps /\ Do("ensure", Step.k).op = "ensure"
      BY <1>2, MakeStep
    <3> DEFINE d == Do("ensure", Step.k)
    <3>2. a = Losing(1, d)
      BY DEF Try
    <3> HIDE DEF a, d
    <3>3. d \in PlainSteps /\ d.op = "ensure" /\ 1 \in Nat /\ 1 \in {0, 1}
      BY <3>1 DEF d
    <3>. QED  BY <3>2, <3>3, LosingType
  <2>2. b \in PlainSteps /\ b.op = "have"
    BY <1>2, MakeStep
  <2> HIDE DEF a, b
  <2> DEFINE s == <<a, b>>
  <2>3. s \in Seq(StepSet) /\ Len(s) = 2 /\ s[1] = a /\ s[2] = b
    BY <2>1, <2>2, PlainType
  <2>4. Then(s)
    BY <1>5
  <2> HIDE DEF s
  <2>5. \A i \in 1 .. Len(s) : i = 1 \/ i = 2
    BY <2>3
  <2>6. \A i \in 1 .. Len(s) : s[i].op \in {"ensure", "have"} /\ s[i].rounds = {}
    BY <2>1, <2>2, <2>3, <2>5, PlainType
  <2>7. \A i \in 1 .. Len(s) : ~Has(s[i], FollowOps \cup {"elm_json", "unlink", "symlink", "uncache"})
    BY <2>6 DEF Has, FollowOps
  <2>8. ShiftsOK(Step, s) /\ \A i \in 1 .. Len(s) : s[i].op # "elm_json"
    BY <1>2, <2>3, <2>7, BuildShifts
  <2>9. ASSUME NEW x \in Apps, NEW k \in Keys
        PROVE  /\ ToTrack(s, k, x) => Tracks(Step, k, x)
               /\ Refreshes(Step, k[1], x) => ToRefresh(s, k[1], x)
    <3>1. ~ToTrack(s, k, x)
      BY <2>6 DEF ToTrack, Tracks, Enters
    <3>2. ~Refreshes(Step, k[1], x)
      BY <1>2 DEF Refreshes, Looks
    <3>. QED  BY <3>1, <3>2
  <2>10. "fetch" \notin {"elm_json", "symlink", "drop"}
    OBVIOUS
  <2>. QED  BY <1>1, <2>3, <2>4, <2>8, <2>9, <2>10, FollowMore
<1>. QED  BY <1>3, <1>4, <1>5

\* What a version needs is looked at in turn.
LEMMA NeedsFollow ==
  ASSUME IInv, FollowInv, continue_with_needs \/ builder_compile_local_dev_packages
  PROVE  FollowInv'
<1> DEFINE T(needs) == {<<n, Newest(n)>> : n \in needs \cap Names}
           c == Do("reinsert", NoKey)
<1>1. \E op \in {"have", "compile"} : Doing(op)
  BY DEF continue_with_needs, builder_compile_local_dev_packages
<1>2. PICK op \in {"have", "compile"} : Doing(op)
  BY <1>1
<1>3. Step.op = op /\ Step.rounds = {} /\ Step.op \in {"fetch", "have", "compile"} /\ Step \in StepSet
  BY <1>2, FirstStep DEF IInv
<1>4. UNCHANGED <<source, link, tracked, app, excused>>
  BY DEF continue_with_needs, builder_compile_local_dev_packages, files
<1>5. \/ todo' = <<>> \/ Done
      \/ \E needs : (\A n \in needs : Known(n)) /\ Then(<<Each("fetch", T(needs))>>)
      \/ \E needs : (\A n \in needs : Known(n)) /\ Then(<<Each("fetch", T(needs)), c>>)
  <2>1. CASE continue_with_needs
    BY <2>1 DEF continue_with_needs, Stop
  <2>2. CASE builder_compile_local_dev_packages
    BY <2>2 DEF builder_compile_local_dev_packages, Stop
  <2>. QED  BY <2>1, <2>2
<1>6. CASE todo' = <<>>
  BY <1>2, <1>4, <1>6, FollowStops
<1>7. CASE Done
  BY <1>2, <1>4, <1>7, FollowDone
<1>8. ASSUME NEW s \in Seq(StepSet), Then(s),
             \A i \in 1 .. Len(s) : /\ ~Has(s[i], FollowOps \cup {"elm_json", "unlink", "symlink", "uncache"})
                                    /\ ~Has(s[i], {"track", "track_if"})
      PROVE  FollowInv'
  <2>1. ShiftsOK(Step, s) /\ \A i \in 1 .. Len(s) : s[i].op # "elm_json"
    BY <1>3, <1>8, BuildShifts
  <2>2. ASSUME NEW a \in Apps, NEW k \in Keys PROVE ~ToTrack(s, k, a) /\ ~Refreshes(Step, k[1], a)
    <3>1. ~Refreshes(Step, k[1], a)
      BY <1>3 DEF Refreshes, Looks
    <3>2. ASSUME NEW i \in 1 .. Len(s) PROVE ~Tracks(s[i], k, a)
      BY <1>8 DEF Tracks, Enters, Has
    <3>. QED  BY <3>1, <3>2 DEF ToTrack
  <2>3. op \notin {"elm_json", "symlink", "drop"}
    OBVIOUS
  <2>. QED  BY <1>2, <1>4, <1>8, <2>1, <2>2, <2>3, FollowMore
<1>9. ASSUME NEW needs, \A n \in needs : Known(n)
      PROVE  /\ Each("fetch", T(needs)) \in StepSet
             /\ ~Has(Each("fetch", T(needs)), FollowOps \cup {"elm_json", "unlink", "symlink", "uncache"})
             /\ ~Has(Each("fetch", T(needs)), {"track", "track_if"})
  <2>1. T(needs) \in SUBSET Keys
    BY <1>9, NewestKeys
  <2> HIDE DEF T
  <2>2. Each("fetch", T(needs)) \in StepSet
    BY <2>1, EachWorks
  <2>. QED  BY <2>2, EachHas DEF FollowOps
<1>10. ASSUME NEW needs, \A n \in needs : Known(n), Then(<<Each("fetch", T(needs))>>)
       PROVE  FollowInv'
  <2> DEFINE b == Each("fetch", T(needs))
             s == <<b>>
  <2>1. b \in StepSet /\ ~Has(b, FollowOps \cup {"elm_json", "unlink", "symlink", "uncache"}) /\ ~Has(b, {"track", "track_if"})
    BY <1>9, <1>10
  <2>2. Then(s)
    BY <1>10
  <2> HIDE DEF b
  <2>3. s \in Seq(StepSet) /\ Len(s) = 1 /\ s[1] = b
    BY <2>1
  <2> HIDE DEF s
  <2>4. \A i \in 1 .. Len(s) : s[i] = b
    BY <2>3
  <2>. QED  BY <1>8, <2>1, <2>2, <2>3, <2>4
<1>11. ASSUME NEW needs, \A n \in needs : Known(n), Then(<<Each("fetch", T(needs)), c>>)
       PROVE  FollowInv'
  <2> DEFINE b == Each("fetch", T(needs))
             s == <<b, c>>
  <2>1. b \in StepSet /\ ~Has(b, FollowOps \cup {"elm_json", "unlink", "symlink", "uncache"}) /\ ~Has(b, {"track", "track_if"})
    BY <1>9, <1>11
  <2>2. c \in StepSet /\ c.op = "reinsert" /\ c.rounds = {}
    <3>1. c \in PlainSteps /\ c.op = "reinsert"
      BY MakeStep
    <3> HIDE DEF c
    <3>. QED  BY <3>1, PlainType
  <2>3. ~Has(c, FollowOps \cup {"elm_json", "unlink", "symlink", "uncache"}) /\ ~Has(c, {"track", "track_if"})
    BY <2>2 DEF Has, FollowOps
  <2>4. Then(s)
    BY <1>11
  <2> HIDE DEF b, c
  <2>5. s \in Seq(StepSet) /\ Len(s) = 2 /\ s[1] = b /\ s[2] = c
    BY <2>1, <2>2
  <2> HIDE DEF s
  <2>6. \A i \in 1 .. Len(s) : i = 1 \/ i = 2
    BY <2>5
  <2>7. \A i \in 1 .. Len(s) : s[i] = b \/ s[i] = c
    BY <2>5, <2>6
  <2>. QED  BY <1>8, <2>1, <2>3, <2>4, <2>5, <2>7
<1>. QED  BY <1>5, <1>6, <1>7, <1>10, <1>11

\* A loop ends or begins a round.
LEMMA RoundFollows ==
  ASSUME IInv, FollowInv, next_round
  PROVE  FollowInv'
<1>1. Doing("loop") /\ UNCHANGED <<source, link, tracked, app, excused>>
  BY DEF next_round, files
<1>2. /\ todo \in Seq(StepSet) /\ todo # <<>> /\ todo[1] = Step /\ Step.op = "loop" /\ Step \in StepSet
      /\ 1 \in 1 .. Len(todo)
  BY <1>1, FirstStep DEF IInv
<1>3. CASE Step.rounds = {} /\ Done
  <2> DEFINE e == <<>>
  <2>1. Shifted(todo, e, todo') /\ e \in Seq(StepSet) /\ Len(e) = 0 /\ ShiftsOK(todo[1], e)
    BY <1>2, <1>3, DoneShifts, NoSteps, NothingShifts DEF Done
  <2> HIDE DEF e
  <2>2. ASSUME NEW a \in Apps, NEW k \in Keys
        PROVE  /\ a \in tracked'[k] => a \in tracked[k] \/ Tracks(todo[1], k, a)
               /\ ToTrack(e, k, a) => Tracks(todo[1], k, a)
               /\ link[k] = "source" \/ Links(todo[1], k) => link'[k] = "source" \/ ToLink(todo', k)
               /\ Refreshes(todo[1], k[1], a) => ToRefresh(e, k[1], a) \/ Serves(app[a], k)
               /\ Dropping(todo[1], k) => a \notin tracked'[k]
    <3>1. ~ToTrack(e, k, a)
      BY <2>1 DEF ToTrack
    <3>2. ~Links(todo[1], k) /\ ~Refreshes(todo[1], k[1], a) /\ ~Dropping(todo[1], k)
      BY <1>2, <1>3 DEF Links, Refreshes, Looks, Dropping
    <3>3. tracked'[k] = tracked[k] /\ link'[k] = link[k]
      BY <1>1
    <3>. QED  BY <3>1, <3>2, <3>3
  <2>3. /\ todo[1].op # "elm_json" /\ \A i \in 1 .. Len(e) : e[i].op # "elm_json"
        /\ source' = source /\ app' = app /\ excused \subseteq excused'
    BY <1>1, <1>2, <2>1
  <2>. QED  BY <2>1, <2>2, <2>3, FollowGoesOn
<1>4. ASSUME NEW r \in Step.rounds, Then(r \o <<Loop(Step.rounds \ {r})>>)
      PROVE  FollowInv'
  <2> DEFINE L == Loop(Step.rounds \ {r})
             s == r \o <<L>>
  <2>1. /\ r \in Seq(StepSet) /\ Len(r) \in Nat
        /\ \A p \in 1 .. Len(r) : r[p] \in PlainSteps /\ r[p] \in StepSet
    BY <1>2, RoundType
  <2>2. L \in StepSet /\ L.op = "loop" /\ L.rounds = Step.rounds \ {r} /\ L.loses = 0
    <3>1. Step.rounds \in SUBSET Seq(PlainSteps)
      BY <1>2, StepType
    <3>. QED  BY <3>1, LoopType
  <2>3. Then(s)
    BY <1>4
  <2> HIDE DEF L
  <2>4. /\ s \in Seq(StepSet) /\ Len(s) = Len(r) + 1 /\ s[Len(r) + 1] = L
        /\ \A p \in 1 .. Len(r) : p \in 1 .. Len(s) /\ s[p] = r[p]
    BY <2>1, <2>2
  <2>5. Len(r) + 1 \in 1 .. Len(s)
    BY <2>1, <2>4
  <2> HIDE DEF s
  <2>6. \A i \in 1 .. Len(s) : (i \in 1 .. Len(r) /\ s[i] = r[i]) \/ (i = Len(r) + 1 /\ s[i] = L)
    BY <2>1, <2>4
  <2>7. \A p \in 1 .. Len(r) : r[p].rounds = {} /\ r[p].op # "loop" /\ r[p].op # "elm_json"
    <3>1. \A p \in 1 .. Len(r) : r[p].op # "elm_json"
      BY <1>2 DEF FollowInv, ShapeOK, WritesOK
    <3>. QED  BY <2>1, <3>1, PlainType
  <2>8. \A O : "loop" \notin O => \A i \in 1 .. Len(s) : Has(s[i], O) => Has(Step, O)
    BY <2>2, <2>6, <2>7 DEF Has
  <2>9. \A i \in 1 .. Len(s) : Halts(s[i]) => Halts(Step)
    BY <2>2, <2>6, <2>7 DEF Halts, Halting
  <2>10. HaltsOK(s)
    <3>1. ASSUME NEW i \in 1 .. Len(s), NEW j \in i .. Len(s), Halts(s[i]) PROVE ~Has(s[j], {"symlink"})
      <4>1. Halts(todo[1])
        BY <1>2, <2>9, <3>1
      <4>2. 1 \in 1 .. Len(todo)
        BY <1>2
      <4>3. ~Has(todo[1], {"symlink"})
        BY <4>1, <4>2 DEF FollowInv, ShapeOK, HaltsOK
      <4>4. j \in 1 .. Len(s)
        OBVIOUS
      <4>. QED  BY <1>2, <2>8, <4>3, <4>4
    <3>. QED  BY <3>1 DEF HaltsOK
  <2>11. RelinksOK(s)
    <3>1. ASSUME NEW k \in Keys PROVE Relinks(s, k)
      <4>1. Relinks(r, k)
        BY <1>2 DEF FollowInv, ShapeOK, RelinksOK
      <4>2. ASSUME NEW i \in 1 .. Len(s), s[i].op = "unlink", s[i].k = k
            PROVE  \E j \in i + 1 .. Len(s) : s[j].op = "symlink" /\ s[j].k = k
        <5>1. i \in 1 .. Len(r) /\ s[i] = r[i]
          BY <2>2, <2>6, <4>2
        <5>2. PICK j \in i + 1 .. Len(r) : r[j].op = "symlink" /\ r[j].k = k
          BY <4>1, <4>2, <5>1 DEF Relinks
        <5>3. j \in 1 .. Len(r) /\ j \in i + 1 .. Len(s)
          BY <2>1, <2>4, <5>1
        <5>. QED  BY <2>4, <5>2, <5>3
      <4>. QED  BY <4>2 DEF Relinks
    <3>2. ASSUME NEW k \in Keys, NEW i \in 1 .. Len(s), NEW x \in s[i].rounds PROVE Relinks(x, k)
      <4>1. x \in Step.rounds
        BY <2>2, <2>6, <2>7
      <4>. QED  BY <1>2, <4>1 DEF FollowInv, ShapeOK, RelinksOK
    <3>. QED  BY <3>1, <3>2 DEF RelinksOK
  <2>12. WritesOK(s) /\ \A i \in 1 .. Len(s) : s[i].op # "elm_json"
    <3>1. \A i \in 1 .. Len(s) : s[i].op # "elm_json"
      BY <2>2, <2>6, <2>7
    <3>2. \A x \in Step.rounds : \A p \in 1 .. Len(x) : x[p].op # "elm_json"
      BY <1>2 DEF FollowInv, ShapeOK, WritesOK
    <3>3. \A i \in 1 .. Len(s) : \A x \in s[i].rounds : \A p \in 1 .. Len(x) : x[p].op # "elm_json"
      BY <2>2, <2>6, <2>7, <3>2
    <3>. QED  BY <3>1, <3>3 DEF WritesOK
  <2>13. ASSUME NEW op \in FollowOps, FollowStep(Step, op) PROVE Following(s, op)
    <3>1. \A x \in Step.rounds : \A p \in 1 .. Len(x) : x[p].op = op /\ x[p].loses \in {0, 1}
      BY <2>13 DEF FollowStep
    <3>2. FollowStep(L, op)
      BY <2>2, <3>1 DEF FollowStep
    <3>3. \A p \in 1 .. Len(r) : FollowStep(r[p], op)
      BY <2>7, <3>1 DEF FollowStep
    <3>. QED  BY <2>6, <3>2, <3>3 DEF Following
  <2>16. ASSUME NEW k \in Keys PROVE LeavesOK(Step, s, k)
    <3>1. ASSUME NEW i \in 1 .. Len(s), Uncaches(s[i], k) PROVE Uncaches(Step, k)
      BY <2>2, <2>6, <2>7, <3>1 DEF Uncaches, Uncaching
    <3>2. ASSUME \A x \in Step.rounds : Ends(x, k) PROVE EndsOK(s, k)
      <4>1. \A i \in 1 .. Len(s) : \A x \in s[i].rounds : x \in Step.rounds
        BY <2>2, <2>6, <2>7
      <4>2. ASSUME NEW i \in 1 .. Len(s), Uncaching(s[i], k)
            PROVE  \E j \in i + 1 .. Len(s) : Dropping(s[j], k)
        <5>1. i \in 1 .. Len(r) /\ s[i] = r[i]
          BY <2>2, <2>6, <4>2 DEF Uncaching
        <5>2. PICK j \in i + 1 .. Len(r) : Dropping(r[j], k)
          BY <3>2, <4>2, <5>1 DEF Ends
        <5>3. j \in 1 .. Len(r) /\ j \in i + 1 .. Len(s)
          BY <2>1, <2>4, <5>1
        <5>. QED  BY <2>4, <5>2, <5>3
      <4>3. Ends(s, k)
        BY <4>2 DEF Ends
      <4>. QED  BY <3>2, <4>1, <4>3 DEF EndsOK
    <3>3. ASSUME Drops(Step, k) PROVE ToDrop(s, k)
      <4>1. PICK x \in Step.rounds : \E p \in 1 .. Len(x) : Dropping(x[p], k)
        BY <1>2, <3>3 DEF Drops, Dropping
      <4>2. CASE x = r
        <5>1. PICK p \in 1 .. Len(r) : Dropping(r[p], k)
          BY <4>1, <4>2
        <5>2. p \in 1 .. Len(s) /\ Drops(s[p], k)
          BY <2>4, <5>1 DEF Drops
        <5>. QED  BY <5>2 DEF ToDrop
      <4>3. CASE x # r
        <5>1. x \in L.rounds
          BY <2>2, <4>3
        <5>2. Drops(L, k)
          BY <4>1, <5>1 DEF Drops
        <5>. QED  BY <2>4, <2>5, <5>2 DEF ToDrop
      <4>. QED  BY <4>2, <4>3
    <3>4. ToUncache(s, k) => Uncaches(Step, k)
      BY <3>1 DEF ToUncache
    <3>. QED  BY <3>2, <3>3, <3>4 DEF LeavesOK
  <2>14. ShiftsOK(Step, s)
    <3>1. Step.op \notin FileOps /\ "loop" \notin FollowOps
      BY <1>2 DEF FileOps, FollowOps
    <3>. QED  BY <2>8, <2>9, <2>10, <2>11, <2>12, <2>13, <2>16, <3>1 DEF ShiftsOK
  <2>15. ASSUME NEW a \in Apps, NEW k \in Keys
         PROVE  /\ ToTrack(s, k, a) => Tracks(Step, k, a)
                /\ Refreshes(Step, k[1], a) => ToRefresh(s, k[1], a)
    <3>1. ASSUME NEW i \in 1 .. Len(s), Tracks(s[i], k, a) PROVE Tracks(Step, k, a)
      BY <2>2, <2>6, <2>7, <3>1 DEF Tracks, Enters
    <3>2. ASSUME Refreshes(Step, k[1], a) PROVE ToRefresh(s, k[1], a)
      <4>1. PICK x \in Step.rounds : \E p \in 1 .. Len(x) : Looks(x[p], k[1], a)
        BY <1>2, <3>2 DEF Refreshes, Looks
      <4>2. CASE x = r
        <5>1. PICK p \in 1 .. Len(r) : Looks(r[p], k[1], a)
          BY <4>1, <4>2
        <5>2. p \in 1 .. Len(s) /\ Refreshes(s[p], k[1], a)
          BY <2>4, <5>1 DEF Refreshes
        <5>. QED  BY <5>2 DEF ToRefresh
      <4>3. CASE x # r
        <5>1. x \in L.rounds
          BY <2>2, <4>3
        <5>2. Refreshes(L, k[1], a)
          BY <4>1, <5>1 DEF Refreshes
        <5>. QED  BY <2>4, <2>5, <5>2 DEF ToRefresh
      <4>. QED  BY <4>2, <4>3
    <3>. QED  BY <3>1, <3>2 DEF ToTrack
  <2>. QED  BY <1>1, <2>3, <2>4, <2>12, <2>14, <2>15, FollowMore
<1>. QED  BY <1>3, <1>4 DEF next_round

\* One elm.json is written, and it was known what is to be in it.
LEMMA WrittenFollows ==
  ASSUME IInv, FollowInv, elm_json_write
  PROVE  FollowInv'
<1>1. /\ Doing("elm_json") /\ Done /\ source' = source /\ excused' = excused /\ tracked' = tracked
      /\ link' = link /\ app' = [app EXCEPT ![Step.a] = Step.j]
  BY DEF elm_json_write, Keep
<1>2. /\ todo \in Seq(StepSet) /\ todo # <<>> /\ todo[1] = Step /\ Step.op = "elm_json" /\ 1 \in 1 .. Len(todo)
      /\ Step.rounds = {}
  BY <1>1, FirstStep DEF IInv
<1>3. app \in [Apps -> Json]
  BY DEF IInv, FilesOK
<1> DEFINE e == <<>>
<1>4. Shifted(todo, e, todo') /\ e \in Seq(StepSet) /\ Len(e) = 0 /\ ShiftsOK(todo[1], e)
  BY <1>1, <1>2, DoneShifts, NoSteps, NothingShifts DEF Done
<1> HIDE DEF e
<1>5. ShapeOK(todo')
  BY <1>2, <1>4, ShiftShape DEF FollowInv
<1>6. \A i \in 1 .. Len(todo') : todo'[i].op # "elm_json"
  <2>1. WritesOK(todo) /\ todo[1].op \notin FileOps
    BY <1>2 DEF FollowInv, ShapeOK, FileOps
  <2>. QED  BY <1>2, <1>4, <2>1, NoneIsWritten
<1>7. ASSUME NEW a \in Apps, NEW k \in Keys, <<a>> \notin excused', k \notin excused'
      PROVE  FollowsOK(todo, a, k)'
  <2>1. FollowsOK(todo, a, k) /\ WritesOK(todo)
    BY <1>1, <1>7 DEF FollowInv, ShapeOK
  <2>2. ~Links(todo[1], k) /\ ~Refreshes(todo[1], k[1], a) /\ ~ToTrack(e, k, a) /\ ~Tracks(todo[1], k, a)
    BY <1>2, <1>4 DEF Links, Refreshes, Looks, ToTrack, Tracks, Enters
  <2>3. CASE a # Step.a
    <3>1. app'[a] = app[a] /\ ~Writing(todo[1], a) /\ ~ToWrite(e, a)
      BY <1>1, <1>2, <1>3, <1>4, <2>3 DEF Writing, ToWrite
    <3>2. tracked'[k] = tracked[k] /\ link'[k] = link[k]
      BY <1>1
    <3>3. LeavesOK(todo[1], e, k) /\ ~Dropping(todo[1], k)
      BY <1>2, <1>4 DEF ShiftsOK, Dropping
    <3>. QED  BY <1>1, <1>4, <2>1, <2>2, <3>1, <3>2, <3>3, FollowsOn
  <2>4. CASE a = Step.a
    <3>1. app'[a] = todo[1].j /\ Writing(todo[1], a)
      BY <1>1, <1>2, <1>3, <2>4 DEF Writing
    <3>2. k \in ListedKeys(todo[1].j) /\ (a \in tracked[k] \/ ToTrack(todo, k, a)) =>
            Linkable(todo, k) /\ Serves(todo[1].j, k)
      BY <1>2, <2>1, <3>1 DEF FollowsOK, ThenOK
    <3>3. /\ ToTrack(todo', k, a) => ToTrack(todo, k, a)
          /\ ToLink(todo, k) => ToLink(todo', k)
      BY <1>2, <1>4, <2>2, ShiftToDo
    <3>4. Linkable(todo, k) => Linkable(todo, k)'
      BY <1>1, <3>3 DEF Linkable
    <3>5. Serves(todo[1].j, k) => Serves(app[a], k)'
      BY <1>1, <3>1 DEF Serves
    <3>6. NowOK(todo, a, k)'
      BY <1>1, <3>1, <3>2, <3>4, <3>5 DEF NowOK
    <3>7. ThenOK(todo, a, k)'
      BY <1>6 DEF ThenOK, Writing
    <3>8. SoonOK(todo, a, k)'
      BY <3>1, <3>2, <3>3, <3>4, <3>5 DEF SoonOK
    <3>9. GoneOK(todo, a, k)'
      <4>1. ~ToUncache(e, k)
        BY <1>4 DEF ToUncache
      <4>2. ToUncache(todo', k) => ToUncache(todo, k)
        BY <1>2, <1>4, <4>1, ShiftToDrop
      <4>3. EndsOK(todo, k) => EndsOK(todo', k)
        BY <1>2, <1>4, <4>1, NoneIsUncached, ShiftEnds
      <4>. QED  BY <1>1, <2>1, <3>3, <4>2, <4>3 DEF FollowsOK, GoneOK
    <3>. QED  BY <3>6, <3>7, <3>8, <3>9 DEF FollowsOK
  <2>. QED  BY <2>3, <2>4
<1>. QED  BY <1>5, <1>7 DEF FollowInv

\* What may come in the place of a step that follows: the writing of an elm.json.
LEMMA WriteShifts ==
  ASSUME NEW op \in FollowOps, NEW st \in StepSet, st.op = op, NEW x \in PlainSteps,
         x.op = "elm_json", x.k = NoKey, x.loses = 1, NEW s \in Seq(StepSet), Len(s) = 1, s[1] = x
  PROVE  ShiftsOK(st, s)
<1>1. \A i \in 1 .. Len(s) : i = 1 /\ s[i] = x
  OBVIOUS
<1>2. x.rounds = {}
  BY PlainType
<1>3. ~Halts(x) /\ ~Has(x, FollowOps)
  BY <1>2 DEF Halts, Halting, Has, FollowOps
<1>4. HaltsOK(s) /\ RelinksOK(s)
  BY <1>1, <1>2, <1>3 DEF HaltsOK, RelinksOK, Relinks
<1>5. WritesOK(s)
  <2>1. \A i \in 1 .. Len(s) : \A h \in 1 .. i - 1 : FALSE
    BY <1>1
  <2>. QED  BY <1>1, <1>2, <2>1 DEF WritesOK
<1>6. \A o \in FollowOps : Following(s, o)
  BY <1>1, <1>2 DEF Following, FollowStep
<1>7. st.op \notin FileOps
  BY DEF FileOps, FollowOps
<1>8. ASSUME NEW k \in Keys PROVE LeavesOK(st, s, k)
  <2>1. st.rounds = {}
    <3>1. op # "loop"
      BY DEF FollowOps
    <3>. QED  BY <3>1, StepType
  <2>2. \A i \in 1 .. Len(s) : ~Has(s[i], {"uncache"})
    BY <1>1, <1>2 DEF Has
  <2>. QED  BY <2>1, <2>2, NoLinkLeaves
<1>. QED  BY <1>1, <1>3, <1>4, <1>5, <1>6, <1>7, <1>8 DEF ShiftsOK

\* A command that follows makes and removes no link, and enters no application.
LEMMA FollowingOnly ==
  ASSUME FollowInv, NEW op \in FollowOps, 1 \in 1 .. Len(todo), todo[1].op = op, NEW k \in Keys, NEW a
  PROVE  /\ ~ToLink(todo, k) /\ ~ToTrack(todo, k, a) /\ ~ToUncache(todo, k) /\ ~ToDrop(todo, k)
         /\ op = "prune" => \A n : ~ToRefresh(todo, n, a)
<1>1. Following(todo, op)
  <2>1. Has(todo[1], FollowOps)
    BY DEF Has
  <2>2. PICK o \in FollowOps : Following(todo, o)
    BY <2>1 DEF FollowInv, ShapeOK, FollowOK
  <2>3. o = op
    BY <2>2 DEF Following, FollowStep, FollowOps
  <2>. QED  BY <2>2, <2>3
<1>2. op \in {"refresh", "prune"}
  BY DEF FollowOps
<1>3. ASSUME NEW i \in 1 .. Len(todo)
      PROVE  /\ todo[i].op \in {"loop", "elm_json", op}
             /\ \A r \in todo[i].rounds : \A p \in 1 .. Len(r) : r[p].op = op
  BY <1>1 DEF Following, FollowStep
<1>4. ~ToLink(todo, k)
  BY <1>2, <1>3 DEF ToLink, Links
<1>5. ASSUME NEW i \in 1 .. Len(todo) PROVE ~Tracks(todo[i], k, a)
  BY <1>2, <1>3 DEF Tracks, Enters
<1>6. ASSUME op = "prune", NEW n, NEW i \in 1 .. Len(todo) PROVE ~Refreshes(todo[i], n, a)
  BY <1>3, <1>6 DEF Refreshes, Looks
<1>7. ~ToUncache(todo, k) /\ ~ToDrop(todo, k)
  BY <1>2, <1>3 DEF ToUncache, Uncaches, Uncaching, ToDrop, Drops, Dropping
<1>. QED  BY <1>4, <1>5, <1>6, <1>7 DEF ToTrack, ToRefresh

\* An elm.json is to be written in which everything that is tracked is served.
LEMMA WriteFollows ==
  ASSUME IInv, FollowInv, NEW op \in FollowOps, Doing(op), NEW j \in Json,
         Then(<<Losing(1, Write(Step.a, j))>>), UNCHANGED <<source, link, tracked, app, excused>>,
         \A k \in ListedKeys(j) :
           (k \in ListedKeys(app[Step.a]) => Linked(k) /\ (op = "prune" => Serves(app[Step.a], k)))
             => Linked(k) /\ Serves(j, k)
  PROVE  FollowInv'
<1> DEFINE x == Losing(1, Write(Step.a, j))
           s == <<x>>
<1>1. /\ todo \in Seq(StepSet) /\ todo # <<>> /\ todo[1] = Step /\ Step.op = op /\ Step \in StepSet
      /\ 1 \in 1 .. Len(todo) /\ Step.rounds = {}
  <2>1. op # "loop"
    BY DEF FollowOps
  <2>. QED  BY <2>1, FirstStep DEF IInv
<1>2. Step.a \in Apps
  BY StepIsAbout DEF Ops, KeyOps, AppOps, OtherOps, FollowOps
<1>3. /\ x \in PlainSteps /\ x.op = "elm_json" /\ x.k = NoKey /\ x.loses = 1 /\ x.a = Step.a /\ x.j = j
      /\ x.rounds = {}
  <2>1. x \in PlainSteps
    BY <1>2, WriteStep
  <2>2. x.op = "elm_json" /\ x.k = NoKey /\ x.loses = 1 /\ x.a = Step.a /\ x.j = j
    BY DEF Losing, Write, Made
  <2> HIDE DEF x
  <2>. QED  BY <2>1, <2>2, PlainType
<1>4. Then(s)
  OBVIOUS
<1> HIDE DEF x
<1>5. s \in Seq(StepSet) /\ Len(s) = 1 /\ s[1] = x
  BY <1>3, PlainType
<1> HIDE DEF s
<1>6. ShiftsOK(todo[1], s)
  BY <1>1, <1>3, <1>5, WriteShifts
<1>7. Shifted(todo, s, todo')
  BY <1>1, <1>4, <1>5, ThenShifts DEF Then
<1>8. ShapeOK(todo')
  BY <1>1, <1>5, <1>6, <1>7, ShiftShape DEF FollowInv
<1>9. 1 \in 1 .. Len(todo') /\ todo'[1] = x
  BY <1>5, <1>7 DEF Shifted
<1>10. \A i \in 1 .. Len(s) : s[i] = x
  BY <1>5
<1>11. ASSUME NEW i \in 1 .. Len(todo'), todo'[i].op = "elm_json" PROVE i = 1
  <2>1. ASSUME i # 1 PROVE FALSE
    <3>1. 1 \in 1 .. i - 1
      BY <2>1
    <3>2. todo'[1].op \in FileOps
      BY <1>8, <1>11, <3>1 DEF ShapeOK, WritesOK
    <3>. QED  BY <1>3, <1>9, <3>2 DEF FileOps
  <2>. QED  BY <2>1
<1>12. ASSUME NEW a \in Apps, NEW k \in Keys, <<a>> \notin excused', k \notin excused'
       PROVE  FollowsOK(todo, a, k)'
  <2>1. FollowsOK(todo, a, k) /\ WritesOK(todo)
    BY <1>12 DEF FollowInv, ShapeOK
  <2>2. /\ ~ToLink(todo, k) /\ ~ToTrack(todo, k, a) /\ ~ToUncache(todo, k) /\ ~ToDrop(todo, k)
        /\ op = "prune" => ~ToRefresh(todo, k[1], a)
    BY <1>1, FollowingOnly
  <2>3. ~ToTrack(s, k, a)
    BY <1>3, <1>10 DEF ToTrack, Tracks, Enters
  <2>4. todo[1].op \notin {"elm_json", "symlink", "track", "track_if"}
    BY <1>1 DEF FollowOps
  <2>5. CASE a # Step.a
    <3>1. ~ToWrite(s, a) /\ ~Writing(todo[1], a) /\ ~Links(todo[1], k)
      BY <1>3, <1>10, <2>4, <2>5 DEF ToWrite, Writing, Links
    <3>2. ~Refreshes(todo[1], k[1], a)
      BY <1>1, <2>5 DEF Refreshes, Looks
    <3>3. LeavesOK(todo[1], s, k) /\ ~Dropping(todo[1], k)
      BY <1>1, <1>6 DEF ShiftsOK, Dropping, FollowOps
    <3>. QED  BY <1>5, <1>7, <2>1, <2>3, <3>1, <3>2, <3>3, FollowsOn
  <2>6. CASE a = Step.a
    <3>1. ~ToTrack(todo', k, a)
      BY <1>1, <1>5, <1>7, <2>2, <2>3, ShiftToDo
    <3>2. WritesFirst(todo', a)
      BY <1>3, <1>9, <2>6 DEF WritesFirst, Writing
    <3>3. ToWrite(todo', a)
      BY <3>2 DEF WritesFirst, ToWrite
    <3>4. k \in ListedKeys(app[a]) /\ a \in tracked[k] =>
            Linked(k) /\ (op = "prune" => Serves(app[a], k))
      <4>1. ~WritesFirst(todo, a)
        BY <2>4 DEF WritesFirst, Writing
      <4>. QED  BY <2>1, <2>2, <4>1 DEF FollowsOK, NowOK, Linkable, Linked
    <3>5. Linked(k) => Linkable(todo, k)'
      BY DEF Linked, Linkable
    <3>6. NowOK(todo, a, k)'
      BY <3>2, <3>4, <3>5 DEF NowOK
    <3>7. SoonOK(todo, a, k)'
      BY <3>3 DEF SoonOK
    <3>8. ThenOK(todo, a, k)'
      <4>1. ASSUME NEW i \in 1 .. Len(todo'), Writing(todo'[i], a), k \in ListedKeys(todo'[i].j),
                   a \in tracked'[k] \/ ToTrack(todo', k, a)
            PROVE  Linkable(todo, k)' /\ Serves(todo[i].j, k)'
        <5>1. todo'[i] = x /\ a \in tracked[k]
          BY <1>9, <1>11, <3>1, <4>1 DEF Writing
        <5>2. k \in ListedKeys(j)
          BY <1>3, <4>1, <5>1
        <5>3. Linked(k) /\ Serves(j, k)
          BY <2>6, <3>4, <5>1, <5>2
        <5>. QED  BY <1>3, <3>5, <5>1, <5>3 DEF Serves
      <4>. QED  BY <4>1 DEF ThenOK
    <3>9. GoneOK(todo, a, k)'
      <4>1. ~ToUncache(s, k)
        BY <1>3, <1>10 DEF ToUncache, Uncaches, Uncaching
      <4>2. ~ToUncache(todo', k)
        BY <1>1, <1>5, <1>7, <2>2, <4>1, ShiftToDrop
      <4>. QED  BY <4>2, NoneIsUncached DEF GoneOK
    <3>. QED  BY <3>6, <3>7, <3>8, <3>9 DEF FollowsOK
  <2>. QED  BY <2>5, <2>6
<1>. QED  BY <1>8, <1>12 DEF FollowInv

\* An application is to list what a package needs now, unless the solver finds nothing.
LEMMA RefreshFollows ==
  ASSUME IInv, FollowInv, refresh_app_indirect_deps
  PROVE  FollowInv'
<1> DEFINE wanted == source[Step.k[1]].needs \ Listed(app[Step.a])
           S == app[Step.a].indirect \cup Changes(app[Step.a], wanted)
           j == [app[Step.a] EXCEPT !.indirect = S]
<1>1. /\ Doing("refresh") /\ UNCHANGED <<source, link, tracked, app>>
      /\ \/ wanted = {} /\ Done /\ excused' = excused
         \/ Solvable(app[Step.a], wanted) /\ Then(<<Losing(1, Write(Step.a, j))>>) /\ excused' = excused
         \/ Done /\ excused' = excused \cup {<<Step.a>>}
  BY DEF refresh_app_indirect_deps, files
<1>2. Step.a \in Apps /\ Step.k \in Keys
  BY <1>1, StepIsAbout DEF Ops, KeyOps, AppOps, OtherOps
<1>3. "refresh" \notin {"elm_json", "loop", "unlink", "symlink", "track", "drop"}
  OBVIOUS
<1>4. CASE wanted = {} /\ Done /\ excused' = excused
  <2>1. \A k \in Keys : k[1] = Step.k[1] => Serves(app[Step.a], k)
    BY <1>4 DEF Serves
  <2>. QED  BY <1>1, <1>3, <1>4, <2>1, FollowDone
<1>5. CASE Done /\ excused' = excused \cup {<<Step.a>>}
  <2>1. <<Step.a>> \in excused' /\ excused \subseteq excused'
    BY <1>5
  <2>. QED  BY <1>1, <1>3, <1>5, <2>1, FollowDone
<1>6. CASE Solvable(app[Step.a], wanted) /\ Then(<<Losing(1, Write(Step.a, j))>>) /\ excused' = excused
  <2> DEFINE old == app[Step.a]
             C == Changes(old, wanted)
  <2>1. old \in Json
    BY <1>2 DEF IInv, FilesOK
  <2>2. C \subseteq Entries
    BY <1>6, <2>1, ChangesType DEF IInv
  <2>3. j \in Json
    <3>1. S \in SUBSET Entries
      BY <2>1, <2>2, JsonType
    <3> HIDE DEF S
    <3>. QED  BY <2>1, <3>1, JsonExcept
  <2>4. wanted \in SUBSET Packages
    <3>1. Step.k[1] \in Names
      BY <1>2 DEF Keys
    <3>2. source[Step.k[1]].needs \subseteq Packages
      BY <3>1 DEF IInv, FilesOK
    <3>. QED  BY <3>2
  <2>5. j.direct \cup j.indirect = (old.direct \cup old.indirect) \cup C
    <3>1. "direct" \in DOMAIN old /\ "indirect" \in DOMAIN old
      BY <2>1 DEF Json, Places
    <3>2. j.direct = old.direct /\ j.indirect = old.indirect \cup C
      BY <2>1 DEF Json, Places
    <3>. QED  BY <3>2
  <2>6. Then(<<Losing(1, Write(Step.a, j))>>) /\ Solvable(old, wanted)
    BY <1>6
  <2>7. FilesOK
    BY DEF IInv
  <2> HIDE DEF wanted, j
  <2>8. ASSUME NEW k \in ListedKeys(j), k \in ListedKeys(app[Step.a]) => Linked(k)
        PROVE  Linked(k) /\ Serves(j, k)
    <3>1. Serves(j, k) /\ (k \in C => Linked(k)) /\ k \in ListedKeys(old) \cup C
      BY <2>1, <2>3, <2>4, <2>5, <2>6, <2>7, ChangesServe
    <3>. QED  BY <2>8, <3>1
  <2>9. "refresh" \in FollowOps /\ "refresh" # "prune"
    BY DEF FollowOps
  <2>. QED  BY <1>1, <1>6, <2>3, <2>6, <2>8, <2>9, WriteFollows
<1>. QED  BY <1>1, <1>4, <1>5, <1>6

\* What goes with a need is what no direct dependency leads to.
LEMMA PruneFollows ==
  ASSUME IInv, FollowInv, prune_app_orphaned_deps
  PROVE  FollowInv'
<1> DEFINE S == app[Step.a].indirect \ Orphans(app[Step.a])
           j == [app[Step.a] EXCEPT !.indirect = S]
<1>1. /\ Doing("prune") /\ UNCHANGED <<source, link, tracked, app, excused>>
      /\ Done \/ Then(<<Losing(1, Write(Step.a, j))>>)
  BY DEF prune_app_orphaned_deps, files
<1>2. Step.a \in Apps
  BY <1>1, StepIsAbout DEF Ops, KeyOps, AppOps, OtherOps
<1>3. "prune" \notin {"elm_json", "loop", "unlink", "symlink", "track", "refresh", "drop"}
  OBVIOUS
<1>4. CASE Done
  BY <1>1, <1>3, <1>4, FollowDone
<1>5. CASE Then(<<Losing(1, Write(Step.a, j))>>)
  <2> DEFINE old == app[Step.a]
  <2>1. old \in Json
    BY <1>2 DEF IInv, FilesOK
  <2>2. j \in Json
    <3>1. S \in SUBSET Entries
      BY <2>1, JsonType
    <3> HIDE DEF S
    <3>. QED  BY <2>1, <3>1, JsonExcept
  <2>3. j.direct = old.direct /\ j.indirect = old.indirect \ Orphans(old)
    BY <2>1 DEF Json, Places
  <2>4. FilesOK
    BY DEF IInv
  <2>5. Then(<<Losing(1, Write(Step.a, j))>>)
    BY <1>5
  <2> HIDE DEF j
  <2>6. ASSUME NEW k \in ListedKeys(j),
               k \in ListedKeys(app[Step.a]) => Linked(k) /\ Serves(app[Step.a], k)
        PROVE  Linked(k) /\ Serves(j, k)
    <3>1. k \in ListedKeys(old)
      BY <2>3 DEF ListedKeys
    <3>2. Linked(k) /\ Serves(old, k)
      BY <2>6, <3>1
    <3>. QED  BY <2>1, <2>2, <2>3, <2>4, <3>2, OrphansServe
  <2>7. "prune" \in FollowOps
    BY DEF FollowOps
  <2>. QED  BY <1>1, <2>2, <2>5, <2>6, <2>7, WriteFollows
<1>. QED  BY <1>1, <1>4, <1>5

\* Every step of LocalDev.
LEMMA StepsFollow ==
  ASSUME IInv, FollowInv, Steps
  PROVE  FollowInv'
<1>1. CASE \/ unlink_package \/ create_package_symlink \/ open_source_path \/ save_local_dev_source_path
           \/ register_local_dev_v2_text_registry \/ ensure_local_dev_in_registry_dat
           \/ register_dependency_tracking \/ drop_tracking_dir \/ drop_all_tracking
           \/ remove_local_dev_from_registry_dat \/ remove_local_dev_from_text_registry \/ untrack
           \/ reinsert_local_dev \/ builder_clean_local_dev_artifacts \/ compiler_make
  BY <1>1, FilesStepsFollow
<1>2. CASE next_round \/ elm_json_write \/ ensure_local_dev_symlink \/ register_local_dev_tracking_if_needed
  BY <1>2, RoundFollows, WrittenFollows, LinkIsKept, VersionIsEntered
<1>3. CASE refresh_app_indirect_deps \/ prune_app_orphaned_deps \/ download_package_recursive
  BY <1>3, RefreshFollows, PruneFollows, FetchFollows
<1>4. CASE continue_with_needs \/ builder_compile_local_dev_packages
  BY <1>4, NeedsFollow
<1>. QED  BY <1>1, <1>2, <1>3, <1>4 DEF Steps

\* What is cut in a round has its applications excused, too.
LEMMA CutRound ==
  ASSUME NEW q \in Seq(StepSet), NEW i \in 1 .. Len(q), NEW r \in q[i].rounds, NEW p \in 1 .. Len(r),
         r[p].a \in Apps
  PROVE  <<r[p].a>> \in Cut(q) \ {NoKey, <<"">>}
<1>1. <<r[p].a>> \in Cut(q)
  <2>1. i \in DOMAIN q /\ q[i] \in StepSet
    OBVIOUS
  <2>2. p \in DOMAIN r
    <3>1. r \in Seq(StepSet)
      BY <2>1, RoundType
    <3>. QED  BY <3>1
  <2>3. <<r[p].a>> \in CutStep(r[p])
    BY DEF CutStep
  <2> DEFINE R == UNION {q[h].rounds : h \in DOMAIN q}
             T(x) == UNION {CutStep(x[h]) : h \in DOMAIN x}
  <2>4. r \in R
    BY <2>1
  <2>5. <<r[p].a>> \in T(r)
    BY <2>2, <2>3
  <2> HIDE DEF R, T
  <2>6. <<r[p].a>> \in UNION {T(x) : x \in R}
    BY <2>4, <2>5
  <2>. QED  BY <2>6 DEF Cut, R, T
<1> DEFINE e == ""
           b == r[p].a
<1>2. b # e
  BY AppsAreNamed, Zenon
<1> HIDE DEF e, b
<1>3. <<b>> # <<>> /\ <<b>> # <<e>>
  BY <1>2
<1>4. <<b>> \notin {<<>>, <<e>>}
  BY <1>3, Zenon
<1>. QED  BY <1>1, <1>4, Zenon DEF b, e, NoKey

\* So are its versions.
LEMMA CutRoundKey ==
  ASSUME NEW q \in Seq(StepSet), NEW i \in 1 .. Len(q), NEW r \in q[i].rounds, NEW p \in 1 .. Len(r)
  PROVE  r[p].k \in (Cut(q) \ {NoKey, <<"">>}) \cup {NoKey}
<1>1. i \in DOMAIN q /\ q[i] \in StepSet
  OBVIOUS
<1>2. p \in DOMAIN r /\ r[p] \in PlainSteps
  <2>1. r \in Seq(StepSet) /\ r[p] \in PlainSteps
    BY <1>1, RoundType
  <2>. QED  BY <2>1
<1>3. r[p].k \in Cut(q)
  <2>1. r[p].k \in CutStep(r[p])
    BY DEF CutStep
  <2> DEFINE R == UNION {q[h].rounds : h \in DOMAIN q}
             T(x) == UNION {CutStep(x[h]) : h \in DOMAIN x}
  <2>2. r \in R
    BY <1>1
  <2>3. r[p].k \in T(r)
    BY <1>2, <2>1
  <2> HIDE DEF R, T
  <2>4. r[p].k \in UNION {T(x) : x \in R}
    BY <2>2, <2>3
  <2>. QED  BY <2>4 DEF Cut, R, T
<1>4. r[p].k \in Keys \cup {NoKey}
  BY <1>2 DEF PlainSteps
<1>5. ASSUME r[p].k \in Keys PROVE r[p].k \notin {NoKey, <<"">>}
  BY <1>5, KeyIsNoOther
<1>. QED  BY <1>3, <1>4, <1>5

\* What is not excused was not to be linked, nor looked at, nor written, nor dropped.
LEMMA CutExcuses ==
  ASSUME NEW q \in Seq(StepSet), NEW C, C = Cut(q) \ {NoKey, <<"">>}, NEW a \in Apps, NEW k \in Keys,
         <<a>> \notin C, k \notin C
  PROVE  ~ToLink(q, k) /\ ~ToRefresh(q, k[1], a) /\ ~ToWrite(q, a) /\ ~ToDrop(q, k)
<1>1. ASSUME NEW i \in 1 .. Len(q) PROVE q[i].k # k
  <2>1. q[i].k \in C \cup {NoKey}
    BY CutIsExcused
  <2>2. k # NoKey
    BY KeyIsNoOther
  <2>. QED  BY <2>1, <2>2
<1>2. ASSUME NEW i \in 1 .. Len(q) PROVE q[i].a # a
  <2>1. q[i].a \in Apps => <<q[i].a>> \in C
    BY CutApplication
  <2>. QED  BY <2>1
<1>3. ASSUME NEW i \in 1 .. Len(q), NEW r \in q[i].rounds, NEW p \in 1 .. Len(r) PROVE r[p].a # a
  <2>1. r[p].a \in Apps => <<r[p].a>> \in C
    BY CutRound
  <2>. QED  BY <2>1
<1>4. ~ToLink(q, k)
  BY <1>1 DEF ToLink, Links
<1>5. ~ToWrite(q, a)
  BY <1>2 DEF ToWrite, Writing
<1>6. ASSUME NEW i \in 1 .. Len(q) PROVE ~Refreshes(q[i], k[1], a)
  BY <1>2, <1>3 DEF Refreshes, Looks
<1>7. ASSUME NEW i \in 1 .. Len(q), NEW r \in q[i].rounds, NEW p \in 1 .. Len(r) PROVE r[p].k # k
  <2>1. r[p].k \in C \cup {NoKey}
    BY CutRoundKey
  <2>2. k # NoKey
    BY KeyIsNoOther
  <2>. QED  BY <2>1, <2>2
<1>8. ~ToDrop(q, k)
  BY <1>1, <1>7 DEF ToDrop, Drops, Dropping
<1>. QED  BY <1>4, <1>5, <1>6, <1>8 DEF ToRefresh

\* A command that is cut excuses what it was about.
LEMMA CutFollows ==
  ASSUME IInv, FollowInv, todo' = <<>>, Excuse(todo), UNCHANGED <<source, link, tracked, app>>
  PROVE  FollowInv'
<1>1. todo \in Seq(StepSet)
  BY DEF IInv, Left, QInv, QueueOK
<1>2. excused' = excused \cup (Cut(todo) \ {NoKey, <<"">>})
  BY DEF Excuse
<1> DEFINE C == Cut(todo) \ {NoKey, <<"">>}
<1>3. excused' = excused \cup C
  BY <1>2
<1>4. C = Cut(todo) \ {NoKey, <<"">>}
  OBVIOUS
<1> HIDE DEF C
<1>5. ShapeOK(todo') /\ Len(todo') = 0
  BY NothingHasShape, EmptySeq
<1>6. ASSUME NEW a \in Apps, NEW k \in Keys, <<a>> \notin excused', k \notin excused'
      PROVE  FollowsOK(todo, a, k)'
  <2>1. FollowsOK(todo, a, k) /\ <<a>> \notin C /\ k \notin C
    BY <1>3, <1>6 DEF FollowInv
  <2>2. ~ToLink(todo, k) /\ ~ToRefresh(todo, k[1], a) /\ ~ToWrite(todo, a) /\ ~ToDrop(todo, k)
    BY <1>1, <1>4, <2>1, CutExcuses
  <2>3. ~WritesFirst(todo, a)
    BY <2>2 DEF WritesFirst, ToWrite
  <2>4. Linkable(todo, k) => Linkable(todo, k)'
    BY <2>2 DEF Linkable
  <2>5. Serves(app[a], k) => Serves(app[a], k)'
    BY DEF Serves
  <2>6. NowOK(todo, a, k)'
    BY <2>1, <2>2, <2>3, <2>4, <2>5 DEF FollowsOK, NowOK
  <2>7. ThenOK(todo, a, k)' /\ SoonOK(todo, a, k)'
    BY <1>5 DEF ThenOK, SoonOK, ToTrack
  <2>8. GoneOK(todo, a, k)'
    BY <1>5 DEF GoneOK, EndsOK, Ends, ToTrack
  <2>. QED  BY <2>6, <2>7, <2>8 DEF FollowsOK
<1>. QED  BY <1>5, <1>6 DEF FollowInv

\* Steps that are not lost stay.
LEMMA DroppedTo ==
  ASSUME NEW q, NEW n, NEW t, Dropped(q, n, t), NEW i \in 1 .. Len(q), i > n
  PROVE  \E m \in 1 .. Len(t) : t[m] = q[i]
<1> DEFINE m == i - n
<1>1. m \in 1 .. Len(t) /\ t[m] = q[i]
  BY DEF Dropped
<1> HIDE DEF m
<1>. QED  BY <1>1

\* A write that fails excuses what it and the steps lost with it were about.
LEMMA LossFollows ==
  ASSUME IInv, FollowInv, todo # <<>>, todo[1].loses # 0, Dropped(todo, todo[1].loses, todo'),
         UNCHANGED <<source, link, tracked, app>>, excused \subseteq excused',
         todo[1].k \in excused' \cup {NoKey}, todo[1].a \in Apps => <<todo[1].a>> \in excused'
  PROVE  FollowInv'
<1> DEFINE l == todo[1].loses
<1>1. todo \in Seq(StepSet) /\ Local(todo) /\ 1 \in 1 .. Len(todo) /\ todo[1] \in StepSet
  <2>1. todo \in Seq(StepSet) /\ Local(todo)
    BY DEF IInv, Left, QInv, QueueOK
  <2>. QED  BY <2>1
<1>2. ShapeOK(todo') /\ ShapeOK(todo)
  BY DropShape DEF FollowInv
<1>3. \A h \in 1 .. Len(todo) : h <= l => todo[h].k = todo[1].k /\ todo[h].op # "loop" /\ todo[h].rounds = {}
  <2>1. ASSUME NEW h \in 1 .. Len(todo), h <= l
        PROVE  todo[h].k = todo[1].k /\ todo[h].op # "loop" /\ todo[h].rounds = {}
    <3>1. todo[h].k = todo[1].k /\ todo[h].op # "loop"
      BY <1>1, <2>1, LostIsLocal
    <3>2. todo[h] \in StepSet
      BY <1>1
    <3>. QED  BY <3>1, <3>2, StepType
  <2>. QED  BY <2>1
<1>4. Dropped(todo, l, todo') /\ l \in 1 .. Len(todo)
  BY DEF Dropped
<1>5. l = todo[1].loses
  OBVIOUS
<1> HIDE DEF l
<1>6. ASSUME NEW i \in 1 .. Len(todo), i > l PROVE \E m \in 1 .. Len(todo') : todo'[m] = todo[i]
  BY <1>4, <1>6, DroppedTo
<1>7. \A i \in 1 .. Len(todo) : i <= l \/ i > l
  BY <1>4
<1>8. ASSUME NEW i \in 1 .. Len(todo), todo[i].op = "elm_json", i <= l PROVE i = 1
  <2>1. todo[i].k = NoKey /\ \A h \in 1 .. i - 1 : todo[h].op \in FileOps
    BY <1>2, <1>8 DEF ShapeOK, WritesOK
  <2>2. todo[1].k = NoKey
    BY <1>3, <1>8, <2>1
  <2>3. todo[1].op \notin FileOps
    <3>1. todo[1].op \in KeyOps => todo[1].k \in Keys
      BY <1>1, StepType DEF Fits
    <3>2. NoKey \notin Keys
      BY KeyIsNoOther
    <3>3. FileOps \subseteq KeyOps
      BY DEF FileOps, KeyOps
    <3>. QED  BY <2>2, <3>1, <3>2, <3>3
  <2>4. ASSUME i # 1 PROVE 1 \in 1 .. i - 1
    BY <2>4
  <2>. QED  BY <2>1, <2>3, <2>4
<1>9. ASSUME NEW a \in Apps, NEW k \in Keys, <<a>> \notin excused', k \notin excused'
      PROVE  FollowsOK(todo, a, k)'
  <2>1. FollowsOK(todo, a, k) /\ todo[1].a # a /\ todo[1].k # k
    <3>1. NoKey # k
      BY KeyIsNoOther
    <3>. QED  BY <1>9, <3>1 DEF FollowInv
  <2>2. ToLink(todo, k) => ToLink(todo', k)
    <3>1. ASSUME NEW i \in 1 .. Len(todo), Links(todo[i], k) PROVE ToLink(todo', k)
      <4>1. i > l
        BY <1>3, <1>7, <2>1, <3>1 DEF Links
      <4>. QED  BY <1>6, <3>1, <4>1 DEF ToLink
    <3>. QED  BY <3>1 DEF ToLink
  <2>3. ToRefresh(todo, k[1], a) => ToRefresh(todo', k[1], a)
    <3>1. ASSUME NEW i \in 1 .. Len(todo), Refreshes(todo[i], k[1], a) PROVE ToRefresh(todo', k[1], a)
      <4>1. Has(todo[i], FollowOps)
        BY <3>1 DEF Refreshes, Looks, Has, FollowOps
      <4>2. PICK op \in FollowOps : Following(todo, op)
        BY <1>2, <4>1 DEF ShapeOK, FollowOK
      <4>3. l = 1
        BY <1>1, <1>5, <4>2 DEF Following, FollowStep
      <4>4. ASSUME i = 1 PROVE FALSE
        <5>1. todo[1].rounds = {}
          BY <1>1, <1>3, <4>3
        <5>. QED  BY <2>1, <3>1, <4>4, <5>1 DEF Refreshes, Looks
      <4>5. i > l
        BY <4>3, <4>4
      <4>. QED  BY <1>6, <3>1, <4>5 DEF ToRefresh
    <3>. QED  BY <3>1 DEF ToRefresh
  <2>4. ToTrack(todo', k, a) => ToTrack(todo, k, a)
    <3>1. ASSUME NEW i \in 1 .. Len(todo'), Tracks(todo'[i], k, a) PROVE ToTrack(todo, k, a)
      <4>1. PICK g \in 1 .. Len(todo) : todo'[i] = todo[g]
        BY <1>4, DroppedFrom
      <4>. QED  BY <3>1, <4>1 DEF ToTrack
    <3>. QED  BY <3>1 DEF ToTrack
  <2>5. ToWrite(todo, a) => ToWrite(todo', a)
    <3>1. ASSUME NEW i \in 1 .. Len(todo), Writing(todo[i], a) PROVE ToWrite(todo', a)
      <4>1. i > l
        BY <1>7, <1>8, <2>1, <3>1 DEF Writing
      <4>. QED  BY <1>6, <3>1, <4>1 DEF ToWrite
    <3>. QED  BY <3>1 DEF ToWrite
  <2>6. ~WritesFirst(todo, a)
    BY <2>1 DEF WritesFirst, Writing
  <2>7. Linkable(todo, k) => Linkable(todo, k)'
    BY <2>2 DEF Linkable
  <2>8. Serves(app[a], k) => Serves(app[a], k)'
    BY DEF Serves
  <2>12. ToDrop(todo, k) => ToDrop(todo', k)
    <3>1. ASSUME NEW i \in 1 .. Len(todo), Drops(todo[i], k) PROVE ToDrop(todo', k)
      <4>1. i > l
        BY <1>3, <1>7, <2>1, <3>1 DEF Drops, Dropping
      <4>. QED  BY <1>6, <3>1, <4>1 DEF ToDrop
    <3>. QED  BY <3>1 DEF ToDrop
  <2>13. ToUncache(todo', k) => ToUncache(todo, k)
    <3>1. ASSUME NEW i \in 1 .. Len(todo'), Uncaches(todo'[i], k) PROVE ToUncache(todo, k)
      <4>1. PICK g \in 1 .. Len(todo) : todo'[i] = todo[g]
        BY <1>4, DroppedFrom
      <4>. QED  BY <3>1, <4>1 DEF ToUncache
    <3>. QED  BY <3>1 DEF ToUncache
  <2>14. EndsOK(todo, k) => EndsOK(todo', k)
    BY <1>4, DropEnds
  <2>15. GoneOK(todo, a, k)'
    BY <2>1, <2>4, <2>13, <2>14 DEF FollowsOK, GoneOK
  <2>9. NowOK(todo, a, k)'
    BY <2>1, <2>3, <2>6, <2>7, <2>8, <2>12 DEF FollowsOK, NowOK
  <2>10. SoonOK(todo, a, k)'
    BY <2>1, <2>4, <2>5, <2>7, <2>8 DEF FollowsOK, SoonOK
  <2>11. ThenOK(todo, a, k)'
    <3>1. ASSUME NEW i \in 1 .. Len(todo'), Writing(todo'[i], a), k \in ListedKeys(todo'[i].j),
                 a \in tracked'[k] \/ ToTrack(todo', k, a)
          PROVE  Linkable(todo, k)' /\ Serves(todo[i].j, k)'
      <4>1. PICK g \in 1 .. Len(todo) : todo'[i] = todo[g]
        BY <1>4, DroppedFrom
      <4>2. a \in tracked[k] \/ ToTrack(todo, k, a)
        BY <2>4, <3>1
      <4>3. Linkable(todo, k) /\ Serves(todo[g].j, k)
        BY <2>1, <3>1, <4>1, <4>2 DEF FollowsOK, ThenOK
      <4>. QED  BY <2>7, <4>1, <4>3 DEF Serves
    <3>. QED  BY <3>1 DEF ThenOK
  <2>. QED  BY <2>9, <2>10, <2>11, <2>15 DEF FollowsOK
<1>. QED  BY <1>2, <1>9 DEF FollowInv

\* Neither a crash nor a write that fails takes an application that is not excused with it.
LEMMA TroubleFollows ==
  ASSUME IInv, FollowInv, Crash \/ Fail
  PROVE  FollowInv'
<1>1. CASE Crash \/ (Fail /\ Step.loses = 0)
  <2>1. todo' = <<>> /\ Excuse(todo) /\ UNCHANGED <<source, link, tracked, app>>
    BY <1>1 DEF Crash, Fail, Stop, files
  <2>. QED  BY <2>1, CutFollows
<1>2. CASE Fail /\ Step.loses # 0
  <2>1. /\ todo' = SubSeq(todo, Step.loses + 1, Len(todo)) /\ UNCHANGED files
        /\ Excuse(<<Step>>) /\ ~Idle
    BY <1>2 DEF Fail
  <2>2. /\ todo \in Seq(StepSet) /\ todo # <<>> /\ todo[1] = Step /\ Step \in StepSet /\ Local(todo)
    <3>1. Doing(Step.op)
      BY <2>1 DEF Doing
    <3>. QED  BY <3>1, FirstStep DEF IInv, Left, QInv, QueueOK
  <2>3. Dropped(todo, Step.loses, todo')
    <3>1. 1 \in 1 .. Len(todo) /\ Len(todo) \in Nat
      BY <2>2, EmptySeq
    <3>2. Step.loses \in Nat
      BY <2>2, StepType
    <3>3. 1 + Step.loses <= Len(todo) + 1
      BY <2>2, <3>1 DEF Local
    <3> DEFINE l == Step.loses
    <3>4. l \in 1 .. Len(todo)
      BY <1>2, <3>1, <3>2, <3>3
    <3> HIDE DEF l
    <3>5. Dropped(todo, l, SubSeq(todo, l + 1, Len(todo)))
      BY <2>2, <3>4, FailDrops
    <3>. QED  BY <2>1, <3>5 DEF l
  <2>4. <<Step>> \in Seq(StepSet) /\ <<Step>>[1] = Step /\ 1 \in 1 .. Len(<<Step>>)
    BY <2>2
  <2>5. excused' = excused \cup (Cut(<<Step>>) \ {NoKey, <<"">>})
    BY <2>1 DEF Excuse
  <2> DEFINE s == <<Step>>
             C == Cut(<<Step>>) \ {NoKey, <<"">>}
  <2>6. s \in Seq(StepSet) /\ s[1] = Step /\ 1 \in 1 .. Len(s) /\ excused' = excused \cup C
    BY <2>4, <2>5
  <2>7. C = Cut(s) \ {NoKey, <<"">>}
    OBVIOUS
  <2> HIDE DEF s, C
  <2>8. Step.k \in C \cup {NoKey}
    BY <2>6, <2>7, CutIsExcused
  <2>9. Step.a \in Apps => <<Step.a>> \in C
    BY <2>6, <2>7, CutApplication
  <2>10. UNCHANGED <<source, link, tracked, app>>
    BY <2>1 DEF files
  <2>. QED  BY <1>2, <2>2, <2>3, <2>6, <2>8, <2>9, <2>10, LossFollows
<1>. QED  BY <1>1, <1>2

-----------------------------------------------------------------------------
(* Commands that begin *)

EnterOps == {"elm_json", "track", "track_if"}

\* A step that neither touches links nor follows.
Still(st) == ~Has(st, EnterOps \cup FollowOps \cup {"unlink", "symlink", "uncache"})
AllStill(q) == \A i \in 1 .. Len(q) : Still(q[i])

\* Between commands an application that tracks a version lists what it needs.
LEMMA IdleFollowed ==
  ASSUME FollowInv, Idle, NEW a \in Apps, NEW k \in Keys, <<a>> \notin excused, k \notin excused,
         k \in ListedKeys(app[a]), a \in tracked[k]
  PROVE  source[k[1]].there /\ link[k] = "source" /\ Serves(app[a], k)
<1>1. Len(todo) = 0
  BY EmptySeq DEF Idle
<1>2. NowOK(todo, a, k)
  BY DEF FollowInv, FollowsOK
<1>3. ~ToLink(todo, k) /\ ~ToRefresh(todo, k[1], a) /\ ~WritesFirst(todo, a) /\ ~ToDrop(todo, k)
  BY <1>1 DEF ToLink, ToRefresh, WritesFirst, ToDrop
<1>. QED  BY <1>2, <1>3 DEF NowOK, Linkable

\* A command that enters no application and writes no elm.json first.
LEMMA QuietBegins ==
  ASSUME IInv, FollowInv, Idle, UNCHANGED <<tracked, app>>, excused \subseteq excused',
         ShapeOK(todo'), \A i \in 1 .. Len(todo') : ~Has(todo'[i], EnterOps),
         \A k \in Keys : tracked[k] # {} => EndsOK(todo', k),
         \A a \in Apps, k \in Keys :
           <<a>> \notin excused' /\ k \notin excused' /\ k \in ListedKeys(app[a]) /\ a \in tracked[k] =>
             /\ source'[k[1]].there = source[k[1]].there /\ link'[k] = link[k]
             /\ source'[k[1]].needs \subseteq source[k[1]].needs \/ ToRefresh(todo', k[1], a)
  PROVE  FollowInv'
<1>1. ASSUME NEW a \in Apps, NEW k \in Keys, <<a>> \notin excused', k \notin excused'
      PROVE  FollowsOK(todo, a, k)'
  <2>1. ASSUME k \in ListedKeys(app[a]), a \in tracked[k]
        PROVE  /\ source'[k[1]].there /\ link'[k] = "source"
               /\ source'[k[1]].needs \subseteq Listed(app[a]) \/ ToRefresh(todo', k[1], a)
    <3>1. <<a>> \notin excused /\ k \notin excused
      BY <1>1
    <3>2. source[k[1]].there /\ link[k] = "source" /\ Serves(app[a], k)
      BY <2>1, <3>1, IdleFollowed
    <3>. QED  BY <1>1, <2>1, <3>2 DEF Serves
  <2>2. NowOK(todo, a, k)'
    BY <2>1 DEF NowOK, Linkable, Serves
  <2>3. ThenOK(todo, a, k)'
    BY DEF ThenOK, Writing, Has, EnterOps
  <2>4. ~ToTrack(todo', k, a)
    BY DEF ToTrack, Tracks, Enters, Has, EnterOps
  <2>5. SoonOK(todo, a, k)'
    BY <2>4 DEF SoonOK
  <2>6. GoneOK(todo, a, k)'
    BY <2>4 DEF GoneOK
  <2>. QED  BY <2>2, <2>3, <2>5, <2>6 DEF FollowsOK
<1>. QED  BY <1>1 DEF FollowInv

\* Steps that neither touch links nor follow have the form that is asked for.
LEMMA StillShape ==
  ASSUME NEW q, AllStill(q)
  PROVE  /\ ShapeOK(q) /\ \A i \in 1 .. Len(q) : ~Has(q[i], EnterOps)
         /\ \A k : EndsOK(q, k)
<1>1. WritesOK(q) /\ HaltsOK(q) /\ FollowOK(q) /\ RelinksOK(q)
  BY DEF WritesOK, HaltsOK, FollowOK, RelinksOK, Relinks, AllStill, Still, Has, EnterOps, FollowOps
<1>2. \A i \in 1 .. Len(q) : ~Has(q[i], {"uncache"})
  BY DEF AllStill, Still, Has
<1>3. \A k : EndsOK(q, k)
  BY <1>2, NoLinkGoes, NoneIsUncached
<1>. QED  BY <1>1, <1>3 DEF ShapeOK, AllStill, Still, Has

\* A command of such steps that changes neither sources nor links.
LEMMA StillBegins ==
  ASSUME IInv, FollowInv, Idle, UNCHANGED <<source, link, tracked, app>>, excused \subseteq excused',
         AllStill(todo')
  PROVE  FollowInv'
<1>1. /\ ShapeOK(todo') /\ \A i \in 1 .. Len(todo') : ~Has(todo'[i], EnterOps)
      /\ \A k \in Keys : EndsOK(todo', k)
  BY StillShape
<1>. QED  BY <1>1, QuietBegins

\* What begins with no step: an edit, a move, a link replaced, a registry downloaded.
LEMMA EditsFollow ==
  ASSUME IInv, FollowInv,
         \/ \E n \in Names : Edit(n) \/ Move(n) \/ (\E v \in Versions : Bump(n, v))
         \/ \E k \in Keys : \E by \in {"copy", "none"} : Replace(k, by)
         \/ ResetRegistry
  PROVE  FollowInv'
<1>1. Idle /\ todo' = <<>> /\ UNCHANGED <<tracked, app>> /\ excused \subseteq excused'
  BY DEF Edit, Move, ResetRegistry, Bump, Replace, Begin, Keep
<1>2. Len(todo') = 0 /\ ShapeOK(todo')
  BY <1>1, EmptySeq, NothingHasShape
<1>3. /\ \A i \in 1 .. Len(todo') : ~Has(todo'[i], EnterOps)
      /\ \A k \in Keys : EndsOK(todo', k)
  BY <1>2 DEF EndsOK, Ends
<1>4. source \in [Names -> [there : BOOLEAN, version : Versions, needs : SUBSET Packages, code : 1 .. MaxCode]]
  BY DEF IInv, FilesOK
<1>5. /\ link \in [Keys -> {"none", "copy", "source"}]
      /\ \A k \in Keys : k[1] \in Names /\ k[2] \in Versions /\ k = <<k[1], k[2]>>
  BY DEF IInv, FilesOK, Keys
<1>6. ASSUME NEW a \in Apps, NEW k \in Keys, <<a>> \notin excused', k \in ListedKeys(app[a])
      PROVE  /\ source'[k[1]].there = source[k[1]].there /\ link'[k] = link[k]
             /\ source'[k[1]].needs = source[k[1]].needs
  <2>1. ASSUME NEW n \in Names, Edit(n) \/ (\E v \in Versions : Bump(n, v))
        PROVE  /\ source'[k[1]].there = source[k[1]].there /\ link'[k] = link[k]
               /\ source'[k[1]].needs = source[k[1]].needs
    <3>1. link' = link
      BY <2>1 DEF Edit, Bump, Keep
    <3>2. CASE Edit(n)
      <4>1. source' = [source EXCEPT ![n].code = @ + 1]
        BY <3>2 DEF Edit
      <4>. QED  BY <1>4, <1>5, <3>1, <4>1
    <3>3. ASSUME NEW v \in Versions, Bump(n, v)
          PROVE  source'[k[1]].there = source[k[1]].there /\ source'[k[1]].needs = source[k[1]].needs
      <4>1. source' = [source EXCEPT ![n].version = v]
        BY <3>3 DEF Bump
      <4>. QED  BY <1>4, <1>5, <4>1
    <3>. QED  BY <2>1, <3>1, <3>2, <3>3
  <2>2. ASSUME NEW n \in Names, Move(n)
        PROVE  /\ source'[k[1]].there = source[k[1]].there /\ link'[k] = link[k]
               /\ source'[k[1]].needs = source[k[1]].needs
    <3>1. /\ source' = [source EXCEPT ![n].there = ~@] /\ link' = link
          /\ excused' = excused \cup (UNION {Listing(<<n, v>>) : v \in Versions})
      BY <2>2 DEF Move
    <3>2. k[1] # n
      <4>1. SUFFICES ASSUME k[1] = n PROVE FALSE
        OBVIOUS
      <4>2. k = <<n, k[2]>> /\ k[2] \in Versions
        BY <1>5, <4>1
      <4>3. <<a>> \in Listing(<<n, k[2]>>)
        BY <1>6, <4>2 DEF Listing
      <4>. QED  BY <1>6, <3>1, <4>2, <4>3
    <3>. QED  BY <1>4, <1>5, <3>1, <3>2
  <2>3. ASSUME NEW l \in Keys, NEW by \in {"copy", "none"}, Replace(l, by)
        PROVE  /\ source'[k[1]].there = source[k[1]].there /\ link'[k] = link[k]
               /\ source'[k[1]].needs = source[k[1]].needs
    <3>1. link' = [link EXCEPT ![l] = by] /\ source' = source /\ excused' = excused \cup Listing(l)
      BY <2>3 DEF Replace
    <3>2. k # l
      BY <1>6, <3>1 DEF Listing
    <3>. QED  BY <1>5, <3>1, <3>2
  <2>4. ASSUME ResetRegistry
        PROVE  /\ source'[k[1]].there = source[k[1]].there /\ link'[k] = link[k]
               /\ source'[k[1]].needs = source[k[1]].needs
    BY <2>4 DEF ResetRegistry, Keep
  <2>. QED  BY <2>1, <2>2, <2>3, <2>4
<1>. QED  BY <1>1, <1>2, <1>3, <1>6, QuietBegins

\* A step that is no loop.
LEMMA StillPlain ==
  ASSUME NEW op, op \notin EnterOps \cup FollowOps \cup {"unlink", "symlink", "uncache"}, NEW k, NEW a, NEW n
  PROVE  Still(Do(op, k)) /\ Still(For(op, k, a)) /\ Still(Losing(n, For(op, k, a)))
  BY DEF Still, Has, Do, For, Losing, Made

\* A loop over rounds of one step.
LEMMA StillLoop ==
  ASSUME NEW op, op \notin EnterOps \cup FollowOps \cup {"unlink", "symlink", "uncache"}, NEW rounds,
         \A r \in rounds : \E x : x.op = op /\ r = <<x>>
  PROVE  Still(Loop(rounds))
<1>1. ASSUME NEW r \in rounds, NEW p \in 1 .. Len(r) PROVE r[p].op = op
  <2>1. PICK x : x.op = op /\ r = <<x>>
    OBVIOUS
  <2>2. Len(r) = 1 /\ r[1] = x
    BY <2>1
  <2>3. p = 1
    BY <2>2
  <2>. QED  BY <2>1, <2>2, <2>3
<1>2. Loop(rounds).op = "loop" /\ Loop(rounds).rounds = rounds
  BY DEF Loop, Made
<1>. QED  BY <1>1, <1>2 DEF Still, Has, EnterOps, FollowOps

\* A loop of one step for each of some versions.
LEMMA StillEach ==
  ASSUME NEW op, op \notin EnterOps \cup FollowOps \cup {"unlink", "symlink", "uncache"}, NEW S
  PROVE  Still(Each(op, S))
<1> DEFINE rounds == {<<Do(op, k)>> : k \in S}
<1>1. Each(op, S) = Loop(rounds)
  BY DEF Each
<1>2. ASSUME NEW r \in rounds PROVE \E x : x.op = op /\ r = <<x>>
  <2>1. PICK k \in S : r = <<Do(op, k)>>
    OBVIOUS
  <2> DEFINE x == Do(op, k)
  <2>2. x.op = op
    BY DEF Do, Made
  <2> HIDE DEF x
  <2>3. r = <<x>>
    BY <2>1 DEF x
  <2>. QED  BY <2>2, <2>3
<1> HIDE DEF rounds
<1>. QED  BY <1>1, <1>2, StillLoop

\* One step.
LEMMA OneStill == ASSUME NEW x, Still(x) PROVE AllStill(<<x>>)
<1> DEFINE q == <<x>>
<1>1. Len(q) = 1 /\ q[1] = x
  OBVIOUS
<1> HIDE DEF q
<1>2. AllStill(q)
  BY <1>1 DEF AllStill
<1>. QED  BY <1>2 DEF q

\* Two steps.
LEMMA TwoStill == ASSUME NEW x, Still(x), NEW y, Still(y) PROVE AllStill(<<x, y>>)
<1> DEFINE q == <<x, y>>
<1>1. Len(q) = 2 /\ q[1] = x /\ q[2] = y
  OBVIOUS
<1> HIDE DEF q
<1>2. \A i \in 1 .. Len(q) : i = 1 \/ i = 2
  BY <1>1
<1>3. AllStill(q)
  BY <1>1, <1>2 DEF AllStill
<1>. QED  BY <1>3 DEF q

\* One sequence of such steps after another.
LEMMA ConcatStill ==
  ASSUME NEW S, NEW s \in Seq(S), NEW t \in Seq(S), AllStill(s), AllStill(t)
  PROVE  AllStill(s \o t)
<1> DEFINE q == s \o t
<1>1. /\ Len(q) = Len(s) + Len(t) /\ Len(s) \in Nat /\ Len(t) \in Nat
      /\ \A i \in 1 .. Len(s) + Len(t) : q[i] = IF i <= Len(s) THEN s[i] ELSE t[i - Len(s)]
  BY ConcatProperties
<1> HIDE DEF q
<1>2. ASSUME NEW i \in 1 .. Len(q) PROVE Still(q[i])
  <2>1. CASE i <= Len(s)
    <3>1. i \in 1 .. Len(s) /\ q[i] = s[i]
      BY <1>1, <2>1
    <3>. QED  BY <3>1 DEF AllStill
  <2>2. CASE ~(i <= Len(s))
    <3> DEFINE g == i - Len(s)
    <3>1. g \in 1 .. Len(t) /\ q[i] = t[g]
      BY <1>1, <2>2
    <3> HIDE DEF g
    <3>. QED  BY <3>1 DEF AllStill
  <2>. QED  BY <2>1, <2>2
<1>3. AllStill(q)
  BY <1>2 DEF AllStill
<1>. QED  BY <1>3 DEF q

\* The directory goes if it is there.
LEMMA DropIsStill ==
  ASSUME NEW k, NEW s, s = IF k \in dirs THEN <<Do("drop", k)>> ELSE <<>>
  PROVE  s \in Seq({Do("drop", k)}) /\ AllStill(s)
<1> DEFINE x == Do("drop", k)
<1>1. Still(x)
  BY StillPlain DEF EnterOps, FollowOps
<1>2. s = IF k \in dirs THEN <<x>> ELSE <<>>
  OBVIOUS
<1> HIDE DEF x
<1>3. <<>> \in Seq({x}) /\ AllStill(<<>>)
  BY EmptySeq DEF AllStill
<1>4. <<x>> \in Seq({x}) /\ AllStill(<<x>>)
  BY <1>1, OneStill
<1>. QED  BY <1>2, <1>3, <1>4 DEF x

\* wrap uninstall --local-dev.
LEMMA UnregisterIsStill ==
  ASSUME NEW n, unregister_local_dev_package(n)
  PROVE  AllStill(todo')
<1> DEFINE k == <<n, source[n].version>>
           s == IF k \in dirs THEN <<Do("drop", k)>> ELSE <<>>
           x == Do("drop", k)
           y == Do("undat", k)
           S == {x, y}
<1>1. todo' = s \o <<y>>
  BY DEF unregister_local_dev_package, Begin
<1>2. s \in Seq({x}) /\ AllStill(s)
  BY DropIsStill
<1>3. Still(y)
  BY StillPlain DEF EnterOps, FollowOps
<1> HIDE DEF s, k, x, y
<1>4. s \in Seq(S) /\ <<y>> \in Seq(S) /\ AllStill(<<y>>)
  BY <1>2, <1>3, OneStill
<1> HIDE DEF S
<1>. QED  BY <1>1, <1>2, <1>4, ConcatStill

\* wrap repository local-dev, before and after the directory goes.
LEMMA ClearIsStill ==
  ASSUME NEW k, clear_package_tracking(k) \/ repository_clear_local_dev_registration(k)
  PROVE  AllStill(todo')
<1> DEFINE x == Do("drop", k)
           y == Do("undat", k)
           z == Do("untext", k)
           s == IF k \in dirs THEN <<x>> ELSE <<>>
           S == {x, y, z}
           t == <<y, z>>
<1>1. todo' = s \o t \/ todo' = t \o s
  BY DEF clear_package_tracking, repository_clear_local_dev_registration, Begin
<1>2. s \in Seq({x}) /\ AllStill(s)
  BY DropIsStill
<1>3. Still(y) /\ Still(z)
  BY StillPlain DEF EnterOps, FollowOps
<1> HIDE DEF s, x, y, z
<1>4. s \in Seq(S) /\ t \in Seq(S) /\ AllStill(t)
  BY <1>2, <1>3, TwoStill
<1> HIDE DEF S, t
<1>. QED  BY <1>1, <1>2, <1>4, ConcatStill

\* Connections that are removed, all of them or those of no use.
LEMMA UntrackIsStill ==
  ASSUME \/ clear_all_tracking \/ prune_stale_local_dev_connections
         \/ \E k \in Keys, a \in Apps : clear_path_tracking(k, a)
  PROVE  AllStill(todo')
<1>1. ASSUME NEW k \in Keys, NEW a \in Apps, clear_path_tracking(k, a) PROVE AllStill(todo')
  <2>1. todo' = <<For("untrack", k, a)>>
    BY <1>1 DEF clear_path_tracking, Begin
  <2>2. Still(For("untrack", k, a))
    BY DEF Still, Has, For, Made, EnterOps, FollowOps
  <2>. QED  BY <2>1, <2>2, OneStill
<1>2. ASSUME clear_all_tracking PROVE AllStill(todo')
  <2>1. todo' = <<Each("undat", dirs), Do("drop_all", NoKey)>>
    BY <1>2 DEF clear_all_tracking, Begin
  <2>2. Still(Each("undat", dirs))
    BY StillEach DEF EnterOps, FollowOps
  <2>3. Still(Do("drop_all", NoKey))
    BY DEF Still, Has, Do, Made, EnterOps, FollowOps
  <2>. QED  BY <2>1, <2>2, <2>3, TwoStill
<1>3. ASSUME prune_stale_local_dev_connections PROVE AllStill(todo')
  <2> DEFINE stale == {c \in Keys \X Apps : /\ c[2] \in tracked[c[1]]
                                            /\ \A e \in app[c[2]].direct : e[1] # c[1][1]}
             rounds == {<<For("untrack", c[1], c[2])>> : c \in stale}
  <2>1. todo' = <<Loop(rounds)>>
    BY <1>3 DEF prune_stale_local_dev_connections, Begin
  <2> HIDE DEF stale
  <2>2. ASSUME NEW r \in rounds PROVE \E x : x.op = "untrack" /\ r = <<x>>
    <3>1. PICK c \in stale : r = <<For("untrack", c[1], c[2])>>
      OBVIOUS
    <3> DEFINE x == For("untrack", c[1], c[2])
    <3>2. x.op = "untrack"
      BY DEF For, Made
    <3> HIDE DEF x
    <3>3. r = <<x>>
      BY <3>1 DEF x
    <3>. QED  BY <3>2, <3>3
  <2> HIDE DEF rounds
  <2>3. \A op \in {"untrack"} : (\A r \in rounds : \E x : x.op = op /\ r = <<x>>) => Still(Loop(rounds))
    BY StillLoop DEF EnterOps, FollowOps
  <2>4. Still(Loop(rounds))
    BY <2>2, <2>3
  <2>. QED  BY <2>1, <2>4, OneStill
<1>. QED  BY <1>1, <1>2, <1>3

\* wrap make.
LEMMA MakeIsStill ==
  ASSUME NEW a, cmd_make(a)
  PROVE  AllStill(todo')
<1> DEFINE b == Each("fetch", ListedKeys(app[a]))
           c == Do("reinsert", NoKey)
           d == Each("compile", TrackedBy(a))
           e == Losing(1, For("clean", NoKey, a))
           f == For("build", NoKey, a)
           q == <<b, c, d, e, f>>
<1>1. todo' = q
  BY DEF cmd_make, Begin
<1>2. Still(b) /\ Still(d)
  BY StillEach DEF EnterOps, FollowOps
<1>3. Still(c) /\ Still(e) /\ Still(f)
  BY StillPlain DEF EnterOps, FollowOps
<1> HIDE DEF b, c, d, e, f
<1>4. Len(q) = 5 /\ q[1] = b /\ q[2] = c /\ q[3] = d /\ q[4] = e /\ q[5] = f
  OBVIOUS
<1> HIDE DEF q
<1>5. \A i \in 1 .. Len(q) : i = 1 \/ i = 2 \/ i = 3 \/ i = 4 \/ i = 5
  BY <1>4
<1>6. AllStill(q)
  BY <1>2, <1>3, <1>4, <1>5 DEF AllStill
<1>. QED  BY <1>1, <1>6

\* So the applications follow when one of them begins.
LEMMA StillCommandsFollow ==
  ASSUME IInv, FollowInv,
         \/ \E n \in Names : unregister_local_dev_package(n)
         \/ \E k \in Keys : clear_package_tracking(k) \/ repository_clear_local_dev_registration(k)
         \/ clear_all_tracking \/ prune_stale_local_dev_connections
         \/ \E k \in Keys, a \in Apps : clear_path_tracking(k, a)
         \/ \E a \in Apps : cmd_make(a)
  PROVE  FollowInv'
<1>1. Idle /\ UNCHANGED <<source, link, tracked, app, excused>>
  BY DEF unregister_local_dev_package, clear_package_tracking,
         repository_clear_local_dev_registration, clear_all_tracking,
         prune_stale_local_dev_connections, clear_path_tracking, cmd_make, Begin, Keep, files
<1>2. AllStill(todo')
  BY UnregisterIsStill, ClearIsStill, UntrackIsStill, MakeIsStill
<1>. QED  BY <1>1, <1>2, StillBegins

\* Registering a version links it after it is unlinked, and does no more than that to it.
LEMMA RegisterShape ==
  ASSUME NEW k \in Keys, NEW q, q = RegisterSteps(k)
  PROVE  /\ ShapeOK(q) /\ \A i \in 1 .. Len(q) : ~Has(q[i], EnterOps)
         /\ \A l : EndsOK(q, l)
<1> DEFINE a == Do("unlink", k)
           b == Do("symlink", k)
<1>1. LinkedAndFiled(q, a, b, k)
  BY DEF LinkedAndFiled, RegisterSteps
<1>2. /\ a \in PlainSteps /\ a.op = "unlink" /\ a.k = k
      /\ b \in PlainSteps /\ b.op = "symlink" /\ b.k = k
  BY RegisterStep
<1> HIDE DEF a, b
<1>3. q \in Seq(StepSet) /\ Len(q) = 6 /\ Registers(q, k)
  BY <1>1, <1>2, RegistersType
<1>4. \A i \in 1 .. Len(q) : i = 1 \/ i = 2 \/ i = 3 \/ i = 4 \/ i = 5 \/ i = 6
  BY <1>3
<1>5. \A i \in 1 .. Len(q) :
        /\ q[i].rounds = {} /\ q[i].k = k
        /\ q[i].op \in {"unlink", "symlink", "open_path", "path", "text", "dat"}
        /\ q[i].op = "unlink" => i = 1
  <2>1. \A i \in 1 .. 6 : q[i].rounds = {} /\ q[i].k = k
    BY <1>3, PlainType DEF Registers
  <2>. QED  BY <1>3, <1>4, <2>1 DEF Registers
<1>6. 2 \in 1 + 1 .. Len(q) /\ q[2].op = "symlink" /\ q[2].k = k
  BY <1>3 DEF Registers
<1>7. WritesOK(q) /\ FollowOK(q) /\ HaltsOK(q)
  BY <1>5 DEF WritesOK, FollowOK, HaltsOK, Halts, Halting, Has, FollowOps
<1>8. RelinksOK(q)
  BY <1>5, <1>6 DEF RelinksOK, Relinks
<1>9. \A i \in 1 .. Len(q) : ~Has(q[i], EnterOps)
  BY <1>5 DEF Has, EnterOps
<1>10. \A l : EndsOK(q, l)
  BY <1>5 DEF EndsOK, Ends, Uncaching
<1>. QED  BY <1>7, <1>8, <1>9, <1>10 DEF ShapeOK

\* wrap install --local-dev in a package.
LEMMA RegisterFollows ==
  ASSUME IInv, FollowInv, NEW k \in Keys, register_local_dev_package(k)
  PROVE  FollowInv'
<1>1. Idle /\ todo' = RegisterSteps(k) /\ UNCHANGED <<source, link, tracked, app, excused>>
  BY DEF register_local_dev_package, Begin, Keep, files
<1>2. /\ ShapeOK(todo') /\ \A i \in 1 .. Len(todo') : ~Has(todo'[i], EnterOps)
      /\ \A l \in Keys : EndsOK(todo', l)
  BY <1>1, RegisterShape
<1>. QED  BY <1>1, <1>2, QuietBegins

\* A command that leaves the applications alone.
LEMMA ApartShape ==
  ASSUME NEW q, Apart(q)
  PROVE  /\ ShapeOK(q) /\ \A i \in 1 .. Len(q) : ~Has(q[i], EnterOps)
         /\ \A k \in dirs : EndsOK(q, k)
<1>1. \A op \in {"loop", "store", "demote", "promote", "report"} :
        op \notin GrowOps /\ op \notin {"elm_json", "track", "unlink"}
  BY DEF GrowOps
<1>2. FollowOps \subseteq GrowOps /\ "track_if" \in GrowOps /\ {"fetch", "have", "compile", "ensure"} \subseteq GrowOps
  BY DEF FollowOps, GrowOps
<1>3. \A i \in 1 .. Len(q) : /\ q[i].op \notin GrowOps /\ q[i].op \notin {"elm_json", "track", "unlink"}
                             /\ \A r \in q[i].rounds : \A p \in 1 .. Len(r) :
                                  r[p].op \notin GrowOps /\ r[p].op \notin {"elm_json", "track"}
  BY <1>1 DEF Apart
<1>4. \A i \in 1 .. Len(q) : ~Has(q[i], FollowOps) /\ ~Has(q[i], EnterOps) /\ ~Halts(q[i])
  BY <1>2, <1>3 DEF Has, EnterOps, Halts, Halting
<1>5. WritesOK(q)
  BY <1>3 DEF WritesOK
<1>6. HaltsOK(q) /\ FollowOK(q)
  BY <1>4 DEF HaltsOK, FollowOK
<1>7. RelinksOK(q)
  BY <1>3 DEF RelinksOK, Relinks, Apart
<1>8. ASSUME NEW k \in dirs PROVE EndsOK(q, k)
  <2>1. \A i \in 1 .. Len(q) : q[i].op # "uncache"
    BY DEF Apart
  <2>2. ASSUME NEW i \in 1 .. Len(q), NEW r \in q[i].rounds PROVE Ends(r, k)
    BY DEF Apart, Ends, Uncaching, Dropping
  <2>. QED  BY <2>1, <2>2 DEF EndsOK, Ends, Uncaching
<1>. QED  BY <1>4, <1>5, <1>6, <1>7, <1>8 DEF ShapeOK

\* So does wrap kit.
LEMMA KitCommandsFollow ==
  ASSUME IInv, FollowInv, NEW s \in Sources, cmd_kit_install(s) \/ InstallOrReinstall(s) \/ Update(s)
  PROVE  FollowInv'
<1>1. Idle /\ UNCHANGED <<source, link, tracked, app, excused>>
  BY DEF cmd_kit_install, InstallOrReinstall, Update, KitBegin, Begin
<1>2. Apart(todo')
  BY cmd_kit_install_OK, InstallOrReinstall_OK, Update_OK
<1>3. /\ ShapeOK(todo') /\ \A i \in 1 .. Len(todo') : ~Has(todo'[i], EnterOps)
      /\ \A k \in dirs : EndsOK(todo', k)
  BY <1>2, ApartShape
<1>4. \A k \in Keys : tracked[k] # {} => k \in dirs
  BY DEF IInv, FilesOK
<1>. QED  BY <1>1, <1>3, <1>4, QuietBegins

\* The applications that are going to be looked at.
LEMMA DependentsShape ==
  ASSUME NEW op \in FollowOps, NEW k, NEW q, q = Dependents(op, k)
  PROVE  /\ ShapeOK(q) /\ \A i \in 1 .. Len(q) : ~Has(q[i], EnterOps)
         /\ \A l : EndsOK(q, l)
         /\ k # NoKey /\ op = "refresh" => \A a \in tracked[k] : ToRefresh(q, k[1], a)
<1> DEFINE A == IF k = NoKey THEN {} ELSE tracked[k]
           f(a) == <<For(op, k, a)>>
           rounds == {f(a) : a \in A}
           x == Loop(rounds)
<1>1. q = <<x>>
  BY DEF Dependents
<1>2. \A a \in A : Len(f(a)) = 1 /\ f(a)[1].op = op /\ f(a)[1].loses = 0 /\ f(a)[1].k = k /\ f(a)[1].a = a
  <2>1. ASSUME NEW a \in A
        PROVE  Len(f(a)) = 1 /\ f(a)[1].op = op /\ f(a)[1].loses = 0 /\ f(a)[1].k = k /\ f(a)[1].a = a
    <3> DEFINE y == For(op, k, a)
    <3>1. y.op = op /\ y.loses = 0 /\ y.k = k /\ y.a = a
      BY DEF For, Made
    <3> HIDE DEF y
    <3>2. Len(<<y>>) = 1 /\ <<y>>[1] = y
      OBVIOUS
    <3>3. f(a) = <<y>>
      BY DEF y
    <3> HIDE DEF f
    <3>. QED  BY <3>1, <3>2, <3>3
  <2>. QED  BY <2>1
<1> HIDE DEF A, f
<1>3. x.op = "loop" /\ x.loses = 0 /\ x.rounds = rounds
  BY DEF Loop, Made
<1>4. \A r \in rounds : \A p \in 1 .. Len(r) : p = 1 /\ r[p].op = op /\ r[p].loses = 0
  BY <1>2
<1>5. \A a \in A : \E r \in rounds : 1 \in 1 .. Len(r) /\ r[1].op = op /\ r[1].k = k /\ r[1].a = a
  <2>1. ASSUME NEW a \in A PROVE \E r \in rounds : 1 \in 1 .. Len(r) /\ r[1].op = op /\ r[1].k = k /\ r[1].a = a
    <3>1. f(a) \in rounds /\ 1 \in 1 .. Len(f(a))
      BY <1>2
    <3>. QED  BY <1>2, <3>1
  <2>. QED  BY <2>1
<1> HIDE DEF rounds, x
<1>6. Len(q) = 1 /\ q[1] = x
  BY <1>1
<1>7. \A i \in 1 .. Len(q) : q[i] = x
  BY <1>6
<1>8. op \notin EnterOps \cup {"unlink", "symlink"} /\ op \notin {"fetch", "have", "compile", "ensure"} /\ op # "elm_json"
  BY DEF FollowOps, EnterOps
<1>9. \A i \in 1 .. Len(q) : /\ q[i].op = "loop" /\ ~Has(q[i], EnterOps) /\ ~Halts(q[i])
                             /\ \A r \in q[i].rounds : \A p \in 1 .. Len(r) : r[p].op # "elm_json" /\ r[p].op # "unlink"
  BY <1>3, <1>4, <1>7, <1>8 DEF Has, EnterOps, Halts, Halting
<1>10. WritesOK(q) /\ HaltsOK(q)
  BY <1>9 DEF WritesOK, HaltsOK
<1>11. RelinksOK(q)
  BY <1>9 DEF RelinksOK, Relinks
<1>12. FollowOK(q)
  <2>1. Following(q, op)
    BY <1>3, <1>4, <1>7 DEF Following, FollowStep
  <2>. QED  BY <2>1 DEF FollowOK
<1>13. ASSUME k # NoKey, op = "refresh", NEW a \in tracked[k] PROVE ToRefresh(q, k[1], a)
  <2>1. a \in A
    BY <1>13 DEF A
  <2>2. PICK r \in x.rounds : 1 \in 1 .. Len(r) /\ r[1].op = op /\ r[1].k = k /\ r[1].a = a
    BY <1>3, <1>5, <2>1
  <2>3. Refreshes(x, k[1], a)
    BY <1>13, <2>2 DEF Refreshes, Looks
  <2>. QED  BY <1>6, <2>3 DEF ToRefresh
<1>14. \A l : EndsOK(q, l)
  <2>1. op # "uncache"
    BY DEF FollowOps
  <2>2. \A i \in 1 .. Len(q) : q[i].op # "uncache" /\ \A r \in q[i].rounds : \A p \in 1 .. Len(r) : r[p].op # "uncache"
    BY <1>3, <1>4, <1>7, <2>1
  <2>. QED  BY <2>2 DEF EndsOK, Ends, Uncaching
<1>. QED  BY <1>9, <1>10, <1>11, <1>12, <1>13, <1>14 DEF ShapeOK

\* A package that gains or loses a need.
LEMMA NeedsChangeFollows ==
  ASSUME IInv, FollowInv, NEW n \in Names, NEW m \in Packages,
         refresh_local_dev_dependents(n, m) \/ prune_local_dev_dependents(n, m)
  PROVE  FollowInv'
<1>1. /\ source \in [Names -> [there : BOOLEAN, version : Versions, needs : SUBSET Packages, code : 1 .. MaxCode]]
      /\ \A k \in Keys : k[1] \in Names
      /\ \A k \in Keys \ dirs : tracked[k] = {}
      /\ dirs \in SUBSET Keys
  BY DEF IInv, FilesOK, Keys
<1>2. CASE prune_local_dev_dependents(n, m)
  <2>1. PICK l : todo' = Dependents("prune", l)
    BY <1>2 DEF prune_local_dev_dependents, Begin
  <2>2. /\ Idle /\ UNCHANGED <<link, tracked, app, excused>>
        /\ source' = [source EXCEPT ![n].needs = @ \ {m}]
    BY <1>2 DEF prune_local_dev_dependents, Begin, Keep
  <2>3. /\ ShapeOK(todo') /\ \A i \in 1 .. Len(todo') : ~Has(todo'[i], EnterOps)
        /\ \A k \in Keys : EndsOK(todo', k)
    BY <2>1, DependentsShape DEF FollowOps
  <2>4. \A k \in Keys : source'[k[1]].there = source[k[1]].there /\ source'[k[1]].needs \subseteq source[k[1]].needs
    BY <1>1, <2>2
  <2>. QED  BY <2>2, <2>3, <2>4, QuietBegins
<1>3. CASE refresh_local_dev_dependents(n, m)
  <2>1. PICK l \in dirs \cup {NoKey} : /\ find_local_dev_package_info(n, l) /\ todo' = Dependents("refresh", l)
                                       /\ excused' = excused \cup PassedOver(n, l)
    BY <1>3 DEF refresh_local_dev_dependents, Begin
  <2>2. /\ Idle /\ UNCHANGED <<link, tracked, app>>
        /\ source' = [source EXCEPT ![n].needs = @ \cup {m}]
    BY <1>3 DEF refresh_local_dev_dependents, Begin
  <2>3. /\ ShapeOK(todo') /\ \A i \in 1 .. Len(todo') : ~Has(todo'[i], EnterOps)
        /\ \A k \in Keys : EndsOK(todo', k)
        /\ l # NoKey => \A a \in tracked[l] : ToRefresh(todo', l[1], a)
    BY <2>1, DependentsShape DEF FollowOps
  <2>4. ASSUME NEW a \in Apps, NEW k \in Keys, <<a>> \notin excused', a \in tracked[k]
        PROVE  /\ source'[k[1]].there = source[k[1]].there
               /\ source'[k[1]].needs \subseteq source[k[1]].needs \/ ToRefresh(todo', k[1], a)
    <3>1. CASE k[1] # n
      BY <1>1, <2>2, <3>1
    <3>2. CASE k[1] = n
      <4>1. k \in VersionDirs(n)
        BY <1>1, <2>4, <3>2 DEF VersionDirs
      <4>2. l \in VersionDirs(n) /\ l # NoKey
        BY <2>1, <1>1, <4>1, KeyIsNoOther DEF find_local_dev_package_info, VersionDirs
      <4>3. k = l
        <5>1. SUFFICES ASSUME k # l PROVE FALSE
          OBVIOUS
        <5>2. a \in UNION {tracked[h] : h \in VersionDirs(n) \ {l}}
          BY <2>4, <4>1, <5>1
        <5>3. <<a>> \in PassedOver(n, l)
          BY <4>2, <5>2 DEF PassedOver
        <5>. QED  BY <2>1, <2>4, <5>3
      <4>4. ToRefresh(todo', k[1], a)
        BY <2>3, <2>4, <4>2, <4>3
      <4>5. source'[k[1]].there = source[k[1]].there
        BY <1>1, <2>2
      <4>. QED  BY <4>4, <4>5
    <3>. QED  BY <3>1, <3>2
  <2>5. excused \subseteq excused'
    BY <2>1
  <2>. QED  BY <2>2, <2>3, <2>4, <2>5, QuietBegins
<1>. QED  BY <1>2, <1>3

\* A command that is going to write one elm.json, and to enter its application.
LEMMA WriteBegins ==
  ASSUME IInv, FollowInv, Idle, UNCHANGED <<source, link, tracked, app, excused>>,
         NEW a \in Apps, NEW j, ShapeOK(todo'), ToWrite(todo', a),
         \A i \in 1 .. Len(todo') : ~Has(todo'[i], {"uncache"}),
         \A i \in 1 .. Len(todo') : todo'[i].op = "elm_json" => todo'[i].a = a /\ todo'[i].j = j,
         \A k \in Keys, b \in Apps : ToTrack(todo', k, b) => b = a,
         \A k \in ListedKeys(j) :
           (k \in ListedKeys(app[a]) /\ a \in tracked[k] => Linked(k) /\ Serves(app[a], k))
           /\ (a \in tracked[k] \/ ToTrack(todo', k, a)) =>
              (Linked(k) \/ (source[k[1]].there /\ ToLink(todo', k))) /\ Serves(j, k)
  PROVE  FollowInv'
<1>1. ASSUME NEW b \in Apps, NEW k \in Keys, <<b>> \notin excused', k \notin excused'
      PROVE  FollowsOK(todo, b, k)'
  <2>1. <<b>> \notin excused /\ k \notin excused
    BY <1>1
  <2>2. k \in ListedKeys(app[b]) /\ b \in tracked[k] =>
          source[k[1]].there /\ link[k] = "source" /\ Serves(app[b], k)
    BY <2>1, IdleFollowed
  <2>3. NowOK(todo, b, k)'
    BY <2>2 DEF NowOK, Linkable, Serves
  <2>4. SoonOK(todo, b, k)'
    BY DEF SoonOK
  <2>5. ASSUME NEW i \in 1 .. Len(todo'), Writing(todo'[i], b), k \in ListedKeys(todo'[i].j),
               b \in tracked[k] \/ ToTrack(todo', k, b)
        PROVE  (Linked(k) \/ (source[k[1]].there /\ ToLink(todo', k))) /\ Serves(todo'[i].j, k)
    <3>1. b = a /\ todo'[i].j = j
      BY <2>5 DEF Writing
    <3>2. k \in ListedKeys(app[a]) /\ a \in tracked[k] => Linked(k) /\ Serves(app[a], k)
      BY <2>2, <3>1 DEF Linked
    <3>. QED  BY <2>5, <3>1, <3>2
  <2>6. ThenOK(todo, b, k)'
    BY <2>5 DEF ThenOK, Linkable, Serves, Linked
  <2>7. GoneOK(todo, b, k)'
    BY NoLinkGoes, NoneIsUncached DEF GoneOK
  <2>. QED  BY <2>3, <2>4, <2>6, <2>7 DEF FollowsOK
<1>. QED  BY <1>1 DEF FollowInv

\* One elm.json is written after steps for one version.
LEMMA OneWriteShape ==
  ASSUME NEW q, NEW m \in 1 .. Len(q), Len(q) \in Nat,
         \A i \in 1 .. Len(q) : q[i].rounds = {} /\ (q[i].op = "elm_json" => i = m),
         \A i \in 1 .. m - 1 : q[i].op \in FileOps,
         q[m].op = "elm_json", q[m].k = NoKey, q[m].loses = 0,
         \A i \in m + 1 .. Len(q) : q[i].op = "track"
  PROVE  /\ WritesOK(q) /\ FollowOK(q)
         /\ (\A i \in 1 .. m - 1 : q[i].op # "symlink" \/ (\A h \in 1 .. m - 1 : q[h].op # "ensure")) => HaltsOK(q)
<1>1. \A i \in 1 .. Len(q) : i \in 1 .. m - 1 \/ i = m \/ i \in m + 1 .. Len(q)
  OBVIOUS
<1>2. WritesOK(q)
  BY DEF WritesOK
<1>3. \A i \in 1 .. Len(q) : q[i].op \in FileOps \cup {"elm_json", "track"}
  BY <1>1
<1>4. FollowOK(q)
  BY <1>3 DEF FollowOK, Has, FollowOps, FileOps
<1>5. ASSUME \A i \in 1 .. m - 1 : q[i].op # "symlink" \/ (\A h \in 1 .. m - 1 : q[h].op # "ensure")
      PROVE  HaltsOK(q)
  <2>1. ASSUME NEW i \in 1 .. Len(q), NEW h \in i .. Len(q), Halts(q[i]), Has(q[h], {"symlink"}) PROVE FALSE
    <3>1. q[i].op = "ensure" /\ h \in 1 .. Len(q) /\ q[h].op = "symlink"
      BY <1>3, <2>1 DEF Halts, Halting, Has, FileOps
    <3>2. i \in 1 .. m - 1 /\ h \in 1 .. m - 1
      BY <1>1, <3>1
    <3>. QED  BY <1>5, <3>1, <3>2
  <2>. QED  BY <2>1 DEF HaltsOK
<1>. QED  BY <1>2, <1>4, <1>5

\* wrap remove: what a package that stays needs stays as well.
LEMMA RemoveFollows ==
  ASSUME IInv, FollowInv, NEW a \in Apps, NEW n, remove_package(a, n)
  PROVE  FollowInv'
<1> DEFINE e == <<n, VersionIn(app[a], n)>>
           demoted == [direct |-> app[a].direct \ {e}, indirect |-> app[a].indirect \cup {e}]
           j == [demoted EXCEPT !.indirect = demoted.indirect \ Orphans(demoted)]
           x == Write(a, j)
           q == <<x>>
<1>1. /\ Idle /\ todo' = q /\ UNCHANGED <<source, link, tracked, app, excused>>
      /\ \E d \in app[a].direct : d[1] = n
  BY DEF remove_package, Begin, Keep, files
<1>2. app[a] \in Json /\ FilesOK
  BY DEF IInv, FilesOK
<1>3. e \in Entries /\ e \in app[a].direct \cup app[a].indirect
  <2>1. n \in Listed(app[a])
    BY <1>1 DEF Listed
  <2>. QED  BY <1>2, <2>1, VersionInType
<1> HIDE DEF e
<1>4. demoted \in Json
  <2>1. app[a].direct \ {e} \in SUBSET Entries /\ app[a].indirect \cup {e} \in SUBSET Entries
    BY <1>2, <1>3, JsonType
  <2>. QED  BY <2>1, JsonOf
<1>5. Listed(demoted) = Listed(app[a]) /\ ListedKeys(demoted) = ListedKeys(app[a])
  <2>1. demoted.direct \cup demoted.indirect = app[a].direct \cup app[a].indirect
    BY <1>3
  <2>. QED  BY <2>1 DEF Listed, ListedKeys
<1> HIDE DEF demoted
<1>6. j \in Json /\ j.direct = demoted.direct /\ j.indirect = demoted.indirect \ Orphans(demoted)
  <2>1. demoted.indirect \ Orphans(demoted) \in SUBSET Entries
    BY <1>4, JsonType
  <2>2. j \in Json
    BY <1>4, <2>1, JsonExcept
  <2>3. demoted \in [Places -> SUBSET Entries] /\ Places = {"direct", "indirect"}
    BY <1>4 DEF Json, Places
  <2>. QED  BY <2>2, <2>3
<1> HIDE DEF j
<1>7. ASSUME NEW k \in ListedKeys(j), k \in ListedKeys(app[a]) => Linked(k) /\ Serves(app[a], k)
      PROVE  Linked(k) /\ Serves(j, k)
  <2>1. k \in ListedKeys(app[a])
    BY <1>5, <1>6 DEF ListedKeys
  <2>2. Serves(demoted, k) /\ Linked(k)
    BY <1>5, <1>7, <2>1 DEF Serves
  <2>. QED  BY <1>2, <1>4, <1>6, <2>2, OrphansServe
<1>8. x \in PlainSteps /\ x.op = "elm_json" /\ x.k = NoKey /\ x.loses = 0 /\ x.rounds = {} /\ x.a = a /\ x.j = j
  BY <1>6, WriteType DEF Write, Made
<1> HIDE DEF x
<1>9. Len(q) = 1 /\ q[1] = x
  OBVIOUS
<1> HIDE DEF q
<1>10. \A i \in 1 .. Len(q) : i = 1 /\ q[i] = x
  BY <1>9
<1>11. ShapeOK(q)
  <2>1. WritesOK(q) /\ FollowOK(q) /\ HaltsOK(q)
    BY <1>8, <1>10 DEF WritesOK, FollowOK, HaltsOK, Halts, Halting, Has, FollowOps
  <2>2. RelinksOK(q)
    BY <1>8, <1>10 DEF RelinksOK, Relinks
  <2>. QED  BY <2>1, <2>2 DEF ShapeOK
<1>12. ToWrite(q, a) /\ \A k, b : ~ToTrack(q, k, b)
  BY <1>8, <1>9, <1>10 DEF ToWrite, Writing, ToTrack, Tracks, Enters
<1>13. \A i \in 1 .. Len(q) : ~Has(q[i], {"uncache"})
  BY <1>8, <1>10 DEF Has
<1>. QED  BY <1>1, <1>7, <1>8, <1>10, <1>11, <1>12, <1>13, WriteBegins

\* wrap install of a package that is listed: the same is listed afterwards.
LEMMA ListedFollows ==
  ASSUME IInv, FollowInv, NEW a \in Apps, NEW n, install_listed(a, n)
  PROVE  FollowInv'
<1> DEFINE k == <<n, VersionIn(app[a], n)>>
           j == [direct |-> app[a].direct \cup {k}, indirect |-> app[a].indirect \ {k}]
           x == Do("ensure", k)
           y == Write(a, j)
           q == <<x>> \o <<y>>
<1>1. /\ Idle /\ UNCHANGED <<source, link, tracked, app, excused>>
      /\ todo' = <<x>> \o (IF k \in app[a].direct THEN <<>> ELSE <<y>>)
      /\ n \in Listed(app[a]) /\ n \in Names
  BY DEF install_listed, Begin, Keep, files
<1>2. app[a] \in Json /\ FilesOK
  BY DEF IInv, FilesOK
<1>3. k \in Keys /\ k \in Entries /\ k \in app[a].direct \cup app[a].indirect
  BY <1>1, <1>2, VersionInType
<1> HIDE DEF k
<1>4. j \in Json
  <2>1. app[a].direct \cup {k} \in SUBSET Entries /\ app[a].indirect \ {k} \in SUBSET Entries
    BY <1>2, <1>3, JsonType
  <2>. QED  BY <2>1, JsonOf
<1>5. Listed(j) = Listed(app[a]) /\ ListedKeys(j) = ListedKeys(app[a])
  <2>1. j.direct \cup j.indirect = app[a].direct \cup app[a].indirect
    BY <1>3
  <2>. QED  BY <2>1 DEF Listed, ListedKeys
<1> HIDE DEF j
<1>6. y.op = "elm_json" /\ y.k = NoKey /\ y.loses = 0 /\ y.rounds = {} /\ y.a = a /\ y.j = j
  BY <1>4, WriteType DEF Write, Made
<1>7. x.op = "ensure" /\ x.rounds = {}
  BY DEF Do, Made
<1>8. Still(x)
  BY StillPlain DEF EnterOps, FollowOps
<1> HIDE DEF x, y
<1>9. CASE k \in app[a].direct
  <2>1. todo' = <<x>>
    BY <1>1, <1>9
  <2>2. AllStill(todo')
    BY <1>8, <2>1, OneStill
  <2>. QED  BY <1>1, <2>2, StillBegins
<1>10. CASE k \notin app[a].direct
  <2>1. todo' = q
    BY <1>1, <1>10
  <2>2. Len(q) = 2 /\ q[1] = x /\ q[2] = y
    OBVIOUS
  <2> HIDE DEF q
  <2>3. /\ 2 \in 1 .. Len(q) /\ Len(q) \in Nat
        /\ \A i \in 1 .. Len(q) : (i = 1 /\ q[i] = x) \/ (i = 2 /\ q[i] = y)
        /\ \A i \in 1 .. 2 - 1 : i = 1
    BY <2>2
  <2>4. WritesOK(q) /\ FollowOK(q) /\ HaltsOK(q)
    <3>1. \A i \in 1 .. Len(q) : q[i].rounds = {} /\ (q[i].op = "elm_json" => i = 2)
      BY <1>6, <1>7, <2>3
    <3>2. \A i \in 1 .. 2 - 1 : q[i].op \in FileOps /\ q[i].op # "symlink"
      BY <1>7, <2>2, <2>3 DEF FileOps
    <3>3. q[2].op = "elm_json" /\ q[2].k = NoKey /\ q[2].loses = 0
      BY <1>6, <2>2
    <3>4. \A i \in 2 + 1 .. Len(q) : q[i].op = "track"
      BY <2>2
    <3>5. Len(q) \in Nat /\ 2 \in 1 .. Len(q)
      BY <2>3
    <3>. QED  BY <3>1, <3>2, <3>3, <3>4, <3>5, OneWriteShape
  <2>5. RelinksOK(q)
    BY <1>6, <1>7, <2>3 DEF RelinksOK, Relinks
  <2>6. ShapeOK(q)
    BY <2>4, <2>5 DEF ShapeOK
  <2>7. ToWrite(q, a) /\ \A l, b : ~ToTrack(q, l, b)
    BY <1>6, <1>7, <2>2, <2>3 DEF ToWrite, Writing, ToTrack, Tracks, Enters
  <2>8. \A i \in 1 .. Len(q) : q[i].op = "elm_json" => q[i].a = a /\ q[i].j = j
    BY <1>6, <1>7, <2>3
  <2>9. ASSUME NEW l \in ListedKeys(j), a \in tracked[l] \/ ToTrack(q, l, a),
               l \in ListedKeys(app[a]) /\ a \in tracked[l] => Linked(l) /\ Serves(app[a], l)
        PROVE  Linked(l) /\ Serves(j, l)
    BY <1>5, <2>7, <2>9 DEF Serves
  <2>10. \A i \in 1 .. Len(q) : ~Has(q[i], {"uncache"})
    BY <1>6, <1>7, <2>3 DEF Has
  <2>. QED  BY <1>1, <2>1, <2>6, <2>7, <2>8, <2>9, <2>10, WriteBegins
<1>. QED  BY <1>9, <1>10

\* wrap install: what is added can be read, and what it needs is listed.
LEMMA InstallFollows ==
  ASSUME IInv, FollowInv, NEW a \in Apps, NEW n, install_package(a, n), n \in Packages
  PROVE  FollowInv'
<1> DEFINE changes == Changes(app[a], {n})
           j == [direct |-> app[a].direct \cup {e \in changes : e[1] = n},
                 indirect |-> app[a].indirect \cup {e \in changes : e[1] # n}]
           x == Write(a, j)
           y == EnsureAndTrack(a, changes)
           first(k) == Try("ensure", k)
           second(k) == Losing(1, For("track_if", k, a))
           rounds == {<<first(k), second(k)>> : k \in changes \cap Keys}
           q == <<x, y>>
<1>1. /\ Idle /\ UNCHANGED <<source, link, tracked, app, excused>>
      /\ todo' = q /\ Solvable(app[a], {n})
  BY DEF install_package, Begin, Keep, files
<1>2. app[a] \in Json /\ FilesOK
  BY DEF IInv, FilesOK
<1>3. changes \subseteq Entries /\ changes = Changes(app[a], {n})
  BY <1>1, <1>2, ChangesType
<1>17. y = Loop(rounds)
  BY DEF EnsureAndTrack
<1> HIDE DEF changes
<1>4. j \in Json
  <2>1. /\ app[a].direct \cup {e \in changes : e[1] = n} \in SUBSET Entries
        /\ app[a].indirect \cup {e \in changes : e[1] # n} \in SUBSET Entries
    BY <1>2, <1>3, JsonType
  <2>. QED  BY <2>1, JsonOf
<1>5. j.direct \cup j.indirect = (app[a].direct \cup app[a].indirect) \cup changes
  OBVIOUS
<1> HIDE DEF j
<1>6. ASSUME NEW k \in ListedKeys(j), Linked(k) \/ k \in changes
      PROVE  Linked(k) /\ Serves(j, k)
  <2>1. {n} \in SUBSET Packages
    OBVIOUS
  <2>2. Serves(j, k) /\ (k \in changes => Linked(k))
    BY <1>1, <1>2, <1>3, <1>4, <1>5, <2>1, ChangesServe
  <2>. QED  BY <1>6, <2>2
<1>7. \A k \in ListedKeys(j) : k \in ListedKeys(app[a]) \/ k \in changes
  BY <1>5 DEF ListedKeys
<1>8. x.op = "elm_json" /\ x.k = NoKey /\ x.loses = 0 /\ x.rounds = {} /\ x.a = a /\ x.j = j
  BY <1>4, WriteType DEF Write, Made
<1>9. ASSUME NEW r \in rounds
      PROVE  \A p \in 1 .. Len(r) : /\ r[p].op \in {"ensure", "track_if"} /\ (r[p].op = "ensure" => r[p].loses = 1)
                                    /\ (r[p].op = "track_if" => r[p].a = a /\ r[p].k \in changes)
  <2>1. PICK k \in changes \cap Keys : r = <<first(k), second(k)>>
    OBVIOUS
  <2> DEFINE u == first(k)
             v == second(k)
  <2>2. u.op = "ensure" /\ u.loses = 1 /\ v.op = "track_if" /\ v.a = a /\ v.k = k
    BY DEF Try, Losing, Do, For, Made
  <2> HIDE DEF u, v
  <2>3. r = <<u, v>>
    BY <2>1 DEF u, v
  <2>4. Len(r) = 2 /\ r[1] = u /\ r[2] = v
    BY <2>3
  <2>5. \A p \in 1 .. Len(r) : (p = 1 /\ r[p] = u) \/ (p = 2 /\ r[p] = v)
    BY <2>4
  <2>. QED  BY <2>2, <2>5
<1> HIDE DEF rounds, y
<1>10. y.op = "loop" /\ y.rounds = rounds /\ y.loses = 0
  BY <1>17 DEF Loop, Made
<1> HIDE DEF x
<1>11. Len(q) = 2 /\ q[1] = x /\ q[2] = y
  OBVIOUS
<1> HIDE DEF q
<1>12. \A i \in 1 .. Len(q) : (i = 1 /\ q[i] = x) \/ (i = 2 /\ q[i] = y)
  BY <1>11
<1>13. ShapeOK(q)
  <2>1. WritesOK(q)
    <3>1. \A i \in 1 .. Len(q) : q[i].op = "elm_json" => \A h \in 1 .. i - 1 : FALSE
      BY <1>8, <1>10, <1>12
    <3>. QED  BY <1>8, <1>9, <1>10, <1>12, <3>1 DEF WritesOK
  <2>2. \A i \in 1 .. Len(q) : ~Halts(q[i]) /\ ~Has(q[i], FollowOps)
    <3>1. ~Halts(x) /\ ~Has(x, FollowOps)
      BY <1>8 DEF Halts, Halting, Has, FollowOps
    <3>2. ~Halts(y) /\ ~Has(y, FollowOps)
      BY <1>9, <1>10 DEF Halts, Halting, Has, FollowOps
    <3>. QED  BY <1>12, <3>1, <3>2
  <2>3. HaltsOK(q) /\ FollowOK(q)
    BY <2>2 DEF HaltsOK, FollowOK
  <2>4. RelinksOK(q)
    <3>1. ASSUME NEW r \in rounds, NEW k PROVE Relinks(r, k)
      BY <1>9 DEF Relinks
    <3>2. \A k : Relinks(q, k)
      BY <1>8, <1>10, <1>12 DEF Relinks
    <3>. QED  BY <1>8, <1>10, <1>12, <3>1, <3>2 DEF RelinksOK
  <2>. QED  BY <2>1, <2>3, <2>4 DEF ShapeOK
<1>14. ToWrite(q, a)
  BY <1>8, <1>11, <1>12 DEF ToWrite, Writing
<1>15. ASSUME NEW k, NEW b, ToTrack(q, k, b) PROVE b = a /\ k \in changes
  <2>1. Tracks(x, k, b) \/ Tracks(y, k, b)
    BY <1>12, <1>15 DEF ToTrack
  <2>2. ~Tracks(x, k, b)
    BY <1>8 DEF Tracks, Enters
  <2>. QED  BY <1>9, <1>10, <2>1, <2>2 DEF Tracks, Enters
<1>16. \A i \in 1 .. Len(q) : q[i].op = "elm_json" => q[i].a = a /\ q[i].j = j
  BY <1>8, <1>10, <1>12
<1>18. ASSUME NEW k \in ListedKeys(j), a \in tracked[k] \/ ToTrack(q, k, a),
              k \in ListedKeys(app[a]) /\ a \in tracked[k] => Linked(k) /\ Serves(app[a], k)
       PROVE  Linked(k) /\ Serves(j, k)
  BY <1>6, <1>7, <1>15, <1>18
<1>19. \A i \in 1 .. Len(q) : ~Has(q[i], {"uncache"})
  BY <1>8, <1>9, <1>10, <1>12 DEF Has
<1>. QED  BY <1>1, <1>13, <1>14, <1>15, <1>16, <1>18, <1>19, WriteBegins

\* With the package itself in it, an elm.json lists no less, and no other version more.
LEMMA AddOrUpdateLists ==
  ASSUME NEW j \in Json, NEW k \in Keys
  PROVE  /\ Listed(j) \subseteq Listed(AddOrUpdate(j, k))
         /\ ListedKeys(AddOrUpdate(j, k)) \subseteq ListedKeys(j) \cup {k}
<1>1. CASE k[1] \in Listed(j)
  <2> DEFINE f(e) == IF e[1] = k[1] THEN k ELSE e
             j2 == [p \in Places |-> {f(e) : e \in j[p]}]
  <2>1. AddOrUpdate(j, k) = j2
    BY <1>1 DEF AddOrUpdate
  <2>2. j2.direct = {f(e) : e \in j.direct} /\ j2.indirect = {f(e) : e \in j.indirect}
    BY DEF Places
  <2>3. \A e : f(e)[1] = e[1] /\ (f(e) = k \/ f(e) = e)
    OBVIOUS
  <2> HIDE DEF f, j2
  <2>4. ASSUME NEW e \in j.direct \cup j.indirect PROVE e[1] \in Listed(j2)
    <3>1. f(e) \in j2.direct \cup j2.indirect
      BY <2>2
    <3>. QED  BY <2>3, <3>1 DEF Listed
  <2>5. ListedKeys(j2) \subseteq ListedKeys(j) \cup {k}
    BY <2>2, <2>3 DEF ListedKeys
  <2>. QED  BY <2>1, <2>4, <2>5 DEF Listed
<1>2. CASE k[1] \notin Listed(j)
  <2> DEFINE j2 == [j EXCEPT !.direct = j.direct \cup {k}]
  <2>1. AddOrUpdate(j, k) = j2
    BY <1>2 DEF AddOrUpdate
  <2>2. j2.direct = j.direct \cup {k} /\ j2.indirect = j.indirect
    BY DEF Json, Places
  <2> HIDE DEF j2
  <2>. QED  BY <2>1, <2>2 DEF Listed, ListedKeys
<1>. QED  BY <1>1, <1>2

\* wrap install --local-dev --from-path: what the source needs is listed as well.
LEMMA FromPathFollows ==
  ASSUME IInv, FollowInv, NEW a \in Apps, NEW n \in Names, install_local_dev(a, n)
  PROVE  FollowInv'
<1> DEFINE k == <<n, source[n].version>>
           wanted == source[n].needs \ Listed(app[a])
           more == IF wanted = {} THEN {} ELSE Changes(app[a], wanted)
           j == [app[a] EXCEPT !.indirect = app[a].indirect \cup more]
           j2 == AddOrUpdate(j, k)
           y == Write(a, j2)
           z == Losing(1, For("track", k, a))
           rest == <<y, z>>
           u == Do("unlink", k)
           v == Do("symlink", k)
           s == <<u, v>> \o RegisterFiles(k)
           q == s \o rest
<1>1. /\ Idle /\ todo' = q /\ UNCHANGED <<source, link, tracked, app, excused>>
      /\ wanted # {} => Solvable(app[a], wanted)
      /\ source[n].there
  BY DEF install_local_dev, RegisterSteps, Begin, Keep, files
<1>2. k \in Keys /\ k[1] = n /\ app[a] \in Json /\ FilesOK
  <2>1. source[n].version \in Versions /\ app \in [Apps -> Json]
    BY SourceType
  <2>. QED  BY <2>1 DEF IInv, Keys
<1>3. wanted \in SUBSET Packages /\ source[n].needs \subseteq Listed(app[a]) \cup wanted
  BY SourceType
<1>4. more \subseteq Entries /\ (wanted # {} => more = Changes(app[a], wanted)) /\ (wanted = {} => more = {})
  BY <1>1, <1>2, ChangesType
<1> HIDE DEF more, k, wanted
<1>5. j \in Json /\ j.direct \cup j.indirect = (app[a].direct \cup app[a].indirect) \cup more
  <2>1. app[a].indirect \cup more \in SUBSET Entries
    BY <1>2, <1>4, JsonType
  <2>2. app[a] \in [Places -> SUBSET Entries] /\ Places = {"direct", "indirect"}
    BY <1>2 DEF Json, Places
  <2>. QED  BY <1>2, <2>1, <2>2, JsonExcept
<1> HIDE DEF j
<1>6. j2 \in Json /\ Listed(j) \subseteq Listed(j2) /\ ListedKeys(j2) \subseteq ListedKeys(j) \cup {k}
  BY <1>2, <1>5, AddOrUpdateType, AddOrUpdateLists
<1> HIDE DEF j2
<1>7. source[n].needs \subseteq Listed(j) /\ Listed(app[a]) \subseteq Listed(j)
  <2>1. Listed(app[a]) \subseteq Listed(j)
    BY <1>5 DEF Listed
  <2>2. CASE wanted = {}
    BY <1>3, <2>1, <2>2
  <2>3. CASE wanted # {}
    <3>1. Listed(j) = Solution(app[a], wanted)
      BY <1>2, <1>3, <1>4, <1>5, <2>3, ChangesComplete
    <3>2. Listed(app[a]) \cup wanted \subseteq Solution(app[a], wanted)
      BY <1>2, <1>3, SolutionHolds
    <3>. QED  BY <1>3, <2>1, <3>1, <3>2
  <2>. QED  BY <2>2, <2>3
<1>8. ASSUME NEW l \in ListedKeys(j2), l # k,
             l \in ListedKeys(app[a]) => Linked(l) /\ Serves(app[a], l)
      PROVE  Linked(l) /\ Serves(j2, l)
  <2>1. l \in ListedKeys(j)
    BY <1>6, <1>8
  <2>2. CASE l \in ListedKeys(app[a])
    <3>1. Linked(l) /\ source[l[1]].needs \subseteq Listed(app[a])
      BY <1>8, <2>2 DEF Serves
    <3>. QED  BY <1>6, <1>7, <3>1 DEF Serves
  <2>3. CASE l \notin ListedKeys(app[a])
    <3>1. l \in more
      BY <1>5, <2>1, <2>3 DEF ListedKeys
    <3>2. wanted # {} /\ l \in Changes(app[a], wanted) /\ Solvable(app[a], wanted)
      BY <1>1, <1>4, <3>1
    <3>3. Serves(j, l) /\ Linked(l)
      BY <1>2, <1>3, <1>4, <1>5, <2>1, <3>2, ChangesServe
    <3>. QED  BY <1>6, <3>3 DEF Serves
  <2>. QED  BY <2>2, <2>3
<1>9. Serves(j2, k)
  BY <1>2, <1>6, <1>7 DEF Serves
<1>10. y \in PlainSteps /\ y.op = "elm_json" /\ y.k = NoKey /\ y.loses = 0 /\ y.rounds = {} /\ y.a = a /\ y.j = j2
  BY <1>6, WriteType DEF Write, Made
<1>11. z \in PlainSteps /\ z.op = "track" /\ z.k = k /\ z.a = a
  <2> DEFINE x == For("track", k, a)
  <2>1. x \in PlainSteps /\ x.op = "track" /\ x.k = k
    BY <1>2, ForApplication
  <2>2. x.a = a
    BY DEF For, Made
  <2>3. z = [x EXCEPT !.loses = 1] /\ z = Losing(1, x)
    BY DEF Losing
  <2> HIDE DEF x
  <2>4. 1 \in Nat
    OBVIOUS
  <2>5. Losing(1, x) \in PlainSteps /\ Losing(1, x).op = "track"
    BY <2>1, <2>4, LosingType
  <2>6. [x EXCEPT !.loses = 1].k = k /\ [x EXCEPT !.loses = 1].a = a
    BY <2>1, <2>2 DEF PlainSteps
  <2> HIDE DEF z
  <2>. QED  BY <2>3, <2>5, <2>6
<1> HIDE DEF y, z
<1>12. y \in StepSet /\ z \in StepSet /\ z.rounds = {}
  BY <1>10, <1>11, PlainType
<1>13. rest \in Seq(StepSet) /\ Len(rest) = 2 /\ rest[1] = y /\ rest[2] = z
  BY <1>12
<1>14. /\ u \in PlainSteps /\ u.op = "unlink" /\ u.k = k
       /\ v \in PlainSteps /\ v.op = "symlink" /\ v.k = k
  BY <1>2, RegisterStep
<1> HIDE DEF rest, u, v
<1>15. /\ q \in Seq(StepSet) /\ Registers(q, k) /\ Len(q) = 6 + Len(rest)
       /\ \A i \in 7 .. 6 + Len(rest) : q[i] = rest[i - 6]
  <2>1. s \in Seq(StepSet) /\ Len(s) = 6 /\ Registers(s, k)
    <3>1. LinkedAndFiled(s, u, v, k)
      BY DEF LinkedAndFiled
    <3> HIDE DEF s
    <3>. QED  BY <1>2, <1>14, <3>1, RegistersType
  <2>2. Joined(q, s, rest)
    BY DEF Joined
  <2> HIDE DEF s, q
  <2>. SUFFICES ASSUME NEW p \in Seq(StepSet), NEW r \in Seq(StepSet), NEW t,
                      p = s, r = rest, t = q
                PROVE  /\ t \in Seq(StepSet) /\ Registers(t, k) /\ Len(t) = 6 + Len(r)
                       /\ \A i \in 7 .. 6 + Len(r) : t[i] = r[i - 6]
    BY <1>13, <2>1
  <2>3. Len(p) = 6 /\ Registers(p, k) /\ Joined(t, p, r)
    BY <2>1, <2>2
  <2>. QED  BY <1>2, <2>3, RegistersThen
<1> HIDE DEF q
<1>16. Len(q) = 8 /\ q[7] = y /\ q[8] = z
  <2>1. 7 \in 7 .. 6 + Len(rest) /\ 8 \in 7 .. 6 + Len(rest)
    BY <1>13
  <2>. QED  BY <1>13, <1>15, <2>1
<1>17. \A i \in 1 .. 6 : /\ q[i].rounds = {} /\ q[i].k = k
                         /\ q[i].op \in {"unlink", "symlink", "open_path", "path", "text", "dat"}
                         /\ (q[i].op = "unlink" => i = 1)
  <2>1. \A i \in 1 .. 6 : q[i].rounds = {} /\ q[i].k = k
    BY <1>15, PlainType DEF Registers
  <2>2. \A i \in 1 .. 6 : i = 1 \/ i = 2 \/ i = 3 \/ i = 4 \/ i = 5 \/ i = 6
    OBVIOUS
  <2>. QED  BY <1>15, <2>1, <2>2 DEF Registers
<1>18. \A i \in 1 .. Len(q) : i \in 1 .. 6 \/ (i = 7 /\ q[i] = y) \/ (i = 8 /\ q[i] = z)
  BY <1>16
<1>19. ShapeOK(q)
  <2>1. \A i \in 1 .. Len(q) : q[i].rounds = {} /\ (q[i].op = "elm_json" => i = 7)
    BY <1>10, <1>11, <1>12, <1>17, <1>18
  <2>2. \A i \in 1 .. 7 - 1 : q[i].op \in FileOps /\ q[i].op # "ensure"
    BY <1>17 DEF FileOps
  <2>3. q[7].op = "elm_json" /\ q[7].k = NoKey /\ q[7].loses = 0
    BY <1>10, <1>16
  <2>4. \A i \in 7 + 1 .. Len(q) : q[i].op = "track"
    BY <1>11, <1>16
  <2>5. 7 \in 1 .. Len(q) /\ Len(q) \in Nat
    BY <1>16
  <2>6. WritesOK(q) /\ FollowOK(q) /\ HaltsOK(q)
    BY <2>1, <2>2, <2>3, <2>4, <2>5, OneWriteShape
  <2>7. 2 \in 1 + 1 .. Len(q) /\ q[2].op = "symlink" /\ q[2].k = k
    BY <1>15, <1>16 DEF Registers
  <2>8. \A i \in 1 .. Len(q) : q[i].op = "unlink" => i = 1 /\ q[i].k = k
    BY <1>10, <1>11, <1>17, <1>18
  <2>9. RelinksOK(q)
    BY <2>1, <2>7, <2>8 DEF RelinksOK, Relinks
  <2>. QED  BY <2>6, <2>9 DEF ShapeOK
<1>20. ToLink(q, k)
  <2>1. 2 \in 1 .. Len(q) /\ q[2].op = "symlink" /\ q[2].k = k
    BY <1>15, <1>16 DEF Registers
  <2>. QED  BY <2>1 DEF ToLink, Links
<1>21. ToWrite(q, a)
  <2>1. 7 \in 1 .. Len(q)
    BY <1>16
  <2>. QED  BY <1>10, <1>16, <2>1 DEF ToWrite, Writing
<1>22. ASSUME NEW l, NEW b, ToTrack(q, l, b) PROVE b = a /\ l = k
  <2>1. PICK i \in 1 .. Len(q) : Tracks(q[i], l, b)
    BY <1>22 DEF ToTrack
  <2>2. q[i].rounds = {}
    BY <1>10, <1>12, <1>17, <1>18
  <2>3. q[i].op \in {"track", "track_if"} /\ q[i].k = l /\ q[i].a = b
    BY <2>1, <2>2 DEF Tracks, Enters
  <2>4. q[i] = z
    BY <1>10, <1>17, <1>18, <2>3
  <2>. QED  BY <1>11, <2>3, <2>4
<1>23. \A i \in 1 .. Len(q) : q[i].op = "elm_json" => q[i].a = a /\ q[i].j = j2
  BY <1>10, <1>11, <1>17, <1>18
<1>24. ASSUME NEW l \in ListedKeys(j2), a \in tracked[l] \/ ToTrack(q, l, a),
              l \in ListedKeys(app[a]) /\ a \in tracked[l] => Linked(l) /\ Serves(app[a], l)
       PROVE  (Linked(l) \/ (source[l[1]].there /\ ToLink(q, l))) /\ Serves(j2, l)
  <2>1. CASE l = k
    BY <1>1, <1>2, <1>9, <1>20, <2>1
  <2>2. CASE l # k
    BY <1>8, <1>22, <1>24, <2>2
  <2>. QED  BY <2>1, <2>2
<1>25. \A i \in 1 .. Len(q) : ~Has(q[i], {"uncache"})
  BY <1>10, <1>11, <1>12, <1>17, <1>18 DEF Has
<1>. QED  BY <1>1, <1>19, <1>21, <1>22, <1>23, <1>24, <1>25, WriteBegins

-----------------------------------------------------------------------------
(* Every step *)

\* A command in an application.
LEMMA ApplicationFollows ==
  ASSUME IInv, FollowInv, NEW a \in Apps, InApplication(a)
  PROVE  FollowInv'
<1>1. ASSUME NEW n \in Names, install_local_dev(a, n) PROVE FollowInv'
  BY <1>1, FromPathFollows
<1>2. ASSUME NEW n \in Names, install_listed(a, n) PROVE FollowInv'
  BY <1>2, ListedFollows
<1>3. ASSUME NEW n \in Packages, install_package(a, n) PROVE FollowInv'
  BY <1>3, InstallFollows
<1>4. ASSUME NEW n \in Packages, remove_package(a, n) PROVE FollowInv'
  BY <1>4, RemoveFollows
<1>5. CASE cmd_make(a)
  BY <1>5, StillCommandsFollow
<1>. QED  BY <1>1, <1>2, <1>3, <1>4, <1>5 DEF InApplication

\* A command in a package, or an edit of it.
LEMMA PackageFollows ==
  ASSUME IInv, FollowInv, NEW n \in Names, InPackage(n)
  PROVE  FollowInv'
<1>1. ASSUME NEW v \in Versions, register_local_dev_package(<<n, v>>) PROVE FollowInv'
  <2>1. <<n, v>> \in Keys
    BY DEF Keys
  <2>. QED  BY <1>1, <2>1, RegisterFollows
<1>2. ASSUME NEW m \in Packages, refresh_local_dev_dependents(n, m) \/ prune_local_dev_dependents(n, m)
      PROVE  FollowInv'
  BY <1>2, NeedsChangeFollows
<1>3. CASE unregister_local_dev_package(n)
  BY <1>3, StillCommandsFollow
<1>4. ASSUME NEW v \in Versions, Bump(n, v) PROVE FollowInv'
  BY <1>4, EditsFollow
<1>5. CASE Edit(n) \/ Move(n)
  BY <1>5, EditsFollow
<1>. QED  BY <1>1, <1>2, <1>3, <1>4, <1>5 DEF InPackage

\* A command in no directory of its own.
LEMMA AnywhereFollows ==
  ASSUME IInv, FollowInv, Anywhere
  PROVE  FollowInv'
<1>1. ASSUME NEW k \in Keys, clear_package_tracking(k) \/ repository_clear_local_dev_registration(k)
      PROVE  FollowInv'
  BY <1>1, StillCommandsFollow
<1>2. ASSUME NEW k \in Keys, NEW a \in Apps, clear_path_tracking(k, a) PROVE FollowInv'
  BY <1>2, StillCommandsFollow
<1>3. ASSUME NEW k \in Keys, NEW by \in {"copy", "none"}, Replace(k, by) PROVE FollowInv'
  BY <1>3, EditsFollow
<1>4. CASE clear_all_tracking \/ prune_stale_local_dev_connections
  BY <1>4, StillCommandsFollow
<1>5. CASE ResetRegistry
  BY <1>5, EditsFollow
<1>. QED  BY <1>1, <1>2, <1>3, <1>4, <1>5 DEF Anywhere

\* No step outside wrap kit takes an application from the packages it tracks.
LEMMA FollowStays == IInv /\ FollowInv /\ [Next]_vars => FollowInv'
<1> SUFFICES ASSUME IInv, FollowInv, [Next]_vars PROVE FollowInv'
  OBVIOUS
<1>1. CASE Steps
  BY <1>1, StepsFollow
<1>2. CASE Crash \/ Fail
  BY <1>2, TroubleFollows
<1>3. ASSUME NEW a \in Apps, InApplication(a) PROVE FollowInv'
  BY <1>3, ApplicationFollows
<1>4. ASSUME NEW n \in Names, InPackage(n) PROVE FollowInv'
  BY <1>4, PackageFollows
<1>5. CASE Anywhere
  BY <1>5, AnywhereFollows
<1>6. CASE UNCHANGED vars
  <2>1. UNCHANGED <<source, link, tracked, app, excused, todo>>
    BY <1>6 DEF vars, files
  <2>2. ASSUME NEW a \in Apps, NEW k \in Keys
        PROVE  FollowsOK(todo, a, k)' <=> FollowsOK(todo, a, k)
    BY <2>1 DEF FollowsOK, NowOK, ThenOK, SoonOK, GoneOK, Linkable, Serves
  <2>. QED  BY <2>1, <2>2 DEF FollowInv
<1>. QED  BY <1>1, <1>2, <1>3, <1>4, <1>5, <1>6 DEF Next

\* Nor does a step of wrap kit: the tracking files of a version go in the round that took
\* its link.
LEMMA KitFollowStays == IInv /\ FollowInv /\ [KitNext]_vars => FollowInv'
<1> SUFFICES ASSUME IInv, FollowInv, [KitNext]_vars PROVE FollowInv'
  OBVIOUS
<1>1. CASE [Next]_vars
  BY <1>1, FollowStays
<1>2. ASSUME NEW s \in Sources, cmd_kit_install(s) \/ InstallOrReinstall(s) \/ Update(s) PROVE FollowInv'
  BY <1>2, KitCommandsFollow
<1>3. CASE KitSteps
  <2>1. CASE kit_remove_cache_symlink
    BY <2>1, LinkGoes
  <2>2. CASE \/ download_tool_binary \/ drop_tool_symlink \/ symlink_tool \/ install_one_package
             \/ kit_store_kitfile \/ unlink_current \/ symlink_current \/ report
    BY <2>2, KitStepsFollow
  <2>. QED  BY <1>3, <2>1, <2>2 DEF KitSteps
<1>. QED  BY <1>1, <1>2, <1>3 DEF KitNext

\* At first no application tracks anything.
LEMMA FollowBegins == KitInit => FollowInv
<1> SUFFICES ASSUME KitInit PROVE FollowInv
  OBVIOUS
<1>1. todo = <<>> /\ tracked = [k \in Keys |-> {}]
  BY DEF KitInit, Init
<1>2. ShapeOK(todo) /\ Len(todo) = 0
  BY <1>1, NothingHasShape, EmptySeq
<1>3. ASSUME NEW a \in Apps, NEW k \in Keys PROVE FollowsOK(todo, a, k)
  <2>1. a \notin tracked[k] /\ ~ToTrack(todo, k, a) /\ \A i \in 1 .. Len(todo) : FALSE
    BY <1>1, <1>2 DEF ToTrack
  <2>. QED  BY <2>1 DEF FollowsOK, NowOK, ThenOK, SoonOK, GoneOK
<1>. QED  BY <1>2, <1>3 DEF FollowInv

\* Between commands the invariant is the property.
LEMMA IdleFollows == FollowInv => DependentsFollow
<1> SUFFICES ASSUME FollowInv, Idle, NEW a \in {b \in Apps : <<b>> \notin excused}, NEW k \in ListedKeys(app[a]),
                    a \in tracked[k], ListedKeys(app[a]) \cap excused = {}
             PROVE  source[k[1]].needs \subseteq Listed(app[a])
  BY DEF DependentsFollow
<1>1. k \in Keys /\ k \notin excused
  BY DEF ListedKeys
<1>. QED  BY <1>1, IdleFollowed DEF Serves

\* After every command, the ones of wrap kit as well, an application lists what the packages
\* it tracks need, unless it was passed over or cut short: what was solved before an elm.json
\* is written still holds when the application is entered, every dependent of a package that
\* gains a need is looked at, and where the update of a kit takes away the link of a version,
\* through which a dependent was solved, the same round takes its tracking files.
THEOREM DependentsFollowWithKits == KitSpec => []DependentsFollow
<1>1. KitInit => IInv /\ FollowInv
  BY InvBegins, FollowBegins
<1>2. IInv /\ FollowInv /\ [KitNext]_vars => IInv' /\ FollowInv'
  BY InvStays, KitFollowStays
<1>3. FollowInv => DependentsFollow
  BY IdleFollows
<1>. QED  BY <1>1, <1>2, <1>3, PTL DEF KitSpec
=============================================================================
