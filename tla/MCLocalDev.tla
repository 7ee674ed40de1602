----------------------------- MODULE MCLocalDev -----------------------------
(***************************************************************************)
(* One application, one local package in two versions, one published       *)
(* package, and a kit in two versions with two tools each.                 *)
(***************************************************************************)
EXTENDS Kit

MCCommands ==
  {"from path", "install", "remove", "register", "add need", "drop need", "unregister",
   "clear", "clear path", "list", "make", "edit", "bump", "move", "replace", "reset",
   "kit install", "kit update"}

MCApps == {[direct |-> {}, indirect |-> {}]}
MCFaults == {"unlink", "symlink", "open_path", "text", "dat", "elm_json", "track", "drop", "clean",
   "download_tool", "drop_tool", "link_tool", "install_package", "store", "demote", "promote"}

MCSource(v, body, tools, locals, folder) ==
  [version |-> v, body |-> body, tools |-> tools, locals |-> locals, packages |-> {},
   folder |-> folder, licensed |-> {"a", "b"}, scanned |-> {"c"}, around |-> {"x"}]

\* The second kitfile of v2 is not the first; the last has no directory.
MCSources ==
  {MCSource("v1", "1", {"a", "b"}, {<<"lib", 1>>}, TRUE),
   MCSource("v2", "2", {"b", "c"}, {<<"lib", 2>>}, TRUE),
   MCSource("v2", "3", {"c"}, {}, FALSE)}

\* A machine with a kit has no applications and no packages of its own.
KitUsed == kits.source # NoSource \/ kits.loose # {} \/ kits.current # "none"
Alone ==
  /\ KitUsed \/ \A k \in Keys : k \notin dirs \cup dat \cup text /\ link[k] = "none"
  /\ \A n \in Names : source[n].there /\ source[n].code = 1 /\ source[n].needs = {}
  /\ \A a \in Apps : app'[a] = app[a] /\ \A k \in Keys : tracked'[k] = {}
  /\ source' = source
  /\ Idle => kits'.source # NoSource /\ kits' # kits

\* Versions only rise and are registered as they are, code changes after it was
\* built, a source gets new code or new needs, not both, the published package
\* stays indirect, and registry.dat is lost before the version rises.
Orderly ==
  /\ \A n \in Names :
       /\ source'[n].version >= source[n].version
       /\ source'[n].code # source[n].code => \E a \in Apps : stuff[a][n] = source[n].code
       /\ source'[n].needs # {} => source'[n].code = 1 /\ \A a \in Apps : stuff'[a][n] = 0
       /\ Idle /\ dat' # dat => source[n].version = 1
  /\ Idle /\ kits' = kits /\ todo' # <<>> /\ Head(todo').op = "unlink" =>
       Head(todo').k[2] = source[Head(todo').k[1]].version
  /\ \A a \in Apps : \A e \in app'[a].direct : e[1] \in Names
  /\ kits' # kits \/ KitUsed => Alone
=============================================================================
