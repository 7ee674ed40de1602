-------------------------------- MODULE Kit --------------------------------
(***************************************************************************)
(* wrap kit install and wrap kit update: a kitfile lists tools to download *)
(* and link into TOOL_BIN_PATH, packages for the package cache and local   *)
(* packages, which LocalDev registers and removes.  An update keeps the    *)
(* kitfile of each version and a link named current to the active one, and *)
(* takes down what the old kitfile lists.                                  *)
(*                                                                         *)
(* As in LocalDev a command is a sequence of steps that each change one    *)
(* file, may fail, and may be the last before a crash.                     *)
(***************************************************************************)
EXTENDS LocalDev

CONSTANTS
  Tools,
  Sources       \* kitfiles and, where there is one, the directory around them

\* The directory licenses tools of the kitfile and adds tools and packages.
Source ==
  [version : STRING, body : STRING, tools : SUBSET Tools, locals : SUBSET Keys,
   packages : SUBSET Others, folder : BOOLEAN, licensed : SUBSET Tools,
   scanned : SUBSET Tools, around : SUBSET Others]

KitVersions == {s.version : s \in Sources}

ASSUME SourcesAreKitfiles == Sources \subseteq Source
ASSUME VersionsAreNamed == {"none", "folder"} \cap KitVersions = {}

NoSource ==
  [version |-> "none", body |-> "", tools |-> {}, locals |-> {}, packages |-> {},
   folder |-> FALSE, licensed |-> {}, scanned |-> {}, around |-> {}]

KitFiles ==
  [bin : SUBSET (Tools \X KitVersions),           \* downloaded binaries
   linked : [Tools -> KitVersions \cup {"none", "folder"}],
   stored : [KitVersions -> Sources \cup {NoSource}],
   current : KitVersions \cup {"none"},
   packages : SUBSET Others,
   source : Sources \cup {NoSource},              \* what the running command installs
   before : 0 .. MaxTroubles,                     \* troubles when it began
   loose : SUBSET Sources]                        \* half-way or untracked installations

KitInit ==
  /\ Init
  /\ kits = [bin |-> {}, linked |-> [t \in Tools |-> "none"],
             stored |-> [v \in KitVersions |-> NoSource], current |-> "none",
             packages |-> {}, source |-> NoSource, before |-> 0, loose |-> {}]

-----------------------------------------------------------------------------
(* What a command is going to do *)

\* kit_prepare_local_source_manifest: a kitfile without a directory is taken as
\* it is; in one, a tool without a license is ignored, and what the folders hold
\* is added.
FolderTools(s) == IF s.folder THEN s.scanned \ s.tools ELSE {}
UrlTools(s) == IF s.folder THEN s.tools \cap s.licensed ELSE s.tools
PackagesOf(s) == IF s.folder THEN s.packages \cup s.around ELSE s.packages

KitStep(op) == For(op, NoKey, "")
ToolStep(n, op, t) == Losing(n, For(op, NoKey, t))

\* replace_symlink
LinkTool(t) == <<ToolStep(2, "drop_tool", t), ToolStep(1, "link_tool", t)>>

\* Mutant of install_all_tools: the link is made whether the download worked or not.
LinkRegardless(s) ==
  <<Loop({<<ToolStep(1, "download_tool", t)>> \o LinkTool(t) : t \in UrlTools(s)}),
    Loop({LinkTool(t) : t \in FolderTools(s)})>>

\* A tool that is not downloaded is not linked.
install_all_tools(s) ==
  <<Loop({<<ToolStep(3, "download_tool", t)>> \o LinkTool(t) : t \in UrlTools(s)}),
    Loop({LinkTool(t) : t \in FolderTools(s)})>>

\* register_local_dev_package, where a link that fails ends this package only.
install_all_local_devs(s) ==
  <<Loop({<<Losing(6, Do("unlink", k)), Losing(5, Do("symlink", k))>> \o RegisterFiles(k) :
            k \in {l \in s.locals : source[l[1]].there}})>>

install_all_packages(s) ==
  <<Loop({<<ToolStep(1, "install_package", p)>> : p \in PackagesOf(s)})>>

kit_download_tools(s) == <<Loop({<<ToolStep(0, "download_tool", t)>> : t \in UrlTools(s)})>>
kit_symlink_tools(s) == <<Loop({LinkTool(t) : t \in UrlTools(s) \cup FolderTools(s)})>>

remove_old_tool_symlinks(old) == <<Loop({<<ToolStep(1, "drop_tool", t)>> : t \in old.tools})>>

\* Mutant of deregister_old_local_devs: the links go, the registrations stay.
UncacheOnly(old) == <<Loop({<<Try("uncache", k)>> : k \in old.locals})>>

deregister_old_local_devs(old) ==
  <<Loop({<<Try("uncache", k), Try("undat", k), Try("untext", k)>>
            \o (IF k \in dirs THEN <<Try("drop", k)>> ELSE <<>>) : k \in old.locals})>>

kit_promote_current == <<KitStep("demote"), KitStep("promote")>>
Report == <<KitStep("report")>>

\* A command that never came to its report left something half-way.
KitBegin(command, s, steps) ==
  /\ Begin(command, steps \o Report)
  /\ kits' = [kits EXCEPT !.source = s, !.before = troubles,
                          !.loose = @ \cup ({kits.source} \ {NoSource})]
  /\ UNCHANGED <<source, link, dirs, path, tracked, text, dat, app, art, stuff, excused, troubles>>

cmd_kit_install(s) ==
  /\ s.folder
  /\ KitBegin("kit install", s,
              install_all_local_devs(s) \o install_all_packages(s) \o install_all_tools(s))

\* kit_read_current_manifest
Current == IF kits.current = "none" THEN NoSource ELSE kits.stored[kits.current]

\* kit_update_apply, without a current version or with the same kitfile.
InstallOrReinstall(s) ==
  /\ Current # NoSource => kits.current # s.version \/ Current.body = s.body
  /\ Current = NoSource \/ kits.current = s.version
  /\ KitBegin("kit update", s,
              install_all_local_devs(s) \o install_all_packages(s) \o install_all_tools(s)
                \o <<KitStep("store")>> \o kit_promote_current)

\* Mutant of UpdateSteps: the old version goes after the new one has come.
TearDownLast(s, old) ==
  kit_download_tools(s) \o <<KitStep("store")>>
    \o kit_symlink_tools(s) \o install_all_local_devs(s) \o install_all_packages(s)
    \o remove_old_tool_symlinks(old) \o deregister_old_local_devs(old)
    \o kit_promote_current

\* Everything is downloaded before anything of the old version goes.
UpdateSteps(s, old) ==
  kit_download_tools(s) \o <<KitStep("store")>>
    \o remove_old_tool_symlinks(old) \o deregister_old_local_devs(old)
    \o kit_symlink_tools(s) \o install_all_local_devs(s) \o install_all_packages(s)
    \o kit_promote_current

Update(s) ==
  /\ Current # NoSource /\ kits.current # s.version
  /\ KitBegin("kit update", s, UpdateSteps(s, Current))

-----------------------------------------------------------------------------
(* Steps *)

KitKeep == UNCHANGED <<source, link, dirs, path, tracked, text, dat, app, art, stuff,
                       seen, excused, troubles>>

\* Into a temporary file, then renamed.
download_tool_binary ==
  /\ Doing("download_tool") /\ Done /\ KitKeep
  /\ kits' = [kits EXCEPT !.bin = @ \cup {<<Step.a, kits.source.version>>}]

drop_tool_symlink ==
  /\ Doing("drop_tool") /\ Done /\ KitKeep
  /\ kits' = [kits EXCEPT !.linked[Step.a] = "none"]

symlink_tool ==
  /\ Doing("link_tool") /\ Done /\ KitKeep
  /\ kits' = [kits EXCEPT !.linked[Step.a] =
                IF Step.a \in kits.source.tools THEN kits.source.version ELSE "folder"]

install_one_package ==
  /\ Doing("install_package") /\ Done /\ KitKeep
  /\ kits' = [kits EXCEPT !.packages = @ \cup {Step.a}]

\* Only a link goes; a copy stays.
kit_remove_cache_symlink ==
  /\ Doing("uncache") /\ Done
  /\ link' = [link EXCEPT ![Step.k] = IF @ = "source" THEN "none" ELSE @]
  /\ Keep(<<source, dirs, path, tracked, text, dat, app, art, stuff, seen>>)

\* Atomically.
kit_store_kitfile ==
  /\ Doing("store") /\ Done /\ KitKeep
  /\ kits' = [kits EXCEPT !.stored[kits.source.version] = kits.source]

unlink_current ==
  /\ Doing("demote") /\ Done /\ KitKeep
  /\ kits' = [kits EXCEPT !.current = "none"]

symlink_current ==
  /\ Doing("promote") /\ Done /\ KitKeep
  /\ kits' = [kits EXCEPT !.current = kits.source.version]

report ==
  /\ Doing("report") /\ Done /\ KitKeep
  /\ kits' = [kits EXCEPT !.source = NoSource,
                !.loose = IF troubles = kits.before /\ Current = kits.source THEN @ \ {kits.source}
                          ELSE @ \cup {kits.source}]

-----------------------------------------------------------------------------
KitSteps ==
  \/ download_tool_binary \/ drop_tool_symlink \/ symlink_tool \/ install_one_package
  \/ kit_remove_cache_symlink \/ kit_store_kitfile \/ unlink_current \/ symlink_current
  \/ report

KitNext ==
  \/ Next
  \/ KitSteps
  \/ \E s \in Sources : cmd_kit_install(s) \/ InstallOrReinstall(s) \/ Update(s)

KitSpec == KitInit /\ [][KitNext]_vars

-----------------------------------------------------------------------------
(***************************************************************************)
(* Whatever was cut short: a linked tool has a binary of its version, and  *)
(* current leads to a kitfile of that version.  The next update relies on  *)
(* the second, the user's shell on the first.                              *)
(***************************************************************************)
KitUsable ==
  /\ kits \in KitFiles
  /\ \A t \in Tools : kits.linked[t] \in KitVersions => <<t, kits.linked[t]>> \in kits.bin
  /\ kits.current # "none" => Current # NoSource /\ Current.version = kits.current

(***************************************************************************)
(* A command that meets no trouble delivers everything it was asked for,   *)
(* whatever an earlier one left behind.                                    *)
(***************************************************************************)
Delivered(s) ==
  /\ \A t \in UrlTools(s) : kits.linked[t] = s.version
  /\ \A t \in FolderTools(s) : kits.linked[t] = "folder"
  /\ PackagesOf(s) \subseteq kits.packages
  /\ \A k \in s.locals : source[k[1]].there =>
       link[k] = "source" /\ path[k] = "source" /\ k \in text /\ k \in dat

ReportsClean == Doing("report") /\ Done /\ troubles' = kits.before

KitDelivers == [][ReportsClean => Delivered(kits.source)]_vars

(***************************************************************************)
(* An update that meets no trouble leaves no tool and no local package of  *)
(* another version linked, unless an installation that is not the one      *)
(* updated to was cut short or not recorded, or removing it failed.        *)
(***************************************************************************)
KitLeavesNothing ==
  [][ReportsClean /\ kits.loose \subseteq {kits.source} /\ Current = kits.source =>
     /\ \A t \in Tools : <<t>> \notin excused /\ kits.linked[t] \in KitVersions =>
          t \in kits.source.tools
     /\ \A k \in (UNION {s.locals : s \in Sources}) \ kits.source.locals :
          k \notin excused => link[k] # "source" /\ k \notin text \cup dat \cup dirs]_vars
=============================================================================
