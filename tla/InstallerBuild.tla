---------------------------- MODULE InstallerBuild ----------------------------
(***************************************************************************)
(* The release build: installer/build_installer.py with the scripts it     *)
(* runs (installer/update_version.py, scripts/verify_windows_icons.py and  *)
(* its library), the working tree it reads and writes, and a developer who *)
(* edits that tree whenever he likes.                                      *)
(*                                                                         *)
(* The script is sequential.  What interleaves with it are the edits, and  *)
(* a kill of the script, between any two of the programs it starts; the    *)
(* Python code between two of those is one step.  Contents are abstracted  *)
(* to numbers: art 1, 2, ... is what EditArt draws, code 1, 2, ... what    *)
(* EditCode writes.  Modification times are those of a clock that ticks at *)
(* every write that the script compares.  flutter, flutter_launcher_icons, *)
(* the downloads and ISCC are modelled by what the script needs of them.   *)
(***************************************************************************)
EXTENDS Naturals, FiniteSets

CONSTANTS
    Versions,       \* what developers write into pubspec.yaml
    Malformed,      \* those of them update_version.py refuses
    VersionOnly,    \* for each of them the part before "+build"
    EnvFiles,       \* the .env files that carry APP_VERSION
    Missing,        \* stands for a file that does not exist
    MaxRuns,        \* how often the script is started
    MaxEdits,       \* how often the tree is edited
    MaxKills        \* how often the script is killed

CustomArt == 0              \* a tray icon drawn by hand
Downloads == {"none", "partial", "whole"}
Labels == Versions \ Malformed
ShortLabels == {VersionOnly[v] : v \in Labels}
Installer == [build : Nat, version : Versions, art : Nat, code : Nat, tray : Nat,
              env : [EnvFiles -> ShortLabels], redist : Downloads, nssm : Downloads]

ASSUME InstallerAssumption ==
    /\ Malformed \subseteq Versions
    /\ Missing \notin Installer
    /\ MaxRuns \in Nat /\ MaxEdits \in Nat /\ MaxKills \in Nat

VARIABLES
    now,        \* the clock of the file system
    pubspec,    \* [version, mtime]
    code,       \* [of, mtime]: lib/, windows/ and pubspec.lock
    png,        \* [art, mtime]: database_512px.png
    icon,       \* [art, mtime]: app_icon.ico
    recorded,   \* [art, mtime]: .app_icon_source_sha256, a file below windows/
    tray,       \* [art, mtime]: app_tray.ico
    widgetbook, \* art of the catalogue's copy of app_icon.ico
    marked,     \* .tray_icon_custom exists
    iss,        \* MyAppVersion in setup.iss, with the build number
    env,        \* APP_VERSION in each .env file, without
    exe,        \* backup_database.exe: [version, art, mtime] or Missing
    app,        \* the rest of the Release folder: [code, tray]
    redist,     \* vc_redist.x64.exe
    nssm,       \* nssm.exe
    dist,       \* for each version the installer in dist/, or Missing
    sidecar,    \* for each version the build its .sha256 was taken of, or 0
    pc,         \* what the script is waiting for
    job,        \* what it and the program it waits for have read
    since       \* history: what the tree held since the script was started

tree == <<pubspec, code, png, tray>>
icons == <<icon, recorded, widgetbook>>
labels == <<iss, env>>
built == <<exe, app>>
tools == <<redist, nssm>>
shipped == <<dist, sidecar>>
vars == <<now, tree, icons, marked, labels, built, tools, shipped, pc, job, since>>

Idle == {"idle", "done"}
NoJob == [expected |-> Missing, version |-> Missing, todo |-> {}, art |-> 0,
          fresh |-> FALSE, code |-> 0, tray |-> 0]

Init ==
    /\ now = 1
    /\ \E v \in Versions \ Malformed :
         /\ pubspec = [version |-> v, mtime |-> 1]
         /\ iss = v
         /\ env = [e \in EnvFiles |-> VersionOnly[v]]
    /\ code = [of |-> 1, mtime |-> 1]
    /\ png = [art |-> 1, mtime |-> 1]
    /\ icon = [art |-> 1, mtime |-> 1]
    /\ recorded = [art |-> 1, mtime |-> 1]
    /\ marked \in BOOLEAN
    /\ tray = [art |-> IF marked THEN CustomArt ELSE 1, mtime |-> 1]
    /\ widgetbook = 1
    /\ \/ exe = Missing /\ app = [code |-> 0, tray |-> 0]
       \/ /\ exe = [version |-> iss, art |-> 1, mtime |-> 1]
          /\ app = [code |-> 1, tray |-> tray.art]
    /\ redist = "none" /\ nssm = "none"
    /\ dist = [v \in Versions |-> Missing]
    /\ sidecar = [v \in Versions |-> 0]
    /\ pc = "idle"
    /\ job = NoJob
    /\ since = [codes |-> {}, arts |-> {}, versions |-> 0, restored |-> 0,
                had |-> [redist |-> "none", nssm |-> "none"],
                runs |-> 0, edits |-> 0, kills |-> 0]

-----------------------------------------------------------------------------
(* The developer.  A file copied from elsewhere keeps its old time, which   *)
(* ADR-015 names as a reason for the recorded hash.                         *)

Edited == since.edits < MaxEdits

EditCode ==
    /\ Edited
    /\ \E t \in {0, now + 1} : code' = [of |-> code.of + 1, mtime |-> t]
    /\ now' = now + 1
    /\ since' = [since EXCEPT !.edits = @ + 1, !.codes = @ \cup {code.of + 1}]
    /\ UNCHANGED <<pubspec, png, tray, icons, marked, labels, built, tools, shipped, pc, job>>

EditArt ==
    /\ Edited
    /\ \E t \in {0, now + 1} : png' = [art |-> png.art + 1, mtime |-> t]
    /\ now' = now + 1
    /\ since' = [since EXCEPT !.edits = @ + 1, !.arts = @ \cup {png.art + 1}]
    /\ UNCHANGED <<pubspec, code, tray, icons, marked, labels, built, tools, shipped, pc, job>>

EditVersion ==
    /\ Edited
    /\ \E v \in Versions \ {pubspec.version} :
         pubspec' = [version |-> v, mtime |-> now + 1]
    /\ now' = now + 1
    /\ since' = [since EXCEPT !.edits = @ + 1, !.versions = @ + 1]
    /\ UNCHANGED <<code, png, tray, icons, marked, labels, built, tools, shipped, pc, job>>

EditTray ==
    /\ Edited
    /\ tray' = [art |-> CustomArt, mtime |-> now + 1]
    /\ now' = now + 1
    /\ since' = [since EXCEPT !.edits = @ + 1]
    /\ UNCHANGED <<pubspec, code, png, icons, marked, labels, built, tools, shipped, pc, job>>

(* The tray icon becomes a copy of the executable's again.                  *)
RestoreTray ==
    /\ Edited
    /\ tray' = [art |-> icon.art, mtime |-> now + 1]
    /\ now' = now + 1
    /\ since' = [since EXCEPT !.edits = @ + 1, !.restored = @ + 1]
    /\ UNCHANGED <<pubspec, code, png, icons, marked, labels, built, tools, shipped, pc, job>>

-----------------------------------------------------------------------------
(* Step 1: the version.                                                     *)

Goto(label) == pc' = label

(* The script reads the version it will ask of the executable, without the  *)
(* build number, and starts update_version.py, which reads it again.        *)
Start ==
    /\ pc \in Idle
    /\ since.runs < MaxRuns
    /\ job' = [NoJob EXCEPT !.expected = VersionOnly[pubspec.version]]
    /\ since' = [since EXCEPT !.runs = @ + 1, !.versions = 0, !.restored = 0,
                              !.codes = {code.of}, !.arts = {png.art},
                              !.had = [redist |-> redist, nssm |-> nssm]]
    /\ Goto("version")
    /\ UNCHANGED <<now, tree, icons, marked, labels, built, tools, shipped>>

(* Seeded faults: the version is taken unchecked; nothing is written when   *)
(* setup.iss has it already.                                                *)
SyncSetupUnchecked ==
    /\ pc = "version"
    /\ iss' = pubspec.version
    /\ job' = [job EXCEPT !.version = pubspec.version, !.todo = EnvFiles]
    /\ Goto("env")
    /\ UNCHANGED <<now, tree, icons, marked, env, built, tools, shipped, since>>

SyncSetupIfChanged ==
    /\ pc = "version"
    /\ IF pubspec.version \in Malformed \/ pubspec.version = iss
       THEN /\ Goto(IF pubspec.version = iss THEN "icons" ELSE "idle")
            /\ UNCHANGED <<iss, job>>
       ELSE /\ iss' = pubspec.version
            /\ job' = [job EXCEPT !.version = pubspec.version, !.todo = EnvFiles]
            /\ Goto("env")
    /\ UNCHANGED <<now, tree, icons, marked, env, built, tools, shipped, since>>

(* main of update_version.py up to the write of setup.iss, which gets the   *)
(* version with its build number.                                           *)
SyncSetup ==
    /\ pc = "version"
    /\ IF pubspec.version \in Malformed
       THEN /\ Goto("idle")
            /\ UNCHANGED <<iss, job>>
       ELSE /\ iss' = pubspec.version
            /\ job' = [job EXCEPT !.version = pubspec.version, !.todo = EnvFiles]
            /\ Goto("env")
    /\ UNCHANGED <<now, tree, icons, marked, env, built, tools, shipped, since>>

(* sync_app_version_in_env_file, one file after the other, with the part    *)
(* before "+build".                                                         *)
SyncEnv ==
    /\ pc = "env"
    /\ \E e \in job.todo :
         /\ env' = [env EXCEPT ![e] = VersionOnly[job.version]]
         /\ job' = [job EXCEPT !.todo = @ \ {e}]
         /\ Goto(IF job.todo = {e} THEN "icons" ELSE "env")
    /\ UNCHANGED <<now, tree, icons, marked, iss, built, tools, shipped, since>>

-----------------------------------------------------------------------------
(* Step 2: the icons.                                                       *)

HashMismatch == recorded.art # png.art

NeedsRegen ==
    \/ png.mtime > icon.mtime
    \/ pubspec.mtime > icon.mtime
    \/ HashMismatch

(* What ensure_windows_launcher_icons does at its end, generated or not:    *)
(* the catalogue gets the icon, the recorded hash is written anew.          *)
Recorded(t) ==
    /\ widgetbook' = icon'.art
    /\ recorded' = [art |-> png.art, mtime |-> t]

(* Seeded fault: the hash file is left alone when it is right.              *)
KeepIconAndHash ==
    /\ pc = "icons"
    /\ ~NeedsRegen
    /\ widgetbook' = icon.art
    /\ Goto("tray")
    /\ UNCHANGED <<now, tree, icon, recorded, marked, labels, built, tools, shipped, job, since>>

KeepIcon ==
    /\ pc = "icons"
    /\ ~NeedsRegen
    /\ icon' = icon
    /\ Recorded(now + 1)
    /\ now' = now + 1
    /\ Goto("tray")
    /\ UNCHANGED <<tree, marked, labels, built, tools, shipped, job, since>>

(* flutter_launcher_icons reads the PNG ...                                 *)
StartGenerator ==
    /\ pc = "icons"
    /\ NeedsRegen
    /\ job' = [job EXCEPT !.art = png.art]
    /\ Goto("generator")
    /\ UNCHANGED <<now, tree, icons, marked, labels, built, tools, shipped, since>>

(* ... and has written the icon; the hash is of the PNG as it is by then.   *)
IconGenerated ==
    /\ pc = "generator"
    /\ icon' = [art |-> job.art, mtime |-> now + 1]
    /\ Recorded(now + 2)
    /\ now' = now + 2
    /\ job' = [job EXCEPT !.fresh = TRUE]
    /\ Goto("tray")
    /\ UNCHANGED <<tree, marked, labels, built, tools, shipped, since>>

(* ensure_tray_icon.  The copy keeps the time of the icon.                  *)
EnsureTray ==
    /\ pc = "tray"
    /\ IF ~marked /\ (tray.mtime < icon.mtime \/ tray.mtime < png.mtime)
       THEN /\ tray' = icon
            /\ job' = [job EXCEPT !.fresh = TRUE]
       ELSE UNCHANGED <<tray, job>>
    /\ Goto("check")
    /\ UNCHANGED <<now, pubspec, code, png, icons, marked, labels, built, tools, shipped, since>>

-----------------------------------------------------------------------------
(* Step 3: the executable.                                                  *)

NewestSource ==
    LET times == {pubspec.mtime, code.mtime, png.mtime, icon.mtime,
                  recorded.mtime, tray.mtime}
    IN CHOOSE t \in times : \A u \in times : u <= t

BuildIsStale ==
    \/ job.fresh
    \/ exe = Missing
    \/ exe.mtime < NewestSource

(* normalize_version: what is compared has no build number.                 *)
VersionDiffers == exe = Missing \/ VersionOnly[exe.version] # job.expected

Rebuilds == BuildIsStale \/ VersionDiffers

(* clean_flutter_windows_outputs: an icon renewed in this run takes the     *)
(* executable away, lest the tool chain keep it.                            *)
Cleaned == IF job.fresh THEN Missing ELSE exe

(* flutter begins with what it reads.                                       *)
CheckBuild ==
    /\ pc = "check"
    /\ IF Rebuilds
       THEN /\ exe' = Cleaned
            /\ job' = [job EXCEPT !.version = pubspec.version, !.art = icon.art,
                                  !.code = code.of, !.tray = tray.art]
            /\ Goto("build")
       ELSE /\ UNCHANGED <<exe, job>>
            /\ Goto("verify")
    /\ UNCHANGED <<now, tree, icons, marked, labels, app, tools, shipped, since>>

(* Seeded fault: the version is not compared after the build.               *)
BuiltUnchecked ==
    /\ pc = "build"
    /\ app' = [code |-> job.code, tray |-> job.tray]
    /\ exe' = [version |-> job.version, art |-> job.art, mtime |-> now + 1]
    /\ now' = now + 1
    /\ Goto("verify")
    /\ UNCHANGED <<tree, icons, marked, labels, tools, shipped, job, since>>

(* flutter compiles the Dart code and copies the assets; the executable is  *)
(* linked again if it is missing or its version changed, the build number   *)
(* included, and else only if the tool chain sees a reason.  The script     *)
(* then compares the version without the build number.                      *)
Built ==
    /\ pc = "build"
    /\ app' = [code |-> job.code, tray |-> job.tray]
    /\ \/ exe' = [version |-> job.version, art |-> job.art, mtime |-> now + 1]
       \/ /\ exe # Missing
          /\ exe.version = job.version
          /\ exe' = exe
    /\ now' = now + 1
    /\ Goto(IF VersionOnly[exe'.version] = job.expected THEN "verify" ELSE "idle")
    /\ UNCHANGED <<tree, icons, marked, labels, tools, shipped, job, since>>

(* The largest image in app_icon.ico is found in the executable.            *)
EmbedsIcon == exe # Missing /\ exe.art = icon.art

(* Seeded fault: the gate without --require-exe.                            *)
IconsVerifiedSkipExe ==
    ~HashMismatch /\ widgetbook = icon.art /\ (~marked => tray.art = icon.art)

(* _collect_errors of verify_windows_icons.py with --require-exe.           *)
IconsVerified ==
    /\ ~HashMismatch
    /\ ~marked => tray.art = icon.art
    /\ widgetbook = icon.art
    /\ EmbedsIcon

Verify ==
    /\ pc \in {"verify", "verifyAgain"}
    /\ Goto(CASE ~IconsVerified -> "idle"
              [] pc = "verify" -> "redist"
              [] OTHER -> "compile")
    /\ UNCHANGED <<now, tree, icons, marked, labels, built, tools, shipped, job, since>>

-----------------------------------------------------------------------------
(* Steps 4 and 5: the two programs the installer carries.                   *)

FindRedist ==
    /\ pc = "redist"
    /\ Goto(IF redist = "none" THEN "download" ELSE "nssm")
    /\ UNCHANGED <<now, tree, icons, marked, labels, built, tools, shipped, job, since>>

(* urlretrieve writes to the final name.  When it raises, what it wrote     *)
(* stays.                                                                   *)
RedistDownloaded ==
    /\ pc = "download"
    /\ \E d \in Downloads :
         /\ redist' = d
         /\ Goto(IF d = "whole" THEN "nssm" ELSE "idle")
    /\ UNCHANGED <<now, tree, icons, marked, labels, built, nssm, shipped, job, since>>

(* Seeded fault: the except of the write does not return False.             *)
EnsureNssmUnchecked ==
    /\ pc = "nssm"
    /\ IF nssm # "none"
       THEN UNCHANGED nssm /\ Goto("iscc")
       ELSE nssm' \in Downloads /\ Goto("iscc")
    /\ UNCHANGED <<now, tree, icons, marked, labels, built, redist, shipped, job, since>>

(* ensure_nssm_exe: the archive is downloaded under another name, the       *)
(* member extracted from it is written under the final one.  A failed       *)
(* download or a bad archive leaves no nssm.exe; a failed write_bytes may   *)
(* leave a part of it, which the next run finds.                            *)
EnsureNssm ==
    /\ pc = "nssm"
    /\ IF nssm # "none"
       THEN UNCHANGED nssm /\ Goto("iscc")
       ELSE \/ nssm' = "whole" /\ Goto("iscc")
            \/ nssm' \in {"none", "partial"} /\ Goto("idle")
    /\ UNCHANGED <<now, tree, icons, marked, labels, built, redist, shipped, job, since>>

-----------------------------------------------------------------------------
(* Steps 6 to 8: the installer.                                             *)

FindIscc ==
    /\ pc = "iscc"
    /\ \/ Goto("verifyAgain")
       \/ Goto("idle")
    /\ UNCHANGED <<now, tree, icons, marked, labels, built, tools, shipped, job, since>>

(* ISCC packs what setup.iss names, under the version setup.iss has.        *)
Package == [build |-> now + 1, version |-> exe.version, art |-> exe.art,
            code |-> app.code, tray |-> app.tray, env |-> env,
            redist |-> redist, nssm |-> nssm]

Compile ==
    /\ pc = "compile"
    /\ dist' = [dist EXCEPT ![iss] = Package]
    /\ now' = now + 1
    /\ Goto("sidecar")
    /\ UNCHANGED <<tree, icons, marked, labels, built, tools, sidecar, job, since>>

InDist == {v \in Versions : dist[v] # Missing}
(* Seeded fault: the order is not reversed.                                 *)
LatestUnreversed == CHOOSE v \in InDist : \A w \in InDist : dist[v].build <= dist[w].build
Latest == CHOOSE v \in InDist : \A w \in InDist : dist[w].build <= dist[v].build

(* write_sha256_sidecar for the newest installer.                           *)
WriteSidecar ==
    /\ pc = "sidecar"
    /\ sidecar' = [sidecar EXCEPT ![Latest] = dist[Latest].build]
    /\ Goto("done")
    /\ UNCHANGED <<now, tree, icons, marked, labels, built, tools, dist, job, since>>

-----------------------------------------------------------------------------
(* A program the script started fails, or is not found: it returns 1.       *)
StepFails ==
    /\ pc \in {"generator", "build", "compile"}
    /\ Goto("idle")
    /\ UNCHANGED <<now, tree, icons, marked, labels, built, tools, shipped, job, since>>

(* The script is killed.  write_bytes of nssm.exe and a download under way  *)
(* leave what they wrote.                                                   *)
Killed ==
    /\ pc \notin Idle
    /\ since.kills < MaxKills
    /\ since' = [since EXCEPT !.kills = @ + 1]
    /\ redist' \in (IF pc = "download" THEN Downloads ELSE {redist})
    /\ nssm' \in (IF pc = "nssm" /\ nssm = "none" THEN Downloads ELSE {nssm})
    /\ Goto("idle")
    /\ UNCHANGED <<now, tree, icons, marked, labels, built, shipped, job>>

Developer == EditCode \/ EditArt \/ EditVersion \/ EditTray \/ RestoreTray

Script ==
    \/ Start \/ SyncSetup \/ SyncEnv
    \/ KeepIcon \/ StartGenerator \/ IconGenerated \/ EnsureTray
    \/ CheckBuild \/ Built \/ Verify
    \/ FindRedist \/ RedistDownloaded \/ EnsureNssm
    \/ FindIscc \/ Compile \/ WriteSidecar
    \/ StepFails \/ Killed

Next == Developer \/ Script

Spec == Init /\ [][Next]_vars

-----------------------------------------------------------------------------
(* Properties.                                                              *)

Shorts == {VersionOnly[v] : v \in Versions}
Positions == Idle \cup {"version", "env", "icons", "generator", "tray", "check",
    "build", "verify", "redist", "download", "nssm", "iscc", "verifyAgain",
    "compile", "sidecar"}

(* Types; among them, that no malformed version ever reaches a file that    *)
(* carries the version.                                                     *)
TypeOK ==
    /\ now \in Nat
    /\ pubspec \in [version : Versions, mtime : Nat]
    /\ code \in [of : Nat, mtime : Nat]
    /\ {png, icon, recorded, tray} \subseteq [art : Nat, mtime : Nat]
    /\ widgetbook \in Nat
    /\ marked \in BOOLEAN
    /\ iss \in Labels
    /\ env \in [EnvFiles -> ShortLabels]
    /\ exe \in {Missing} \cup [version : Versions, art : Nat, mtime : Nat]
    /\ app \in [code : Nat, tray : Nat]
    /\ {redist, nssm} \subseteq Downloads
    /\ dist \in [Versions -> {Missing} \cup Installer]
    /\ sidecar \in [Versions -> Nat]
    /\ pc \in Positions
    /\ job \in [expected : {Missing} \cup Shorts,
               version : {Missing} \cup Versions, todo : SUBSET EnvFiles,
               art : Nat, fresh : BOOLEAN, code : Nat, tray : Nat]
    /\ since \in [codes : SUBSET Nat, arts : SUBSET Nat, versions : Nat,
                 restored : Nat, had : [redist : Downloads, nssm : Downloads],
                 runs : Nat, edits : Nat, kills : Nat]

Shipped == dist[iss]
Finished == pc = "done"

(* An installer carries code that was in the tree during its own run,       *)
(* whatever the modification times say: nothing older is ever packed as     *)
(* "executavel valido".  (newest_source_mtime counts the hash file that     *)
(* step 2 has just written, so that every run builds.)                      *)
SourcesOfThisRun == Finished => Shipped.code \in since.codes

(* setup.iss names the installer by the whole version, and the script reads *)
(* pubspec.yaml three times.  The name is the version of the executable in  *)
(* it if nobody edits pubspec.yaml while the script runs.  One edit is      *)
(* noticed by the comparison after the build, but for the build number,     *)
(* which it does not look at; two may undo each other.                      *)
LabelOfTheExecutable ==
    Finished =>
      /\ since.versions = 0 => Shipped.version = iss
      /\ since.versions = 1 => VersionOnly[Shipped.version] = VersionOnly[iss]

(* setup.iss and every .env file agree, but for the build number, once a    *)
(* run has finished, also after a run that was killed between two of them.  *)
VersionFilesAgree ==
    Finished => \A e \in EnvFiles : Shipped.env[e] = VersionOnly[iss]

(* The executable's icon is made from a PNG that was in the tree during the *)
(* run, whatever the tool chain reused and the times say, as long as the    *)
(* recorded hash is that of the PNG the icon was made from; and executable, *)
(* catalogue and (unless it is marked as drawn by hand) tray show the same. *)
(* The gate looks at the tray icon in the tree: one that was restored after *)
(* the build may hide a drawn one that was built in.                        *)
IconOfThisRun ==
    Finished => /\ Shipped.art \in since.arts \/ recorded.art # icon.art
                /\ widgetbook = Shipped.art
                /\ ~marked => Shipped.tray = Shipped.art \/ since.restored > 0

(* The .sha256 beside the installer of this run is of this installer.       *)
SidecarOfTheInstaller == Finished => sidecar[iss] = Shipped.build

(* A download or a write that breaks off, by an error or a kill, is never   *)
(* packed by the run it happens to.  A part of vc_redist.x64.exe or of      *)
(* nssm.exe gets into an installer only if it lay in dependencies/ when the *)
(* run began: the script asks whether the file is there, not what is in it. *)
ToolsWhole ==
    Finished => /\ Shipped.redist = "whole" \/ since.had.redist = "partial"
                /\ Shipped.nssm = "whole" \/ since.had.nssm = "partial"
=============================================================================
