------------------------- MODULE InstallerBuildProofs -------------------------
(***************************************************************************)
(* What the release build guarantees for any number of runs, edits, kills, *)
(* versions and .env files.  The invariant says at each point of the       *)
(* script what is already certain of what it will ship; each part of it    *)
(* is kept by its own lemma.                                               *)
(***************************************************************************)
EXTENDS InstallerBuild, TLAPS

(* Positions: between the build and ISCC, after ISCC, between the write of *)
(* setup.iss and the build.                                                *)
Packing == {"verify", "redist", "download", "nssm", "iscc", "verifyAgain", "compile"}
Packed == {"sidecar", "done"}
Synced == {"env", "icons", "generator", "tray", "check"}

(* TypeOK in parts: the tree, what is made of it, the script, the history. *)
Executable == [version : Versions, art : Nat, mtime : Nat]
Job == [expected : {Missing} \cup Shorts, version : {Missing} \cup Versions,
        todo : SUBSET EnvFiles, art : Nat, fresh : BOOLEAN, code : Nat, tray : Nat]
Had == [redist : Downloads, nssm : Downloads]
Since == [codes : SUBSET Nat, arts : SUBSET Nat, versions : Nat, restored : Nat,
          had : Had, runs : Nat, edits : Nat, kills : Nat]
Stamped == [art : Nat, mtime : Nat]

TreeOK ==
  /\ now \in Nat
  /\ pubspec \in [version : Versions, mtime : Nat]
  /\ code \in [of : Nat, mtime : Nat]
  /\ png \in Stamped /\ icon \in Stamped /\ recorded \in Stamped /\ tray \in Stamped
  /\ widgetbook \in Nat
  /\ iss \in Labels
  /\ env \in [EnvFiles -> ShortLabels]

MarkedOK == marked \in BOOLEAN

OutputOK ==
  /\ exe \in {Missing} \cup Executable
  /\ pc \in Packing => exe \in Executable
  /\ app \in [code : Nat, tray : Nat]
  /\ redist \in Downloads /\ nssm \in Downloads
  /\ dist \in [Versions -> {Missing} \cup Installer]
  /\ pc = "sidecar" => dist[iss] \in Installer
  /\ sidecar \in [Versions -> Nat]

ScriptOK ==
  /\ pc \in Positions
  /\ job \in Job
  /\ pc = "env" => job.version \in Labels
  /\ pc = "build" => job.version \in Versions

SinceOK == since \in Since

(* The hash file that step 2 has written is newer than any executable.     *)
TimesInv ==
  /\ exe # Missing => exe.mtime <= now
  /\ pc \in {"tray", "check"} /\ exe # Missing => exe.mtime < recorded.mtime

(* The code that was read, built and packed is of this run.                *)
SourcesInv ==
  /\ pc \notin Idle => code.of \in since.codes
  /\ pc = "build" => job.code \in since.codes
  /\ pc \in Packing => app.code \in since.codes
  /\ pc \in Packed => dist[iss].code \in since.codes

(* The script compares the executable, without its build number, with what *)
(* it read of pubspec.yaml at its start; setup.iss has what was there a    *)
(* moment later.  Without an edit all three readings are one.  With one,   *)
(* either setup.iss agrees with the start, or flutter reads what setup.iss *)
(* has, and the comparison fails unless only the build number was edited.  *)
LabelInv ==
  /\ pc = "version" /\ since.versions = 0 => VersionOnly[pubspec.version] = job.expected
  /\ pc \in Synced =>
       /\ since.versions = 0 => VersionOnly[iss] = job.expected /\ pubspec.version = iss
       /\ since.versions = 1 => VersionOnly[iss] = job.expected \/ pubspec.version = iss
  /\ pc = "build" =>
       /\ since.versions = 0 => VersionOnly[iss] = job.expected /\ job.version = iss
       /\ since.versions = 1 => VersionOnly[iss] = job.expected \/ job.version = iss
  /\ pc \in Packing =>
       /\ VersionOnly[exe.version] = job.expected
       /\ since.versions = 0 => exe.version = iss
       /\ since.versions <= 1 => VersionOnly[iss] = job.expected
  /\ pc \in Packed =>
       /\ since.versions = 0 => dist[iss].version = iss
       /\ since.versions = 1 => VersionOnly[dist[iss].version] = VersionOnly[iss]

(* The .env files that are done agree with setup.iss, then all do.         *)
FilesInv ==
  /\ pc = "env" =>
       job.version = iss /\ \A e \in EnvFiles \ job.todo : env[e] = VersionOnly[iss]
  /\ pc \in (Synced \ {"env"}) \cup {"build"} \cup Packing =>
       \A e \in EnvFiles : env[e] = VersionOnly[iss]
  /\ pc \in Packed => \A e \in EnvFiles : dist[iss].env[e] = VersionOnly[iss]

(* After the second gate, executable and catalogue have the icon and the   *)
(* recorded hash is of a PNG of this run.  A tray icon that was built in   *)
(* and then replaced by one drawn by hand is refused by the gate unless it *)
(* is marked; one that was restored is not.                                *)
IconInv ==
  /\ png.art # CustomArt /\ icon.art # CustomArt
  /\ pc = "generator" => job.art # CustomArt
  /\ pc \notin Idle => png.art \in since.arts
  /\ pc = "build" => tray.art \in {job.tray, CustomArt} \/ since.restored > 0
  /\ pc \in Packing => tray.art \in {app.tray, CustomArt} \/ since.restored > 0
  /\ pc = "compile" =>
       /\ exe.art = icon.art /\ widgetbook = icon.art /\ recorded.art \in since.arts
       /\ ~marked => app.tray = icon.art \/ since.restored > 0
  /\ pc \in Packed =>
       /\ dist[iss].art = icon.art /\ widgetbook = icon.art /\ recorded.art \in since.arts
       /\ ~marked => dist[iss].tray = icon.art \/ since.restored > 0

(* The installer just made is newer than all others in dist/.              *)
SidecarInv ==
  /\ \A v \in InDist : dist[v].build <= now
  /\ pc = "sidecar" => \A v \in InDist \ {iss} : dist[v].build < dist[iss].build
  /\ pc = "done" => sidecar[iss] = dist[iss].build

(* While a run goes on, a program that was not there in part when it began *)
(* is whole or not there, and whole once the script has looked for it.     *)
RedistInv ==
  since.had.redist # "partial" =>
    /\ pc \notin Idle => redist # "partial"
    /\ pc \in {"nssm", "iscc", "verifyAgain", "compile"} => redist = "whole"
    /\ pc \in Packed => dist[iss].redist = "whole"

NssmInv ==
  since.had.nssm # "partial" =>
    /\ pc \notin Idle => nssm # "partial"
    /\ pc \in {"iscc", "verifyAgain", "compile"} => nssm = "whole"
    /\ pc \in Packed => dist[iss].nssm = "whole"

ToolsInv == RedistInv /\ NssmInv

TypeInv == TreeOK /\ MarkedOK /\ OutputOK /\ ScriptOK /\ SinceOK

BuildInv ==
  /\ TypeInv /\ TimesInv /\ SourcesInv /\ LabelInv /\ FilesInv
  /\ IconInv /\ SidecarInv /\ ToolsInv

-----------------------------------------------------------------------------
(* Operators.                                                               *)

(* The CHOOSE of NewestSource has a value. *)
LEMMA SomeIsNewest ==
  ASSUME NEW a \in Nat, NEW b \in Nat, NEW c \in Nat, NEW d \in Nat, NEW e \in Nat, NEW f \in Nat
  PROVE  \E t \in {a, b, c, d, e, f} : \A u \in {a, b, c, d, e, f} : u <= t
OBVIOUS

(* Step 2 has just written a file that newest_source_mtime counts. *)
LEMMA AlwaysRebuilds ==
  ASSUME TypeInv, TimesInv, pc = "check"
  PROVE  Rebuilds
<1> DEFINE T == {pubspec.mtime, code.mtime, png.mtime, icon.mtime, recorded.mtime, tray.mtime}
<1>0. pubspec.mtime \in Nat /\ code.mtime \in Nat /\ png.mtime \in Nat /\ icon.mtime \in Nat
      /\ recorded.mtime \in Nat /\ tray.mtime \in Nat
  BY DEF TypeInv, TreeOK, Stamped
<1>1. \E t \in T : \A u \in T : u <= t
  BY <1>0, SomeIsNewest
<1>2. recorded.mtime <= NewestSource /\ NewestSource \in Nat
  BY <1>0, <1>1 DEF NewestSource
<1> QED
  BY <1>0, <1>2 DEF TypeInv, TreeOK, OutputOK, TimesInv, Rebuilds, BuildIsStale, Stamped, Executable

(* The newest file of dist/ is the installer ISCC has just written. *)
LEMMA LatestIsThis ==
  ASSUME TypeInv, SidecarInv, pc = "sidecar"
  PROVE  Latest = iss /\ dist[iss] \in Installer
<1>1. dist[iss] \in Installer /\ iss \in InDist
  BY InstallerAssumption DEF TypeInv, OutputOK, TreeOK, InDist, Labels
<1>2. \A v \in InDist : dist[v].build \in Nat
  BY DEF TypeInv, OutputOK, InDist, Installer
<1>3. \A v \in InDist : dist[v].build <= dist[iss].build
  BY <1>1, <1>2 DEF SidecarInv
<1>4. ASSUME NEW v \in InDist, \A w \in InDist : dist[w].build <= dist[v].build
      PROVE  v = iss
  BY <1>1, <1>2, <1>4 DEF SidecarInv
<1> QED
  BY <1>1, <1>3, <1>4 DEF Latest

(* Updates of the history keep its type. *)
LEMMA SinceWith ==
  ASSUME since \in Since, NEW n \in Nat, NEW S \in SUBSET Nat
  PROVE  /\ [since EXCEPT !.edits = n, !.codes = S] \in Since
         /\ [since EXCEPT !.edits = n, !.arts = S] \in Since
         /\ \A m \in Nat : [since EXCEPT !.edits = n, !.versions = m] \in Since
         /\ \A m \in Nat : [since EXCEPT !.edits = n, !.restored = m] \in Since
         /\ \A T \in SUBSET Nat, h \in Had :
              [since EXCEPT !.runs = n, !.versions = 0, !.restored = 0,
                            !.codes = S, !.arts = T, !.had = h] \in Since
BY DEF Since

-----------------------------------------------------------------------------
(* One lemma per part: every step keeps it.                                 *)

(* Types of the tree. *)
LEMMA TreeStep ==
  ASSUME TypeInv, Next
  PROVE  TreeOK'
<1> USE DEF Goto, tree, icons, labels, built, tools, shipped, TypeInv, TreeOK, ScriptOK, Stamped, Labels, ShortLabels, Recorded
<1>1. CASE EditCode \/ EditArt \/ EditVersion \/ EditTray \/ RestoreTray
  BY <1>1 DEF EditCode, EditArt, EditVersion, EditTray, RestoreTray, CustomArt
<1>2. CASE Start \/ SyncSetup \/ SyncEnv
  BY <1>2 DEF Start, SyncSetup, SyncEnv
<1>3. CASE KeepIcon \/ StartGenerator \/ IconGenerated \/ EnsureTray
  BY <1>3 DEF KeepIcon, StartGenerator, IconGenerated, EnsureTray, Job
<1>4. CASE CheckBuild
  BY <1>4 DEF CheckBuild
<1>5. CASE Built
  BY <1>5 DEF Built
<1>6. CASE Verify \/ FindRedist \/ RedistDownloaded \/ EnsureNssm \/ FindIscc
  BY <1>6 DEF Verify, FindRedist, RedistDownloaded, EnsureNssm, FindIscc
<1>7. CASE Compile
  BY <1>7 DEF Compile
<1>8. CASE WriteSidecar
  BY <1>8 DEF WriteSidecar
<1>9. CASE StepFails \/ Killed
  BY <1>9 DEF StepFails, Killed
<1> QED
  BY <1>1, <1>2, <1>3, <1>4, <1>5, <1>6, <1>7, <1>8, <1>9 DEF Next, Developer, Script

(* Types of the script. *)
LEMMA ScriptStep ==
  ASSUME TypeInv, Next
  PROVE  ScriptOK'
<1> USE DEF Goto, tree, icons, labels, built, tools, shipped, TypeInv, TreeOK, ScriptOK, Stamped, Labels, Job, NoJob, Shorts, Positions, Idle
<1>1. CASE EditCode \/ EditArt \/ EditVersion \/ EditTray \/ RestoreTray
  BY <1>1 DEF EditCode, EditArt, EditVersion, EditTray, RestoreTray
<1>2. CASE Start
  BY <1>2 DEF Start
<1>3. CASE SyncSetup
  BY <1>3 DEF SyncSetup
<1>4. CASE SyncEnv
  BY <1>4 DEF SyncEnv
<1>5. CASE KeepIcon \/ StartGenerator \/ IconGenerated \/ EnsureTray
  BY <1>5 DEF KeepIcon, StartGenerator, IconGenerated, EnsureTray
<1>6. CASE CheckBuild
  BY <1>6 DEF CheckBuild
<1>7. CASE Built
  BY <1>7 DEF Built
<1>8. CASE Verify \/ FindRedist \/ RedistDownloaded \/ EnsureNssm \/ FindIscc
  BY <1>8 DEF Verify, FindRedist, RedistDownloaded, EnsureNssm, FindIscc
<1>9. CASE Compile
  BY <1>9 DEF Compile
<1>10. CASE WriteSidecar
  BY <1>10 DEF WriteSidecar
<1>11. CASE StepFails \/ Killed
  BY <1>11 DEF StepFails, Killed
<1> QED
  BY <1>1, <1>2, <1>3, <1>4, <1>5, <1>6, <1>7, <1>8, <1>9, <1>10, <1>11 DEF Next, Developer, Script

(* Types of what is built and shipped; an executable is there once it was compared. *)
LEMMA OutputStep ==
  ASSUME TypeInv, TimesInv, SidecarInv, Next
  PROVE  OutputOK'
<1> USE DEF Goto, tree, icons, labels, built, tools, shipped, TypeInv, TreeOK, ScriptOK, OutputOK, Packing
<1>1. CASE EditCode \/ EditArt \/ EditVersion \/ EditTray \/ RestoreTray
  BY <1>1 DEF EditCode, EditArt, EditVersion, EditTray, RestoreTray
<1>2. CASE Start \/ SyncSetup \/ SyncEnv
  BY <1>2 DEF Start, SyncSetup, SyncEnv
<1>3. CASE KeepIcon \/ StartGenerator \/ IconGenerated \/ EnsureTray
  BY <1>3 DEF KeepIcon, StartGenerator, IconGenerated, EnsureTray
<1>4. CASE CheckBuild
  BY <1>4, AlwaysRebuilds DEF CheckBuild, Cleaned
<1>5. CASE Built
  BY <1>5 DEF Built, Executable, Job
<1>6. CASE Verify \/ FindRedist \/ RedistDownloaded \/ EnsureNssm \/ FindIscc
  BY <1>6 DEF Verify, FindRedist, RedistDownloaded, EnsureNssm, FindIscc, Downloads
<1>7. CASE Compile
  <2>1. Package \in Installer
    BY <1>7 DEF Compile, Package, Installer, Executable
  <2>2. dist' = [dist EXCEPT ![iss] = Package] /\ iss \in Versions
    BY <1>7 DEF Compile, Labels
  <2> QED
    BY <1>7, <2>1, <2>2 DEF Compile
<1>8. CASE WriteSidecar
  <2>1. sidecar' = [sidecar EXCEPT ![iss] = dist[iss].build] /\ dist[iss].build \in Nat
    BY <1>8, LatestIsThis DEF WriteSidecar, Installer
  <2> QED
    BY <1>8, <2>1 DEF WriteSidecar
<1>9. CASE StepFails \/ Killed
  BY <1>9 DEF StepFails, Killed
<1> QED
  BY <1>1, <1>2, <1>3, <1>4, <1>5, <1>6, <1>7, <1>8, <1>9 DEF Next, Developer, Script

(* Types of the history. *)
LEMMA SinceStep ==
  ASSUME TypeInv, Next
  PROVE  SinceOK'
<1> USE DEF Goto, tree, icons, labels, built, tools, shipped, TypeInv, TreeOK, SinceOK
<1>1. CASE EditTray
  BY <1>1 DEF EditTray, Since
<1>14. CASE RestoreTray
  <2>1. since.edits + 1 \in Nat /\ since.restored + 1 \in Nat
    BY DEF Since
  <2> QED
    BY <1>14, <2>1, SinceWith DEF RestoreTray
<1>2. CASE EditCode
  <2>1. since.edits + 1 \in Nat /\ since.codes \cup {code.of + 1} \in SUBSET Nat
    BY DEF Since, Stamped
  <2> QED
    BY <1>2, <2>1, SinceWith DEF EditCode
<1>3. CASE EditArt
  <2>1. since.edits + 1 \in Nat /\ since.arts \cup {png.art + 1} \in SUBSET Nat
    BY DEF Since, Stamped
  <2> QED
    BY <1>3, <2>1, SinceWith DEF EditArt
<1>4. CASE EditVersion
  <2>1. since.edits + 1 \in Nat /\ since.versions + 1 \in Nat
    BY DEF Since, Stamped
  <2> QED
    BY <1>4, <2>1, SinceWith DEF EditVersion
<1>5. CASE SyncSetup \/ SyncEnv
  BY <1>5 DEF SyncSetup, SyncEnv
<1>6. CASE Start
  <2>1. since.runs + 1 \in Nat /\ {code.of} \in SUBSET Nat /\ {png.art} \in SUBSET Nat
       /\ [redist |-> redist, nssm |-> nssm] \in Had
    BY DEF Since, Stamped, OutputOK, Had
  <2> QED
    BY <1>6, <2>1, SinceWith DEF Start
<1>7. CASE KeepIcon \/ StartGenerator \/ IconGenerated \/ EnsureTray
  BY <1>7 DEF KeepIcon, StartGenerator, IconGenerated, EnsureTray
<1>8. CASE CheckBuild
  BY <1>8 DEF CheckBuild
<1>9. CASE Built
  BY <1>9 DEF Built
<1>10. CASE Verify \/ FindRedist \/ RedistDownloaded \/ EnsureNssm \/ FindIscc
  BY <1>10 DEF Verify, FindRedist, RedistDownloaded, EnsureNssm, FindIscc
<1>11. CASE Compile
  BY <1>11 DEF Compile
<1>12. CASE WriteSidecar
  BY <1>12 DEF WriteSidecar
<1>13. CASE StepFails \/ Killed
  BY <1>13 DEF StepFails, Killed, Since
<1> QED
  BY <1>1, <1>2, <1>3, <1>4, <1>5, <1>6, <1>7, <1>8, <1>9, <1>10, <1>11, <1>12, <1>13, <1>14 DEF Next, Developer, Script

(* The hash file is newer than the executable when the build is considered. *)
LEMMA TimesStep ==
  ASSUME TypeInv, TimesInv, Next
  PROVE  TimesInv'
<1> USE DEF Goto, tree, icons, labels, built, tools, shipped, TypeInv, TreeOK, OutputOK, TimesInv, Stamped, Executable
<1>1. CASE EditCode \/ EditArt \/ EditVersion \/ EditTray \/ RestoreTray
  BY <1>1 DEF EditCode, EditArt, EditVersion, EditTray, RestoreTray
<1>2. CASE Start \/ SyncSetup \/ SyncEnv
  BY <1>2 DEF Start, SyncSetup, SyncEnv
<1>3. CASE KeepIcon \/ StartGenerator \/ IconGenerated \/ EnsureTray
  BY <1>3 DEF KeepIcon, StartGenerator, IconGenerated, EnsureTray, Recorded
<1>4. CASE CheckBuild
  BY <1>4 DEF CheckBuild, Cleaned
<1>5. CASE Built
  BY <1>5 DEF Built
<1>6. CASE Verify \/ FindRedist \/ RedistDownloaded \/ EnsureNssm \/ FindIscc
  BY <1>6 DEF Verify, FindRedist, RedistDownloaded, EnsureNssm, FindIscc
<1>7. CASE Compile
  BY <1>7 DEF Compile
<1>8. CASE WriteSidecar
  BY <1>8 DEF WriteSidecar
<1>9. CASE StepFails \/ Killed
  BY <1>9 DEF StepFails, Killed
<1> QED
  BY <1>1, <1>2, <1>3, <1>4, <1>5, <1>6, <1>7, <1>8, <1>9 DEF Next, Developer, Script

(* What is built and packed is code of this run. *)
LEMMA SourcesStep ==
  ASSUME TypeInv, TimesInv, SourcesInv, SidecarInv, Next
  PROVE  SourcesInv'
<1> USE DEF Goto, tree, icons, labels, built, tools, shipped, TypeInv, TreeOK, ScriptOK, OutputOK, SinceOK, SourcesInv, Packing, Packed, Idle
<1>1. CASE EditCode
  BY <1>1 DEF EditCode, Since
<1>2. CASE EditArt
  BY <1>2 DEF EditArt, Since
<1>3. CASE EditVersion
  BY <1>3 DEF EditVersion, Since
<1>4. CASE EditTray \/ RestoreTray
  BY <1>4 DEF EditTray, RestoreTray, Since
<1>5. CASE Start
  BY <1>5 DEF Start, Since
<1>6. CASE SyncSetup
  BY <1>6 DEF SyncSetup
<1>7. CASE SyncEnv
  BY <1>7 DEF SyncEnv
<1>8. CASE KeepIcon \/ StartGenerator \/ IconGenerated \/ EnsureTray
  BY <1>8 DEF KeepIcon, StartGenerator, IconGenerated, EnsureTray
<1>9. CASE CheckBuild
  BY <1>9, AlwaysRebuilds DEF CheckBuild, Job
<1>10. CASE Built
  BY <1>10 DEF Built
<1>11. CASE Verify \/ FindRedist \/ RedistDownloaded \/ EnsureNssm \/ FindIscc
  BY <1>11 DEF Verify, FindRedist, RedistDownloaded, EnsureNssm, FindIscc
<1>12. CASE Compile
  BY <1>12 DEF Compile, Package, Labels
<1>13. CASE WriteSidecar
  BY <1>13 DEF WriteSidecar
<1>14. CASE StepFails \/ Killed
  BY <1>14 DEF StepFails, Killed, Since
<1> QED
  BY <1>1, <1>2, <1>3, <1>4, <1>5, <1>6, <1>7, <1>8, <1>9, <1>10, <1>11, <1>12, <1>13, <1>14 DEF Next, Developer, Script

(* The versions of setup.iss and of the executable. *)
LEMMA LabelStep ==
  ASSUME TypeInv, TimesInv, LabelInv, Next
  PROVE  LabelInv'
<1> USE DEF Goto, tree, icons, labels, built, tools, shipped, TypeInv, TreeOK, ScriptOK, OutputOK, SinceOK, LabelInv, Packing, Packed, Synced
<1>1. CASE EditCode
  BY <1>1 DEF EditCode, Since
<1>2. CASE EditArt
  BY <1>2 DEF EditArt, Since
<1>3. CASE EditVersion
  BY <1>3 DEF EditVersion, Since
<1>4. CASE EditTray \/ RestoreTray
  BY <1>4 DEF EditTray, RestoreTray, Since
<1>5. CASE Start \/ SyncSetup \/ SyncEnv
  <2>1. CASE Start
    BY <2>1 DEF Start, Since, NoJob, Job, Idle
  <2>2. CASE SyncSetup
    BY <2>2 DEF SyncSetup, Since, Job, Idle
  <2>3. CASE SyncEnv
    BY <2>3 DEF SyncEnv, Since, Job
  <2> QED
    BY <1>5, <2>1, <2>2, <2>3
<1>6. CASE KeepIcon \/ StartGenerator \/ IconGenerated \/ EnsureTray
  BY <1>6 DEF KeepIcon, StartGenerator, IconGenerated, EnsureTray, Job
<1>7. CASE CheckBuild
  BY <1>7, AlwaysRebuilds DEF CheckBuild, Job
<1>8. CASE Built
  BY <1>8 DEF Built, Since, Job, Executable
<1>9. CASE Verify \/ FindRedist \/ RedistDownloaded \/ EnsureNssm \/ FindIscc
  BY <1>9 DEF Verify, FindRedist, RedistDownloaded, EnsureNssm, FindIscc
<1>10. CASE Compile
  BY <1>10 DEF Compile, Package, Labels, Since
<1>11. CASE WriteSidecar
  BY <1>11 DEF WriteSidecar
<1>12. CASE StepFails \/ Killed
  BY <1>12 DEF StepFails, Killed, Since
<1> QED
  BY <1>1, <1>2, <1>3, <1>4, <1>5, <1>6, <1>7, <1>8, <1>9, <1>10, <1>11, <1>12 DEF Next, Developer, Script

(* The files that carry the version. *)
LEMMA FilesStep ==
  ASSUME TypeInv, TimesInv, FilesInv, Next
  PROVE  FilesInv'
<1> USE DEF Goto, tree, icons, labels, built, tools, shipped, TypeInv, TreeOK, ScriptOK, OutputOK, FilesInv, Packing, Packed, Synced
<1>1. CASE EditCode \/ EditArt \/ EditVersion \/ EditTray \/ RestoreTray
  BY <1>1 DEF EditCode, EditArt, EditVersion, EditTray, RestoreTray
<1>2. CASE Start
  BY <1>2 DEF Start, Idle
<1>3. CASE SyncSetup
  BY <1>3 DEF SyncSetup, Job
<1>4. CASE SyncEnv
  BY <1>4 DEF SyncEnv, Job
<1>5. CASE KeepIcon \/ StartGenerator \/ IconGenerated \/ EnsureTray
  BY <1>5 DEF KeepIcon, StartGenerator, IconGenerated, EnsureTray
<1>6. CASE CheckBuild
  BY <1>6 DEF CheckBuild
<1>7. CASE Built
  BY <1>7 DEF Built
<1>8. CASE Verify \/ FindRedist \/ RedistDownloaded \/ EnsureNssm \/ FindIscc
  BY <1>8 DEF Verify, FindRedist, RedistDownloaded, EnsureNssm, FindIscc
<1>9. CASE Compile
  BY <1>9 DEF Compile, Package, Labels
<1>10. CASE WriteSidecar
  BY <1>10 DEF WriteSidecar
<1>11. CASE StepFails \/ Killed
  BY <1>11 DEF StepFails, Killed, Idle
<1> QED
  BY <1>1, <1>2, <1>3, <1>4, <1>5, <1>6, <1>7, <1>8, <1>9, <1>10, <1>11 DEF Next, Developer, Script

(* The icons. *)
LEMMA IconStep ==
  ASSUME TypeInv, TimesInv, IconInv, Next
  PROVE  IconInv'
<1> USE DEF Goto, tree, icons, labels, built, tools, shipped, TypeInv, TreeOK, ScriptOK, OutputOK, SinceOK, IconInv, Packing, Packed, Idle, CustomArt, Stamped, Recorded
<1>1. CASE EditCode
  BY <1>1 DEF EditCode, Since
<1>2. CASE EditArt
  BY <1>2 DEF EditArt, Since
<1>3. CASE EditVersion
  BY <1>3 DEF EditVersion, Since
<1>4. CASE EditTray \/ RestoreTray
  <2>1. CASE EditTray
    BY <2>1 DEF EditTray, Since
  <2>2. CASE RestoreTray
    <3>1. since.restored' > 0 /\ since'.arts = since.arts
      BY <2>2 DEF RestoreTray, Since
    <3> QED
      BY <2>2, <3>1 DEF RestoreTray
  <2> QED
    BY <1>4, <2>1, <2>2
<1>5. CASE Start
  BY <1>5 DEF Start, Since
<1>6. CASE SyncSetup
  BY <1>6 DEF SyncSetup
<1>7. CASE SyncEnv
  BY <1>7 DEF SyncEnv
<1>8. CASE KeepIcon \/ StartGenerator \/ IconGenerated \/ EnsureTray
  BY <1>8 DEF KeepIcon, StartGenerator, IconGenerated, EnsureTray, Job
<1>9. CASE CheckBuild
  BY <1>9, AlwaysRebuilds DEF CheckBuild, Job
<1>10. CASE Built
  BY <1>10 DEF Built
<1>11. CASE Verify \/ FindRedist \/ RedistDownloaded \/ EnsureNssm \/ FindIscc
  BY <1>11 DEF Verify, FindRedist, RedistDownloaded, EnsureNssm, FindIscc, IconsVerified, HashMismatch, EmbedsIcon
<1>12. CASE Compile
  BY <1>12 DEF Compile, Package, Labels
<1>13. CASE WriteSidecar
  BY <1>13 DEF WriteSidecar
<1>14. CASE StepFails \/ Killed
  BY <1>14 DEF StepFails, Killed, Since
<1> QED
  BY <1>1, <1>2, <1>3, <1>4, <1>5, <1>6, <1>7, <1>8, <1>9, <1>10, <1>11, <1>12, <1>13, <1>14 DEF Next, Developer, Script

(* The newest installer and its hash. *)
LEMMA SidecarStep ==
  ASSUME TypeInv, SidecarInv, Next
  PROVE  SidecarInv'
<1> USE DEF Goto, tree, icons, labels, built, tools, shipped, TypeInv, TreeOK, ScriptOK, OutputOK, SidecarInv, InDist, Installer, Idle
<1>1. CASE EditCode \/ EditArt \/ EditVersion \/ EditTray \/ RestoreTray
  BY <1>1 DEF EditCode, EditArt, EditVersion, EditTray, RestoreTray
<1>2. CASE Start \/ SyncSetup \/ SyncEnv
  BY <1>2 DEF Start, SyncSetup, SyncEnv
<1>3. CASE KeepIcon \/ StartGenerator \/ IconGenerated \/ EnsureTray
  BY <1>3 DEF KeepIcon, StartGenerator, IconGenerated, EnsureTray
<1>4. CASE CheckBuild
  BY <1>4 DEF CheckBuild
<1>5. CASE Built
  BY <1>5 DEF Built
<1>6. CASE Verify \/ FindRedist \/ RedistDownloaded \/ EnsureNssm \/ FindIscc
  BY <1>6 DEF Verify, FindRedist, RedistDownloaded, EnsureNssm, FindIscc
<1>7. CASE Compile
  BY <1>7 DEF Compile, Package, Labels
<1>8. CASE WriteSidecar
  BY <1>8, LatestIsThis DEF WriteSidecar, Labels
<1>9. CASE StepFails \/ Killed
  BY <1>9 DEF StepFails, Killed
<1> QED
  BY <1>1, <1>2, <1>3, <1>4, <1>5, <1>6, <1>7, <1>8, <1>9 DEF Next, Developer, Script

(* vc_redist.x64.exe and nssm.exe. *)
LEMMA ToolsStep ==
  ASSUME TypeInv, ToolsInv, Next
  PROVE  ToolsInv'
<1> USE DEF Goto, tree, icons, labels, built, tools, shipped, TypeInv, TreeOK, ScriptOK, OutputOK, SinceOK, ToolsInv, RedistInv, NssmInv, Packed, Downloads, Idle
<1>1. CASE EditCode \/ EditArt \/ EditVersion \/ EditTray \/ RestoreTray
  BY <1>1 DEF EditCode, EditArt, EditVersion, EditTray, RestoreTray, Since
<1>2. CASE Start
  BY <1>2 DEF Start, Since
<1>3. CASE SyncSetup \/ SyncEnv
  BY <1>3 DEF SyncSetup, SyncEnv
<1>4. CASE KeepIcon \/ StartGenerator \/ IconGenerated \/ EnsureTray
  BY <1>4 DEF KeepIcon, StartGenerator, IconGenerated, EnsureTray
<1>5. CASE CheckBuild
  BY <1>5 DEF CheckBuild
<1>6. CASE Built
  BY <1>6 DEF Built
<1>7. CASE Verify \/ FindIscc
  BY <1>7 DEF Verify, FindIscc
<1>8. CASE FindRedist \/ RedistDownloaded
  BY <1>8 DEF FindRedist, RedistDownloaded
<1>9. CASE EnsureNssm
  BY <1>9 DEF EnsureNssm
<1>10. CASE Compile
  BY <1>10 DEF Compile, Package, Labels
<1>11. CASE WriteSidecar
  BY <1>11 DEF WriteSidecar
<1>12. CASE StepFails \/ Killed
  BY <1>12 DEF StepFails, Killed, Since
<1> QED
  BY <1>1, <1>2, <1>3, <1>4, <1>5, <1>6, <1>7, <1>8, <1>9, <1>10, <1>11, <1>12 DEF Next, Developer, Script

-----------------------------------------------------------------------------
(* Initially nothing is shipped and everything is of one time. *)
LEMMA BuildInit == Init => BuildInv
<1> SUFFICES ASSUME Init PROVE BuildInv
  OBVIOUS
<1> USE InstallerAssumption DEF Init
<1>1. TreeOK
  BY DEF TreeOK, Stamped, Labels, ShortLabels, CustomArt
<1>2. MarkedOK
  BY Zenon DEF MarkedOK
<1>3. OutputOK
  BY DEF OutputOK, Executable, Packing, Downloads, Stamped, CustomArt, Labels
<1>4. ScriptOK
  BY DEF ScriptOK, Positions, Idle, Job, NoJob, Shorts
<1>5. SinceOK
  BY DEF SinceOK, Since, Had, Downloads
<1>6. TimesInv /\ SourcesInv /\ LabelInv /\ FilesInv /\ IconInv
  BY DEF TimesInv, SourcesInv, LabelInv, FilesInv, IconInv, Packing, Packed, Synced, Idle, CustomArt
<1>7. SidecarInv /\ ToolsInv
  BY DEF SidecarInv, ToolsInv, RedistInv, NssmInv, InDist, Packed, Idle
<1> QED
  BY <1>1, <1>2, <1>3, <1>4, <1>5, <1>6, <1>7 DEF BuildInv, TypeInv

(* The mark of a tray icon drawn by hand is never touched. *)
LEMMA MarkedStep ==
  ASSUME MarkedOK, Next
  PROVE  MarkedOK'
<1>1. marked' = marked
  BY DEF Next, Developer, Script, EditCode, EditArt, EditVersion, EditTray, RestoreTray,
         Start, SyncSetup, SyncEnv, KeepIcon, StartGenerator, IconGenerated,
         EnsureTray, CheckBuild, Built, Verify, FindRedist, RedistDownloaded,
         EnsureNssm, FindIscc, Compile, WriteSidecar, StepFails, Killed
<1> QED
  BY <1>1, Zenon DEF MarkedOK

(* A step that changes nothing. *)
LEMMA BuildStutter ==
  ASSUME BuildInv, UNCHANGED vars
  PROVE  BuildInv'
<1> USE DEF BuildInv, TypeInv, vars, tree, icons, labels, built, tools, shipped
<1>1. TreeOK' /\ OutputOK' /\ ScriptOK' /\ SinceOK'
  BY DEF TreeOK, OutputOK, ScriptOK, SinceOK
<1>2. MarkedOK'
  BY Zenon DEF MarkedOK
<1>3. TimesInv' /\ SourcesInv' /\ LabelInv' /\ FilesInv'
  BY DEF TimesInv, SourcesInv, LabelInv, FilesInv
<1>4. IconInv' /\ SidecarInv' /\ ToolsInv'
  BY DEF IconInv, SidecarInv, ToolsInv, RedistInv, NssmInv, InDist
<1> QED
  BY <1>1, <1>2, <1>3, <1>4

(* The invariant, for every schedule of edits, runs and kills. *)
THEOREM BuildInvariant == Spec => []BuildInv
<1>1. BuildInv /\ [Next]_vars => BuildInv'
  <2> SUFFICES ASSUME BuildInv, [Next]_vars PROVE BuildInv'
    OBVIOUS
  <2>1. CASE Next
    BY <2>1, TreeStep, MarkedStep, OutputStep, ScriptStep, SinceStep, TimesStep,
       SourcesStep, LabelStep, FilesStep, IconStep, SidecarStep, ToolsStep
       DEF BuildInv, TypeInv
  <2>2. CASE UNCHANGED vars
    BY <2>2, BuildStutter
  <2> QED
    BY <2>1, <2>2
<1> QED
  BY <1>1, BuildInit, PTL DEF Spec

(* Types; no malformed version reaches a file that carries the version *)
(* (update_version.py refuses it before it writes any). *)
THEOREM BuildTypeCorrect == Spec => []TypeOK
<1>1. BuildInv => TypeOK
  <2> SUFFICES ASSUME BuildInv PROVE TypeOK
    OBVIOUS
  <2>1. marked \in BOOLEAN
    BY Zenon DEF BuildInv, TypeInv, MarkedOK
  <2> QED
    BY <2>1 DEF BuildInv, TypeInv, TreeOK, OutputOK, ScriptOK, SinceOK,
       TypeOK, Stamped, Executable, Job, Since, Had
<1> QED
  BY <1>1, BuildInvariant, PTL

(* What is shipped was compiled from code that was in the tree during the *)
(* run, whatever the modification times say. *)
THEOREM OwnSourcesAreShipped == Spec => []SourcesOfThisRun
<1>1. BuildInv => SourcesOfThisRun
  BY DEF BuildInv, SourcesInv, SourcesOfThisRun, Finished, Shipped, Packed
<1> QED
  BY <1>1, BuildInvariant, PTL

(* The version in the installer's name is that of its executable if nobody *)
(* edits pubspec.yaml during the run; with one edit it is but for the      *)
(* build number. *)
THEOREM LabelsAreTrue == Spec => []LabelOfTheExecutable
<1>1. BuildInv => LabelOfTheExecutable
  BY DEF BuildInv, LabelInv, LabelOfTheExecutable, Finished, Shipped, Packed
<1> QED
  BY <1>1, BuildInvariant, PTL

(* setup.iss and the .env files of a finished run agree, but for the build *)
(* number, which the .env files do not have. *)
THEOREM VersionFilesAreOne == Spec => []VersionFilesAgree
<1>1. BuildInv => VersionFilesAgree
  BY DEF BuildInv, FilesInv, VersionFilesAgree, Finished, Shipped, Packed
<1> QED
  BY <1>1, BuildInvariant, PTL

(* The icons of a finished run are one (the tray's if none was restored in *)
(* it), and of this run where the recorded hash is that of the icon's PNG. *)
THEOREM IconsAreTrue == Spec => []IconOfThisRun
<1>1. BuildInv => IconOfThisRun
  BY DEF BuildInv, IconInv, IconOfThisRun, Finished, Shipped, Packed
<1> QED
  BY <1>1, BuildInvariant, PTL

(* The .sha256 of a finished run is of its installer, however many older *)
(* ones lie in dist/. *)
THEOREM SidecarsAreTrue == Spec => []SidecarOfTheInstaller
<1>1. BuildInv => SidecarOfTheInstaller
  BY DEF BuildInv, SidecarInv, SidecarOfTheInstaller, Finished, Shipped
<1> QED
  BY <1>1, BuildInvariant, PTL

(* No run packs a part of a program whose download or write broke off in *)
(* it; a part that lay there when it began it may. *)
THEOREM ToolsAreWhole == Spec => []ToolsWhole
<1>1. BuildInv => ToolsWhole
  BY DEF BuildInv, ToolsInv, RedistInv, NssmInv, ToolsWhole, Finished, Shipped, Packed
<1> QED
  BY <1>1, BuildInvariant, PTL
==============================================================================
