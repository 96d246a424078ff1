-------------------------- MODULE MCBackupExecution ---------------------------
(***************************************************************************)
(* Instances of BackupExecution: three runs of clients that use            *)
(* startBackup, and two runs that come in any way.                         *)
(***************************************************************************)
EXTENDS BackupExecution

CONSTANTS r1, r2, r3, s1, s2

(* Two runs of one schedule compete, a third one belongs to another. *)
ThreeRuns == {r1, r2, r3}
SchedOfThree == (r1 :> s1) @@ (r2 :> s1) @@ (r3 :> s2)

TwoRuns == {r1, r2}
SchedOfTwo == (r1 :> s1) @@ (r2 :> s1)

MCSchedules == {s1, s2}

AllEntries == Origins
StartOnly == {"start"}
StartAndLocal == {"start", "local"}

Symmetry == Permutations({r1, r2})
=============================================================================
