---------------------------- MODULE MCBackupHistory ----------------------------
(* Two runs one after the other, of which either may be left behind by a     *)
(* crash, and one write to the table that fails.                             *)
EXTENDS BackupHistory, TLC

CONSTANTS r1, r2

MCRuns == {r1, r2}
RunSymmetry == Permutations(MCRuns)
=============================================================================
