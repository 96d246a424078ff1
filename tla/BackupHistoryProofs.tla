-------------------------- MODULE BackupHistoryProofs --------------------------
(***************************************************************************)
(* What the backup history guarantees for any number of runs.              *)
(***************************************************************************)
EXTENDS BackupHistory, TLAPS

(* TypeOK in parts: the table, the scheduler, the run and its results.     *)
TableOK ==
  /\ row \in [Runs -> Status]
  /\ faults \in 0 .. MaxFaults
  /\ old \subseteq Runs /\ recoveries \subseteq SUBSET old

SchedulerOK == scheduler \in {"stopped", "started"}

Labels == {"idle", "dump", "check", "upload", "stage", "delete", "update", "replace"}

RunOK ==
  /\ current \in Runs \cup {None} /\ pc \in Labels
  /\ recorded \in [Runs -> {"none", "success", "warning"}]
  /\ copies \in [Runs -> SUBSET Places]
  /\ verdict \in [Runs -> {"none", "success", "failure", "cancelled"}]

FlagsOK == cancel \in BOOLEAN /\ remote \in [Runs -> BOOLEAN]

(* Once the backup is made, the row of its run says so, unless a write     *)
(* failed and it still says "running", or the run is old enough for a      *)
(* start of the scheduler to have taken it for dead.                       *)
RowOfCurrent ==
  current # None =>
    /\ row[current] # "none" /\ verdict[current] = "none" /\ pc # "idle"
    /\ pc = "dump" /\ current \notin old => row[current] = "running"
    /\ pc # "dump" =>
         /\ recorded[current] # "none"
         /\ current \notin old =>
              row[current] = recorded[current] \/ (row[current] = "running" /\ faults = 1)
    /\ pc = "replace" =>
         \/ row[current] \in {"running", recorded[current]}
         \/ row[current] = "error" /\ current \in old

RowsOfOthers ==
  /\ current = None => pc = "idle"
  /\ \A r \in Runs : row[r] = "none" => verdict[r] = "none"

HistoryInv ==
  TableOK /\ SchedulerOK /\ RunOK /\ FlagsOK
  /\ RowOfCurrent /\ RowsOfOthers /\ CompletedIsRecorded

(* A conditional write touches rows that are running, or fails and is      *)
(* counted (updateHistoryIfRunning).                                       *)
Mark(S, status) ==
  /\ TableOK'
  /\ \A r \in Runs :
       \/ row'[r] = row[r]
       \/ r \in S /\ row[r] = "running" /\ row'[r] = status
  /\ \/ faults' = faults /\ \A r \in S : row[r] = "running" => row'[r] = status
     \/ faults = 0 /\ faults' = 1

LEMMA MarkEffect ==
  ASSUME TableOK, NEW S \in SUBSET Runs, NEW status \in Terminal,
         MarkIfRunning(S, status), old \subseteq old', old' \subseteq Runs, recoveries' \subseteq SUBSET old'
  PROVE  Mark(S, status)
<1>1. CASE row' = Marked(S, status) /\ UNCHANGED faults
  <2>1. row' \in [Runs -> Status]
    BY <1>1 DEF Marked, TableOK, Status
  <2>2. \A r \in Runs :
          row'[r] = IF r \in S /\ row[r] = "running" THEN status ELSE row[r]
    BY <1>1 DEF Marked
  <2> QED
    BY <1>1, <2>1, <2>2 DEF TableOK, Mark
<1>2. CASE WriteFails
  BY <1>2, HistoryAssumption DEF WriteFails, TableOK, Mark
<1> QED
  BY <1>1, <1>2 DEF MarkIfRunning

LEMMA HistoryInit == Init => HistoryInv
<1> SUFFICES ASSUME Init PROVE HistoryInv
  OBVIOUS
<1>1. FlagsOK
  BY Zenon DEF Init, FlagsOK
<1>2. TableOK /\ SchedulerOK /\ RunOK
  BY HistoryAssumption DEF Init, TableOK, SchedulerOK, RunOK, Status, Labels
<1>3. RowOfCurrent /\ RowsOfOthers /\ CompletedIsRecorded
  BY DEF Init, RowOfCurrent, RowsOfOthers, CompletedIsRecorded
<1> QED
  BY <1>1, <1>2, <1>3 DEF HistoryInv

(* A run that does not complete marks its row and ends; what it leaves is  *)
(* not the row of any completed run (all the catches and early returns).   *)
LEMMA EndStep ==
  ASSUME HistoryInv, current # None, NEW status \in Terminal,
         MarkIfRunning({current}, status),
         NEW result \in {"failure", "cancelled"}, End(result),
         UNCHANGED <<old, start, recorded>>,
         copies' \in [Runs -> SUBSET Places], FlagsOK'
  PROVE  HistoryInv'
<1> USE DEF HistoryInv
<1>1. Mark({current}, status)
  BY MarkEffect DEF start, TableOK, RunOK
<1>2. SchedulerOK' /\ RunOK'
  BY DEF End, SchedulerOK, RunOK, start, Labels
<1>3. RowOfCurrent' /\ RowsOfOthers'
  BY <1>1 DEF End, RowOfCurrent, RowsOfOthers, RunOK, Mark, Terminal
<1>4. CompletedIsRecorded'
  BY <1>1 DEF End, RowOfCurrent, RowsOfOthers, RunOK, Mark, CompletedIsRecorded
<1> QED
  BY <1>1, <1>2, <1>3, <1>4 DEF Mark

(* A step of a run between two writes.                                     *)
LEMMA GoStep ==
  ASSUME HistoryInv, current # None, pc \notin {"dump", "replace"},
         NEW label \in Labels \ {"idle", "dump", "replace"},
         Goto(label), UNCHANGED <<table, old, start, remote, recorded>>,
         copies' \in [Runs -> SUBSET Places]
  PROVE  HistoryInv'
<1> USE DEF HistoryInv, Goto, table, start
<1>1. FlagsOK'
  BY Zenon DEF FlagsOK
<1>2. TableOK' /\ SchedulerOK' /\ RunOK'
  BY DEF TableOK, SchedulerOK, RunOK
<1>3. RowOfCurrent' /\ RowsOfOthers' /\ CompletedIsRecorded'
  BY DEF RowOfCurrent, RowsOfOthers, CompletedIsRecorded
<1> QED
  BY <1>1, <1>2, <1>3

(* Begin writes a row that was not there; no completed run has it.         *)
LEMMA BeginStep ==
  ASSUME HistoryInv, NEW r \in Runs, Begin(r)
  PROVE  HistoryInv'
<1> USE DEF HistoryInv, Begin, start
<1>1. FlagsOK'
  <2>1. PICK b \in BOOLEAN : remote' = [remote EXCEPT ![r] = b]
    OBVIOUS
  <2> QED
    BY <2>1, Zenon DEF FlagsOK
<1>2. TableOK' /\ SchedulerOK' /\ RunOK'
  BY DEF TableOK, SchedulerOK, RunOK, Status, Labels
<1>3. \A q \in Runs : row'[q] = IF q = r THEN "running" ELSE row[q]
  BY DEF TableOK
<1>4. RowOfCurrent' /\ RowsOfOthers'
  BY <1>3, HistoryAssumption DEF RowOfCurrent, RowsOfOthers
<1>5. CompletedIsRecorded'
  BY <1>3 DEF CompletedIsRecorded, RowsOfOthers
<1> QED
  BY <1>1, <1>2, <1>4, <1>5

(* The result of the backup is in the row, or a write failed and the row   *)
(* still says "running".                                                   *)
LEMMA DumpDoneStep ==
  ASSUME HistoryInv, DumpDone
  PROVE  HistoryInv'
<1> USE DEF HistoryInv
<1>1. PICK status \in {"success", "warning"} :
        /\ MarkIfRunning({current}, status)
        /\ recorded' = [recorded EXCEPT ![current] = status]
  BY DEF DumpDone
<1>2. Mark({current}, status)
  BY <1>1, MarkEffect DEF DumpDone, At, start, TableOK, RunOK, Terminal
<1>3. FlagsOK'
  BY Zenon DEF FlagsOK, DumpDone, Goto
<1>4. SchedulerOK' /\ RunOK'
  BY <1>1 DEF DumpDone, At, Goto, SchedulerOK, RunOK, start, Labels, Places
<1>5. RowOfCurrent'
  <2>1. recorded'[current] = status /\ current' = current /\ pc' = "check" /\ verdict' = verdict
    BY <1>1 DEF DumpDone, At, Goto, RunOK
  <2>2. current \notin old =>
          row'[current] = status \/ (row'[current] = "running" /\ faults' = 1)
    BY <1>2 DEF RowOfCurrent, DumpDone, At, Mark, RunOK
  <2>3. row'[current] # "none"
    BY <1>2 DEF RowOfCurrent, DumpDone, At, Mark, RunOK
  <2> QED
    BY <2>1, <2>2, <2>3 DEF RowOfCurrent, DumpDone, At
<1>6. RowsOfOthers' /\ CompletedIsRecorded'
  BY <1>1, <1>2 DEF DumpDone, At, Goto, RowOfCurrent, RowsOfOthers, RunOK, Mark, CompletedIsRecorded
<1> QED
  BY <1>2, <1>3, <1>4, <1>5, <1>6 DEF Mark

(* The write of the metrics: a row recovered as dead between the read and  *)
(* the write is replaced, and only that.                                   *)
LEMMA ReplaceStep ==
  ASSUME HistoryInv, Replace
  PROVE  HistoryInv'
<1> USE DEF HistoryInv, Replace, At, End, start
<1>1. FlagsOK'
  BY Zenon DEF FlagsOK
<1>2. recorded[current] \in {"success", "warning"}
  BY DEF RunOK, RowOfCurrent
<1>3. TableOK'
  BY <1>2, HistoryAssumption DEF TableOK, WriteFails, Status, Terminal
<1>4. SchedulerOK' /\ RunOK'
  BY DEF SchedulerOK, RunOK, Labels
<1>5. RowOfCurrent' /\ RowsOfOthers'
  BY <1>2 DEF RowOfCurrent, RowsOfOthers, RunOK, TableOK, WriteFails
<1>6. CompletedIsRecorded'
  <2> SUFFICES ASSUME NEW r \in Runs, verdict'[r] = "success", r \notin old
               PROVE  row'[r] = recorded[r]
    BY DEF CompletedIsRecorded
  <2>1. CASE r = current
    <3>1. CASE WriteFails
      <4>1. faults = 0
        BY <3>1, HistoryAssumption DEF WriteFails, TableOK
      <4> QED
        BY <2>1, <3>1, <4>1 DEF WriteFails, RowOfCurrent
    <3> QED
      BY <2>1, <3>1 DEF TableOK, RunOK
  <2>2. CASE r # current
    BY <2>2 DEF CompletedIsRecorded, RunOK, TableOK, WriteFails
  <2> QED
    BY <2>1, <2>2
<1> QED
  BY <1>1, <1>3, <1>4, <1>5, <1>6

(* The other end of an update: the row was recovered as dead.              *)
LEMMA RefusedStep ==
  ASSUME HistoryInv, UpdateRefused
  PROVE  HistoryInv'
<1> USE DEF HistoryInv, UpdateRefused, At, End, start, table
<1>1. FlagsOK'
  BY Zenon DEF FlagsOK
<1>2. TableOK' /\ SchedulerOK' /\ RunOK'
  BY DEF TableOK, SchedulerOK, RunOK, Labels
<1>3. RowOfCurrent' /\ RowsOfOthers'
  BY DEF RowOfCurrent, RowsOfOthers, RunOK
<1>4. current \in old
  BY DEF CanTransition, RowOfCurrent, RunOK, Terminal
<1>5. CompletedIsRecorded'
  BY <1>4 DEF CompletedIsRecorded, RunOK
<1> QED
  BY <1>1, <1>2, <1>3, <1>5

(* The recovery writes only rows that were old when it read them.          *)
LEMMA ReconciledStep ==
  ASSUME HistoryInv, Reconciled
  PROVE  HistoryInv'
<1> USE DEF HistoryInv
<1>1. PICK rows \in recoveries :
        /\ MarkIfRunning(rows, "error")
        /\ recoveries' = recoveries \ {rows}
        /\ UNCHANGED <<old, scheduler, current, pc, cancel, remote, recorded, copies, verdict>>
  BY DEF Reconciled
<1>2. Mark(rows, "error")
  BY <1>1, MarkEffect DEF TableOK, Terminal
<1>3. FlagsOK'
  BY <1>1, Zenon DEF FlagsOK
<1>4. SchedulerOK' /\ RunOK'
  BY <1>1 DEF SchedulerOK, RunOK
<1>5. RowOfCurrent'
  BY <1>1, <1>2 DEF RowOfCurrent, Mark, RunOK, TableOK
<1>6. RowsOfOthers'
  BY <1>1, <1>2 DEF RowsOfOthers, Mark
<1>7. CompletedIsRecorded'
  BY <1>1, <1>2 DEF CompletedIsRecorded, Mark, TableOK
<1> QED
  BY <1>2, <1>3, <1>4, <1>5, <1>6, <1>7 DEF Mark

LEMMA HistoryStep == HistoryInv /\ [Next]_vars => HistoryInv'
<1> SUFFICES ASSUME HistoryInv, [Next]_vars PROVE HistoryInv'
  OBVIOUS
<1>1. ASSUME NEW r \in Runs, Begin(r) PROVE HistoryInv'
  BY <1>1, BeginStep
<1>2. ASSUME NEW r \in Runs, GrowsOld(r) PROVE HistoryInv'
  <2> USE <1>2 DEF GrowsOld, HistoryInv, table, start
  <2>1. FlagsOK'
    BY Zenon DEF FlagsOK
  <2>2. TableOK' /\ SchedulerOK' /\ RunOK'
    BY DEF TableOK, SchedulerOK, RunOK
  <2>3. RowOfCurrent' /\ RowsOfOthers' /\ CompletedIsRecorded'
    BY DEF RowOfCurrent, RowsOfOthers, CompletedIsRecorded
  <2> QED
    BY <2>1, <2>2, <2>3
<1>3. CASE RequestCancel
  <2> USE <1>3 DEF RequestCancel, HistoryInv, table, start
  <2>1. FlagsOK'
    BY Zenon DEF FlagsOK
  <2>2. TableOK' /\ SchedulerOK' /\ RunOK'
    BY DEF TableOK, SchedulerOK, RunOK
  <2>3. RowOfCurrent' /\ RowsOfOthers' /\ CompletedIsRecorded'
    BY DEF RowOfCurrent, RowsOfOthers, CompletedIsRecorded
  <2> QED
    BY <2>1, <2>2, <2>3
<1>4. CASE DumpFails
  <2>1. FlagsOK'
    BY <1>4, Zenon DEF DumpFails, End, HistoryInv, FlagsOK
  <2> QED
    BY <1>4, <2>1, EndStep DEF DumpFails, At, Terminal, HistoryInv, RunOK
<1>5. CASE DumpDone
  BY <1>5, DumpDoneStep
<1>6. CASE CheckCancelled
  <2>1. FlagsOK'
    BY <1>6, Zenon DEF CheckCancelled, End, HistoryInv, FlagsOK
  <2> QED
    BY <1>6, <2>1, EndStep DEF CheckCancelled, At, Terminal, HistoryInv, RunOK
<1>7. CASE CheckFails
  <2>1. FlagsOK'
    BY <1>7, Zenon DEF CheckFails, End, HistoryInv, FlagsOK
  <2>2. copies' \in [Runs -> SUBSET Places]
    BY <1>7 DEF CheckFails, HistoryInv, RunOK
  <2> QED
    BY <1>7, <2>1, <2>2, EndStep DEF CheckFails, At, Terminal
<1>8. CASE CheckPasses
  BY <1>8, GoStep DEF CheckPasses, At, Labels, HistoryInv, RunOK
<1>9. CASE UploadDone
  <2>1. copies' \in [Runs -> SUBSET Places]
    BY <1>9 DEF UploadDone, HistoryInv, RunOK, Places
  <2> QED
    BY <1>9, <2>1, GoStep DEF UploadDone, At, Labels
<1>10. CASE UploadFails
  <2>1. FlagsOK'
    BY <1>10, Zenon DEF UploadFails, End, HistoryInv, FlagsOK
  <2> QED
    BY <1>10, <2>1, EndStep DEF UploadFails, At, Terminal, HistoryInv, RunOK
<1>11. CASE Stage
  <2>1. copies' \in [Runs -> SUBSET Places]
    BY <1>11 DEF Stage, HistoryInv, RunOK, Places
  <2> QED
    BY <1>11, <2>1, GoStep DEF Stage, At, Labels
<1>12. CASE DeleteTemp
  <2>1. copies' \in [Runs -> SUBSET Places]
    BY <1>12 DEF DeleteTemp, HistoryInv, RunOK
  <2> QED
    BY <1>12, <2>1, GoStep DEF DeleteTemp, At, Labels
<1>13. CASE Update
  <2> USE <1>13 DEF Update, At, Goto, HistoryInv, table, start
  <2>1. FlagsOK'
    BY Zenon DEF FlagsOK
  <2>2. TableOK' /\ SchedulerOK' /\ RunOK'
    BY DEF TableOK, SchedulerOK, RunOK, Labels
  <2>3. RowOfCurrent'
    BY DEF RowOfCurrent, CanTransition
  <2>4. RowsOfOthers' /\ CompletedIsRecorded'
    BY DEF RowsOfOthers, CompletedIsRecorded
  <2> QED
    BY <2>1, <2>2, <2>3, <2>4
<1>14. CASE UpdateRefused
  BY <1>14, RefusedStep
<1>15. CASE Replace
  BY <1>15, ReplaceStep
<1>16. CASE Throws
  <2>1. FlagsOK'
    BY <1>16, Zenon DEF Throws, End, HistoryInv, FlagsOK
  <2> QED
    BY <1>16, <2>1, EndStep DEF Throws, At, Terminal, HistoryInv, RunOK
<1>17. CASE StartScheduler \/ StopScheduler
  <2> USE <1>17 DEF StartScheduler, StopScheduler, HistoryInv, table
  <2>1. FlagsOK'
    BY Zenon DEF FlagsOK
  <2>2. TableOK' /\ SchedulerOK' /\ RunOK'
    BY DEF TableOK, SchedulerOK, RunOK
  <2>3. RowOfCurrent' /\ RowsOfOthers' /\ CompletedIsRecorded'
    BY DEF RowOfCurrent, RowsOfOthers, CompletedIsRecorded
  <2> QED
    BY <2>1, <2>2, <2>3
<1>18. CASE Reconciled
  BY <1>18, ReconciledStep
<1>19. CASE Crash
  <2> USE <1>19 DEF Crash, HistoryInv, table
  <2>1. FlagsOK'
    BY Zenon DEF FlagsOK
  <2>2. TableOK' /\ SchedulerOK' /\ RunOK'
    BY DEF TableOK, SchedulerOK, RunOK, Labels
  <2>3. RowOfCurrent' /\ RowsOfOthers' /\ CompletedIsRecorded'
    BY DEF RowOfCurrent, RowsOfOthers, CompletedIsRecorded
  <2> QED
    BY <2>1, <2>2, <2>3
<1>20. CASE UNCHANGED vars
  <2> USE <1>20 DEF vars, HistoryInv, table, start
  <2>1. FlagsOK'
    BY Zenon DEF FlagsOK
  <2>2. TableOK' /\ SchedulerOK' /\ RunOK'
    BY DEF TableOK, SchedulerOK, RunOK
  <2>3. RowOfCurrent' /\ RowsOfOthers' /\ CompletedIsRecorded'
    BY DEF RowOfCurrent, RowsOfOthers, CompletedIsRecorded
  <2> QED
    BY <2>1, <2>2, <2>3
<1> QED
  BY <1>1, <1>2, <1>3, <1>4, <1>5, <1>6, <1>7, <1>8, <1>9, <1>10, <1>11, <1>12,
     <1>13, <1>14, <1>15, <1>16, <1>17, <1>18, <1>19, <1>20 DEF Next

(* The inductive invariant holds in every reachable state.                 *)
THEOREM HistoryInvariant == Spec => []HistoryInv
BY HistoryInit, HistoryStep, PTL DEF Spec

(* Type correctness of the history model, for any number of runs.          *)
THEOREM HistoryTypeCorrect == Spec => []TypeOK
<1>1. HistoryInv => TypeOK
  BY DEF HistoryInv, TableOK, SchedulerOK, RunOK, FlagsOK, Labels, TypeOK
<1> QED
  BY <1>1, HistoryInvariant, PTL

(* A run told as complete is in the table with its result, though a write  *)
(* failed on the way, unless it outlived the maximum age (update after     *)
(* updateHistoryIfRunning).                                                *)
THEOREM CompletionsAreRecorded == Spec => []CompletedIsRecorded
<1>1. HistoryInv => CompletedIsRecorded
  BY DEF HistoryInv
<1> QED
  BY <1>1, HistoryInvariant, PTL

(* What one step may do to a row that has ended.                           *)
KeepsEnded ==
  \A r \in Runs :
    row[r] \in Terminal /\ row'[r] # row[r] =>
      row[r] = "error" /\ r \in old /\ r = current /\ row'[r] = recorded[r]

(* Recovery, cancellation, failure and the updates of a run may overtake   *)
(* each other: an ended row is rewritten only by its own run, when it was  *)
(* wrongly taken for dead (canTransition, updateHistoryIfRunning).         *)
THEOREM EndedRowsStay == Spec => StatusIsFinal
<1>1. HistoryInv /\ [Next]_vars => [KeepsEnded]_vars
  <2> SUFFICES ASSUME HistoryInv, Next PROVE KeepsEnded
    OBVIOUS
  <2>1. ASSUME NEW S \in SUBSET Runs, NEW status \in Terminal, MarkIfRunning(S, status)
        PROVE  KeepsEnded
    BY <2>1 DEF MarkIfRunning, Marked, WriteFails, KeepsEnded, Terminal
  <2>2. CASE UNCHANGED row
    BY <2>2 DEF KeepsEnded
  <2>3. ASSUME NEW r \in Runs, Begin(r) PROVE KeepsEnded
    BY <2>3 DEF Begin, KeepsEnded, HistoryInv, TableOK, Terminal
  <2>4. CASE Replace
    BY <2>4 DEF Replace, At, WriteFails, KeepsEnded, HistoryInv, TableOK, RunOK,
       RowOfCurrent, Terminal
  <2>5. CASE DumpFails \/ CheckCancelled \/ CheckFails \/ UploadFails \/ Throws
    BY <2>1, <2>5 DEF DumpFails, CheckCancelled, CheckFails, UploadFails, Throws, At,
       HistoryInv, RunOK, Terminal
  <2>6. CASE DumpDone
    BY <2>1, <2>6 DEF DumpDone, At, HistoryInv, RunOK, Terminal
  <2>7. CASE Reconciled
    BY <2>1, <2>7 DEF Reconciled, HistoryInv, TableOK, Terminal
  <2> QED
    BY <2>2, <2>3, <2>4, <2>5, <2>6, <2>7 DEF Next, GrowsOld, RequestCancel, CheckPasses,
       UploadDone, Stage, DeleteTemp, Update, UpdateRefused, StartScheduler, StopScheduler,
       Crash, table
<1>2. [KeepsEnded]_vars <=>
        [\A r \in Runs :
           row[r] \in Terminal /\ row'[r] # row[r] =>
             /\ row[r] = "error" /\ r \in old
             /\ r = current /\ row'[r] = recorded[r]]_vars
  BY DEF KeepsEnded
<1> QED
  BY <1>1, <1>2, HistoryInvariant, PTL DEF Spec, StatusIsFinal
=============================================================================
