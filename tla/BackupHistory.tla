----------------------------- MODULE BackupHistory -----------------------------
(***************************************************************************)
(* What the history says of a backup, and what became of the backup: the   *)
(* row that _executeScheduledBackup (scheduler_service.dart) and           *)
(* executeBackup (backup_orchestrator_service.dart) write through          *)
(* backup_history_repository.dart, the recovery of stale rows when the     *)
(* scheduler starts, and the copies of the backup that a run makes and     *)
(* deletes.                                                                *)
(*                                                                         *)
(* One backup runs at a time (BackupExecution shows it); each run has one  *)
(* row.  A run goes through awaits, so cancellations, a pause and restart  *)
(* of the scheduler from the tray, and a crash fall between its steps.     *)
(* A write to the table may fail: the code logs it and goes on.            *)
(*                                                                         *)
(* Left out: runs that end before they have a row (missing destinations,   *)
(* folder, licence or space), log rows, notifications, next run times, and *)
(* the retention of staging and destinations, which deletes by age.        *)
(***************************************************************************)
EXTENDS Naturals, FiniteSets

CONSTANTS
    Runs,
    None,
    MaxFaults       \* how many writes to the table may fail

ASSUME HistoryAssumption == None \notin Runs /\ MaxFaults \in 0 .. 1

Terminal == {"success", "warning", "error"}
Status == {"none", "running"} \cup Terminal
Places == {"temp", "destinations", "staging"}

VARIABLES
    row,        \* the status in the table; "none": no row yet
    old,        \* runs started longer ago than staleRunningBackupMaxAge
    scheduler,  \* stopped or started
    recoveries, \* of each start under way: the rows it has read as stale
    current,    \* the run under way, or None
    pc,         \* where it is
    cancel,     \* it is in _cancelRequestedSchedules
    remote,     \* of each run: asked for by a client, without destinations
    recorded,   \* of each run: the status of its BackupHistory in memory
    copies,     \* of each run: where its backup is
    verdict,    \* of each run: what executeNow returned
    faults

table == <<row, faults>>
start == <<scheduler, recoveries>>
vars == <<table, old, start, current, pc, cancel, remote, recorded, copies, verdict>>

Init ==
    /\ row = [r \in Runs |-> "none"]
    /\ old = {}
    /\ scheduler = "stopped"
    /\ recoveries = {}
    /\ current = None
    /\ pc = "idle"
    /\ cancel = FALSE
    /\ remote = [r \in Runs |-> FALSE]
    /\ recorded = [r \in Runs |-> "none"]
    /\ copies = [r \in Runs |-> {}]
    /\ verdict = [r \in Runs |-> "none"]
    /\ faults = 0

-----------------------------------------------------------------------------
(* The table.                                                               *)

WriteFails ==
    /\ faults < MaxFaults
    /\ faults' = faults + 1
    /\ UNCHANGED row

(* Seeded fault: the row is written whatever its status.                    *)
MarkedAlways(S, status) == [r \in Runs |-> IF r \in S THEN status ELSE row[r]]

(* updateHistoryIfRunning of every row of S.                                *)
Marked(S, status) ==
    [r \in Runs |-> IF r \in S /\ row[r] = "running" THEN status ELSE row[r]]

MarkIfRunning(S, status) ==
    \/ row' = Marked(S, status) /\ UNCHANGED faults
    \/ WriteFails

(* BackupHistoryStateMachine.canTransition                                  *)
CanTransition(from, to) == from = to \/ (from = "running" /\ to \in Terminal)

-----------------------------------------------------------------------------
(* A run.                                                                   *)

At(label) == current # None /\ pc = label

Goto(label) ==
    /\ pc' = label
    /\ UNCHANGED <<current, cancel, verdict>>

(* _runScheduleWithLock gives the lock and the cancel mark back.            *)
End(result) ==
    /\ verdict' = [verdict EXCEPT ![current] = result]
    /\ current' = None
    /\ pc' = "idle"
    /\ cancel' = FALSE

(* Up to the row that executeBackup creates.  It does not take a started    *)
(* scheduler: a client, the tray or the user interface may ask for it.      *)
Begin(r) ==
    /\ current = None
    /\ row[r] = "none"
    /\ row' = [row EXCEPT ![r] = "running"]
    /\ current' = r
    /\ pc' = "dump"
    /\ remote' \in {[remote EXCEPT ![r] = b] : b \in BOOLEAN}
    /\ UNCHANGED <<faults, old, start, cancel, recorded, copies, verdict>>

(* cancelExecution, by somebody or by the watchdog.  The run is stopped     *)
(* only where it looks at the mark.                                         *)
RequestCancel ==
    /\ current # None
    /\ ~cancel
    /\ cancel' = TRUE
    /\ UNCHANGED <<table, old, start, current, pc, remote, recorded, copies, verdict>>

(* No configuration, the database tool fails or is killed, or compression   *)
(* fails: _failRunningHistory, or the catch of executeBackup.               *)
DumpFails ==
    /\ At("dump")
    /\ MarkIfRunning({current}, "error")
    /\ End("failure")
    /\ UNCHANGED <<old, start, remote, recorded, copies>>

(* Seeded fault: the table is not told that the backup is done.             *)
DumpDoneUntold ==
    /\ At("dump")
    /\ \E status \in {"success", "warning"} :
         recorded' = [recorded EXCEPT ![current] = status]
    /\ copies' = [copies EXCEPT ![current] = {"temp"}]
    /\ Goto("check")
    /\ UNCHANGED <<table, old, start, remote>>

(* The backup is made, compressed and in the table as finished, before it   *)
(* is sent anywhere.  A log backup without new data is a warning.           *)
DumpDone ==
    /\ At("dump")
    /\ \E status \in {"success", "warning"} :
         /\ MarkIfRunning({current}, status)
         /\ recorded' = [recorded EXCEPT ![current] = status]
    /\ copies' = [copies EXCEPT ![current] = {"temp"}]
    /\ Goto("check")
    /\ UNCHANGED <<old, start, remote>>

(* _failIfCancellationRequested, after the backup and before the upload.    *)
CheckCancelled ==
    /\ At("check")
    /\ cancel
    /\ MarkIfRunning({current}, "warning")
    /\ End("cancelled")
    /\ UNCHANGED <<old, start, remote, recorded, copies>>

(* The backup is a directory, or is no longer there.                        *)
CheckFails ==
    /\ At("check")
    /\ ~cancel
    /\ MarkIfRunning({current}, "error")
    /\ copies' \in {copies, [copies EXCEPT ![current] = {}]}
    /\ End("failure")
    /\ UNCHANGED <<old, start, remote, recorded>>

(* A run for a client has no destinations: the client will fetch it.        *)
CheckPasses ==
    /\ At("check")
    /\ ~cancel
    /\ Goto(IF remote[current] THEN "stage" ELSE "upload")
    /\ UNCHANGED <<table, old, start, remote, recorded, copies>>

UploadDone ==
    /\ At("upload")
    /\ copies' = [copies EXCEPT ![current] = @ \cup {"destinations"}]
    /\ Goto("stage")
    /\ UNCHANGED <<table, old, start, remote, recorded>>

(* One destination failed, uploads were cancelled, or took too long.        *)
UploadFails ==
    /\ At("upload")
    /\ MarkIfRunning({current}, "error")
    /\ End("failure")
    /\ UNCHANGED <<old, start, remote, recorded, copies>>

(* copyToStaging; null, when the copy fails, is logged.                     *)
Stage ==
    /\ At("stage")
    /\ copies' \in {copies, [copies EXCEPT ![current] = @ \cup {"staging"}]}
    /\ Goto("delete")
    /\ UNCHANGED <<table, old, start, remote, recorded>>

(* _deleteTempBackupArtifact; a failure is logged.                          *)
DeleteTemp ==
    /\ At("delete")
    /\ copies' \in {copies, [copies EXCEPT ![current] = @ \ {"temp"}]}
    /\ Goto("update")
    /\ UNCHANGED <<table, old, start, remote, recorded>>

(* The repository's update with the metrics of the upload: it reads the row *)
(* and refuses a transition that the state machine does not know ...        *)
Update ==
    /\ At("update")
    /\ CanTransition(row[current], recorded[current])
    /\ Goto("replace")
    /\ UNCHANGED <<table, old, start, remote, recorded, copies>>

(* Either way the run is told as complete.                                  *)
UpdateRefused ==
    /\ At("update")
    /\ ~CanTransition(row[current], recorded[current])
    /\ End("success")
    /\ UNCHANGED <<table, old, start, remote, recorded, copies>>

(* ... and then replaces the row, whatever it has become.                   *)
Replace ==
    /\ At("replace")
    /\ \/ row' = [row EXCEPT ![current] = recorded[current]] /\ UNCHANGED faults
       \/ WriteFails
    /\ End("success")
    /\ UNCHANGED <<old, start, remote, recorded, copies>>

(* Something throws after the backup: the catch of _executeScheduledBackup. *)
Throws ==
    /\ At("check") \/ At("upload") \/ At("stage") \/ At("update")
    /\ MarkIfRunning({current}, "error")
    /\ End("failure")
    /\ UNCHANGED <<old, start, remote, recorded, copies>>

-----------------------------------------------------------------------------
(* The scheduler and the process.                                           *)

(* The row of a run that is or was under way passes the maximum age.        *)
GrowsOld(r) ==
    /\ row[r] # "none"
    /\ r \notin old
    /\ old' = old \cup {r}
    /\ UNCHANGED <<table, start, current, pc, cancel, remote, recorded, copies, verdict>>

(* Seeded fault: the rows are read without regard to their age.             *)
StartSchedulerAllRunning ==
    /\ scheduler = "stopped"
    /\ scheduler' = "started"
    /\ recoveries' = recoveries \cup ({{r \in Runs : row[r] = "running"}} \ {{}})
    /\ UNCHANGED <<table, old, current, pc, cancel, remote, recorded, copies, verdict>>

(* start: reconcileStaleRunning reads the rows ...                          *)
StartScheduler ==
    /\ scheduler = "stopped"
    /\ scheduler' = "started"
    /\ recoveries' = recoveries \cup ({{r \in old : row[r] = "running"}} \ {{}})
    /\ UNCHANGED <<table, old, current, pc, cancel, remote, recorded, copies, verdict>>

(* ... and marks those that are still running, in one transaction.          *)
Reconciled ==
    \E rows \in recoveries :
        /\ MarkIfRunning(rows, "error")
        /\ recoveries' = recoveries \ {rows}
        /\ UNCHANGED <<old, scheduler, current, pc, cancel, remote, recorded, copies, verdict>>

(* The tray's pause.  A run, and a recovery, go on.                         *)
StopScheduler ==
    /\ scheduler = "started"
    /\ scheduler' = "stopped"
    /\ UNCHANGED <<table, old, recoveries, current, pc, cancel, remote, recorded, copies, verdict>>

(* The process ends, also when a shutdown has waited long enough for the    *)
(* run (waitForRunningBackups).  Its row stays as it is.                    *)
Crash ==
    /\ scheduler' = "stopped"
    /\ recoveries' = {}
    /\ current' = None
    /\ pc' = "idle"
    /\ cancel' = FALSE
    /\ UNCHANGED <<table, old, remote, recorded, copies, verdict>>

Next ==
    \/ \E r \in Runs : Begin(r) \/ GrowsOld(r)
    \/ RequestCancel \/ DumpFails \/ DumpDone
    \/ CheckCancelled \/ CheckFails \/ CheckPasses
    \/ UploadDone \/ UploadFails \/ Stage \/ DeleteTemp
    \/ Update \/ UpdateRefused \/ Replace \/ Throws
    \/ StartScheduler \/ Reconciled \/ StopScheduler \/ Crash

Spec == Init /\ [][Next]_vars

-----------------------------------------------------------------------------
(* Properties.                                                              *)

TypeOK ==
    /\ row \in [Runs -> Status]
    /\ old \subseteq Runs /\ recoveries \subseteq SUBSET old
    /\ scheduler \in {"stopped", "started"}
    /\ current \in Runs \cup {None}
    /\ pc \in {"idle", "dump", "check", "upload", "stage", "delete", "update", "replace"}
    /\ cancel \in BOOLEAN
    /\ remote \in [Runs -> BOOLEAN]
    /\ recorded \in [Runs -> {"none", "success", "warning"}]
    /\ copies \in [Runs -> SUBSET Places]
    /\ verdict \in [Runs -> {"none", "success", "failure", "cancelled"}]
    /\ faults \in 0 .. MaxFaults

(* A row that has ended stays as it is, although the recovery of a start    *)
(* reads it first and writes it later, while a run may be finishing.  The   *)
(* one exception is the run that finishes after a recovery took it for dead *)
(* between the read and the write of its own update.                        *)
StatusIsFinal ==
    [][\A r \in Runs :
         row[r] \in Terminal /\ row'[r] # row[r] =>
             /\ row[r] = "error" /\ r \in old
             /\ r = current /\ row'[r] = recorded[r]]_vars

(* A run that is told as complete is in the history with the result it had, *)
(* also when a write failed on the way: the write of the metrics makes up   *)
(* for it.  Only a run older than the maximum age may have been recovered   *)
(* as dead meanwhile.                                                       *)
CompletedIsRecorded ==
    \A r \in Runs :
        verdict[r] = "success" /\ r \notin old => row[r] = recorded[r]

(* scheduler_service.dart 952-956: a history must leave "success" when      *)
(* something after the backup fails, or the user is told a failed backup    *)
(* succeeded.                                                               *)
FailedIsNotSuccess ==
    \A r \in Runs : verdict[r] \in {"failure", "cancelled"} => row[r] # "success"

(* scheduler_service.dart 845-849: the temporary copy is deleted only when  *)
(* it is not the only one.                                                  *)
CompletedHasCopy ==
    \A r \in Runs : verdict[r] = "success" => copies[r] # {}
=============================================================================
