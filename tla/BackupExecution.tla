--------------------------- MODULE BackupExecution ----------------------------
(***************************************************************************)
(* How one server runs backups, one at a time, on behalf of many: remote   *)
(* clients (startBackup with or without a place in the queue, and the      *)
(* legacy executeSchedule), the schedule timer, the tray and the local UI. *)
(* Four parts share the work and none owns it:                             *)
(*                                                                         *)
(*   SchedulerService         the lock that is really exclusive            *)
(*                            (executing, cancelRequested)                 *)
(*   BackupProgressProvider   the slot that callers reserve (progress)     *)
(*   RemoteExecutionRegistry  the runs clients follow (byRunId,            *)
(*                            scheduleToRunId)                             *)
(*   ExecutionQueueService    the runs that wait, as module FifoQueue      *)
(*                            (queue, handed)                              *)
(*                                                                         *)
(* A run is a coroutine: between two values of pc[r] it awaits, and other  *)
(* runs, cancellations and deliveries of events may happen.  The coroutine *)
(* of a run goes on after its backup, to start the next run of the queue.  *)
(***************************************************************************)
EXTENDS SequencesExt

CONSTANTS Runs, Schedules,
          SchedOf,          \* the schedule of a run
          NoRun,
          MaxQueueSize,
          Entries,          \* the ways a run may enter; a subset of Origins
          MaxLost           \* bound: connections that die during a send

Origins == {"start", "legacy", "timer", "local", "ui"}

ASSUME ExecutionAssumption ==
  /\ SchedOf \in [Runs -> Schedules]
  /\ NoRun \notin Runs
  /\ MaxQueueSize \in Nat \ {0}
  /\ Entries \subseteq Origins
  /\ MaxLost \in Nat

VARIABLES executing,         \* _executingSchedules
          cancelRequested,   \* _cancelRequestedSchedules
          runningHistoryIds, \* DOMAIN _runningHistoryIds
          progress,          \* _isRunning, and step and cancelled of the snapshot
          byRunId,           \* DOMAIN _byRunId
          scheduleToRunId,   \* _scheduleToRunId, NoRun where it has no entry
          queue, handed,     \* ExecutionQueueService, see FifoQueue
          pc,                \* what the coroutine of a run awaits
          origin,            \* how the run that executes was started
          outcome,           \* how the run ended
          pending,           \* terminal events _onProgressChanged is delivering
          sent,              \* what the client of a run was told about its end
          lost               \* runs whose client's connection died during a send

lockVars == <<executing, cancelRequested, runningHistoryIds>>
registryVars == <<byRunId, scheduleToRunId>>
queueVars == <<queue, handed>>
runVars == <<pc, origin, outcome>>
eventVars == <<pending, sent, lost>>
vars == <<lockVars, progress, registryVars, queueVars, runVars, eventVars>>

Q == INSTANCE FifoQueue WITH Items <- Runs, waiting <- queue

(* The awaits of a run that holds the lock of the scheduler.               *)
InBackup == {"preparing", "backing", "cancelling", "uploading", "releasing"}
Waits == InBackup \cup
         {"new", "enqueueing", "validating", "requested", "queued",
          "dispatching", "requeueing", "loading", "returned", "reporting",
          "deferred", "dequeuing", "done"}
Outcomes == {"none", "refused", "dropped", "completed", "failed", "cancelled"}
Events == {"completed", "failed", "cancelled"}

Remote(r) == origin[r] \in {"start", "legacy"}
-----------------------------------------------------------------------------
(* Steps of a coroutine. *)
Goto(r, await) == pc' = [pc EXCEPT ![r] = await]
Ends(r, how) == outcome' = [outcome EXCEPT ![r] = how]
GiveUp(r, how) == Goto(r, "done") /\ Ends(r, how) /\ UNCHANGED origin
Executes(r, o) == Goto(r, "loading") /\ origin' = [origin EXCEPT ![r] = o]

(* tryStartBackup, when it answers true. *)
SlotTaken ==
  /\ ~progress.running
  /\ progress' = [running |-> TRUE, step |-> "underway", cancelled |-> FALSE]

EventOf(p) == IF p.step = "completed" THEN "completed"
              ELSE IF p.cancelled THEN "cancelled" ELSE "failed"

(* Seeded fault: the listeners are not notified. *)
SettleSilently(step, cancelled) ==
  /\ progress' = [running |-> FALSE, step |-> step,
                  cancelled |-> progress.cancelled \/ cancelled]
  /\ UNCHANGED pending

(* completeBackup, failBackup and cancelBackup free the slot whoever holds *)
(* it; copyWith keeps `cancelled`.  The listener _onProgressChanged takes  *)
(* the contexts registered at that moment and starts sending.              *)
Settle(step, cancelled) ==
  /\ progress' = [running |-> FALSE, step |-> step,
                  cancelled |-> progress.cancelled \/ cancelled]
  /\ pending' = [r \in Runs |-> IF r \in byRunId
                                THEN pending[r] \cup {EventOf(progress')}
                                ELSE pending[r]]

Fail == Settle("error", FALSE)

(* A message to the client of r, which vanishes once the connection died.  *)
Tell(r, event) ==
  sent' = IF r \in lost THEN sent ELSE [sent EXCEPT ![r] = @ \cup {event}]

(* ClientHandler.send rethrows when the socket dies under it, and goes on  *)
(* throwing until the server forgets the client; then a send does nothing. *)
SendThrows(r) ==
  /\ lost' = lost \cup {r}
  /\ Cardinality(lost') <= MaxLost

Registered(r) == scheduleToRunId[SchedOf[r]] # NoRun

(* Seeded fault: the index holds the schedule instead of the run. *)
RegisterSchedule(r) ==
  /\ ~Registered(r)
  /\ byRunId' = byRunId \cup {r}
  /\ scheduleToRunId' = [scheduleToRunId EXCEPT ![SchedOf[r]] = SchedOf[r]]

Register(r) ==
  /\ ~Registered(r)
  /\ byRunId' = byRunId \cup {r}
  /\ scheduleToRunId' = [scheduleToRunId EXCEPT ![SchedOf[r]] = r]

(* Seeded faults: the secondary index keeps its entry; nothing is removed. *)
UnregisterKeepsIndex(r) ==
  byRunId' = byRunId \ {r} /\ UNCHANGED scheduleToRunId
UnregisterNothing(r) == UNCHANGED registryVars

Unregister(r) ==
  /\ byRunId' = byRunId \ {r}
  /\ scheduleToRunId' = IF r \in byRunId
                        THEN [scheduleToRunId EXCEPT ![SchedOf[r]] = NoRun]
                        ELSE scheduleToRunId

HasAvailableExecutionSlot == executing = {}

(* The part of _drainNextFromQueue before its first await, run by the      *)
(* coroutine of r; byRunId' is the registry it sees.                       *)
Drain(r) ==
  IF HasAvailableExecutionSlot /\ byRunId' = {} /\ queue # <<>>
  THEN Goto(r, "dequeuing") ELSE Goto(r, "done")
-----------------------------------------------------------------------------
Init ==
  /\ executing = {} /\ cancelRequested = {} /\ runningHistoryIds = {}
  /\ progress = [running |-> FALSE, step |-> "none", cancelled |-> FALSE]
  /\ byRunId = {} /\ scheduleToRunId = [s \in Schedules |-> NoRun]
  /\ queue = <<>> /\ handed = {}
  /\ pc = [r \in Runs |-> "new"] /\ origin = [r \in Runs |-> "none"]
  /\ outcome = [r \in Runs |-> "none"]
  /\ pending = [r \in Runs |-> {}] /\ sent = [r \in Runs |-> {}]
  /\ lost = {}

-----------------------------------------------------------------------------
(* The ways in. *)

(* startBackup, up to the await after isBusy.  A client that did not ask   *)
(* for queueIfBusy is refused.                                             *)
StartBackup(r) ==
  /\ pc[r] = "new" /\ "start" \in Entries
  /\ IF ~HasAvailableExecutionSlot \/ Registered(r)
       THEN \/ Goto(r, "enqueueing") /\ UNCHANGED <<origin, outcome>>
            \/ GiveUp(r, "refused")
       ELSE Goto(r, "validating") /\ UNCHANGED <<origin, outcome>>
  /\ UNCHANGED <<lockVars, progress, registryVars, queueVars, eventVars>>

(* The schedule was loaded; isBusy is not looked at again. *)
Enqueue(r) ==
  /\ pc[r] = "enqueueing"
  /\ \/ Q!Accept(r) /\ Goto(r, "queued") /\ UNCHANGED <<origin, outcome>>
     \/ GiveUp(r, "refused") /\ UNCHANGED queueVars
  /\ UNCHANGED <<lockVars, progress, registryVars, eventVars>>

(* Schedule, licence or slot refuse the run. *)
Refuse(r) ==
  /\ pc[r] \in {"validating", "requested"}
  /\ GiveUp(r, "refused")
  /\ UNCHANGED <<lockVars, progress, registryVars, queueVars, eventVars>>

(* Slot and registration, with no await between them. *)
Reserve(r) ==
  /\ pc[r] \in {"validating", "requested"}
  /\ SlotTaken /\ Register(r)
  /\ Executes(r, IF pc[r] = "requested" THEN "legacy" ELSE "start")
  /\ UNCHANGED <<lockVars, queueVars, outcome, eventVars>>

(* register throws a StateError after the slot was taken.  startBackup     *)
(* does not free the slot; executeSchedule fails it, and so tells the runs *)
(* that are registered that they failed.                                   *)
ReserveThrows(r) ==
  /\ pc[r] \in {"validating", "requested"}
  /\ ~progress.running /\ Registered(r)
  /\ IF pc[r] = "validating"
       THEN SlotTaken /\ UNCHANGED pending
       ELSE /\ progress' = [running |-> FALSE, step |-> "error",
                            cancelled |-> FALSE]
            /\ pending' = [q \in Runs |-> IF q \in byRunId
                                          THEN pending[q] \cup {"failed"}
                                          ELSE pending[q]]
  /\ GiveUp(r, "refused")
  /\ UNCHANGED <<lockVars, registryVars, queueVars, sent, lost>>

(* executeSchedule, up to its first await. *)
ExecuteSchedule(r) ==
  /\ pc[r] = "new" /\ "legacy" \in Entries
  /\ IF ~HasAvailableExecutionSlot \/ Registered(r)
       THEN GiveUp(r, "refused")
       ELSE Goto(r, "requested") /\ UNCHANGED <<origin, outcome>>
  /\ UNCHANGED <<lockVars, progress, registryVars, queueVars, eventVars>>

(* _checkSchedules looks at the lock before it awaits the due schedules;   *)
(* the tray and the command line do not look.                              *)
RunLocally(r) ==
  /\ pc[r] = "new"
  /\ \/ /\ "timer" \in Entries /\ HasAvailableExecutionSlot
        /\ Executes(r, "timer")
     \/ "local" \in Entries /\ Executes(r, "local")
  /\ UNCHANGED <<lockVars, progress, registryVars, queueVars, outcome,
                 eventVars>>

(* SchedulerProvider.executeNow, up to its await. *)
RunFromUi(r) ==
  /\ pc[r] = "new" /\ "ui" \in Entries
  /\ \/ SlotTaken /\ Executes(r, "ui") /\ UNCHANGED outcome
     \/ progress.running /\ GiveUp(r, "refused") /\ UNCHANGED progress
  /\ UNCHANGED <<lockVars, registryVars, queueVars, eventVars>>
-----------------------------------------------------------------------------
(* The backup: _runScheduleWithLock and _executeScheduledBackup. *)

(* Seeded fault: the lock is not looked at. *)
TakeLockUnchecked(r) ==
  /\ pc[r] = "loading"
  /\ executing' = executing \cup {SchedOf[r]}
  /\ SlotTaken \/ (progress.running /\ UNCHANGED progress)
  /\ Goto(r, "preparing")
  /\ UNCHANGED <<cancelRequested, runningHistoryIds, registryVars, queueVars,
                 origin, outcome, eventVars>>

(* The slot is taken unless somebody has it; its answer is ignored.        *)
TakeLock(r) ==
  /\ pc[r] = "loading"
  /\ HasAvailableExecutionSlot
  /\ executing' = executing \cup {SchedOf[r]}
  /\ SlotTaken \/ (progress.running /\ UNCHANGED progress)
  /\ IF SchedOf[r] \in cancelRequested
       THEN Goto(r, "cancelling") ELSE Goto(r, "preparing")
  /\ UNCHANGED <<cancelRequested, runningHistoryIds, registryVars, queueVars,
                 origin, outcome, eventVars>>

(* Another backup has the lock, or executeNow did not find the schedule.   *)
LockRefused(r) ==
  /\ pc[r] = "loading"
  /\ HasAvailableExecutionSlot => origin[r] # "timer"
  /\ Ends(r, "failed") /\ Goto(r, "returned")
  /\ UNCHANGED <<lockVars, progress, registryVars, queueVars, origin,
                 eventVars>>

(* Destinations, folder, permission, licence: the early returns leave the  *)
(* slot as it is.                                                          *)
Prepare(r) ==
  /\ pc[r] = "preparing"
  /\ \/ Goto(r, "backing") /\ UNCHANGED outcome
     \/ Goto(r, "releasing") /\ Ends(r, "failed")
  /\ UNCHANGED <<lockVars, progress, registryVars, queueVars, origin,
                 eventVars>>

(* The orchestrator, the artifact checks, the staging copy or the upload   *)
(* fail, or anything throws.                                               *)
BackupFails(r) ==
  /\ pc[r] \in {"preparing", "backing", "uploading"}
  /\ Fail /\ Ends(r, "failed") /\ Goto(r, "releasing")
  /\ UNCHANGED <<lockVars, registryVars, queueVars, origin, sent, lost>>

(* The orchestrator returned an artifact; the request to cancel is looked  *)
(* at.                                                                     *)
BackupProduced(r) ==
  /\ pc[r] = "backing"
  /\ runningHistoryIds' = runningHistoryIds \cup {SchedOf[r]}
  /\ IF SchedOf[r] \in cancelRequested
       THEN Goto(r, "cancelling") ELSE Goto(r, "uploading")
  /\ UNCHANGED <<executing, cancelRequested, progress, registryVars,
                 queueVars, origin, outcome, eventVars>>

(* A run that was not started by a client looks once more before it sends. *)
UploadCancelled(r) ==
  /\ pc[r] = "uploading" /\ ~Remote(r)
  /\ SchedOf[r] \in cancelRequested
  /\ Goto(r, "cancelling")
  /\ UNCHANGED <<lockVars, progress, registryVars, queueVars, origin, outcome,
                 eventVars>>

(* The history was updated; _safeCancelBackup. *)
StopCancelled(r) ==
  /\ pc[r] = "cancelling"
  /\ Settle("error", TRUE) /\ Ends(r, "cancelled") /\ Goto(r, "releasing")
  /\ UNCHANGED <<lockVars, registryVars, queueVars, origin, sent, lost>>

BackupCompletes(r) ==
  /\ pc[r] = "uploading"
  /\ Settle("completed", FALSE) /\ Ends(r, "completed")
  /\ Goto(r, "releasing")
  /\ UNCHANGED <<lockVars, registryVars, queueVars, origin, sent, lost>>

(* Seeded fault: a request to cancel outlives the run it was made for. *)
ReleaseKeepsRequest(r) ==
  /\ pc[r] = "releasing"
  /\ executing' = executing \ {SchedOf[r]}
  /\ runningHistoryIds' = runningHistoryIds \ {SchedOf[r]}
  /\ Goto(r, "returned")
  /\ UNCHANGED <<cancelRequested, progress, registryVars, queueVars, origin,
                 outcome, eventVars>>

(* Seeded fault: the lock is not given back. *)
ReleaseKeepsLock(r) ==
  /\ pc[r] = "releasing"
  /\ Goto(r, "returned")
  /\ UNCHANGED <<lockVars, progress, registryVars, queueVars, origin, outcome,
                 eventVars>>

(* The finally of _runScheduleWithLock. *)
Release(r) ==
  /\ pc[r] = "releasing"
  /\ executing' = executing \ {SchedOf[r]}
  /\ cancelRequested' = cancelRequested \ {SchedOf[r]}
  /\ runningHistoryIds' = runningHistoryIds \ {SchedOf[r]}
  /\ Goto(r, "returned")
  /\ UNCHANGED <<progress, registryVars, queueVars, origin, outcome,
                 eventVars>>
-----------------------------------------------------------------------------
(* After the backup, by the way the run came in. *)

LocalReturns(r) ==
  /\ pc[r] = "returned" /\ origin[r] \in {"timer", "local"}
  /\ Goto(r, "done")
  /\ UNCHANGED <<lockVars, progress, registryVars, queueVars, origin, outcome,
                 eventVars>>

(* SchedulerProvider.executeNow settles the slot a second time. *)
UiReturns(r) ==
  /\ pc[r] = "returned" /\ origin[r] = "ui"
  /\ Settle(IF outcome[r] = "completed" THEN "completed" ELSE "error", FALSE)
  /\ Goto(r, "done")
  /\ UNCHANGED <<lockVars, registryVars, queueVars, origin, outcome, sent,
                 lost>>

(* The answer of executeSchedule has been sent; the schedule it tells of   *)
(* may be gone by then.  The queue is not drained.                         *)
LegacyReturns(r) ==
  /\ pc[r] = "returned" /\ origin[r] = "legacy"
  /\ IF outcome[r] = "completed"
       THEN /\ Tell(r, "completed") \/ Tell(r, "failed")
            /\ UNCHANGED <<progress, pending>>
       ELSE Tell(r, "failed") /\ Fail
  /\ Unregister(r)
  /\ Goto(r, "done")
  /\ UNCHANGED <<lockVars, queueVars, origin, outcome, lost>>

(* The answer throws; if the one of the catch block throws too, the run is *)
(* not unregistered.                                                       *)
LegacyThrows(r) ==
  /\ pc[r] = "returned" /\ origin[r] = "legacy"
  /\ SendThrows(r)
  /\ Fail
  /\ Unregister(r) \/ UNCHANGED registryVars
  /\ Goto(r, "done")
  /\ UNCHANGED <<lockVars, queueVars, origin, outcome, sent>>

(* _finalizeRegistryAfterBackup, with the snapshot it reads. *)
Finalize(r, step) ==
  IF r \notin byRunId \/ step \in {"completed", "error"}
  THEN Unregister(r) /\ Drain(r)
  ELSE Goto(r, "deferred") /\ UNCHANGED registryVars

(* _runBackupAsync awaits the delivery of backupFailed ... *)
ReportFailure(r) ==
  /\ pc[r] = "returned" /\ origin[r] = "start" /\ outcome[r] # "completed"
  /\ Tell(r, "failed")
  /\ Goto(r, "reporting")
  /\ UNCHANGED <<lockVars, progress, registryVars, queueVars, origin, outcome,
                 pending, lost>>

(* ... and then fails the slot, whoever has it by now. *)
FailureReported(r) ==
  /\ pc[r] = "reporting"
  /\ Fail
  /\ Finalize(r, "error")
  /\ UNCHANGED <<lockVars, queueVars, origin, outcome, sent, lost>>

(* The delivery throws.  If it throws again the slot is left alone, if it  *)
(* vanishes the slot is failed.                                            *)
ReportThrows(r) ==
  /\ pc[r] = "returned" /\ origin[r] = "start" /\ outcome[r] # "completed"
  /\ SendThrows(r)
  /\ \/ Finalize(r, progress.step)
     \/ Goto(r, "reporting") /\ UNCHANGED registryVars
  /\ UNCHANGED <<lockVars, progress, queueVars, origin, outcome, pending, sent>>

StartReturns(r) ==
  /\ pc[r] = "returned" /\ origin[r] = "start" /\ outcome[r] = "completed"
  /\ Finalize(r, progress.step)
  /\ UNCHANGED <<lockVars, progress, queueVars, origin, outcome, eventVars>>

(* _deferredRegistryCleanup waits up to 250 ms for the run to be gone or   *)
(* the snapshot to be terminal, and then unregisters in any case.          *)
DeferredCleanup(r) ==
  /\ pc[r] = "deferred"
  /\ Unregister(r) /\ Drain(r)
  /\ UNCHANGED <<lockVars, progress, queueVars, origin, outcome, eventVars>>
-----------------------------------------------------------------------------
(* The queue. *)

(* Seeded fault: the run handed out stays in the queue. *)
DequeuePeeks(r) ==
  /\ pc[r] = "dequeuing" /\ queue # <<>>
  /\ pc' = [pc EXCEPT ![r] = "done", ![Head(queue)] = "dispatching"]
  /\ handed' = handed \cup {Head(queue)}
  /\ UNCHANGED <<lockVars, progress, registryVars, queue, origin, outcome,
                 eventVars>>

(* dequeue answers; the coroutine of the run it gives goes on in its place. *)
Dequeue(r) ==
  /\ pc[r] = "dequeuing" /\ Q!HandOut
  /\ pc' = [pc EXCEPT ![r] = "done", ![Head(queue)] = "dispatching"]
  /\ UNCHANGED <<lockVars, progress, registryVars, origin, outcome, eventVars>>

(* Another drain, a cancellation or the TTL emptied the queue meanwhile. *)
DequeueNothing(r) ==
  /\ pc[r] = "dequeuing" /\ queue = <<>>
  /\ Goto(r, "done")
  /\ UNCHANGED <<lockVars, progress, registryVars, queueVars, origin, outcome,
                 eventVars>>

(* The schedule of the run is gone, or Firebird is off and its client is   *)
(* told so; the next run is drained.                                       *)
DispatchDrops(r) ==
  /\ pc[r] = "dispatching"
  /\ Tell(r, "failed") \/ UNCHANGED sent
  /\ Ends(r, "dropped")
  /\ UNCHANGED registryVars
  /\ Drain(r)
  /\ UNCHANGED <<lockVars, progress, queueVars, origin, pending, lost>>

Dispatch(r) ==
  /\ pc[r] = "dispatching"
  /\ SlotTaken /\ Register(r)
  /\ Executes(r, "start")
  /\ UNCHANGED <<lockVars, queueVars, outcome, eventVars>>

(* register throws: the slot stays taken and the run is forgotten. *)
DispatchThrows(r) ==
  /\ pc[r] = "dispatching"
  /\ SlotTaken /\ Registered(r)
  /\ GiveUp(r, "dropped")
  /\ UNCHANGED <<lockVars, registryVars, queueVars, eventVars>>

(* Somebody has the slot: the run goes back, to the tail. *)
DispatchReturns(r) ==
  /\ pc[r] = "dispatching"
  /\ progress.running
  /\ Q!GiveBack(r)
  /\ Goto(r, "requeueing")
  /\ UNCHANGED <<lockVars, progress, registryVars, origin, outcome, eventVars>>

(* Nobody looks at the answer of tryEnqueue. *)
Requeue(r) ==
  /\ pc[r] = "requeueing"
  /\ \/ Q!Accept(r) /\ Goto(r, "queued") /\ UNCHANGED <<origin, outcome>>
     \/ /\ \/ Len(queue) = MaxQueueSize
           \/ \E k \in DOMAIN queue : SchedOf[queue[k]] = SchedOf[r]
        /\ GiveUp(r, "dropped") /\ UNCHANGED queueVars
  /\ UNCHANGED <<lockVars, progress, registryVars, eventVars>>

(* cancelQueuedBackup, and pruneExpired. *)
LeaveQueue(r) ==
  /\ Q!Withdraw(r)
  /\ GiveUp(r, "cancelled") \/ GiveUp(r, "dropped")
  /\ UNCHANGED <<lockVars, progress, registryVars, eventVars>>
-----------------------------------------------------------------------------
(* Events and cancellations. *)

(* _onProgressChanged sends the event and unregisters the run. *)
Deliver(r, event) ==
  /\ event \in pending[r]
  /\ pending' = [pending EXCEPT ![r] = @ \ {event}]
  /\ Tell(r, event)
  /\ Unregister(r)
  /\ UNCHANGED <<lockVars, progress, queueVars, runVars, lost>>

(* The send throws: neither this context nor the ones after it in the loop *)
(* are served or unregistered.                                             *)
DeliverThrows(r, event) ==
  /\ event \in pending[r] /\ SendThrows(r)
  /\ \E after \in SUBSET {q \in Runs : event \in pending[q]} :
       pending' = [q \in Runs |-> IF q \in after \cup {r}
                                  THEN pending[q] \ {event} ELSE pending[q]]
  /\ UNCHANGED <<lockVars, progress, registryVars, queueVars, runVars, sent>>

(* cancelExecution: from cancelBackup, the local UI and the watchdog. *)
CancelExecution(s) ==
  /\ s \in executing \ cancelRequested
  /\ cancelRequested' = cancelRequested \cup {s}
  /\ UNCHANGED <<executing, runningHistoryIds, progress, registryVars,
                 queueVars, runVars, eventVars>>

(* The cancelSchedule of legacy clients also unregisters the run, which    *)
(* goes on.  The client that is told is the one that asked.                *)
CancelSchedule(r) ==
  /\ "legacy" \in Entries
  /\ scheduleToRunId[SchedOf[r]] = r
  /\ SchedOf[r] \in executing
  /\ cancelRequested' = cancelRequested \cup {SchedOf[r]}
  /\ Unregister(r)
  /\ sent' = [sent EXCEPT ![r] = @ \cup {"scheduleCancelled"}]
  /\ UNCHANGED <<executing, runningHistoryIds, progress, queueVars, runVars,
                 pending, lost>>
-----------------------------------------------------------------------------
Arrives(r) ==
  \/ StartBackup(r) \/ ExecuteSchedule(r) \/ RunLocally(r) \/ RunFromUi(r)

(* What the coroutine of a run does when what it awaits has come. *)
Resumes(r) ==
  \/ Enqueue(r) \/ Refuse(r) \/ Reserve(r) \/ ReserveThrows(r)
  \/ TakeLock(r) \/ LockRefused(r) \/ Prepare(r)
  \/ BackupFails(r) \/ BackupProduced(r) \/ UploadCancelled(r)
  \/ StopCancelled(r) \/ BackupCompletes(r) \/ Release(r)
  \/ LocalReturns(r) \/ UiReturns(r) \/ LegacyReturns(r) \/ LegacyThrows(r)
  \/ ReportFailure(r) \/ FailureReported(r) \/ ReportThrows(r)
  \/ StartReturns(r) \/ DeferredCleanup(r)
  \/ Dequeue(r) \/ DequeueNothing(r)
  \/ DispatchDrops(r) \/ Dispatch(r) \/ DispatchThrows(r)
  \/ DispatchReturns(r) \/ Requeue(r)

Delivers(r) == \E event \in Events : Deliver(r, event) \/ DeliverThrows(r, event)

Next ==
  \/ \E r \in Runs : \/ Arrives(r) \/ Resumes(r) \/ Delivers(r)
                     \/ LeaveQueue(r) \/ CancelSchedule(r)
  \/ \E s \in Schedules : CancelExecution(s)

Spec == Init /\ [][Next]_vars

(* What a coroutine awaits comes, a send included; nobody has to ask for a *)
(* run or to cancel one.                                                   *)
Fairness ==
  \A r \in Runs : WF_vars(Resumes(r)) /\ WF_vars(Delivers(r))

FairSpec == Spec /\ Fairness
-----------------------------------------------------------------------------
TypeOK ==
  /\ executing \subseteq Schedules
  /\ cancelRequested \subseteq Schedules
  /\ runningHistoryIds \subseteq Schedules
  /\ progress \in [running : BOOLEAN, cancelled : BOOLEAN,
                   step : {"none", "underway", "completed", "error"}]
  /\ byRunId \subseteq Runs
  /\ scheduleToRunId \in [Schedules -> Runs \cup {NoRun}]
  /\ queue \in Seq(Runs) /\ handed \subseteq Runs
  /\ pc \in [Runs -> Waits]
  /\ origin \in [Runs -> Origins \cup {"none"}]
  /\ outcome \in [Runs -> Outcomes]
  /\ pending \in [Runs -> SUBSET Events]
  /\ sent \in [Runs -> SUBSET (Events \cup {"scheduleCancelled"})]
  /\ lost \subseteq Runs

(* maxConcurrentBackups = 1: of all the ways in, two of which look at the  *)
(* lock before an await and one not at all, one run executes a backup at a *)
(* time, and the lock is the one of its schedule.                          *)
OneBackupAtATime ==
  /\ \A q, r \in Runs : pc[q] \in InBackup /\ pc[r] \in InBackup => q = r
  /\ executing = {SchedOf[r] : r \in {q \in Runs : pc[q] \in InBackup}}

(* A request to cancel, and the history id the cancellation service kills  *)
(* by, die with the run they are for: they never hit the next run of the   *)
(* same schedule.                                                          *)
NothingOutlivesTheLock ==
  cancelRequested \cup runningHistoryIds \subseteq executing

(* The two indexes of the registry agree, so that cancelling by schedule   *)
(* and by run reach the same run, whatever was registered, cancelled and   *)
(* delivered in between.                                                   *)
RegistryIndexed ==
  \A s \in Schedules, r \in Runs :
    scheduleToRunId[s] = r <=> r \in byRunId /\ SchedOf[r] = s

(* When the coroutine of a remote run is over, its client was told the end *)
(* or is being told, unless a connection died during a send; if the run    *)
(* was cancelled by schedule, then perhaps only who cancelled it was told. *)
ClientIsTold ==
  \A r \in Runs : Remote(r) /\ pc[r] \in {"dequeuing", "done"}
                  => sent[r] \cup pending[r] # {} \/ lost # {}

(* What the server says of a run. *)
StateOf(r) ==
  IF outcome[r] # "none" THEN outcome[r]
  ELSE IF pc[r] \in {"new", "enqueueing", "validating", "requested"} THEN "new"
  ELSE IF pc[r] \in {"queued", "dispatching", "requeueing"} THEN "queued"
  ELSE "running"

Lifecycle == INSTANCE RunLifecycle WITH state <- [r \in Runs |-> StateOf(r)]

(* Every run moves through the official table of states: once ended it is  *)
(* never executed again, by no path through slot, registry and queue.      *)
RefinesLifecycle == Lifecycle!Spec

(* A run that startBackup or the drain registered leaves the registry,     *)
(* whatever is cancelled, throws or dies meanwhile; while it is there the  *)
(* queue is not drained and its schedule is refused.                       *)
StartedRunsLeave ==
  \A r \in Runs : r \in byRunId /\ origin[r] = "start" ~> r \notin byRunId

(* The server is never locked for good. *)
LockReleased == \A s \in Schedules : s \in executing ~> s \notin executing
-----------------------------------------------------------------------------
(* What comments of the code say and the runs refute. *)

(* tryStartBackup answers false only if a backup is under way: a slot that *)
(* is taken belongs to a run that has not returned.                        *)
SlotMeansBackup ==
  progress.running => \E r \in Runs : pc[r] \in InBackup \cup {"loading"}

(* A run that startBackup began and that completed is reported as complete *)
(* by the event of the progress slot; _runBackupAsync need not do it.      *)
CompletionReported ==
  \A r \in Runs :
    /\ origin[r] = "start" /\ outcome[r] = "completed"
    /\ pc[r] \in {"dequeuing", "done"}
    => "completed" \in sent[r] \cup pending[r] \/ r \in lost

(* The legacy handler unregisters its run explicitly, lest the context be  *)
(* orphaned: every run leaves the registry.                                *)
RegistryEmptied == \A r \in Runs : r \in byRunId ~> r \notin byRunId

(* The queue is drained when a backup ends: no run is left waiting with    *)
(* nothing under way.                                                      *)
QueueAttended ==
  queue # <<>> => \E r \in Runs : pc[r] \notin {"new", "queued", "done"}

(* cancelExecution kills the database process of the backup that runs.     *)
CancelReachesProcess ==
  [][\A r \in Runs :
       pc[r] = "backing" /\ SchedOf[r] \in cancelRequested' \ cancelRequested
         => SchedOf[r] \in runningHistoryIds]_vars
=============================================================================
