------------------------ MODULE BackupExecutionProofs -------------------------
(***************************************************************************)
(* For every set of runs and schedules, every mix of ways in, every size   *)
(* of the queue and any number of lost connections: one backup at a time,  *)
(* nothing outlives the lock, and the registry is consistent.              *)
(***************************************************************************)
EXTENDS BackupExecution, SequenceLemmas

Queued == {r \in Runs : pc[r] = "queued"}
Holders == {r \in Runs : pc[r] \in InBackup}

(* The runs in the queue await it, and each is there once.                 *)
QueueOnce == queue \in Seq(Runs) /\ OnceFrom(queue, Queued)

(* OneBackupAtATime is inductive once it is known that the queue cannot    *)
(* move a run that executes.                                               *)
LockInv ==
  /\ pc \in [Runs -> Waits]
  /\ QueueOnce
  /\ OneBackupAtATime
  /\ NothingOutlivesTheLock

USE DEF Waits, InBackup

-----------------------------------------------------------------------------
(* The registry: every step leaves it alone, adds a run or removes one.    *)

LEMMA RegistrySteps ==
  ASSUME [Next]_vars
  PROVE  \/ UNCHANGED registryVars
         \/ \E r \in Runs : Register(r) \/ Unregister(r)
<1>1. CASE UNCHANGED vars
  BY <1>1 DEF vars
<1>2. ASSUME NEW r \in Runs, Arrives(r)
      PROVE  UNCHANGED registryVars
  BY <1>2 DEF Arrives, StartBackup, ExecuteSchedule, RunLocally, RunFromUi
<1>3. ASSUME NEW r \in Runs, Resumes(r)
      PROVE  UNCHANGED registryVars \/ Register(r) \/ Unregister(r)
  <2>1. CASE Enqueue(r) \/ Refuse(r) \/ Reserve(r) \/ ReserveThrows(r)
             \/ TakeLock(r) \/ LockRefused(r) \/ Prepare(r)
    BY <2>1 DEF Enqueue, Refuse, Reserve, ReserveThrows, TakeLock,
                LockRefused, Prepare
  <2>2. CASE BackupFails(r) \/ BackupProduced(r) \/ UploadCancelled(r)
             \/ StopCancelled(r) \/ BackupCompletes(r) \/ Release(r)
    BY <2>2 DEF BackupFails, BackupProduced, UploadCancelled, StopCancelled,
                BackupCompletes, Release
  <2>3. CASE LocalReturns(r) \/ UiReturns(r) \/ LegacyReturns(r)
             \/ LegacyThrows(r) \/ ReportFailure(r)
    BY <2>3 DEF LocalReturns, UiReturns, LegacyReturns, LegacyThrows,
                ReportFailure
  <2>4. CASE FailureReported(r) \/ ReportThrows(r) \/ StartReturns(r)
             \/ DeferredCleanup(r)
    BY <2>4 DEF FailureReported, ReportThrows, StartReturns, DeferredCleanup,
                Finalize
  <2>5. CASE Dequeue(r) \/ DequeueNothing(r) \/ DispatchDrops(r)
             \/ Dispatch(r) \/ DispatchThrows(r) \/ DispatchReturns(r)
             \/ Requeue(r)
    BY <2>5 DEF Dequeue, DequeueNothing, DispatchDrops, Dispatch,
                DispatchThrows, DispatchReturns, Requeue
  <2> QED BY <1>3, <2>1, <2>2, <2>3, <2>4, <2>5 DEF Resumes
<1>4. ASSUME NEW r \in Runs, Delivers(r) \/ LeaveQueue(r) \/ CancelSchedule(r)
      PROVE  UNCHANGED registryVars \/ Unregister(r)
  BY <1>4 DEF Delivers, Deliver, DeliverThrows, LeaveQueue, CancelSchedule
<1>5. ASSUME NEW s \in Schedules, CancelExecution(s)
      PROVE  UNCHANGED registryVars
  BY <1>5 DEF CancelExecution
<1> QED BY <1>1, <1>2, <1>3, <1>4, <1>5 DEF Next

RegistryInv ==
  /\ byRunId \subseteq Runs
  /\ scheduleToRunId \in [Schedules -> Runs \cup {NoRun}]
  /\ RegistryIndexed

LEMMA RegistryInit == Init => RegistryInv
BY ExecutionAssumption DEF Init, RegistryInv, RegistryIndexed

LEMMA RegistryStep == RegistryInv /\ [Next]_vars => RegistryInv'
<1> SUFFICES ASSUME RegistryInv, [Next]_vars PROVE RegistryInv'
  OBVIOUS
<1> USE ExecutionAssumption DEF RegistryInv, RegistryIndexed
<1>1. CASE UNCHANGED registryVars
  BY <1>1 DEF registryVars
<1>2. ASSUME NEW r \in Runs, Register(r) PROVE RegistryInv'
  BY <1>2 DEF Register, Registered
<1>3. ASSUME NEW r \in Runs, Unregister(r) PROVE RegistryInv'
  BY <1>3 DEF Unregister
<1> QED BY <1>1, <1>2, <1>3, RegistrySteps

(* The two indexes of the registry agree after every interleaving of       *)
(* registrations, deliveries, answers, clean-ups and legacy cancellations; *)
(* cancelling by schedule reaches the run that clients follow.             *)
THEOREM RegistryConsistent == Spec => []RegistryIndexed
<1>1. RegistryInv => RegistryIndexed
  BY DEF RegistryInv
<1> QED BY RegistryInit, RegistryStep, <1>1, PTL DEF Spec

-----------------------------------------------------------------------------
(* The lock.  Most steps are quiet: one coroutine goes on without entering *)
(* or leaving the queue or the part of the backup that has the lock.       *)

Quiet ==
  /\ pc' \in [Runs -> Waits]
  /\ \A q \in Runs : /\ pc'[q] \in InBackup <=> pc[q] \in InBackup
                     /\ pc'[q] = "queued" <=> pc[q] = "queued"
  /\ UNCHANGED <<lockVars, queue>>

LEMMA QuietKeeps ==
  ASSUME LockInv, Quiet
  PROVE  LockInv'
<1> USE DEF LockInv, lockVars
<1>1. pc' \in [Runs -> Waits] /\ UNCHANGED <<lockVars, queue>>
  BY DEF Quiet
<1>2. \A q \in Runs : /\ pc'[q] \in InBackup <=> pc[q] \in InBackup
                      /\ pc'[q] = "queued" <=> pc[q] = "queued"
  BY DEF Quiet
<1>3. QueueOnce'
  BY <1>1, <1>2 DEF QueueOnce, Queued
<1>4. OneBackupAtATime'
  <2> HIDE DEF InBackup
  <2>1. {q \in Runs : pc'[q] \in InBackup} = {q \in Runs : pc[q] \in InBackup}
    BY <1>2
  <2> QED BY <1>1, <1>2, <2>1 DEF OneBackupAtATime
<1>5. NothingOutlivesTheLock'
  BY <1>1 DEF NothingOutlivesTheLock
<1> QED BY <1>1, <1>3, <1>4, <1>5

LEMMA ArrivalsAreQuiet ==
  ASSUME LockInv, NEW r \in Runs, Arrives(r)
  PROVE  Quiet
<1> USE DEF LockInv, Goto, GiveUp, Executes, Quiet, lockVars, queueVars
<1>1. CASE StartBackup(r) BY <1>1 DEF StartBackup
<1>2. CASE ExecuteSchedule(r) BY <1>2 DEF ExecuteSchedule
<1>3. CASE RunLocally(r) BY <1>3 DEF RunLocally
<1>4. CASE RunFromUi(r) BY <1>4 DEF RunFromUi
<1> QED BY <1>1, <1>2, <1>3, <1>4 DEF Arrives

(* The steps of a coroutine that are not quiet. *)
TouchesLockOrQueue(r) ==
  \/ Enqueue(r) \/ Requeue(r) \/ Dequeue(r)
  \/ TakeLock(r) \/ BackupProduced(r) \/ Release(r)

LEMMA OthersAreQuiet ==
  ASSUME LockInv, NEW r \in Runs, Resumes(r)
  PROVE  Quiet \/ TouchesLockOrQueue(r)
<1> USE DEF LockInv, Goto, GiveUp, Executes, Quiet, lockVars, queueVars
<1>1. CASE Refuse(r) BY <1>1 DEF Refuse
<1>2. CASE Reserve(r) BY <1>2 DEF Reserve
<1>3. CASE ReserveThrows(r) BY <1>3 DEF ReserveThrows
<1>4. CASE LockRefused(r) BY <1>4 DEF LockRefused
<1>5. CASE Prepare(r) BY <1>5 DEF Prepare
<1>6. CASE BackupFails(r) BY <1>6 DEF BackupFails
<1>7. CASE UploadCancelled(r) BY <1>7 DEF UploadCancelled
<1>8. CASE StopCancelled(r) BY <1>8 DEF StopCancelled
<1>9. CASE BackupCompletes(r) BY <1>9 DEF BackupCompletes
<1>10. CASE LocalReturns(r) BY <1>10 DEF LocalReturns
<1>11. CASE UiReturns(r) BY <1>11 DEF UiReturns
<1>12. CASE LegacyReturns(r) BY <1>12 DEF LegacyReturns
<1>13. CASE LegacyThrows(r) BY <1>13 DEF LegacyThrows
<1>14. CASE ReportFailure(r) BY <1>14 DEF ReportFailure
<1>15. CASE FailureReported(r) BY <1>15 DEF FailureReported, Finalize, Drain
<1>16. CASE ReportThrows(r) BY <1>16 DEF ReportThrows, Finalize, Drain
<1>17. CASE StartReturns(r) BY <1>17 DEF StartReturns, Finalize, Drain
<1>18. CASE DeferredCleanup(r) BY <1>18 DEF DeferredCleanup, Drain
<1>19. CASE DequeueNothing(r) BY <1>19 DEF DequeueNothing
<1>20. CASE DispatchDrops(r) BY <1>20 DEF DispatchDrops, Drain
<1>21. CASE Dispatch(r) BY <1>21 DEF Dispatch
<1>22. CASE DispatchThrows(r) BY <1>22 DEF DispatchThrows
<1>23. CASE DispatchReturns(r) BY <1>23 DEF DispatchReturns, Q!GiveBack
<1> QED BY <1>1, <1>2, <1>3, <1>4, <1>5, <1>6, <1>7, <1>8, <1>9, <1>10,
           <1>11, <1>12, <1>13, <1>14, <1>15, <1>16, <1>17, <1>18, <1>19,
           <1>20, <1>21, <1>22, <1>23 DEF Resumes, TouchesLockOrQueue

(* A run joins the queue at its tail. *)
LEMMA QueueJoined ==
  ASSUME LockInv, NEW r \in Runs, pc[r] \in {"enqueueing", "requeueing"},
         Q!Accept(r), Goto(r, "queued"), UNCHANGED lockVars
  PROVE  LockInv'
<1> USE DEF LockInv, lockVars
<1>1. pc' = [pc EXCEPT ![r] = "queued"] /\ pc' \in [Runs -> Waits]
  BY DEF Goto
<1>2. r \notin Queued /\ Queued' = Queued \cup {r} /\ Holders' = Holders
  BY <1>1 DEF Queued, Holders
<1>3. queue' = Append(queue, r)
  BY DEF Q!Accept
<1>4. QueueOnce'
  BY <1>2, <1>3, AppendOnce DEF QueueOnce
<1>5. OneBackupAtATime'
  BY <1>1, <1>2 DEF OneBackupAtATime, Holders
<1> QED BY <1>1, <1>4, <1>5 DEF NothingOutlivesTheLock

(* The head of the queue is dispatched. *)
LEMMA QueueHanded ==
  ASSUME LockInv, NEW r \in Runs, Dequeue(r)
  PROVE  LockInv'
<1> USE DEF LockInv, lockVars
<1> DEFINE h == Head(queue)
<1>1. /\ queue # <<>> /\ queue' = Tail(queue) /\ UNCHANGED lockVars
      /\ pc[r] = "dequeuing"
      /\ pc' = [pc EXCEPT ![r] = "done", ![h] = "dispatching"]
  BY DEF Dequeue, Q!HandOut
<1>2. /\ Tail(queue) \in Seq(Runs) /\ h \in Queued /\ h \in Runs
      /\ OnceFrom(Tail(queue), Queued \ {h})
  BY <1>1, TailOnce DEF QueueOnce
<1> HIDE DEF h
<1>3. pc[h] = "queued"
  BY <1>2 DEF Queued
<1>4. pc' \in [Runs -> Waits]
  BY <1>1
<1>5. Queued' = Queued \ {h} /\ Holders' = Holders
  BY <1>1, <1>2, <1>3 DEF Queued, Holders
<1>6. QueueOnce'
  BY <1>1, <1>2, <1>5 DEF QueueOnce
<1>7. OneBackupAtATime'
  BY <1>1, <1>2, <1>3, <1>5 DEF OneBackupAtATime, Holders
<1> QED BY <1>1, <1>4, <1>6, <1>7 DEF NothingOutlivesTheLock

(* A run leaves the queue, from wherever it is in it. *)
LEMMA QueueLeft ==
  ASSUME LockInv, NEW r \in Runs, LeaveQueue(r)
  PROVE  LockInv'
<1> USE DEF LockInv, lockVars
<1>1. PICK k \in DOMAIN queue : queue[k] = r /\ queue' = RemoveAt(queue, k)
  BY DEF LeaveQueue, Q!Withdraw, Q!RemoveAt, RemoveAt
<1>2. RemoveAt(queue, k) \in Seq(Runs) /\ OnceFrom(RemoveAt(queue, k), Queued \ {r})
  BY <1>1, RemoveAtOnce DEF QueueOnce
<1>3. pc[r] = "queued"
  BY <1>1 DEF QueueOnce, OnceFrom, Queued
<1>4. /\ pc' = [pc EXCEPT ![r] = "done"] /\ UNCHANGED lockVars
      /\ pc' \in [Runs -> Waits]
  BY DEF LeaveQueue, GiveUp, Goto
<1>5. Queued' = Queued \ {r} /\ Holders' = Holders
  BY <1>3, <1>4 DEF Queued, Holders
<1>6. QueueOnce'
  BY <1>1, <1>2, <1>5 DEF QueueOnce
<1>7. OneBackupAtATime'
  BY <1>3, <1>4, <1>5 DEF OneBackupAtATime, Holders
<1> QED BY <1>4, <1>6, <1>7 DEF NothingOutlivesTheLock

(* The lock is taken when nobody has it ... *)
LEMMA LockTaken ==
  ASSUME LockInv, NEW r \in Runs, TakeLock(r)
  PROVE  LockInv'
<1> USE ExecutionAssumption DEF LockInv
<1>1. /\ pc[r] = "loading" /\ executing = {} /\ executing' = {SchedOf[r]}
      /\ UNCHANGED <<cancelRequested, runningHistoryIds, queue>>
      /\ pc' = [pc EXCEPT ![r] = "cancelling"] \/ pc' = [pc EXCEPT ![r] = "preparing"]
  BY DEF TakeLock, HasAvailableExecutionSlot, queueVars, Goto
<1>2. pc' \in [Runs -> Waits] /\ pc'[r] \in InBackup
      /\ \A q \in Runs \ {r} : pc'[q] = pc[q]
  BY <1>1
<1>3. \A q \in Runs : pc[q] \notin InBackup
  BY <1>1 DEF OneBackupAtATime
<1>4. Queued' = Queued
  BY <1>1, <1>2 DEF Queued
<1>5. QueueOnce'
  BY <1>1, <1>4 DEF QueueOnce
<1>6. OneBackupAtATime'
  <2> HIDE DEF InBackup
  <2>1. {q \in Runs : pc'[q] \in InBackup} = {r}
    BY <1>2, <1>3
  <2> QED BY <1>1, <1>2, <1>3, <2>1 DEF OneBackupAtATime
<1>7. NothingOutlivesTheLock'
  BY <1>1 DEF NothingOutlivesTheLock
<1> QED BY <1>2, <1>5, <1>6, <1>7

(* ... and given back with everything that belongs to it. *)
LEMMA LockReleasedKeeps ==
  ASSUME LockInv, NEW r \in Runs, Release(r)
  PROVE  LockInv'
<1> USE ExecutionAssumption DEF LockInv
<1>1. /\ pc[r] = "releasing" /\ pc' = [pc EXCEPT ![r] = "returned"]
      /\ executing' = executing \ {SchedOf[r]}
      /\ cancelRequested' = cancelRequested \ {SchedOf[r]}
      /\ runningHistoryIds' = runningHistoryIds \ {SchedOf[r]}
      /\ queue' = queue
  BY DEF Release, queueVars, Goto
<1>2. pc' \in [Runs -> Waits] /\ pc'[r] = "returned"
      /\ \A q \in Runs \ {r} : pc'[q] = pc[q]
  BY <1>1
<1>3. \A q \in Runs \ {r} : pc[q] \notin InBackup
  BY <1>1 DEF OneBackupAtATime
<1>4. executing = {SchedOf[r]}
  BY <1>1, <1>3 DEF OneBackupAtATime
<1>5. QueueOnce'
  BY <1>1, <1>2 DEF QueueOnce, Queued
<1>6. OneBackupAtATime'
  BY <1>1, <1>2, <1>3, <1>4 DEF OneBackupAtATime
<1>7. NothingOutlivesTheLock'
  BY <1>1 DEF NothingOutlivesTheLock
<1> QED BY <1>2, <1>5, <1>6, <1>7

LEMMA LockInit == Init => LockInv
<1> SUFFICES ASSUME Init PROVE LockInv
  OBVIOUS
<1>1. pc = [r \in Runs |-> "new"] /\ queue = <<>>
      /\ executing = {} /\ cancelRequested = {} /\ runningHistoryIds = {}
  BY DEF Init
<1>2. QueueOnce
  BY <1>1 DEF QueueOnce, OnceFrom
<1>3. OneBackupAtATime
  BY <1>1 DEF OneBackupAtATime
<1> QED BY <1>1, <1>2, <1>3 DEF LockInv, NothingOutlivesTheLock

LEMMA LockStep == LockInv /\ [Next]_vars => LockInv'
<1> SUFFICES ASSUME LockInv, [Next]_vars PROVE LockInv'
  OBVIOUS
<1>1. CASE UNCHANGED vars
  <2>1. Quiet
    BY <1>1 DEF vars, runVars, queueVars, lockVars, Quiet, LockInv
  <2> QED BY <2>1, QuietKeeps
<1>2. ASSUME NEW r \in Runs, Arrives(r) PROVE LockInv'
  BY <1>2, ArrivalsAreQuiet, QuietKeeps
<1>3. ASSUME NEW r \in Runs, Resumes(r) PROVE LockInv'
  <2>1. CASE Quiet
    BY <2>1, QuietKeeps
  <2>2. CASE Enqueue(r)
    <3>1. pc[r] = "enqueueing" /\ UNCHANGED lockVars
      BY <2>2 DEF Enqueue
    <3>2. CASE Q!Accept(r) /\ Goto(r, "queued")
      BY <3>1, <3>2, QueueJoined
    <3>3. CASE GiveUp(r, "refused") /\ UNCHANGED queueVars
      <4>1. Quiet
        BY <3>1, <3>3 DEF GiveUp, Goto, Quiet, queueVars, LockInv
      <4> QED BY <4>1, QuietKeeps
    <3> QED BY <2>2, <3>2, <3>3 DEF Enqueue
  <2>3. CASE Requeue(r)
    <3>1. pc[r] = "requeueing" /\ UNCHANGED lockVars
      BY <2>3 DEF Requeue
    <3>2. CASE Q!Accept(r) /\ Goto(r, "queued")
      BY <3>1, <3>2, QueueJoined
    <3>3. CASE GiveUp(r, "dropped") /\ UNCHANGED queueVars
      <4>1. Quiet
        BY <3>1, <3>3 DEF GiveUp, Goto, Quiet, queueVars, LockInv
      <4> QED BY <4>1, QuietKeeps
    <3> QED BY <2>3, <3>2, <3>3 DEF Requeue
  <2>4. CASE Dequeue(r)
    BY <2>4, QueueHanded
  <2>5. CASE TakeLock(r)
    BY <2>5, LockTaken
  <2>6. CASE BackupProduced(r)
    <3>1. /\ pc[r] = "backing" /\ UNCHANGED <<executing, cancelRequested, queue>>
          /\ runningHistoryIds' = runningHistoryIds \cup {SchedOf[r]}
          /\ pc' = [pc EXCEPT ![r] = "cancelling"] \/ pc' = [pc EXCEPT ![r] = "uploading"]
      BY <2>6 DEF BackupProduced, queueVars, Goto
    <3>2. /\ pc' \in [Runs -> Waits]
          /\ \A q \in Runs : /\ pc'[q] \in InBackup <=> pc[q] \in InBackup
                             /\ pc'[q] = "queued" <=> pc[q] = "queued"
      BY <3>1 DEF LockInv
    <3>3. QueueOnce'
      BY <3>1, <3>2 DEF LockInv, QueueOnce, Queued
    <3>4. OneBackupAtATime' /\ SchedOf[r] \in executing
      <4>1. pc[r] \in InBackup
        BY <3>1
      <4> HIDE DEF InBackup
      <4>2. {q \in Runs : pc'[q] \in InBackup} = {q \in Runs : pc[q] \in InBackup}
        BY <3>2
      <4> QED BY <3>1, <3>2, <4>1, <4>2 DEF LockInv, OneBackupAtATime
    <3> QED BY <3>1, <3>2, <3>3, <3>4 DEF LockInv, NothingOutlivesTheLock
  <2>7. CASE Release(r)
    BY <2>7, LockReleasedKeeps
  <2> QED BY <1>3, <2>1, <2>2, <2>3, <2>4, <2>5, <2>6, <2>7, OthersAreQuiet
          DEF TouchesLockOrQueue
<1>4. ASSUME NEW r \in Runs, Delivers(r) PROVE LockInv'
  <2>1. Quiet
    BY <1>4 DEF Delivers, Deliver, DeliverThrows, lockVars, queueVars, runVars,
                Quiet, LockInv
  <2> QED BY <2>1, QuietKeeps
<1>5. ASSUME NEW r \in Runs, LeaveQueue(r) PROVE LockInv'
  BY <1>5, QueueLeft
<1>6. ASSUME NEW s \in Schedules, s \in executing,
             cancelRequested' = cancelRequested \cup {s},
             UNCHANGED <<executing, runningHistoryIds, queueVars, runVars>>
      PROVE  LockInv'
  BY <1>6 DEF LockInv, queueVars, runVars, QueueOnce, Queued, OneBackupAtATime,
              NothingOutlivesTheLock
<1>7. ASSUME NEW r \in Runs, CancelSchedule(r) PROVE LockInv'
  BY <1>6, <1>7, ExecutionAssumption DEF CancelSchedule
<1>8. ASSUME NEW s \in Schedules, CancelExecution(s) PROVE LockInv'
  BY <1>6, <1>8 DEF CancelExecution
<1> QED BY <1>1, <1>2, <1>3, <1>4, <1>5, <1>7, <1>8 DEF Next

(* maxConcurrentBackups = 1 for every way in, however many runs wait at    *)
(* an await between their look at the lock and their backup, and the lock  *)
(* is always the one of the schedule that runs.                            *)
THEOREM OneBackup == Spec => []OneBackupAtATime
<1>1. LockInv => OneBackupAtATime
  BY DEF LockInv
<1> QED BY LockInit, LockStep, <1>1, PTL DEF Spec

(* A request to cancel and a history id to kill by are gone when the lock  *)
(* is, so they never stop a later run of the same schedule.                *)
THEOREM CancellationsEnd == Spec => []NothingOutlivesTheLock
<1>1. LockInv => NothingOutlivesTheLock
  BY DEF LockInv
<1> QED BY LockInit, LockStep, <1>1, PTL DEF Spec

(* Every run in the queue awaits it, and is there once: a run that was     *)
(* handed out, left or is executed is not there to be dispatched again.    *)
THEOREM QueuedOnce == Spec => []QueueOnce
<1>1. LockInv => QueueOnce
  BY DEF LockInv
<1> QED BY LockInit, LockStep, <1>1, PTL DEF Spec

-----------------------------------------------------------------------------
(* Types.  LockInv and RegistryInv give those of pc, the queue, the lock   *)
(* and the registry; the slot, the events and the ends of runs are left.   *)

SlotType ==
  progress \in [running : BOOLEAN, cancelled : BOOLEAN,
               step : {"none", "underway", "completed", "error"}]
EndType ==
  /\ origin \in [Runs -> Origins \cup {"none"}]
  /\ outcome \in [Runs -> Outcomes]
EventType ==
  /\ pending \in [Runs -> SUBSET Events]
  /\ sent \in [Runs -> SUBSET (Events \cup {"scheduleCancelled"})]
  /\ lost \subseteq Runs
RestType == SlotType /\ EndType /\ EventType /\ handed \subseteq Runs

LEMMA SettleTypes ==
  ASSUME SlotType, pending \in [Runs -> SUBSET Events],
         NEW step \in {"completed", "error"}, NEW c \in BOOLEAN,
         Settle(step, c)
  PROVE  SlotType' /\ pending' \in [Runs -> SUBSET Events]
<1>1. SlotType'
  BY DEF SlotType, Settle
<1>2. EventOf(progress') \in Events
  BY DEF EventOf, Events
<1> QED BY <1>1, <1>2 DEF Settle

LEMMA SlotTypes ==
  ASSUME SlotType, SlotTaken \/ UNCHANGED progress
  PROVE  SlotType'
<1>1. CASE SlotTaken
  <2>1. progress' = [running |-> TRUE, step |-> "underway", cancelled |-> FALSE]
    BY <1>1 DEF SlotTaken
  <2> QED BY <2>1 DEF SlotType
<1>2. CASE UNCHANGED progress
  BY <1>2 DEF SlotType
<1> QED BY <1>1, <1>2

LEMMA TellTypes ==
  ASSUME EventType, NEW r \in Runs, NEW event \in Events, Tell(r, event)
  PROVE  sent' \in [Runs -> SUBSET (Events \cup {"scheduleCancelled"})]
<1>1. CASE r \in lost
  BY <1>1 DEF EventType, Tell
<1>2. CASE r \notin lost
  <2>1. sent[r] \cup {event} \in SUBSET (Events \cup {"scheduleCancelled"})
    BY DEF EventType
  <2>2. sent' = [sent EXCEPT ![r] = sent[r] \cup {event}]
    BY <1>2 DEF Tell
  <2> QED BY <2>1, <2>2 DEF EventType
<1> QED BY <1>1, <1>2

LEMMA RestInit == Init => RestType
BY DEF Init, RestType, SlotType, EndType, EventType, Outcomes, Origins

LEMMA RestStep == RestType /\ LockInv /\ [Next]_vars => RestType'
<1> SUFFICES ASSUME RestType, LockInv, [Next]_vars PROVE RestType'
  OBVIOUS
<1> USE DEF RestType
<1>1. EndType'
  <2> USE DEF EndType, Outcomes, Origins, Ends, GiveUp, Executes
  <2>1. ASSUME NEW r \in Runs, Arrives(r) PROVE EndType'
    BY <2>1 DEF Arrives, StartBackup, ExecuteSchedule, RunLocally, RunFromUi
  <2>2. ASSUME NEW r \in Runs, Resumes(r) PROVE EndType'
    <3>1. CASE Enqueue(r) \/ Refuse(r) \/ Reserve(r) \/ ReserveThrows(r)
               \/ TakeLock(r) \/ LockRefused(r) \/ Prepare(r)
      BY <3>1 DEF Enqueue, Refuse, Reserve, ReserveThrows, TakeLock,
                  LockRefused, Prepare
    <3>2. CASE BackupFails(r) \/ BackupProduced(r) \/ UploadCancelled(r)
               \/ StopCancelled(r) \/ BackupCompletes(r) \/ Release(r)
      BY <3>2 DEF BackupFails, BackupProduced, UploadCancelled, StopCancelled,
                  BackupCompletes, Release
    <3>3. CASE LocalReturns(r) \/ UiReturns(r) \/ LegacyReturns(r)
               \/ LegacyThrows(r) \/ ReportFailure(r) \/ FailureReported(r)
               \/ ReportThrows(r) \/ StartReturns(r) \/ DeferredCleanup(r)
      BY <3>3 DEF LocalReturns, UiReturns, LegacyReturns, LegacyThrows,
                  ReportFailure, FailureReported, ReportThrows, StartReturns,
                  DeferredCleanup
    <3>4. CASE Dequeue(r) \/ DequeueNothing(r) \/ DispatchDrops(r)
               \/ Dispatch(r) \/ DispatchThrows(r) \/ DispatchReturns(r)
               \/ Requeue(r)
      BY <3>4 DEF Dequeue, DequeueNothing, DispatchDrops, Dispatch,
                  DispatchThrows, DispatchReturns, Requeue
    <3> QED BY <2>2, <3>1, <3>2, <3>3, <3>4 DEF Resumes
  <2>3. ASSUME NEW r \in Runs,
               Delivers(r) \/ LeaveQueue(r) \/ CancelSchedule(r)
        PROVE  EndType'
    BY <2>3 DEF Delivers, Deliver, DeliverThrows, LeaveQueue, CancelSchedule,
                runVars
  <2>4. ASSUME NEW s \in Schedules, CancelExecution(s) PROVE EndType'
    BY <2>4 DEF CancelExecution, runVars
  <2>5. CASE UNCHANGED vars
    BY <2>5 DEF vars, runVars
  <2> QED BY <2>1, <2>2, <2>3, <2>4, <2>5 DEF Next
<1>2. handed' \subseteq Runs
  <2> USE DEF queueVars
  <2>1. ASSUME NEW r \in Runs, Arrives(r) PROVE UNCHANGED handed
    BY <2>1 DEF Arrives, StartBackup, ExecuteSchedule, RunLocally, RunFromUi
  <2>2. ASSUME NEW r \in Runs, Resumes(r) PROVE handed' \subseteq Runs
    <3>1. CASE Dequeue(r)
      <4>1. Head(queue) \in Runs
        BY <3>1, TailOnce DEF LockInv, QueueOnce, Dequeue, Q!HandOut
      <4> QED BY <3>1, <4>1 DEF Dequeue, Q!HandOut
    <3>2. CASE Enqueue(r) \/ DispatchReturns(r) \/ Requeue(r)
      BY <3>2 DEF Enqueue, DispatchReturns, Requeue, Q!Accept, Q!GiveBack
    <3>3. CASE Refuse(r) \/ Reserve(r) \/ ReserveThrows(r) \/ TakeLock(r)
               \/ LockRefused(r) \/ Prepare(r) \/ BackupFails(r)
               \/ BackupProduced(r) \/ UploadCancelled(r)
               \/ StopCancelled(r) \/ BackupCompletes(r) \/ Release(r)
      BY <3>3 DEF Refuse, Reserve, ReserveThrows, TakeLock, LockRefused,
                  Prepare, BackupFails, BackupProduced, UploadCancelled,
                  StopCancelled, BackupCompletes, Release
    <3>4. CASE LocalReturns(r) \/ UiReturns(r) \/ LegacyReturns(r)
               \/ LegacyThrows(r) \/ ReportFailure(r) \/ FailureReported(r)
               \/ ReportThrows(r) \/ StartReturns(r) \/ DeferredCleanup(r)
               \/ DequeueNothing(r) \/ DispatchDrops(r) \/ Dispatch(r)
               \/ DispatchThrows(r)
      BY <3>4 DEF LocalReturns, UiReturns, LegacyReturns, LegacyThrows,
                  ReportFailure, FailureReported, ReportThrows, StartReturns,
                  DeferredCleanup, DequeueNothing, DispatchDrops, Dispatch,
                  DispatchThrows
    <3> QED BY <2>2, <3>1, <3>2, <3>3, <3>4 DEF Resumes
  <2>3. ASSUME NEW r \in Runs,
               Delivers(r) \/ LeaveQueue(r) \/ CancelSchedule(r)
        PROVE  UNCHANGED handed
    BY <2>3 DEF Delivers, Deliver, DeliverThrows, LeaveQueue, CancelSchedule,
                Q!Withdraw
  <2>4. ASSUME NEW s \in Schedules, CancelExecution(s) PROVE UNCHANGED handed
    BY <2>4 DEF CancelExecution
  <2>5. CASE UNCHANGED vars
    BY <2>5 DEF vars
  <2> QED BY <2>1, <2>2, <2>3, <2>4, <2>5 DEF Next
<1>3. SlotType' /\ EventType'
  <2> USE DEF EventType, eventVars
  <2>1. ASSUME NEW r \in Runs, Arrives(r) PROVE SlotType' /\ EventType'
    BY <2>1, SlotTypes DEF Arrives, StartBackup, ExecuteSchedule, RunLocally,
                           RunFromUi
  <2>2. ASSUME NEW r \in Runs, Resumes(r) PROVE SlotType' /\ EventType'
    <3>1. CASE Enqueue(r) \/ Refuse(r) \/ Reserve(r) \/ TakeLock(r)
               \/ LockRefused(r) \/ Prepare(r) \/ BackupProduced(r)
               \/ UploadCancelled(r) \/ Release(r) \/ LocalReturns(r)
      BY <3>1, SlotTypes DEF Enqueue, Refuse, Reserve, TakeLock, LockRefused,
                             Prepare, BackupProduced, UploadCancelled, Release,
                             LocalReturns
    <3>2. CASE StartReturns(r) \/ DeferredCleanup(r) \/ Dequeue(r)
               \/ DequeueNothing(r) \/ Dispatch(r) \/ DispatchThrows(r)
               \/ DispatchReturns(r) \/ Requeue(r)
      BY <3>2, SlotTypes DEF StartReturns, DeferredCleanup, Dequeue,
                             DequeueNothing, Dispatch, DispatchThrows,
                             DispatchReturns, Requeue
    <3>3. CASE BackupFails(r) \/ StopCancelled(r) \/ BackupCompletes(r)
               \/ UiReturns(r) \/ FailureReported(r)
      BY <3>3, SettleTypes DEF BackupFails, Fail, StopCancelled,
                               BackupCompletes, UiReturns, FailureReported
    <3>4. CASE LegacyReturns(r)
      <4>1. SlotType' /\ pending' \in [Runs -> SUBSET Events]
        <5>1. CASE UNCHANGED <<progress, pending>>
          BY <5>1, SlotTypes
        <5>2. CASE Fail
          BY <5>2, SettleTypes DEF Fail
        <5> QED BY <3>4, <5>1, <5>2 DEF LegacyReturns
      <4>2. sent' \in [Runs -> SUBSET (Events \cup {"scheduleCancelled"})]
        BY <3>4, TellTypes DEF LegacyReturns, Events
      <4> QED BY <3>4, <4>1, <4>2 DEF LegacyReturns
    <3>5. CASE LegacyThrows(r)
      BY <3>5, SettleTypes DEF LegacyThrows, Fail, SendThrows
    <3>6. CASE ReportFailure(r) \/ DispatchDrops(r)
      <4>1. sent' \in [Runs -> SUBSET (Events \cup {"scheduleCancelled"})]
        BY <3>6, TellTypes DEF ReportFailure, DispatchDrops, Events
      <4> QED BY <3>6, <4>1, SlotTypes DEF ReportFailure, DispatchDrops
    <3>7. CASE ReportThrows(r)
      BY <3>7, SlotTypes DEF ReportThrows, SendThrows
    <3>8. CASE ReserveThrows(r)
      <4>1. SlotType'
        <5>1. CASE SlotTaken
          BY <5>1, SlotTypes
        <5>2. CASE progress' = [running |-> FALSE, step |-> "error",
                                cancelled |-> FALSE]
          BY <5>2 DEF SlotType
        <5> QED BY <3>8, <5>1, <5>2 DEF ReserveThrows
      <4>2. pending' \in [Runs -> SUBSET Events]
        <5>1. CASE UNCHANGED pending
          BY <5>1
        <5>2. CASE pending' = [q \in Runs |-> IF q \in byRunId
                                              THEN pending[q] \cup {"failed"}
                                              ELSE pending[q]]
          <6>1. "failed" \in Events
            BY DEF Events
          <6> QED BY <5>2, <6>1
        <5> QED BY <3>8, <5>1, <5>2 DEF ReserveThrows
      <4> QED BY <3>8, <4>1, <4>2 DEF ReserveThrows
    <3> QED BY <2>2, <3>1, <3>2, <3>3, <3>4, <3>5, <3>6, <3>7, <3>8
            DEF Resumes
  <2>3. ASSUME NEW r \in Runs, NEW event \in Events, Deliver(r, event)
        PROVE  SlotType' /\ EventType'
    <3>1. sent' \in [Runs -> SUBSET (Events \cup {"scheduleCancelled"})]
      BY <2>3, TellTypes DEF Deliver
    <3> QED BY <2>3, <3>1, SlotTypes DEF Deliver
  <2>4. ASSUME NEW r \in Runs, NEW event \in Events, DeliverThrows(r, event)
        PROVE  SlotType' /\ EventType'
    BY <2>4, SlotTypes DEF DeliverThrows, SendThrows
  <2>5. ASSUME NEW r \in Runs, LeaveQueue(r) \/ CancelSchedule(r)
        PROVE  SlotType' /\ EventType'
    BY <2>5, SlotTypes DEF LeaveQueue, CancelSchedule
  <2>6. ASSUME NEW s \in Schedules, CancelExecution(s)
        PROVE  SlotType' /\ EventType'
    BY <2>6, SlotTypes DEF CancelExecution
  <2>7. CASE UNCHANGED vars
    BY <2>7, SlotTypes DEF vars
  <2> QED BY <2>1, <2>2, <2>3, <2>4, <2>5, <2>6, <2>7 DEF Next, Delivers
<1> QED BY <1>1, <1>2, <1>3

(* Every variable keeps its type; the queue, through lemma TailOnce and    *)
(* its companions, remains a sequence of runs.                             *)
THEOREM TypeCorrect == Spec => []TypeOK
<1>1. RestType /\ LockInv /\ RegistryInv => TypeOK
  <2> SUFFICES ASSUME RestType, LockInv, RegistryInv PROVE TypeOK
    OBVIOUS
  <2>1. executing \subseteq Schedules
    BY ExecutionAssumption DEF LockInv, OneBackupAtATime
  <2>2. cancelRequested \subseteq Schedules /\ runningHistoryIds \subseteq Schedules
    BY <2>1 DEF LockInv, NothingOutlivesTheLock
  <2> QED BY <2>1, <2>2 DEF TypeOK, RestType, SlotType, EndType, EventType,
                           LockInv, QueueOnce, RegistryInv
<1> QED BY RestInit, RestStep, LockInit, LockStep, RegistryInit, RegistryStep,
           <1>1, PTL DEF Spec

-----------------------------------------------------------------------------
(* The refinement of RunLifecycle.  A run has no outcome exactly while its *)
(* coroutine is before the end of its backup.                              *)

Underway == {"new", "enqueueing", "validating", "requested", "queued",
             "dispatching", "requeueing", "loading", "preparing", "backing",
             "cancelling", "uploading"}

LifeInv ==
  /\ outcome \in [Runs -> Outcomes]
  /\ \A r \in Runs : outcome[r] = "none" <=> pc[r] \in Underway

StateMap == [r \in Runs |-> StateOf(r)]

(* A step of the coroutine of r, or for it, that is a transition of the    *)
(* table or none.                                                          *)
MovesAlong(r) ==
  /\ outcome' \in [Runs -> Outcomes]
  /\ \A q \in Runs \ {r} : pc'[q] = pc[q] /\ outcome'[q] = outcome[q]
  /\ outcome'[r] = "none" <=> pc'[r] \in Underway
  /\ \/ StateOf(r)' = StateOf(r)
     \/ StateOf(r) = "new" /\ StateOf(r)' \in {"running", "queued", "refused"}
     \/ StateOf(r) = "queued"
        /\ StateOf(r)' \in {"running", "cancelled", "dropped"}
     \/ StateOf(r) = "running"
        /\ StateOf(r)' \in {"completed", "failed", "cancelled"}

LEMMA MoveRefines ==
  ASSUME LifeInv, NEW r \in Runs, MovesAlong(r)
  PROVE  LifeInv' /\ [Lifecycle!Next]_StateMap
<1>1. LifeInv'
  BY DEF LifeInv, MovesAlong
<1>2. \A q \in Runs \ {r} : StateOf(q)' = StateOf(q)
  BY DEF MovesAlong, StateOf
<1>3. StateMap' = [StateMap EXCEPT ![r] = StateOf(r)']
  BY <1>2 DEF StateMap
<1>4. StateMap[r] = StateOf(r)
  BY DEF StateMap
<1>5. CASE StateOf(r)' = StateOf(r)
  <2>1. \A q \in Runs : StateOf(q)' = StateOf(q)
    BY <1>2, <1>5
  <2>2. StateMap' = StateMap
    BY <2>1 DEF StateMap
  <2> QED BY <1>1, <2>2
<1>6. CASE StateOf(r) = "new" /\ StateOf(r)' \in {"running", "queued", "refused"}
  <2>1. Lifecycle!Accept(r) \/ Lifecycle!Enqueue(r) \/ Lifecycle!Refuse(r)
    BY <1>3, <1>4, <1>6
    DEF StateMap, Lifecycle!Accept, Lifecycle!Enqueue, Lifecycle!Refuse
  <2> QED BY <1>1, <2>1 DEF Lifecycle!Next
<1>7. ASSUME NEW from, NEW to, <<from, to>> \in Lifecycle!Transitions,
             StateOf(r) = from, StateOf(r)' = to
      PROVE  Lifecycle!Move(r)
  BY <1>3, <1>4, <1>7 DEF StateMap, Lifecycle!Move
<1>8. CASE StateOf(r) = "queued"
           /\ StateOf(r)' \in {"running", "cancelled", "dropped"}
  <2>1. CASE StateOf(r)' = "dropped"
    <3>1. Lifecycle!Drop(r)
      BY <1>3, <1>4, <1>8, <2>1 DEF StateMap, Lifecycle!Drop
    <3> QED BY <1>1, <3>1 DEF Lifecycle!Next
  <2>2. CASE StateOf(r)' \in {"running", "cancelled"}
    <3>1. Lifecycle!Move(r)
      BY <1>7, <1>8, <2>2 DEF Lifecycle!Transitions
    <3> QED BY <1>1, <3>1 DEF Lifecycle!Next
  <2> QED BY <1>8, <2>1, <2>2
<1>9. CASE StateOf(r) = "running"
           /\ StateOf(r)' \in {"completed", "failed", "cancelled"}
  <2>1. Lifecycle!Move(r)
    BY <1>7, <1>9 DEF Lifecycle!Transitions
  <2> QED BY <1>1, <2>1 DEF Lifecycle!Next
<1> QED BY <1>1, <1>5, <1>6, <1>8, <1>9 DEF MovesAlong

(* Steps that neither move a coroutine nor end a run. *)
LEMMA StillRefines ==
  ASSUME LifeInv, UNCHANGED runVars
  PROVE  LifeInv' /\ [Lifecycle!Next]_StateMap
<1>1. LifeInv'
  BY DEF LifeInv, runVars
<1>2. \A q \in Runs : StateOf(q)' = StateOf(q)
  BY DEF StateOf, runVars
<1>3. StateMap' = StateMap
  BY <1>2 DEF StateMap
<1> QED BY <1>1, <1>3

LEMMA ArrivalsMove ==
  ASSUME LockInv, LifeInv, NEW r \in Runs, Arrives(r)
  PROVE  MovesAlong(r)
<1> USE DEF LockInv, LifeInv, MovesAlong, StateOf, Underway, Outcomes, Goto,
            GiveUp, Ends, Executes
<1>1. CASE StartBackup(r) BY <1>1 DEF StartBackup
<1>2. CASE ExecuteSchedule(r) BY <1>2 DEF ExecuteSchedule
<1>3. CASE RunLocally(r) BY <1>3 DEF RunLocally
<1>4. CASE RunFromUi(r) BY <1>4 DEF RunFromUi
<1> QED BY <1>1, <1>2, <1>3, <1>4 DEF Arrives

LEMMA ResumptionsMove ==
  ASSUME LockInv, LifeInv, NEW r \in Runs, Resumes(r), ~Dequeue(r)
  PROVE  MovesAlong(r)
<1> USE DEF LockInv, LifeInv, MovesAlong, StateOf, Underway, Outcomes, Goto,
            GiveUp, Ends, Executes
<1>1. CASE Enqueue(r) BY <1>1 DEF Enqueue
<1>2. CASE Refuse(r) BY <1>2 DEF Refuse
<1>3. CASE Reserve(r) BY <1>3 DEF Reserve
<1>4. CASE ReserveThrows(r) BY <1>4 DEF ReserveThrows
<1>5. CASE TakeLock(r) BY <1>5 DEF TakeLock
<1>6. CASE LockRefused(r) BY <1>6 DEF LockRefused
<1>7. CASE Prepare(r) BY <1>7 DEF Prepare
<1>8. CASE BackupFails(r) BY <1>8 DEF BackupFails
<1>9. CASE BackupProduced(r) BY <1>9 DEF BackupProduced
<1>10. CASE UploadCancelled(r) BY <1>10 DEF UploadCancelled
<1>11. CASE StopCancelled(r) BY <1>11 DEF StopCancelled
<1>12. CASE BackupCompletes(r) BY <1>12 DEF BackupCompletes
<1>13. CASE Release(r) BY <1>13 DEF Release
<1>14. CASE LocalReturns(r) BY <1>14 DEF LocalReturns
<1>15. CASE UiReturns(r) BY <1>15 DEF UiReturns
<1>16. CASE LegacyReturns(r) BY <1>16 DEF LegacyReturns
<1>17. CASE LegacyThrows(r) BY <1>17 DEF LegacyThrows
<1>18. CASE ReportFailure(r) BY <1>18 DEF ReportFailure
<1>19. CASE FailureReported(r) BY <1>19 DEF FailureReported, Finalize, Drain
<1>20. CASE ReportThrows(r) BY <1>20 DEF ReportThrows, Finalize, Drain
<1>21. CASE StartReturns(r) BY <1>21 DEF StartReturns, Finalize, Drain
<1>22. CASE DeferredCleanup(r) BY <1>22 DEF DeferredCleanup, Drain
<1>23. CASE DequeueNothing(r) BY <1>23 DEF DequeueNothing
<1>24. CASE DispatchDrops(r) BY <1>24 DEF DispatchDrops, Drain
<1>25. CASE Dispatch(r) BY <1>25 DEF Dispatch
<1>26. CASE DispatchThrows(r) BY <1>26 DEF DispatchThrows
<1>27. CASE DispatchReturns(r) BY <1>27 DEF DispatchReturns
<1>28. CASE Requeue(r) BY <1>28 DEF Requeue
<1> QED BY <1>1, <1>2, <1>3, <1>4, <1>5, <1>6, <1>7, <1>8, <1>9, <1>10,
           <1>11, <1>12, <1>13, <1>14, <1>15, <1>16, <1>17, <1>18, <1>19,
           <1>20, <1>21, <1>22, <1>23, <1>24, <1>25, <1>26, <1>27, <1>28
        DEF Resumes

(* The coroutine of r ends as the one of the run it hands over to goes on, *)
(* which waited in the queue: the server says the same of both as before.  *)
LEMMA HandOverRefines ==
  ASSUME LockInv, LifeInv, NEW r \in Runs, Dequeue(r)
  PROVE  LifeInv' /\ [Lifecycle!Next]_StateMap
<1> DEFINE h == Head(queue)
<1>1. /\ queue # <<>> /\ pc[r] = "dequeuing" /\ outcome' = outcome
      /\ pc' = [pc EXCEPT ![r] = "done", ![h] = "dispatching"]
  BY DEF Dequeue, Q!HandOut
<1>2. h \in Runs /\ pc[h] = "queued"
  <2>1. queue \in Seq(Runs) /\ OnceFrom(queue, Queued)
    BY DEF LockInv, QueueOnce
  <2>2. h \in Queued
    BY <1>1, <2>1, TailOnce
  <2> QED BY <2>2 DEF Queued
<1> HIDE DEF h
<1>3. /\ pc \in [Runs -> Waits] /\ h # r
      /\ pc'[r] = "done" /\ pc'[h] = "dispatching"
      /\ \A q \in Runs \ {r, h} : pc'[q] = pc[q]
  BY <1>1, <1>2 DEF LockInv
<1>4. LifeInv'
  BY <1>1, <1>2, <1>3 DEF LifeInv, Underway
<1>5. \A q \in Runs : StateOf(q)' = StateOf(q)
  BY <1>1, <1>2, <1>3 DEF LifeInv, Underway, StateOf
<1>6. StateMap' = StateMap
  BY <1>5 DEF StateMap
<1> QED BY <1>4, <1>6

LEMMA LeavingMoves ==
  ASSUME LockInv, LifeInv, NEW r \in Runs, LeaveQueue(r)
  PROVE  MovesAlong(r)
<1>1. pc[r] = "queued"
  BY DEF LeaveQueue, Q!Withdraw, LockInv, QueueOnce, OnceFrom, Queued
<1> QED BY <1>1 DEF LeaveQueue, LockInv, LifeInv, MovesAlong, StateOf,
                    Underway, Outcomes, Goto, GiveUp, Ends

LEMMA LifeInit == Init => LifeInv /\ Lifecycle!Init
BY DEF Init, LifeInv, Outcomes, Underway, Lifecycle!Init, StateOf

LEMMA LifeStep ==
  LockInv /\ LifeInv /\ [Next]_vars => LifeInv' /\ [Lifecycle!Next]_StateMap
<1> SUFFICES ASSUME LockInv, LifeInv, [Next]_vars
             PROVE  LifeInv' /\ [Lifecycle!Next]_StateMap
  OBVIOUS
<1>1. ASSUME NEW r \in Runs, MovesAlong(r)
      PROVE  LifeInv' /\ [Lifecycle!Next]_StateMap
  BY <1>1, MoveRefines
<1>2. ASSUME NEW r \in Runs, Arrives(r) \/ LeaveQueue(r) \/ Resumes(r)
      PROVE  LifeInv' /\ [Lifecycle!Next]_StateMap
  BY <1>1, <1>2, ArrivalsMove, LeavingMoves, ResumptionsMove, HandOverRefines
<1>3. ASSUME NEW r \in Runs, Delivers(r) \/ CancelSchedule(r)
      PROVE  UNCHANGED runVars
  BY <1>3 DEF Delivers, Deliver, DeliverThrows, CancelSchedule
<1>4. ASSUME NEW s \in Schedules, CancelExecution(s)
      PROVE  UNCHANGED runVars
  BY <1>4 DEF CancelExecution
<1>5. CASE UNCHANGED vars
  BY <1>5, StillRefines DEF vars
<1> QED BY <1>2, <1>3, <1>4, <1>5, StillRefines DEF Next

(* The server implements the official table of states: whatever slot,      *)
(* registry, queue and cancellations do, a run that ended is never         *)
(* executed again, and a run executes only after it was accepted.          *)
THEOREM ImplementsLifecycle == Spec => RefinesLifecycle
<1>1. [Lifecycle!Next]_StateMap =>
        [Lifecycle!Next]_([r \in Runs |-> StateOf(r)])
  BY DEF StateMap
<1> QED BY LockInit, LockStep, LifeInit, LifeStep, <1>1, PTL
        DEF Spec, RefinesLifecycle, Lifecycle!Spec

(* What a client relies on: a run that was reported as ended, refused or    *)
(* dropped is not queued, executed or ended otherwise later.                *)
EndedStates == {"completed", "failed", "cancelled", "refused", "dropped"}

THEOREM EndedStaysEnded ==
  Spec => [][\A r \in Runs : StateOf(r) \in EndedStates => StateOf(r)' = StateOf(r)]_vars
<1>1. ASSUME [Lifecycle!Next]_StateMap, NEW r \in Runs, StateOf(r) \in EndedStates
      PROVE  StateOf(r)' = StateOf(r)
  <2>1. CASE StateMap' = StateMap
    BY <2>1 DEF StateMap
  <2>2. CASE Lifecycle!Next
    <3>1. PICK q \in Runs :
             /\ StateOf(q) \in {"new", "queued", "running"}
             /\ \E x : StateMap' = [StateMap EXCEPT ![q] = x]
      BY <2>2 DEF Lifecycle!Next, Lifecycle!Accept, Lifecycle!Enqueue, Lifecycle!Refuse,
                  Lifecycle!Drop, Lifecycle!Move, Lifecycle!Transitions, StateMap
    <3>2. q # r
      BY <1>1, <3>1 DEF EndedStates
    <3>3. StateMap'[r] = StateMap[r]
      BY <3>1, <3>2 DEF StateMap
    <3> QED BY <3>3 DEF StateMap
  <2> QED BY <1>1, <2>1, <2>2
<1>2. LockInv /\ LifeInv /\ [Next]_vars =>
        [\A r \in Runs : StateOf(r) \in EndedStates => StateOf(r)' = StateOf(r)]_vars
  BY <1>1, LifeStep
<1> QED BY LockInit, LockStep, LifeInit, LifeStep, <1>2, PTL DEF Spec

-----------------------------------------------------------------------------
(* The clients.  Why a client is told is spread over the registry, the     *)
(* slot and the coroutine; the invariant follows a remote run through them *)
(* as long as no connection has died.                                      *)

Told(r) == sent[r] \cup pending[r] # {}

BeforeBackup == {"new", "enqueueing", "validating", "requested", "queued",
                 "dispatching", "requeueing"}

(* A run is not executed yet, or its client follows it or has been told;   *)
(* what completed, or has got past its report, was told.                   *)
RunFollowed(r) ==
  /\ pc[r] \in BeforeBackup => origin[r] = "none"
  /\ pc[r] \in {"reporting", "deferred"} => origin[r] = "start"
  /\ lost = {} /\ Remote(r) =>
       /\ r \in byRunId \/ Told(r)
       /\ pc[r] \in {"reporting", "deferred", "dequeuing", "done"} => Told(r)
       /\ outcome[r] = "completed" => Told(r)

TellInv == \A r \in Runs : RunFollowed(r)

(* What a step does to a run, seen from its client: unless a connection    *)
(* dies, nobody forgets that it was told, or forgets the run before that.  *)
StillFollowed(q) ==
  lost' = {} => /\ lost = {}
                /\ Told(q) => Told(q)'
                /\ q \in byRunId => q \in byRunId' \/ Told(q)'

(* A run whose coroutine and origin the step leaves alone. *)
LEMMA FollowedStays ==
  ASSUME NEW q \in Runs, RunFollowed(q), StillFollowed(q),
         pc'[q] = pc[q], origin'[q] = origin[q], outcome'[q] = outcome[q]
  PROVE  RunFollowed(q)'
BY DEF RunFollowed, StillFollowed, Remote

(* A run that is executed on its server's own account, or not yet. *)
LEMMA UnfollowedStays ==
  ASSUME NEW q \in Runs, ~Remote(q)', pc'[q] \notin {"reporting", "deferred"},
         pc'[q] \in BeforeBackup => origin'[q] = "none"
  PROVE  RunFollowed(q)'
BY DEF RunFollowed

LEMMA SettleTells ==
  ASSUME EventType, NEW step, NEW c, Settle(step, c), UNCHANGED sent,
         UNCHANGED lost, NEW q \in Runs
  PROVE  /\ Told(q) => Told(q)'
         /\ q \in byRunId => Told(q)'
BY DEF Settle, Told, EventType

LEMMA TellTells ==
  ASSUME EventType, NEW r \in Runs, NEW event, Tell(r, event), r \notin lost
  PROVE  /\ sent'[r] # {}
         /\ \A q \in Runs : sent[q] \subseteq sent'[q]
BY DEF Tell, EventType

LEMMA StillStep ==
  ASSUME TellInv, EventType, [Next]_vars, NEW q \in Runs
  PROVE  StillFollowed(q)
<1> USE DEF StillFollowed
<1>1. ASSUME UNCHANGED <<sent, pending, lost>>, byRunId \subseteq byRunId'
      PROVE  StillFollowed(q)
  BY <1>1 DEF Told
<1>2. ASSUME NEW step, NEW c, Settle(step, c), UNCHANGED <<sent, lost>>
      PROVE  StillFollowed(q)
  BY <1>2, SettleTells
<1>3. ASSUME NEW r \in Runs, SendThrows(r) PROVE StillFollowed(q)
  BY <1>3 DEF SendThrows
<1>4. ASSUME NEW r \in Runs, NEW event, Tell(r, event), UNCHANGED lost,
             \A p \in Runs \ {r} : pending[p] \subseteq pending'[p],
             \A p \in Runs \ {r} : p \in byRunId => p \in byRunId'
      PROVE  StillFollowed(q)
  <2>1. CASE lost = {} /\ q = r
    BY <1>4, <2>1, TellTells DEF Told
  <2>2. CASE lost = {} /\ q # r
    <3>1. sent[q] \subseteq sent'[q]
      BY <1>4, <2>2, TellTells
    <3> QED BY <1>4, <2>2, <3>1 DEF Told
  <2> QED BY <1>4, <2>1, <2>2
<1>5. ASSUME NEW r \in Runs, Told(r)' \/ lost' # {} \/ ~(r \in byRunId),
             UNCHANGED registryVars \/ Unregister(r), UNCHANGED lost,
             \A p \in Runs : Told(p) => Told(p)'
      PROVE  StillFollowed(q)
  BY <1>5 DEF Unregister, registryVars
<1>6. ASSUME NEW r \in Runs, Arrives(r) \/ LeaveQueue(r)
      PROVE  StillFollowed(q)
  BY <1>1, <1>6 DEF Arrives, StartBackup, ExecuteSchedule, RunLocally, RunFromUi,
                    LeaveQueue, registryVars, eventVars
<1>7. ASSUME NEW r \in Runs, Resumes(r) PROVE StillFollowed(q)
  <2> USE DEF registryVars, eventVars
  <2>1. CASE Enqueue(r) \/ Refuse(r) \/ Reserve(r) \/ TakeLock(r)
             \/ LockRefused(r) \/ Prepare(r) \/ BackupProduced(r)
             \/ UploadCancelled(r) \/ Release(r) \/ LocalReturns(r)
    BY <1>1, <2>1 DEF Enqueue, Refuse, Reserve, TakeLock, LockRefused, Prepare,
                      BackupProduced, UploadCancelled, Release, LocalReturns,
                      Register
  <2>2. CASE Dequeue(r) \/ DequeueNothing(r) \/ Dispatch(r)
             \/ DispatchThrows(r) \/ DispatchReturns(r) \/ Requeue(r)
    BY <1>1, <2>2 DEF Dequeue, DequeueNothing, Dispatch, DispatchThrows,
                      DispatchReturns, Requeue, Register
  <2>3. CASE ReserveThrows(r)
    <3>1. /\ UNCHANGED <<sent, lost, byRunId>>
          /\ UNCHANGED pending
             \/ pending' = [p \in Runs |-> IF p \in byRunId
                                          THEN pending[p] \cup {"failed"}
                                          ELSE pending[p]]
      BY <2>3 DEF ReserveThrows
    <3> QED BY <3>1 DEF Told
  <2>4. CASE BackupFails(r) \/ StopCancelled(r) \/ BackupCompletes(r)
             \/ UiReturns(r)
    BY <1>2, <2>4 DEF BackupFails, Fail, StopCancelled, BackupCompletes, UiReturns
  <2>5. CASE LegacyReturns(r)
    <3>1. PICK event : Tell(r, event)
      BY <2>5 DEF LegacyReturns
    <3>2. \A p \in Runs : pending[p] \subseteq pending'[p]
      <4>1. CASE UNCHANGED pending
        BY <4>1
      <4>2. CASE Fail
        BY <4>2 DEF Fail, Settle, EventType
      <4> QED BY <2>5, <4>1, <4>2 DEF LegacyReturns
    <3>3. UNCHANGED lost /\ \A p \in Runs \ {r} : p \in byRunId => p \in byRunId'
      BY <2>5 DEF LegacyReturns, Unregister
    <3> QED BY <1>4, <3>1, <3>2, <3>3
  <2>6. CASE LegacyThrows(r) \/ ReportThrows(r)
    BY <1>3, <2>6 DEF LegacyThrows, ReportThrows
  <2>7. CASE ReportFailure(r) \/ DispatchDrops(r)
    <3>1. /\ Tell(r, "failed") \/ UNCHANGED sent
          /\ UNCHANGED <<registryVars, pending, lost>>
      BY <2>7 DEF ReportFailure, DispatchDrops
    <3>2. CASE Tell(r, "failed")
      BY <1>4, <3>1, <3>2
    <3>3. CASE UNCHANGED sent
      BY <1>1, <3>1, <3>3
    <3> QED BY <3>1, <3>2, <3>3
  <2>8. CASE FailureReported(r)
    BY <1>2, <2>8 DEF FailureReported, Fail
  <2>9. CASE StartReturns(r) \/ DeferredCleanup(r)
    <3>1. /\ UNCHANGED <<sent, pending, lost>>
          /\ UNCHANGED registryVars \/ Unregister(r)
          /\ (origin[r] = "start" /\ outcome[r] = "completed") \/ pc[r] = "deferred"
      BY <2>9 DEF StartReturns, DeferredCleanup, Finalize
    <3>2. Told(r) \/ lost # {}
      BY <3>1 DEF TellInv, RunFollowed, Remote
    <3> QED BY <1>5, <3>1, <3>2 DEF Told
  <2> QED BY <1>7, <2>1, <2>2, <2>3, <2>4, <2>5, <2>6, <2>7, <2>8, <2>9
          DEF Resumes
<1>8. ASSUME NEW r \in Runs, NEW event \in Events, Deliver(r, event)
      PROVE  StillFollowed(q)
  <2>1. /\ Tell(r, event) /\ UNCHANGED lost
        /\ \A p \in Runs \ {r} : pending'[p] = pending[p]
        /\ \A p \in Runs \ {r} : p \in byRunId => p \in byRunId'
    BY <1>8 DEF Deliver, Unregister, EventType
  <2> QED BY <1>4, <2>1
<1>9. ASSUME NEW r \in Runs, NEW event \in Events, DeliverThrows(r, event)
      PROVE  StillFollowed(q)
  BY <1>3, <1>9 DEF DeliverThrows
<1>10. ASSUME NEW r \in Runs, CancelSchedule(r) PROVE StillFollowed(q)
  <2>1. /\ sent' = [sent EXCEPT ![r] = @ \cup {"scheduleCancelled"}]
        /\ UNCHANGED <<pending, lost>> /\ Unregister(r)
    BY <1>10 DEF CancelSchedule
  <2> QED BY <1>5, <2>1 DEF Told, EventType
<1>11. ASSUME NEW s \in Schedules, CancelExecution(s) PROVE StillFollowed(q)
  BY <1>1, <1>11 DEF CancelExecution, registryVars, eventVars
<1>12. CASE UNCHANGED vars
  BY <1>1, <1>12 DEF vars, registryVars, eventVars
<1> QED BY <1>6, <1>7, <1>8, <1>9, <1>10, <1>11, <1>12 DEF Next, Delivers

LEMMA TellInit == Init => TellInv
BY DEF Init, TellInv, RunFollowed, Remote

(* One step of the coroutine of r, for r itself. *)
LEMMA OwnStepFollowed ==
  ASSUME TellInv, EventType, EndType, LockInv, LifeInv, NEW r \in Runs,
         Resumes(r), StillFollowed(r)
  PROVE  RunFollowed(r)'
<1> USE DEF BeforeBackup, Goto, Ends, GiveUp, Executes
<1>0. /\ RunFollowed(r) /\ StillFollowed(r)
      /\ pc \in [Runs -> Waits] /\ origin \in [Runs -> Origins \cup {"none"}]
      /\ outcome \in [Runs -> Outcomes]
      /\ outcome[r] = "none" <=> pc[r] \in Underway
  BY DEF TellInv, LockInv, EndType, LifeInv
<1>1. CASE Enqueue(r) \/ Refuse(r) \/ ReserveThrows(r) \/ DispatchThrows(r)
           \/ DispatchReturns(r) \/ Requeue(r)
  <2>1. /\ origin'[r] = "none" /\ pc'[r] \notin {"reporting", "deferred"}
    BY <1>0, <1>1 DEF RunFollowed, Enqueue, Refuse, ReserveThrows,
                      DispatchThrows, DispatchReturns, Requeue
  <2> QED BY <2>1, UnfollowedStays DEF Remote
<1>2. CASE DispatchDrops(r)
  <2>1. /\ origin'[r] = "none" /\ pc'[r] \notin {"reporting", "deferred"}
    BY <1>0, <1>2 DEF RunFollowed, DispatchDrops, Drain
  <2> QED BY <2>1, UnfollowedStays DEF Remote
<1>3. CASE Reserve(r) \/ Dispatch(r)
  <2>1. /\ pc'[r] = "loading" /\ r \in byRunId' /\ outcome'[r] = "none"
    BY <1>0, <1>3 DEF Reserve, Dispatch, Register, Underway
  <2> QED BY <2>1 DEF RunFollowed
<1>4. CASE TakeLock(r) \/ LockRefused(r) \/ Prepare(r) \/ BackupFails(r)
           \/ BackupProduced(r) \/ UploadCancelled(r) \/ StopCancelled(r)
           \/ Release(r)
  <2>1. /\ origin' = origin /\ pc'[r] \in InBackup \cup {"returned"}
        /\ outcome'[r] = "completed" => outcome[r] = "completed"
    BY <1>0, <1>4 DEF TakeLock, LockRefused, Prepare, BackupFails,
                      BackupProduced, UploadCancelled, StopCancelled, Release
  <2> QED BY <1>0, <2>1 DEF RunFollowed, StillFollowed, Remote
<1>5. CASE BackupCompletes(r)
  <2>1. /\ origin' = origin /\ pc'[r] = "releasing"
        /\ Settle("completed", FALSE) /\ UNCHANGED <<sent, lost>>
    BY <1>0, <1>5 DEF BackupCompletes
  <2>2. /\ Told(r) => Told(r)'
        /\ r \in byRunId => Told(r)'
    BY <2>1, SettleTells
  <2> QED BY <1>0, <2>1, <2>2 DEF RunFollowed, StillFollowed, Remote
<1>6. CASE LocalReturns(r) \/ UiReturns(r)
  <2>1. /\ origin'[r] \in {"timer", "local", "ui"} /\ pc'[r] = "done"
    BY <1>0, <1>6 DEF LocalReturns, UiReturns
  <2> QED BY <2>1, UnfollowedStays DEF Remote
<1>7. CASE LegacyReturns(r)
  <2>1. /\ pc'[r] = "done" /\ UNCHANGED lost
        /\ Tell(r, "completed") \/ Tell(r, "failed")
    BY <1>0, <1>7 DEF LegacyReturns
  <2>2. lost = {} => Told(r)'
    BY <2>1, TellTells DEF Told
  <2> QED BY <2>1, <2>2 DEF RunFollowed
<1>8. CASE LegacyThrows(r)
  <2>1. pc'[r] = "done" /\ lost' # {}
    BY <1>0, <1>8 DEF LegacyThrows, SendThrows
  <2> QED BY <2>1 DEF RunFollowed
<1>9. CASE ReportThrows(r)
  <2>1. /\ lost' # {} /\ origin'[r] = "start"
        /\ pc'[r] \in {"done", "dequeuing", "deferred", "reporting"}
    BY <1>0, <1>9 DEF ReportThrows, SendThrows, Finalize, Drain
  <2> QED BY <2>1 DEF RunFollowed
<1>10. CASE ReportFailure(r)
  <2>1. /\ pc'[r] = "reporting" /\ origin'[r] = "start" /\ UNCHANGED lost
        /\ Tell(r, "failed")
    BY <1>0, <1>10 DEF ReportFailure
  <2>2. lost = {} => Told(r)'
    BY <2>1, TellTells DEF Told
  <2> QED BY <2>1, <2>2 DEF RunFollowed
<1>11. CASE FailureReported(r) \/ StartReturns(r) \/ DeferredCleanup(r)
            \/ DequeueNothing(r)
  <2>1. /\ origin' = origin /\ outcome' = outcome
        /\ pc'[r] \in {"done", "dequeuing", "deferred"}
        /\ \/ pc[r] \in {"reporting", "deferred", "dequeuing"}
           \/ origin[r] = "start" /\ outcome[r] = "completed"
        /\ pc[r] = "dequeuing" => pc'[r] = "done"
    BY <1>0, <1>11 DEF FailureReported, StartReturns, DeferredCleanup,
                       DequeueNothing, Finalize, Drain
  <2> QED BY <1>0, <2>1 DEF RunFollowed, StillFollowed, Remote
<1>12. CASE Dequeue(r)
  <2>1. /\ pc[r] = "dequeuing" /\ origin' = origin /\ outcome' = outcome
        /\ pc' = [pc EXCEPT ![r] = "done", ![Head(queue)] = "dispatching"]
        /\ queue # <<>>
    BY <1>12 DEF Dequeue, Q!HandOut
  <2>2. Head(queue) # r
    <3>1. queue \in Seq(Runs) /\ OnceFrom(queue, Queued)
      BY DEF LockInv, QueueOnce
    <3>2. Head(queue) \in Queued
      BY <2>1, <3>1, TailOnce
    <3> QED BY <2>1, <3>2 DEF Queued
  <2>3. pc'[r] = "done"
    BY <1>0, <2>1, <2>2
  <2> QED BY <1>0, <2>1, <2>3 DEF RunFollowed, StillFollowed, Remote
<1> QED BY <1>1, <1>2, <1>3, <1>4, <1>5, <1>6, <1>7, <1>8, <1>9, <1>10, <1>11,
           <1>12 DEF Resumes

LEMMA TellStep ==
  TellInv /\ EventType /\ EndType /\ LockInv /\ LifeInv /\ [Next]_vars => TellInv'
<1> SUFFICES ASSUME TellInv, EventType, EndType, LockInv, LifeInv, [Next]_vars,
                    NEW q \in Runs
             PROVE  RunFollowed(q)'
  BY DEF TellInv
<1>0. RunFollowed(q) /\ StillFollowed(q)
  BY StillStep DEF TellInv
<1>1. ASSUME pc'[q] = pc[q], origin'[q] = origin[q], outcome'[q] = outcome[q]
      PROVE  RunFollowed(q)'
  BY <1>0, <1>1, FollowedStays
<1>2. ASSUME NEW r \in Runs, Arrives(r) PROVE RunFollowed(q)'
  <2>1. CASE q = r
    <3>1. /\ pc'[q] \notin {"reporting", "deferred"} /\ ~Remote(q)'
          /\ pc'[q] \in BeforeBackup => origin'[q] = "none"
      BY <1>0, <1>2, <2>1
      DEF Arrives, StartBackup, ExecuteSchedule, RunLocally, RunFromUi,
          RunFollowed, Remote, BeforeBackup, Goto, Ends, GiveUp, Executes,
          LockInv, EndType
    <3> QED BY <3>1, UnfollowedStays
  <2>2. CASE q # r
    BY <1>1, <1>2, <2>2
    DEF Arrives, StartBackup, ExecuteSchedule, RunLocally, RunFromUi, Goto,
        Ends, GiveUp, Executes, LockInv, EndType
  <2> QED BY <2>1, <2>2
<1>3. ASSUME NEW r \in Runs, Resumes(r) PROVE RunFollowed(q)'
  <2>1. CASE q = r
    BY <1>0, <1>3, <2>1, OwnStepFollowed
  <2>2. CASE q # r /\ ~Dequeue(r)
    <3>1. pc'[q] = pc[q] /\ outcome'[q] = outcome[q]
      BY <1>3, <2>2, ResumptionsMove DEF MovesAlong
    <3>2. origin'[q] = origin[q]
      BY <1>3, <2>2
      DEF Resumes, Enqueue, Refuse, Reserve, ReserveThrows, TakeLock,
          LockRefused, Prepare, BackupFails, BackupProduced, UploadCancelled,
          StopCancelled, BackupCompletes, Release, LocalReturns, UiReturns,
          LegacyReturns, LegacyThrows, ReportFailure, FailureReported,
          ReportThrows, StartReturns, DeferredCleanup, DequeueNothing,
          DispatchDrops, Dispatch, DispatchThrows, DispatchReturns, Requeue,
          GiveUp, Executes, EndType
    <3> QED BY <1>1, <3>1, <3>2
  <2>3. CASE q # r /\ Dequeue(r)
    <3>1. /\ origin' = origin /\ outcome' = outcome /\ queue # <<>>
          /\ pc' = [pc EXCEPT ![r] = "done", ![Head(queue)] = "dispatching"]
      BY <2>3 DEF Dequeue, Q!HandOut
    <3>2. CASE q = Head(queue)
      <4>1. queue \in Seq(Runs) /\ OnceFrom(queue, Queued)
        BY DEF LockInv, QueueOnce
      <4>2. pc[q] = "queued"
        <5>1. Head(queue) \in Queued
          BY <3>1, <4>1, TailOnce
        <5> QED BY <3>2, <5>1 DEF Queued
      <4>3. pc'[q] = "dispatching" /\ origin'[q] = "none"
        BY <1>0, <2>3, <3>1, <3>2, <4>2 DEF LockInv, RunFollowed, BeforeBackup
      <4> QED BY <4>3, UnfollowedStays DEF Remote
    <3>3. CASE q # Head(queue)
      BY <1>1, <2>3, <3>1, <3>3 DEF LockInv
    <3> QED BY <3>2, <3>3
  <2> QED BY <2>1, <2>2, <2>3
<1>4. ASSUME NEW r \in Runs, LeaveQueue(r) PROVE RunFollowed(q)'
  <2>1. pc[r] = "queued"
    BY <1>4 DEF LeaveQueue, Q!Withdraw, LockInv, QueueOnce, OnceFrom, Queued
  <2>2. /\ pc' = [pc EXCEPT ![r] = "done"] /\ origin' = origin
        /\ outcome' = [outcome EXCEPT ![r] = "cancelled"]
           \/ outcome' = [outcome EXCEPT ![r] = "dropped"]
    BY <1>4 DEF LeaveQueue, GiveUp, Goto, Ends
  <2>3. CASE q = r
    <3>1. origin'[q] = "none" /\ pc'[q] = "done"
      BY <1>0, <2>1, <2>2, <2>3 DEF RunFollowed, BeforeBackup, LockInv
    <3> QED BY <3>1, UnfollowedStays DEF Remote
  <2>4. CASE q # r
    BY <1>1, <2>2, <2>4 DEF LockInv, EndType
  <2> QED BY <2>3, <2>4
<1>5. CASE UNCHANGED runVars
  BY <1>1, <1>5 DEF runVars
<1>6. ASSUME NEW r \in Runs, Delivers(r) \/ CancelSchedule(r)
      PROVE  UNCHANGED runVars
  BY <1>6 DEF Delivers, Deliver, DeliverThrows, CancelSchedule
<1>7. ASSUME NEW s \in Schedules, CancelExecution(s)
      PROVE  UNCHANGED runVars
  BY <1>7 DEF CancelExecution
<1>8. CASE UNCHANGED vars
  BY <1>5, <1>8 DEF vars
<1> QED BY <1>2, <1>3, <1>4, <1>5, <1>6, <1>7, <1>8 DEF Next

(* When the coroutine of a remote run is over, its client was told how it  *)
(* ended or is being told, unless a connection died: through every         *)
(* interleaving of slot, registry, deliveries, legacy cancellations and    *)
(* other runs that settle the slot in between.                             *)
THEOREM ClientsAreTold == Spec => []ClientIsTold
<1>1. TellInv => ClientIsTold
  BY DEF TellInv, RunFollowed, ClientIsTold, Told
<1>2. RestType => EventType /\ EndType
  BY DEF RestType
<1> QED BY RestInit, RestStep, LockInit, LockStep, LifeInit, LifeStep,
           TellInit, TellStep, <1>1, <1>2, PTL DEF Spec
=============================================================================
