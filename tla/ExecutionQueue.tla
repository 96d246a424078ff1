---------------------------- MODULE ExecutionQueue ----------------------------
(***************************************************************************)
(* ExecutionQueueService: the queue of remote executions, kept twice, in   *)
(* memory (`queue`, `scheduleIdsInQueue`) and in the SQLite table          *)
(* execution_queue_items (`rows`).  Every operation reads memory, awaits   *)
(* one statement on the table and only then writes memory, so operations   *)
(* of several coroutines (`tasks`) interleave between the two halves.      *)
(*                                                                         *)
(* Statements reach the table through one drift connection, which runs     *)
(* them in the order they were submitted (`statements`); the step that     *)
(* runs a statement also runs the code up to the next await.               *)
(***************************************************************************)
EXTENDS SequencesExt, Selection

CONSTANTS Items,          \* run ids; one that nothing refers to is a new uuid
          Schedules,
          SchedOf,        \* QueuedExecutionItem.scheduleId
          MaxQueueSize,
          NoItem,         \* no run id
          Tasks,          \* coroutines that call the service
          Housekeeper,    \* the one the housekeeping timer starts
          MaxRestarts     \* bound: number of crashes of the process

ASSUME QueueAssumption ==
  /\ SchedOf \in [Items -> Schedules]
  /\ MaxQueueSize \in Nat \ {0}
  /\ NoItem \notin Items
  /\ Housekeeper \in Tasks
  /\ MaxRestarts \in Nat

Callers == Tasks \ {Housekeeper}

(* The statement a task waits for; "idle" when it waits for none.          *)
Ops == {"idle", "tryInsert", "deleteHead", "reload", "deleteQueued",
        "deleteUnknown", "reloadAfterDelete", "deleteExpired"}

(* What the server told the client about a run since it was last accepted: *)
(* the backupDequeued reasons and the answer to cancelQueuedBackup.        *)
Reports == {"dispatched", "cancelled", "ttlExpired"}

VARIABLES queue,               \* _queue
          scheduleIdsInQueue,  \* _scheduleIdsInQueue
          rows,                \* execution_queue_items, ordered by id
          statements,          \* tasks whose statement the table has yet to run
          task,                \* what each coroutine awaits
          expired,             \* runs of the queue whose expiresAt has passed
          reported,            \* what was reported about each run
          restarts

vars == <<queue, scheduleIdsInQueue, rows, statements, task, expired,
          reported, restarts>>

Awaiting(op, item) == [op |-> op, item |-> item, todo |-> <<>>, batch |-> {}]
Idle == Awaiting("idle", NoItem)
Expiring(todo, batch) == [op |-> "deleteExpired", item |-> NoItem,
                          todo |-> todo, batch |-> batch]

SchedulesOf(s) == {SchedOf[i] : i \in Range(s)}

(* Seeded fault: the statement deletes nothing. *)
DeleteRowKeepsIt(table, i) == table

(* DELETE ... WHERE run_id = i: at most one row, run_id is unique. *)
DeleteRow(table, i) ==
  IF Contains(table, i)
  THEN RemoveAt(table, CHOOSE k \in DOMAIN table : table[k] = i)
  ELSE table

(* Seeded faults: the transaction does not look for the schedule again, or *)
(* does not count the rows again.                                          *)
RowAcceptedUncheckedSchedule(i) == Len(rows) < MaxQueueSize
RowAcceptedUncounted(i) == SchedOf[i] \notin SchedulesOf(rows)

(* The transaction of ExecutionQueueDao.tryInsert counts the rows and      *)
(* looks for the schedule again.                                           *)
RowAccepted(i) ==
  /\ Len(rows) < MaxQueueSize
  /\ SchedOf[i] \notin SchedulesOf(rows)

(* Seeded fault: rows loaded newest first. *)
LoadRowsNewestFirst(table) ==
  /\ queue' = Reverse(table)
  /\ scheduleIdsInQueue' = SchedulesOf(table)

(* loadOrderedFifo into the emptied memory. *)
LoadRows(table) ==
  /\ queue' = table
  /\ scheduleIdsInQueue' = SchedulesOf(table)

Submit(t, req) ==
  /\ task' = [task EXCEPT ![t] = req]
  /\ statements' = Append(statements, t)

(* The table runs the oldest statement; the task then awaits another one.  *)
Turn(t) == statements # <<>> /\ Head(statements) = t
Finish(t) ==
  /\ task' = [task EXCEPT ![t] = Idle]
  /\ statements' = Tail(statements)
Resubmit(t, req) ==
  /\ task' = [task EXCEPT ![t] = req]
  /\ statements' = Append(Tail(statements), t)

Report(S, what) ==
  reported' = [i \in Items |-> IF i \in S THEN reported[i] \cup {what}
                                          ELSE reported[i]]

(* Only the TTL of a run in the queue is ever looked at. *)
ForgetTtl == expired' = expired \cap Range(queue')

Referenced(i) ==
  \/ Contains(queue, i) \/ Contains(rows, i)
  \/ \E t \in Tasks : task[t].item = i \/ i \in task[t].batch
-----------------------------------------------------------------------------
Init ==
  /\ queue = <<>> /\ scheduleIdsInQueue = {} /\ rows = <<>>
  /\ statements = <<>> /\ task = [t \in Tasks |-> Idle]
  /\ expired = {} /\ reported = [i \in Items |-> {}]
  /\ restarts = 0

(* tryEnqueue up to its await.  The run id is new, except when the drain   *)
(* puts back a run it was just given: that one keeps its id.               *)
TryEnqueue(t, i) ==
  /\ task[t].op = "idle"
  /\ \/ ~Referenced(i)
     \/ /\ "dispatched" \in reported[i]
        /\ ~Contains(queue, i) /\ ~Contains(rows, i)
        /\ \A u \in Tasks : task[u].op = "tryInsert" => task[u].item # i
  /\ Len(queue) < MaxQueueSize
  /\ SchedOf[i] \notin scheduleIdsInQueue
  /\ Submit(t, Awaiting("tryInsert", i))
  /\ reported' = [reported EXCEPT ![i] = {}]
  /\ UNCHANGED <<queue, scheduleIdsInQueue, rows, expired, restarts>>

(* Seeded fault: the set of schedule ids receives the run id. *)
InsertCommittedRunId(t) ==
  /\ Turn(t) /\ task[t].op = "tryInsert"
  /\ LET i == task[t].item IN
       /\ RowAccepted(i)
       /\ rows' = Append(rows, i)
       /\ queue' = Append(queue, i)
       /\ scheduleIdsInQueue' = scheduleIdsInQueue \cup {i}
  /\ Finish(t)
  /\ UNCHANGED <<expired, reported, restarts>>

(* The row is inserted; the rest of tryEnqueue. *)
InsertCommitted(t) ==
  /\ Turn(t) /\ task[t].op = "tryInsert"
  /\ LET i == task[t].item IN
       /\ RowAccepted(i)
       /\ rows' = Append(rows, i)
       /\ queue' = Append(queue, i)
       /\ scheduleIdsInQueue' = scheduleIdsInQueue \cup {SchedOf[i]}
  /\ Finish(t)
  /\ UNCHANGED <<expired, reported, restarts>>

InsertRefused(t) ==
  /\ Turn(t) /\ task[t].op = "tryInsert"
  /\ ~RowAccepted(task[t].item)
  /\ Finish(t)
  /\ UNCHANGED <<queue, scheduleIdsInQueue, rows, expired, reported, restarts>>

(* Seeded fault: the newest run is taken. *)
DequeueNewest(t) ==
  /\ task[t].op = "idle"
  /\ queue # <<>>
  /\ Submit(t, Awaiting("deleteHead", Last(queue)))
  /\ UNCHANGED <<queue, scheduleIdsInQueue, rows, expired, reported, restarts>>

(* dequeue up to its await: the head of the memory queue is captured. *)
Dequeue(t) ==
  /\ task[t].op = "idle"
  /\ queue # <<>>
  /\ Submit(t, Awaiting("deleteHead", Head(queue)))
  /\ UNCHANGED <<queue, scheduleIdsInQueue, rows, expired, reported, restarts>>

(* A row was deleted: removeFirst, whatever is first now; return the head  *)
(* captured before.                                                        *)
HeadDeleted(t) ==
  /\ Turn(t) /\ task[t].op = "deleteHead"
  /\ LET i == task[t].item IN
       /\ Contains(rows, i)
       /\ rows' = DeleteRow(rows, i)
       /\ queue' = Tail(queue)
       /\ scheduleIdsInQueue' = scheduleIdsInQueue \ {SchedOf[i]}
       /\ Report({i}, "dispatched")
  /\ Finish(t) /\ ForgetTtl
  /\ UNCHANGED restarts

(* No row was deleted: memory is stale, load it again before retrying. *)
HeadGone(t) ==
  /\ Turn(t) /\ task[t].op = "deleteHead"
  /\ ~Contains(rows, task[t].item)
  /\ Resubmit(t, Awaiting("reload", NoItem))
  /\ UNCHANGED <<queue, scheduleIdsInQueue, rows, expired, reported, restarts>>

(* _reloadFromPersistence, then the next turn of the loop in dequeue. *)
Reloaded(t) ==
  /\ Turn(t) /\ task[t].op = "reload"
  /\ LoadRows(rows)
  /\ IF rows = <<>> THEN Finish(t)
                    ELSE Resubmit(t, Awaiting("deleteHead", Head(rows)))
  /\ ForgetTtl
  /\ UNCHANGED <<rows, reported, restarts>>

(* removeByRunId up to its await: memory decides which branch is taken. *)
RemoveByRunId(t, i) ==
  /\ task[t].op = "idle"
  /\ Submit(t, Awaiting(IF Contains(queue, i) THEN "deleteQueued"
                                              ELSE "deleteUnknown", i))
  /\ UNCHANGED <<queue, scheduleIdsInQueue, rows, expired, reported, restarts>>

(* The run was in memory: whatever the table answers, true is returned and *)
(* cancelQueuedBackup answers `cancelled`.                                 *)
QueuedRemoved(t) ==
  /\ Turn(t) /\ task[t].op = "deleteQueued"
  /\ LET i == task[t].item IN
       /\ rows' = DeleteRow(rows, i)
       /\ queue' = RemoveFirst(queue, i)
       /\ scheduleIdsInQueue' =
            IF Contains(queue, i) THEN scheduleIdsInQueue \ {SchedOf[i]}
                                  ELSE scheduleIdsInQueue
       /\ Report({i}, "cancelled")
  /\ Finish(t) /\ ForgetTtl
  /\ UNCHANGED restarts

(* The run was not in memory: false is returned unless a row was deleted. *)
UnknownRemoved(t) ==
  /\ Turn(t) /\ task[t].op = "deleteUnknown"
  /\ LET i == task[t].item IN
       /\ rows' = DeleteRow(rows, i)
       /\ IF Contains(rows, i) THEN Resubmit(t, Awaiting("reloadAfterDelete", i))
                               ELSE Finish(t)
  /\ UNCHANGED <<queue, scheduleIdsInQueue, expired, reported, restarts>>

ReloadedAfterDelete(t) ==
  /\ Turn(t) /\ task[t].op = "reloadAfterDelete"
  /\ LoadRows(rows)
  /\ Report({task[t].item}, "cancelled")
  /\ Finish(t) /\ ForgetTtl
  /\ UNCHANGED <<rows, restarts>>

(* Time passes the expiresAt of a run.  All runs wait equally long, so the *)
(* runs before it in the queue have expired already; a run put back while  *)
(* pruneExpired is under way does not expire again before it ends.         *)
TtlPasses(i) ==
  /\ Contains(queue, i) /\ i \notin expired
  /\ i \notin task[Housekeeper].batch
  /\ \E k \in DOMAIN queue :
       queue[k] = i /\ \A j \in 1..(k - 1) : queue[j] \in expired
  /\ expired' = expired \cup {i}
  /\ UNCHANGED <<queue, scheduleIdsInQueue, rows, statements, task, reported,
                 restarts>>

(* pruneExpired up to its first await: the expired runs are captured. *)
PruneExpired(t) ==
  /\ task[t].op = "idle"
  /\ LET todo == Only(queue, expired) IN
       /\ todo # <<>>
       /\ Submit(t, Expiring(todo, Range(todo)))
  /\ UNCHANGED <<queue, scheduleIdsInQueue, rows, expired, reported, restarts>>

(* Seeded fault: the rows are deleted, memory is not cleared. *)
UnexpiredForgotten(batch) == queue

(* _queue.removeWhere with the time pruneExpired started at. *)
Unexpired(batch) == Only(queue, Items \ (batch \cap expired))

(* One turn of the loop over the captured runs; after the last one, memory *)
(* is cleared of the runs that had expired and each is reported.           *)
ExpiredDeleted(t) ==
  /\ Turn(t) /\ task[t].op = "deleteExpired"
  /\ LET i == Head(task[t].todo) IN
       /\ rows' = DeleteRow(rows, i)
       /\ scheduleIdsInQueue' = scheduleIdsInQueue \ {SchedOf[i]}
  /\ IF Len(task[t].todo) > 1
       THEN /\ Resubmit(t, Expiring(Tail(task[t].todo), task[t].batch))
            /\ UNCHANGED <<queue, reported>>
       ELSE /\ queue' = Unexpired(task[t].batch)
            /\ Report(task[t].batch, "ttlExpired")
            /\ Finish(t)
  /\ ForgetTtl
  /\ UNCHANGED restarts

(* The process dies and is started again: what it kept in memory is gone,  *)
(* the statement that was running may or may not have been committed, and  *)
(* initialize, awaited before the socket server listens, loads the rows.   *)
Committed ==
  IF statements = <<>> THEN rows
  ELSE LET r == task[Head(statements)] IN
       CASE r.op \in {"deleteHead", "deleteQueued", "deleteUnknown"}
              -> DeleteRow(rows, r.item)
         [] r.op = "deleteExpired" -> DeleteRow(rows, Head(r.todo))
         [] r.op = "tryInsert" /\ RowAccepted(r.item) -> Append(rows, r.item)
         [] OTHER -> rows

Restart ==
  /\ restarts < MaxRestarts
  /\ restarts' = restarts + 1
  /\ rows' \in {rows, Committed}
  /\ LoadRows(rows')
  /\ task' = [t \in Tasks |-> Idle]
  /\ statements' = <<>>
  /\ ForgetTtl
  /\ UNCHANGED reported

StatementRuns(t) ==
  \/ InsertCommitted(t) \/ InsertRefused(t)
  \/ HeadDeleted(t) \/ HeadGone(t) \/ Reloaded(t)
  \/ QueuedRemoved(t) \/ UnknownRemoved(t) \/ ReloadedAfterDelete(t)
  \/ ExpiredDeleted(t)

Next ==
  \/ \E t \in Callers : Dequeue(t) \/ \E i \in Items : TryEnqueue(t, i)
                                                       \/ RemoveByRunId(t, i)
  \/ PruneExpired(Housekeeper)
  \/ \E t \in Tasks : StatementRuns(t)
  \/ \E i \in Items : TtlPasses(i)
  \/ Restart

Spec == Init /\ [][Next]_vars

(* The table answers every statement, and the housekeeping timer is        *)
(* periodic; nothing forces a client to start, cancel or a drain to run.   *)
Fairness ==
  /\ WF_vars(\E t \in Tasks : StatementRuns(t))
  /\ WF_vars(PruneExpired(Housekeeper))

FairSpec == Spec /\ Fairness
-----------------------------------------------------------------------------
TypeOK ==
  /\ queue \in Seq(Items) /\ rows \in Seq(Items)
  /\ scheduleIdsInQueue \subseteq Schedules
  /\ statements \in Seq(Tasks)
  /\ task \in [Tasks -> [op : Ops, item : Items \cup {NoItem},
                         todo : Seq(Items), batch : SUBSET Items]]
  /\ expired \subseteq Items
  /\ reported \in [Items -> SUBSET Reports]
  /\ restarts \in 0..MaxRestarts

(* A run that was handed to the drain has left the table, so no other      *)
(* drain, and no restart, can hand it out again.                           *)
DispatchedIsGone ==
  \A i \in Items : "dispatched" \in reported[i] => ~Contains(rows, i)

(* The queue never holds two runs of one schedule in the table, although   *)
(* the check of isScheduleQueued and the insertion are an await apart.     *)
NoScheduleTwice ==
  \A j, k \in DOMAIN rows : SchedOf[rows[j]] = SchedOf[rows[k]] => j = k

(* The table keeps to maxQueueSize, although isFull is read from memory    *)
(* before the await.                                                       *)
QueueBounded == Len(rows) <= MaxQueueSize

(* Every row is visible in memory, in the order of the table: no accepted  *)
(* run is out of reach of dequeue, getExecutionQueue or a cancellation.    *)
RowsVisible == rows = Only(queue, Range(rows))

Fifo == INSTANCE FifoQueue
          WITH waiting <- rows,
               handed <- {i \in Items : "dispatched" \in reported[i]}

(* The service keeps the promise of FifoQueue, the table standing for the  *)
(* waiting runs: dispatching is in order, whatever is cancelled, expires,  *)
(* is put back or is interrupted by a crash in the meantime.               *)
RefinesFifo == Fifo!Spec

(* A run whose TTL passed leaves the queue: it is dispatched, cancelled or *)
(* reported as expired, it does not wait for ever.                         *)
ExpiredLeaves == \A i \in Items : i \in expired ~> i \notin expired

(* removeByRunId answers true when it removed the run; a run that was      *)
(* reported cancelled while queued is never dispatched.                    *)
CancelledIsNotDispatched ==
  \A i \in Items : ~({"cancelled", "dispatched"} \subseteq reported[i])
=============================================================================
