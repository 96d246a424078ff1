------------------------ MODULE ExecutionQueueProofs ------------------------
(***************************************************************************)
(* For every set of runs, schedules and coroutines, and every size of the  *)
(* queue: no run is dispatched twice, no schedule waits twice, the table   *)
(* keeps to its bound (QueueInv), memory has every row in its place        *)
(* (MemoryInv), and the queue does what FifoQueue promises.                *)
(***************************************************************************)
EXTENDS ExecutionQueue, SequenceLemmas

(* The part of NoScheduleTwice that a sequence can have. *)
OncePerSchedule(s) ==
  \A j, k \in DOMAIN s : SchedOf[s[j]] = SchedOf[s[k]] => j = k

(* DeleteRow keeps a table a table, deletes the run, and brings nothing in. *)
LEMMA DeleteRowKeeps ==
  ASSUME NEW table \in Seq(Items), OncePerSchedule(table), NEW i
  PROVE  /\ DeleteRow(table, i) \in Seq(Items)
         /\ Len(DeleteRow(table, i)) \in 0..Len(table)
         /\ OncePerSchedule(DeleteRow(table, i))
         /\ ~Contains(DeleteRow(table, i), i)
         /\ \A j : Contains(DeleteRow(table, i), j) => Contains(table, j)
<1>0. Len(table) \in Nat /\ DOMAIN table = 1..Len(table)
  BY LenProperties
<1>1. CASE ~Contains(table, i)
  BY <1>0, <1>1 DEF DeleteRow
<1>2. CASE Contains(table, i)
  <2> DEFINE k == CHOOSE n \in DOMAIN table : table[n] = i
             t == RemoveAt(table, k)
  <2>1. k \in 1..Len(table) /\ table[k] = i
    BY <1>0, <1>2 DEF Contains
  <2>2. DeleteRow(table, i) = t
    BY <1>2 DEF DeleteRow
  <2> HIDE DEF k
  <2>3. /\ t \in Seq(Items)
        /\ Len(t) = Len(table) - 1
        /\ \A j \in 1..Len(t) : t[j] = IF j < k THEN table[j] ELSE table[j + 1]
    BY <2>1, RemoveAtElements
  <2> HIDE DEF t
  <2>4. DOMAIN t = 1..Len(t)
    BY <2>3, LenProperties
  <2> DEFINE from(j) == IF j < k THEN j ELSE j + 1
  <2>5. ASSUME NEW j \in 1..Len(t)
        PROVE  from(j) \in 1..Len(table) /\ from(j) # k /\ t[j] = table[from(j)]
    BY <1>0, <2>1, <2>3
  <2>6. ASSUME NEW j \in 1..Len(t), NEW l \in 1..Len(t), from(j) = from(l)
        PROVE  j = l
    BY <2>6, <1>0, <2>1, <2>3
  <2> HIDE DEF from
  <2>7. OncePerSchedule(t)
    BY <1>0, <2>4, <2>5, <2>6 DEF OncePerSchedule
  <2>8. ~Contains(t, i)
    BY <1>0, <2>1, <2>5 DEF Contains, OncePerSchedule
  <2>9. \A j : Contains(t, j) => Contains(table, j)
    BY <2>5 DEF Contains
  <2> QED BY <1>0, <2>1, <2>2, <2>3, <2>7, <2>8, <2>9
<1> QED BY <1>1, <1>2
-----------------------------------------------------------------------------
(* A run whose insertion is under way is not in the table, was not         *)
(* dispatched since, and no other task is inserting it: without this,      *)
(* DispatchedIsGone would not survive InsertCommitted.                     *)
PendingInsertsAreNew ==
  \A t \in Tasks : task[t].op = "tryInsert" =>
    /\ task[t].item \in Items
    /\ ~Contains(rows, task[t].item)
    /\ "dispatched" \notin reported[task[t].item]
    /\ \A u \in Tasks :
         task[u].op = "tryInsert" /\ task[u].item = task[t].item => u = t

TableTypes ==
  /\ rows \in Seq(Items)
  /\ statements \in Seq(Tasks)
  /\ DOMAIN task = Tasks
  /\ reported \in [Items -> SUBSET Reports]

(* The inductive invariant. *)
QueueInv ==
  /\ TableTypes
  /\ NoScheduleTwice
  /\ QueueBounded
  /\ DispatchedIsGone
  /\ PendingInsertsAreNew

(* Every action but TryEnqueue, InsertCommitted and HeadDeleted leaves the *)
(* table alone or deletes from it, reports no dispatch, and starts no      *)
(* insertion; that is all the invariant needs to know of it.               *)
LEMMA QuietStep ==
  ASSUME QueueInv, NEW i,
         rows' = rows \/ rows' = DeleteRow(rows, i),
         statements' \in Seq(Tasks),
         DOMAIN task' = Tasks,
         reported' \in [Items -> SUBSET Reports],
         \A j \in Items : "dispatched" \in reported'[j]
                             => "dispatched" \in reported[j],
         \A u \in Tasks : task'[u].op = "tryInsert" => task'[u] = task[u]
  PROVE  QueueInv'
<1>1. OncePerSchedule(rows)
  BY DEF QueueInv, NoScheduleTwice, OncePerSchedule
<1>2. rows \in Seq(Items) /\ Len(rows) \in Nat
  BY LenProperties DEF QueueInv, TableTypes
<1>3. /\ rows' \in Seq(Items)
      /\ Len(rows') \in 0..Len(rows)
      /\ OncePerSchedule(rows')
      /\ \A j : Contains(rows', j) => Contains(rows, j)
  <2>1. CASE rows' = rows
    BY <2>1, <1>1, <1>2
  <2>2. CASE rows' = DeleteRow(rows, i)
    BY <2>2, <1>1, <1>2, DeleteRowKeeps
  <2> QED BY <2>1, <2>2
<1>4. TableTypes'
  BY <1>3 DEF TableTypes
<1>5. NoScheduleTwice'
  BY <1>3 DEF NoScheduleTwice, OncePerSchedule
<1>6. QueueBounded'
  BY <1>2, <1>3, QueueAssumption DEF QueueInv, QueueBounded
<1>7. DispatchedIsGone'
  BY <1>3 DEF QueueInv, DispatchedIsGone
<1>8. PendingInsertsAreNew'
  BY <1>3 DEF QueueInv, PendingInsertsAreNew
<1> QED BY <1>4, <1>5, <1>6, <1>7, <1>8 DEF QueueInv

(* What Submit, Finish and Resubmit do to the tasks and their statements.  *)
LEMMA TaskSteps ==
  ASSUME QueueInv, NEW t \in Tasks, NEW req
  PROVE  /\ Submit(t, req) =>
              /\ statements' \in Seq(Tasks) /\ DOMAIN task' = Tasks
              /\ task'[t] = req
              /\ \A u \in Tasks \ {t} : task'[u] = task[u]
         /\ Turn(t) /\ Resubmit(t, req) =>
              /\ statements' \in Seq(Tasks) /\ DOMAIN task' = Tasks
              /\ task'[t] = req
              /\ \A u \in Tasks \ {t} : task'[u] = task[u]
         /\ Turn(t) /\ Finish(t) =>
              /\ statements' \in Seq(Tasks) /\ DOMAIN task' = Tasks
              /\ task'[t] = Idle
              /\ \A u \in Tasks \ {t} : task'[u] = task[u]
<1>1. statements \in Seq(Tasks) /\ DOMAIN task = Tasks
  BY DEF QueueInv, TableTypes
<1>2. statements # <<>> => Tail(statements) \in Seq(Tasks)
  BY <1>1, HeadTailProperties
<1>3. \A q \in Seq(Tasks) : Append(q, t) \in Seq(Tasks)
  BY AppendProperties
<1> QED BY <1>1, <1>2, <1>3 DEF Submit, Turn, Resubmit, Finish

(* What tryInsert does to the table when it accepts a run.                 *)
LEMMA AcceptedRow ==
  ASSUME QueueInv, NEW i \in Items, RowAccepted(i), rows' = Append(rows, i)
  PROVE  /\ rows' \in Seq(Items)
         /\ NoScheduleTwice'
         /\ QueueBounded'
         /\ \A j : Contains(rows', j) <=> Contains(rows, j) \/ j = i
<1>1. rows \in Seq(Items)
  BY DEF QueueInv, TableTypes
<1>2. /\ Len(rows) \in Nat /\ DOMAIN rows = 1..Len(rows)
      /\ rows' \in Seq(Items) /\ Len(rows') = Len(rows) + 1
      /\ DOMAIN rows' = 1..(Len(rows) + 1)
      /\ \A k \in 1..Len(rows) : rows'[k] = rows[k]
      /\ rows'[Len(rows) + 1] = i
  BY <1>1, AppendProperties, LenProperties
<1>3. \A k \in 1..Len(rows) : SchedOf[rows[k]] # SchedOf[i]
  BY <1>2 DEF RowAccepted, SchedulesOf, Range
<1>4. NoScheduleTwice'
  BY <1>2, <1>3 DEF NoScheduleTwice, QueueInv
<1>5. QueueBounded'
  BY <1>2, QueueAssumption DEF QueueBounded, RowAccepted
<1>6. \A j : Contains(rows', j) <=> Contains(rows, j) \/ j = i
  BY <1>2 DEF Contains
<1> QED BY <1>2, <1>4, <1>5, <1>6
-----------------------------------------------------------------------------
LEMMA QueueInvInit == Init => QueueInv
<1> SUFFICES ASSUME Init PROVE QueueInv
  OBVIOUS
<1>1. rows = <<>> /\ Len(rows) = 0 /\ DOMAIN rows = {} /\ rows \in Seq(Items)
  BY EmptySeq, LenProperties DEF Init
<1>2. statements \in Seq(Tasks)
  BY EmptySeq DEF Init
<1> QED
  BY <1>1, <1>2, QueueAssumption
  DEF Init, QueueInv, TableTypes, NoScheduleTwice, QueueBounded,
      DispatchedIsGone, PendingInsertsAreNew, Reports, Idle, Awaiting

LEMMA QueueInvStep == QueueInv /\ [Next]_vars => QueueInv'
<1> SUFFICES ASSUME QueueInv, [Next]_vars PROVE QueueInv'
  OBVIOUS
<1> USE DEF Awaiting, Idle
<1>0. /\ rows \in Seq(Items) /\ statements \in Seq(Tasks)
      /\ DOMAIN task = Tasks /\ reported \in [Items -> SUBSET Reports]
  BY DEF QueueInv, TableTypes
<1>1. ASSUME NEW t \in Callers, Dequeue(t) PROVE QueueInv'
  BY <1>1, <1>0, QuietStep, TaskSteps DEF Dequeue, Callers
<1>2. ASSUME NEW t \in Callers, NEW i \in Items, TryEnqueue(t, i) PROVE QueueInv'
  <2>1. /\ statements' \in Seq(Tasks) /\ DOMAIN task' = Tasks
        /\ task'[t] = Awaiting("tryInsert", i)
        /\ \A u \in Tasks \ {t} : task'[u] = task[u]
    BY <1>2, TaskSteps DEF TryEnqueue, Callers
  <2>2. /\ ~Contains(rows, i)
        /\ \A u \in Tasks : task[u].op = "tryInsert" => task[u].item # i
    BY <1>2 DEF TryEnqueue, Referenced
  <2>3. rows' = rows /\ reported' = [reported EXCEPT ![i] = {}]
    BY <1>2 DEF TryEnqueue
  <2>4. TableTypes' /\ NoScheduleTwice' /\ QueueBounded'
    BY <1>0, <2>1, <2>3
    DEF TableTypes, NoScheduleTwice, QueueBounded, QueueInv, Reports
  <2>5. DispatchedIsGone'
    BY <1>0, <2>3 DEF DispatchedIsGone, QueueInv
  <2>6. PendingInsertsAreNew'
    BY <1>0, <2>1, <2>2, <2>3 DEF PendingInsertsAreNew, QueueInv, Callers
  <2> QED BY <2>4, <2>5, <2>6 DEF QueueInv
<1>3. ASSUME NEW t \in Callers, NEW i \in Items, RemoveByRunId(t, i)
      PROVE  QueueInv'
  BY <1>3, <1>0, QuietStep, TaskSteps DEF RemoveByRunId, Callers
<1>4. ASSUME PruneExpired(Housekeeper) PROVE QueueInv'
  BY <1>4, <1>0, QuietStep, TaskSteps, QueueAssumption DEF PruneExpired, Expiring
<1>5. ASSUME NEW t \in Tasks, InsertCommitted(t) PROVE QueueInv'
  <2> DEFINE i == task[t].item
  <2>1. /\ statements' \in Seq(Tasks) /\ DOMAIN task' = Tasks
        /\ task'[t] = Idle
        /\ \A u \in Tasks \ {t} : task'[u] = task[u]
    BY <1>5, TaskSteps DEF InsertCommitted
  <2>2. /\ i \in Items /\ ~Contains(rows, i) /\ "dispatched" \notin reported[i]
        /\ \A u \in Tasks :
             task[u].op = "tryInsert" /\ task[u].item = i => u = t
    BY <1>5 DEF InsertCommitted, QueueInv, PendingInsertsAreNew
  <2>3. /\ rows' = Append(rows, i) /\ reported' = reported
        /\ RowAccepted(i)
    BY <1>5 DEF InsertCommitted
  <2> HIDE DEF i
  <2>4. /\ rows' \in Seq(Items) /\ NoScheduleTwice' /\ QueueBounded'
        /\ \A j : Contains(rows', j) <=> Contains(rows, j) \/ j = i
    BY <2>2, <2>3, AcceptedRow
  <2>5. TableTypes'
    BY <1>0, <2>1, <2>3, <2>4 DEF TableTypes
  <2>6. DispatchedIsGone'
    BY <2>2, <2>3, <2>4 DEF DispatchedIsGone, QueueInv
  <2>7. PendingInsertsAreNew'
    BY <2>1, <2>2, <2>3, <2>4 DEF PendingInsertsAreNew, QueueInv, i
  <2> QED BY <2>4, <2>5, <2>6, <2>7 DEF QueueInv
<1>6. ASSUME NEW t \in Tasks, InsertRefused(t) PROVE QueueInv'
  BY <1>6, <1>0, QuietStep, TaskSteps DEF InsertRefused
<1>7. ASSUME NEW t \in Tasks, HeadDeleted(t) PROVE QueueInv'
  <2> DEFINE i == task[t].item
  <2>1. /\ statements' \in Seq(Tasks) /\ DOMAIN task' = Tasks
        /\ task'[t] = Idle
        /\ \A u \in Tasks \ {t} : task'[u] = task[u]
    BY <1>7, TaskSteps DEF HeadDeleted
  <2>2. /\ Contains(rows, i) /\ rows' = DeleteRow(rows, i)
        /\ Report({i}, "dispatched")
    BY <1>7 DEF HeadDeleted
  <2>3. OncePerSchedule(rows)
    BY DEF QueueInv, NoScheduleTwice, OncePerSchedule
  <2> HIDE DEF i
  <2>4. /\ rows' \in Seq(Items) /\ Len(rows') \in 0..Len(rows)
        /\ OncePerSchedule(rows') /\ ~Contains(rows', i)
        /\ \A j : Contains(rows', j) => Contains(rows, j)
    BY <1>0, <2>2, <2>3, DeleteRowKeeps
  <2>5. /\ reported' \in [Items -> SUBSET Reports]
        /\ \A j \in Items : j # i => reported'[j] = reported[j]
    BY <1>0, <2>2 DEF Report, Reports
  <2>6. TableTypes'
    BY <2>1, <2>4, <2>5 DEF TableTypes
  <2>7. NoScheduleTwice'
    BY <2>4 DEF NoScheduleTwice, OncePerSchedule
  <2>8. QueueBounded'
    BY <1>0, <2>4, LenProperties, QueueAssumption DEF QueueBounded, QueueInv
  <2>9. DispatchedIsGone'
    BY <2>4, <2>5 DEF DispatchedIsGone, QueueInv
  <2>10. PendingInsertsAreNew'
    BY <2>1, <2>2, <2>4, <2>5 DEF PendingInsertsAreNew, QueueInv
  <2> QED BY <2>6, <2>7, <2>8, <2>9, <2>10 DEF QueueInv
<1>8. ASSUME NEW t \in Tasks, HeadGone(t) PROVE QueueInv'
  BY <1>8, <1>0, QuietStep, TaskSteps DEF HeadGone
<1>9. ASSUME NEW t \in Tasks, Reloaded(t) PROVE QueueInv'
  BY <1>9, <1>0, QuietStep, TaskSteps DEF Reloaded
<1>10. ASSUME NEW t \in Tasks, QueuedRemoved(t) PROVE QueueInv'
  <2>1. /\ reported' \in [Items -> SUBSET Reports]
        /\ \A j \in Items : "dispatched" \in reported'[j]
                               => "dispatched" \in reported[j]
    BY <1>10, <1>0 DEF QueuedRemoved, Report, Reports
  <2> QED BY <1>10, <1>0, <2>1, QuietStep, TaskSteps DEF QueuedRemoved
<1>11. ASSUME NEW t \in Tasks, UnknownRemoved(t) PROVE QueueInv'
  BY <1>11, <1>0, QuietStep, TaskSteps DEF UnknownRemoved
<1>12. ASSUME NEW t \in Tasks, ReloadedAfterDelete(t) PROVE QueueInv'
  <2>1. /\ reported' \in [Items -> SUBSET Reports]
        /\ \A j \in Items : "dispatched" \in reported'[j]
                               => "dispatched" \in reported[j]
    BY <1>12, <1>0 DEF ReloadedAfterDelete, Report, Reports
  <2> QED BY <1>12, <1>0, <2>1, QuietStep, TaskSteps DEF ReloadedAfterDelete
<1>13. ASSUME NEW t \in Tasks, ExpiredDeleted(t) PROVE QueueInv'
  <2>1. /\ reported' \in [Items -> SUBSET Reports]
        /\ \A j \in Items : "dispatched" \in reported'[j]
                               => "dispatched" \in reported[j]
    BY <1>13, <1>0 DEF ExpiredDeleted, Report, Reports
  <2> QED BY <1>13, <1>0, <2>1, QuietStep, TaskSteps DEF ExpiredDeleted, Expiring
<1>14. ASSUME NEW i \in Items, TtlPasses(i) PROVE QueueInv'
  BY <1>14, <1>0, QuietStep DEF TtlPasses
<1>15. ASSUME Restart PROVE QueueInv'
  <2>1. /\ statements' \in Seq(Tasks) /\ DOMAIN task' = Tasks
        /\ reported' = reported
        /\ \A u \in Tasks : task'[u].op # "tryInsert"
    BY <1>15, EmptySeq DEF Restart
  <2>2. CASE rows' = rows
    BY <1>0, <2>1, <2>2, QuietStep
  <2>3. CASE rows' = Committed /\ statements # <<>>
    <3> DEFINE r == task[Head(statements)]
    <3>1. Head(statements) \in Tasks
      BY <1>0, <2>3, HeadTailProperties
    <3>2. \/ rows' = rows
          \/ \E i : rows' = DeleteRow(rows, i)
          \/ /\ r.op = "tryInsert" /\ RowAccepted(r.item)
             /\ rows' = Append(rows, r.item)
      BY <2>3 DEF Committed
    <3>3. CASE r.op = "tryInsert" /\ RowAccepted(r.item)
               /\ rows' = Append(rows, r.item)
      <4>1. /\ r.item \in Items /\ "dispatched" \notin reported[r.item]
        BY <3>1, <3>3 DEF QueueInv, PendingInsertsAreNew
      <4> HIDE DEF r
      <4>2. /\ rows' \in Seq(Items) /\ NoScheduleTwice' /\ QueueBounded'
            /\ \A j : Contains(rows', j) <=> Contains(rows, j) \/ j = r.item
        BY <3>3, <4>1, AcceptedRow
      <4>3. TableTypes' /\ DispatchedIsGone' /\ PendingInsertsAreNew'
        BY <1>0, <2>1, <4>1, <4>2
        DEF TableTypes, DispatchedIsGone, PendingInsertsAreNew, QueueInv
      <4> QED BY <4>2, <4>3 DEF QueueInv
    <3> QED BY <1>0, <2>1, <3>2, <3>3, QuietStep
  <2> QED BY <1>15, <2>2, <2>3 DEF Restart, Committed
<1>16. CASE UNCHANGED vars
  BY <1>0, <1>16, QuietStep DEF vars
<1> QED
  BY <1>1, <1>2, <1>3, <1>4, <1>5, <1>6, <1>7, <1>8, <1>9, <1>10, <1>11,
     <1>12, <1>13, <1>14, <1>15, <1>16
  DEF Next, StatementRuns

THEOREM QueueInvariant == Spec => []QueueInv
  BY QueueInvInit, QueueInvStep, PTL DEF Spec

(* A run handed to the drain has left the table, whatever drains,          *)
(* cancellations, prunings and crashes interleave with it.                 *)
THEOREM DispatchedOnce == Spec => []DispatchedIsGone
<1>1. QueueInv => DispatchedIsGone
  BY DEF QueueInv
<1> QED BY <1>1, QueueInvariant, PTL

(* One row for a schedule, although memory is looked at an await before     *)
(* the insertion.                                                          *)
THEOREM TableConsistent == Spec => []NoScheduleTwice
<1>1. QueueInv => NoScheduleTwice
  BY DEF QueueInv
<1> QED BY <1>1, QueueInvariant, PTL

(* At most maxQueueSize rows, although isFull is as old.                   *)
THEOREM BoundKept == Spec => []QueueBounded
<1>1. QueueInv => QueueBounded
  BY DEF QueueInv
<1> QED BY <1>1, QueueInvariant, PTL
-----------------------------------------------------------------------------
(* What memory knows of the table.                                         *)

Requests == [op : Ops, item : Items \cup {NoItem},
             todo : Seq(Items), batch : SUBSET Items]

(* The statements that are about one run. *)
RunOps == {"tryInsert", "deleteHead", "deleteQueued", "deleteUnknown",
           "reloadAfterDelete"}

RequestOK(t, req) ==
  /\ req \in Requests
  /\ req.op \in RunOps => req.item \in Items
  /\ req.op = "deleteExpired" => t = Housekeeper /\ req.todo # <<>>

(* A task waits in line once if it awaits a statement, else not at all.    *)
TasksWait ==
  /\ \A t \in Tasks : RequestOK(t, task[t])
  /\ IsInjective(statements)
  /\ \A t \in Tasks : t \in Range(statements) <=> task[t].op # "idle"

(* RowsVisible, in the form in which a step can be followed: memory has    *)
(* every row, in the order of the table, and no run twice.                 *)
MemoryCovers ==
  /\ IsInjective(queue)
  /\ Range(rows) \subseteq Range(queue)
  /\ \A a, b : Ahead(rows, a, b) => Ahead(queue, a, b)

(* The head that dequeue captured is still the head of memory when its row *)
(* is deleted, if the row is there: removeFirst removes the right run.     *)
HeadStaysHead ==
  \A t \in Tasks :
    task[t].op = "deleteHead" /\ task[t].item \in Range(rows)
      => queue # <<>> /\ Head(queue) = task[t].item

(* Whoever still wants to delete a run that is being put back does so      *)
(* before it is put back.                                                  *)
InsertsFollow ==
  \A t, u \in Tasks :
    task[t].op = "tryInsert" /\ task[u].op = "deleteHead"
      /\ task[u].item = task[t].item => Ahead(statements, u, t)

InsertsUnseen ==
  \A t \in Tasks : task[t].op = "tryInsert" => task[t].item \notin Range(queue)

(* What pruneExpired will remove from memory has left the table by then,   *)
(* or is still on its list.                                                *)
ExpiredCaptured ==
  \A t \in Tasks : task[t].op = "deleteExpired" =>
    \A i \in task[t].batch \cap expired :
      i \in Range(task[t].todo) \/ i \notin Range(rows)

MemoryInv ==
  /\ TypeOK
  /\ TasksWait
  /\ MemoryCovers
  /\ HeadStaysHead
  /\ InsertsFollow
  /\ InsertsUnseen
  /\ expired \subseteq Range(queue)
  /\ ExpiredCaptured

(* What Submit, Finish and Resubmit do to the line of the statements.      *)
LEMMA LineSteps ==
  ASSUME TypeOK, TasksWait, NEW t \in Tasks, NEW req, RequestOK(t, req),
         req.op # "idle",
         \/ task[t].op = "idle" /\ Submit(t, req)
         \/ Turn(t) /\ Resubmit(t, req)
  PROVE  /\ task' = [task EXCEPT ![t] = req] /\ task' \in [Tasks -> Requests]
         /\ statements' \in Seq(Tasks) /\ TasksWait'
         /\ \A u, v \in Tasks \ {t} :
              Ahead(statements, u, v) => Ahead(statements', u, v)
         /\ \A u \in Tasks \ {t} :
              task[u].op # "idle" => Ahead(statements', u, t)
<1> USE DEF TypeOK
<1>1. /\ statements \in Seq(Tasks) /\ IsInjective(statements)
      /\ \A u \in Tasks : u \in Range(statements) <=> task[u].op # "idle"
      /\ \A u \in Tasks : RequestOK(u, task[u])
      /\ DOMAIN task = Tasks
  BY DEF TasksWait
<1>2. task' = [task EXCEPT ![t] = req]
  BY DEF Submit, Resubmit
<1>3. task'[t] = req /\ \A u \in Tasks \ {t} : task'[u] = task[u]
  BY <1>1, <1>2
<1>4. task' \in [Tasks -> Requests]
  BY <1>1, <1>2 DEF RequestOK
<1>5. PICK line \in Seq(Tasks) :
        /\ IsInjective(line) /\ t \notin Range(line)
        /\ statements' = Append(line, t)
        /\ Range(line) \cup {t} = Range(statements) \cup {t}
        /\ \A u, v \in Tasks \ {t} : Ahead(statements, u, v) => Ahead(line, u, v)
  <2>1. CASE task[t].op = "idle" /\ Submit(t, req)
    BY <1>1, <2>1 DEF Submit
  <2>2. CASE Turn(t) /\ Resubmit(t, req)
    <3>1. /\ Tail(statements) \in Seq(Tasks)
          /\ Keeps(Tail(statements), statements, Tasks \ {t})
      BY <1>1, <2>2, TailKeeps DEF Turn
    <3>2. Range(statements) \subseteq Tasks
      BY <1>1, LenProperties, ElementOfSeq DEF Range
    <3> QED BY <2>2, <3>1, <3>2 DEF Keeps, Resubmit
  <2> QED BY <2>1, <2>2
<1>6. /\ statements' \in Seq(Tasks) /\ IsInjective(statements')
      /\ Range(statements') = Range(line) \cup {t}
      /\ \A a, b : Ahead(statements', a, b)
                     <=> Ahead(line, a, b) \/ (a \in Range(line) /\ b = t)
  BY <1>5, AppendAhead
<1>7. TasksWait'
  BY <1>1, <1>3, <1>5, <1>6 DEF TasksWait
<1>8. \A u \in Tasks \ {t} : task[u].op # "idle" => Ahead(statements', u, t)
  BY <1>1, <1>5, <1>6
<1> QED BY <1>2, <1>4, <1>5, <1>6, <1>7, <1>8

LEMMA LineFinish ==
  ASSUME TypeOK, TasksWait, NEW t \in Tasks, Turn(t), Finish(t)
  PROVE  /\ task' = [task EXCEPT ![t] = Idle] /\ task' \in [Tasks -> Requests]
         /\ statements' \in Seq(Tasks) /\ TasksWait'
         /\ \A u, v \in Tasks \ {t} :
              Ahead(statements, u, v) => Ahead(statements', u, v)
<1> USE DEF TypeOK
<1>1. /\ statements \in Seq(Tasks) /\ IsInjective(statements)
      /\ \A u \in Tasks : u \in Range(statements) <=> task[u].op # "idle"
      /\ \A u \in Tasks : RequestOK(u, task[u])
      /\ DOMAIN task = Tasks
  BY DEF TasksWait
<1>2. task' = [task EXCEPT ![t] = Idle]
  BY DEF Finish
<1>3. task'[t] = Idle /\ \A u \in Tasks \ {t} : task'[u] = task[u]
  BY <1>1, <1>2
<1>4. RequestOK(t, Idle) /\ Idle.op = "idle"
  BY EmptySeq DEF RequestOK, Requests, Idle, Awaiting, Ops, RunOps
<1>5. task' \in [Tasks -> Requests]
  BY <1>1, <1>2, <1>4 DEF RequestOK
<1>6. /\ statements' \in Seq(Tasks)
      /\ Keeps(statements', statements, Tasks \ {t})
  BY <1>1, TailKeeps DEF Turn, Finish
<1>7. IsInjective(statements') /\ Range(statements') = Range(statements) \cap (Tasks \ {t})
  BY <1>6 DEF Keeps
<1>8. TasksWait'
  BY <1>1, <1>3, <1>4, <1>7 DEF TasksWait
<1> QED BY <1>2, <1>5, <1>6, <1>8 DEF Keeps

(* What a step that lets no run into memory has to grant to the tasks: the *)
(* head of memory stays the head while its row is there.                   *)
HeadStays ==
  queue # <<>> /\ Head(queue) \in Range(rows')
    => queue' # <<>> /\ Head(queue') = Head(queue)

(* Memory and table lose runs, memory none that the table still has.       *)
LEMMA MemoryShrinks ==
  ASSUME MemoryCovers, rows \in Seq(Items), queue \in Seq(Items),
         rows' \in Seq(Items), queue' \in Seq(Items),
         NEW R, NEW S, Keeps(rows', rows, R), Keeps(queue', queue, S),
         Range(rows') \subseteq S
  PROVE  /\ MemoryCovers' /\ HeadStays
         /\ Range(rows') \subseteq Range(rows)
         /\ Range(queue') \subseteq Range(queue)
<1>1. Range(rows') \subseteq Range(rows) /\ Range(queue') = Range(queue) \cap S
      /\ IsInjective(rows') /\ IsInjective(queue')
  BY DEF Keeps
<1>2. ASSUME NEW a, NEW b, Ahead(rows', a, b)
      PROVE  Ahead(queue', a, b)
  <2>1. Ahead(queue, a, b)
    BY <1>2 DEF Keeps, MemoryCovers
  <2>2. a \in Range(rows') /\ b \in Range(rows')
    BY <1>1, <1>2, HeadFirst
  <2> QED BY <2>1, <2>2 DEF Keeps
<1>3. MemoryCovers'
  BY <1>1, <1>2 DEF MemoryCovers
<1>4. HeadStays
  BY HeadKept DEF HeadStays, MemoryCovers
<1> QED BY <1>1, <1>3, <1>4

(* Memory is emptied and loaded from the table. *)
LEMMA MemoryReloads ==
  ASSUME MemoryCovers, rows \in Seq(Items), queue \in Seq(Items),
         IsInjective(rows), rows' = rows, queue' = rows
  PROVE  /\ MemoryCovers' /\ HeadStays
         /\ Range(rows') \subseteq Range(rows)
         /\ Range(queue') \subseteq Range(queue)
<1>1. MemoryCovers' /\ Range(queue') \subseteq Range(queue)
  BY DEF MemoryCovers
<1>2. ASSUME queue # <<>>, Head(queue) \in Range(rows)
      PROVE  rows # <<>> /\ Head(rows) = Head(queue)
  <2>1. rows # <<>> /\ (Head(queue) = Head(rows) \/ Ahead(rows, Head(rows), Head(queue)))
    BY <1>2, HeadFirst
  <2> QED BY <1>2, <2>1, HeadFirst DEF MemoryCovers
<1> QED BY <1>1, <1>2 DEF HeadStays

(* A step that lets no run into memory, and after which no task is new in  *)
(* putting a run into the table.                                           *)
LEMMA QuietMemory ==
  ASSUME MemoryInv, NEW t \in Tasks,
         HeadStays, Range(rows') \subseteq Range(rows),
         queue' \in Seq(Items), IsInjective(queue'),
         Range(queue') \subseteq Range(queue), expired' \subseteq expired,
         \A u \in Tasks \ {t} : task'[u] = task[u],
         \A u, v \in Tasks \ {t} :
            Ahead(statements, u, v) => Ahead(statements', u, v),
         task'[t].op # "tryInsert",
         task'[t].op = "deleteHead"
            => queue' # <<>> /\ Head(queue') = task'[t].item,
         task'[t].op = "deleteExpired" =>
            \A i \in task'[t].batch \cap expired' :
               i \in Range(task'[t].todo) \/ i \notin Range(rows')
  PROVE  HeadStaysHead' /\ InsertsFollow' /\ InsertsUnseen' /\ ExpiredCaptured'
<1>1. HeadStaysHead'
  BY DEF MemoryInv, HeadStaysHead, HeadStays
<1>2. InsertsUnseen'
  BY DEF MemoryInv, InsertsUnseen
<1>3. InsertsFollow'
  <2> SUFFICES ASSUME NEW u \in Tasks, NEW v \in Tasks,
                      task'[u].op = "tryInsert", task'[v].op = "deleteHead",
                      task'[v].item = task'[u].item
               PROVE  Ahead(statements', v, u)
    BY DEF InsertsFollow
  <2>1. u # t
    OBVIOUS
  <2>2. v # t
    <3> SUFFICES ASSUME v = t PROVE FALSE
      OBVIOUS
    <3>1. task[u].item = Head(queue') /\ queue' # <<>>
      BY <2>1
    <3>2. Head(queue') \in Range(queue)
      BY <3>1, HeadFirst
    <3> QED BY <2>1, <3>1, <3>2 DEF MemoryInv, InsertsUnseen
  <2> QED BY <2>1, <2>2 DEF MemoryInv, InsertsFollow
<1>4. ExpiredCaptured'
  BY DEF MemoryInv, ExpiredCaptured
<1> QED BY <1>1, <1>2, <1>3, <1>4

LEMMA RowsOnce ==
  ASSUME QueueInv
  PROVE  rows \in Seq(Items) /\ IsInjective(rows)
  BY DEF QueueInv, TableTypes, NoScheduleTwice, IsInjective

LEMMA DeletedRow ==
  ASSUME NEW table \in Seq(Items), IsInjective(table), NEW i
  PROVE  /\ DeleteRow(table, i) \in Seq(Items)
         /\ Keeps(DeleteRow(table, i), table, Items \ {i})
<1>1. DOMAIN table = 1..Len(table) /\ \A k \in DOMAIN table : table[k] \in Items
  BY LenProperties, ElementOfSeq
<1>2. CASE Contains(table, i)
  <2> DEFINE k == CHOOSE n \in DOMAIN table : table[n] = i
  <2>1. k \in DOMAIN table /\ table[k] = i
    BY <1>1, <1>2 DEF Contains
  <2>2. DeleteRow(table, i) = RemoveAt(table, k)
    BY <1>2 DEF DeleteRow
  <2> HIDE DEF k
  <2> QED BY <2>1, <2>2, RemoveAtKeeps
<1>3. CASE ~Contains(table, i)
  <2>1. DeleteRow(table, i) = table /\ i \notin Range(table)
    BY <1>3, ContainsRange DEF DeleteRow
  <2>2. Keeps(table, table, Items \ {i})
    BY <1>1, <2>1 DEF Keeps, Range, Ahead
  <2> QED BY <2>1, <2>2
<1> QED BY <1>2, <1>3

(* All of a sequence is kept when it does not change. *)
LEMMA AllKept ==
  ASSUME NEW s \in Seq(Items), IsInjective(s)
  PROVE  Keeps(s, s, Items) /\ Range(s) \subseteq Items
<1>1. \A k \in DOMAIN s : s[k] \in Items
  BY LenProperties, ElementOfSeq
<1> QED BY <1>1 DEF Keeps, Range, Ahead
-----------------------------------------------------------------------------
LEMMA MemoryInit == Init => MemoryInv
<1> SUFFICES ASSUME Init PROVE MemoryInv
  OBVIOUS
<1>1. /\ queue = <<>> /\ rows = <<>> /\ statements = <<>> /\ <<>> \in Seq(Items)
      /\ <<>> \in Seq(Tasks) /\ expired = {} /\ scheduleIdsInQueue = {}
      /\ restarts = 0 /\ reported = [i \in Items |-> {}]
      /\ \A t \in Tasks : task[t] = Idle
      /\ task = [t \in Tasks |-> Idle]
  BY EmptySeq DEF Init
<1>2. DOMAIN <<>> = {}
  OBVIOUS
<1>3. \A t : RequestOK(t, Idle)
  BY EmptySeq DEF RequestOK, Requests, Idle, Awaiting, Ops, RunOps
<1>4. TypeOK
  BY <1>1, <1>3, QueueAssumption DEF TypeOK, Reports, RequestOK, Requests
<1>5. TasksWait
  BY <1>1, <1>2, <1>3 DEF TasksWait, Range, IsInjective, Idle, Awaiting
<1>6. MemoryCovers
  BY <1>1, <1>2 DEF MemoryCovers, Range, IsInjective, Ahead
<1>7. HeadStaysHead /\ InsertsFollow /\ InsertsUnseen /\ ExpiredCaptured
      /\ expired \subseteq Range(queue)
  BY <1>1 DEF HeadStaysHead, InsertsFollow, InsertsUnseen, ExpiredCaptured,
              Idle, Awaiting
<1> QED BY <1>4, <1>5, <1>6, <1>7 DEF MemoryInv

(* A caller begins an operation: memory and table are as before.           *)
LEMMA BeginsQuietly ==
  ASSUME QueueInv, MemoryInv, NEW t \in Tasks, NEW req, RequestOK(t, req),
         req.op \notin {"idle", "tryInsert"},
         req.op = "deleteHead" => queue # <<>> /\ req.item = Head(queue),
         req.op = "deleteExpired" => req.batch = Range(req.todo),
         \/ task[t].op = "idle" /\ Submit(t, req)
         \/ Turn(t) /\ Resubmit(t, req),
         UNCHANGED <<queue, scheduleIdsInQueue, rows, expired, reported, restarts>>
  PROVE  MemoryInv'
<1>1. /\ task' = [task EXCEPT ![t] = req] /\ task' \in [Tasks -> Requests]
      /\ statements' \in Seq(Tasks) /\ TasksWait'
      /\ \A u, v \in Tasks \ {t} :
           Ahead(statements, u, v) => Ahead(statements', u, v)
  BY LineSteps DEF MemoryInv
<1>2. task'[t] = req /\ \A u \in Tasks \ {t} : task'[u] = task[u]
  BY <1>1 DEF MemoryInv, TypeOK
<1>3. TypeOK'
  BY <1>1 DEF MemoryInv, TypeOK, Requests
<1>4. HeadStays /\ MemoryCovers' /\ expired' \subseteq Range(queue')
      /\ queue' \in Seq(Items) /\ IsInjective(queue')
  BY DEF HeadStays, MemoryInv, MemoryCovers, TypeOK
<1>5. HeadStaysHead' /\ InsertsFollow' /\ InsertsUnseen' /\ ExpiredCaptured'
  BY <1>1, <1>2, <1>4, QuietMemory
<1> QED BY <1>1, <1>3, <1>4, <1>5 DEF MemoryInv

(* A statement is done: the table loses at most run i, memory loses no run *)
(* that the table still has, or is loaded from it.                         *)
LEMMA DoneQuietly ==
  ASSUME QueueInv, MemoryInv, NEW t \in Tasks, NEW i,
         rows' = rows \/ rows' = DeleteRow(rows, i),
         \/ queue' = rows /\ rows' = rows
         \/ \E S : queue' \in Seq(Items) /\ Keeps(queue', queue, S)
                     /\ Range(rows') \subseteq S,
         expired' = expired \cap Range(queue'),
         scheduleIdsInQueue' \subseteq Schedules,
         reported' \in [Items -> SUBSET Reports], restarts' = restarts,
         NEW req, RequestOK(t, req),
         \/ req = Idle /\ Turn(t) /\ Finish(t)
         \/ req.op \notin {"idle", "tryInsert"} /\ Turn(t) /\ Resubmit(t, req),
         req.op = "deleteHead" => queue' # <<>> /\ Head(queue') = req.item,
         req.op = "deleteExpired" =>
            \A j \in req.batch \cap expired' :
               j \in Range(req.todo) \/ j \notin Range(rows')
  PROVE  MemoryInv'
<1>1. rows \in Seq(Items) /\ IsInjective(rows) /\ queue \in Seq(Items)
      /\ IsInjective(queue) /\ MemoryCovers /\ TypeOK /\ TasksWait
  BY RowsOnce DEF MemoryInv, TypeOK, MemoryCovers
<1>2. /\ task' = [task EXCEPT ![t] = req] /\ task' \in [Tasks -> Requests]
      /\ statements' \in Seq(Tasks) /\ TasksWait'
      /\ \A u, v \in Tasks \ {t} :
           Ahead(statements, u, v) => Ahead(statements', u, v)
  <2>1. CASE req = Idle /\ Turn(t) /\ Finish(t)
    BY <1>1, <2>1, LineFinish
  <2>2. CASE req.op \notin {"idle", "tryInsert"} /\ Turn(t) /\ Resubmit(t, req)
    BY <1>1, <2>2, LineSteps
  <2> QED BY <2>1, <2>2
<1>3. task'[t] = req /\ \A u \in Tasks \ {t} : task'[u] = task[u]
  BY <1>1, <1>2 DEF TypeOK
<1>4. PICK R : rows' \in Seq(Items) /\ Keeps(rows', rows, R)
  <2>1. CASE rows' = rows
    <3>1. Keeps(rows', rows, Items)
      BY <1>1, <2>1, AllKept
    <3> QED BY <1>1, <2>1, <3>1
  <2>2. CASE rows' = DeleteRow(rows, i)
    <3>1. rows' \in Seq(Items) /\ Keeps(rows', rows, Items \ {i})
      BY <1>1, <2>2, DeletedRow
    <3> QED BY <3>1
  <2> QED BY <2>1, <2>2
<1>5. /\ MemoryCovers' /\ HeadStays
      /\ Range(rows') \subseteq Range(rows)
      /\ Range(queue') \subseteq Range(queue)
      /\ queue' \in Seq(Items)
  <2>1. CASE queue' = rows /\ rows' = rows
    BY <1>1, <2>1, MemoryReloads
  <2>2. ASSUME NEW S, queue' \in Seq(Items), Keeps(queue', queue, S),
               Range(rows') \subseteq S
        PROVE  /\ MemoryCovers' /\ HeadStays
               /\ Range(rows') \subseteq Range(rows)
               /\ Range(queue') \subseteq Range(queue)
    BY <1>1, <1>4, <2>2, MemoryShrinks
  <2> QED BY <2>1, <2>2
<1>6. TypeOK'
  <2>1. Range(queue') \subseteq Items
    BY <1>5, LenProperties, ElementOfSeq DEF Range
  <2> QED BY <1>1, <1>2, <1>4, <1>5, <2>1 DEF TypeOK, Requests
<1>7. req.op # "tryInsert"
  BY DEF Idle, Awaiting
<1>8. HeadStaysHead' /\ InsertsFollow' /\ InsertsUnseen' /\ ExpiredCaptured'
  <2>1. IsInjective(queue') /\ expired' \subseteq expired
    BY <1>5 DEF MemoryCovers
  <2> QED BY <1>2, <1>3, <1>5, <1>7, <2>1, QuietMemory
<1> QED BY <1>2, <1>5, <1>6, <1>8 DEF MemoryInv

LEMMA Loaded ==
  ASSUME NEW table \in Seq(Items)
  PROVE  SchedulesOf(table) \subseteq Schedules
<1>1. \A i \in Range(table) : i \in Items
  BY LenProperties, ElementOfSeq DEF Range
<1> QED BY <1>1, QueueAssumption DEF SchedulesOf

LEMMA Reported ==
  ASSUME TypeOK, NEW S, NEW what \in Reports, Report(S, what)
  PROVE  reported' \in [Items -> SUBSET Reports]
  BY DEF Report, TypeOK

LEMMA MemoryStep == QueueInv /\ QueueInv' /\ MemoryInv /\ [Next]_vars => MemoryInv'
<1> SUFFICES ASSUME QueueInv, QueueInv', MemoryInv, [Next]_vars
             PROVE  MemoryInv'
  OBVIOUS
<1>0. /\ TypeOK /\ TasksWait /\ MemoryCovers
      /\ queue \in Seq(Items) /\ IsInjective(queue)
      /\ rows \in Seq(Items) /\ IsInjective(rows)
      /\ \A t \in Tasks : RequestOK(t, task[t])
      /\ Housekeeper \in Tasks /\ Callers \subseteq Tasks
  BY RowsOnce, QueueAssumption
  DEF MemoryInv, TypeOK, MemoryCovers, TasksWait, Callers
<1>a. ASSUME NEW op \in Ops, NEW i \in Items \cup {NoItem}, NEW t,
             op # "deleteExpired", op \in RunOps => i \in Items
      PROVE  RequestOK(t, Awaiting(op, i))
  BY <1>a, EmptySeq DEF RequestOK, Requests, Awaiting
<1>b. \A t : RequestOK(t, Idle)
  BY EmptySeq DEF RequestOK, Requests, Idle, Awaiting, Ops, RunOps
<1>c. /\ queue # <<>> => Head(queue) \in Items
      /\ rows # <<>> => Head(rows) \in Items
  BY <1>0, HeadTailProperties
<1>1. ASSUME NEW t \in Callers, Dequeue(t) PROVE MemoryInv'
  <2> DEFINE req == Awaiting("deleteHead", Head(queue))
  <2>1. queue # <<>> /\ RequestOK(t, req)
    BY <1>1, <1>a, <1>c DEF Dequeue, Ops
  <2>2. req.op = "deleteHead" /\ req.item = Head(queue)
    BY DEF Awaiting
  <2>3. /\ task[t].op = "idle" /\ Submit(t, req)
        /\ UNCHANGED <<queue, scheduleIdsInQueue, rows, expired, reported, restarts>>
    BY <1>1 DEF Dequeue
  <2> HIDE DEF req
  <2> QED BY <1>0, <2>1, <2>2, <2>3, BeginsQuietly
<1>2. ASSUME NEW t \in Callers, NEW i \in Items, TryEnqueue(t, i) PROVE MemoryInv'
  <2> DEFINE req == Awaiting("tryInsert", i)
  <2>1. RequestOK(t, req) /\ req.op = "tryInsert" /\ req.item = i
    BY <1>a DEF Ops, Awaiting
  <2>2. /\ task[t].op = "idle" /\ Submit(t, req) /\ t \in Tasks
        /\ UNCHANGED <<queue, scheduleIdsInQueue, rows, expired, restarts>>
        /\ reported' = [reported EXCEPT ![i] = {}]
        /\ ~Contains(queue, i)
    BY <1>0, <1>2 DEF TryEnqueue, Referenced
  <2> HIDE DEF req
  <2>3. /\ task' = [task EXCEPT ![t] = req] /\ task' \in [Tasks -> Requests]
        /\ statements' \in Seq(Tasks) /\ TasksWait'
        /\ \A u, v \in Tasks \ {t} :
             Ahead(statements, u, v) => Ahead(statements', u, v)
        /\ \A u \in Tasks \ {t} :
             task[u].op # "idle" => Ahead(statements', u, t)
    BY <1>0, <2>1, <2>2, LineSteps
  <2>4. task'[t] = req /\ \A u \in Tasks \ {t} : task'[u] = task[u]
    BY <1>0, <2>3 DEF TypeOK
  <2>5. i \notin Range(queue)
    BY <1>0, <2>2, ContainsRange
  <2>6. TypeOK'
    BY <1>0, <2>2, <2>3 DEF TypeOK, Requests
  <2>7. HeadStaysHead' /\ MemoryCovers'
    BY <2>1, <2>2, <2>4 DEF MemoryInv, HeadStaysHead, MemoryCovers
  <2>8. InsertsFollow'
    BY <2>1, <2>3, <2>4 DEF MemoryInv, InsertsFollow
  <2>9. InsertsUnseen' /\ ExpiredCaptured' /\ (expired \subseteq Range(queue))'
    BY <2>1, <2>2, <2>4, <2>5 DEF MemoryInv, InsertsUnseen, ExpiredCaptured
  <2> QED BY <2>3, <2>6, <2>7, <2>8, <2>9 DEF MemoryInv
<1>3. ASSUME NEW t \in Callers, NEW i \in Items, RemoveByRunId(t, i)
      PROVE  MemoryInv'
  <2> DEFINE req == Awaiting(IF Contains(queue, i) THEN "deleteQueued"
                                                   ELSE "deleteUnknown", i)
  <2>1. RequestOK(t, req) /\ req.op \in {"deleteQueued", "deleteUnknown"}
    BY <1>a DEF Ops, Awaiting
  <2>2. /\ task[t].op = "idle" /\ Submit(t, req)
        /\ UNCHANGED <<queue, scheduleIdsInQueue, rows, expired, reported, restarts>>
    BY <1>3 DEF RemoveByRunId
  <2> HIDE DEF req
  <2> QED BY <1>0, <2>1, <2>2, BeginsQuietly
<1>4. ASSUME PruneExpired(Housekeeper) PROVE MemoryInv'
  <2> DEFINE todo == Only(queue, expired)
             req == Expiring(todo, Range(todo))
  <2>1. todo \in Seq(Items)
    BY <1>0, OnlyKeeps
  <2>2. todo # <<>> /\ Range(todo) \subseteq Items
    BY <1>4, <2>1, AllKept, LenProperties, ElementOfSeq DEF PruneExpired, Range
  <2>3. /\ RequestOK(Housekeeper, req) /\ req.op = "deleteExpired"
        /\ req.batch = Range(req.todo)
    BY <2>1, <2>2 DEF Expiring, RequestOK, Requests, Ops, RunOps
  <2>4. /\ task[Housekeeper].op = "idle" /\ Submit(Housekeeper, req)
        /\ UNCHANGED <<queue, scheduleIdsInQueue, rows, expired, reported, restarts>>
    BY <1>4 DEF PruneExpired
  <2> HIDE DEF req
  <2> QED BY <1>0, <2>3, <2>4, BeginsQuietly
<1>5. ASSUME NEW t \in Tasks, InsertCommitted(t) PROVE MemoryInv'
  <2> DEFINE i == task[t].item
  <2>1. /\ Turn(t) /\ Finish(t) /\ task[t].op = "tryInsert"
        /\ rows' = Append(rows, i) /\ queue' = Append(queue, i)
        /\ scheduleIdsInQueue' = scheduleIdsInQueue \cup {SchedOf[i]}
        /\ UNCHANGED <<expired, reported, restarts>>
    BY <1>5 DEF InsertCommitted
  <2>2. i \in Items /\ i \notin Range(queue) /\ i \notin Range(rows)
    BY <1>0, <2>1 DEF MemoryInv, InsertsUnseen, MemoryCovers, RequestOK, RunOps
  <2> HIDE DEF i
  <2>3. /\ task' = [task EXCEPT ![t] = Idle] /\ task' \in [Tasks -> Requests]
        /\ statements' \in Seq(Tasks) /\ TasksWait'
        /\ \A u, v \in Tasks \ {t} :
             Ahead(statements, u, v) => Ahead(statements', u, v)
    BY <1>0, <2>1, LineFinish
  <2>4. task'[t].op = "idle" /\ \A u \in Tasks \ {t} : task'[u] = task[u]
    BY <1>0, <2>3 DEF TypeOK, Idle, Awaiting
  <2>5. /\ queue' \in Seq(Items) /\ IsInjective(queue')
        /\ Range(queue') = Range(queue) \cup {i}
        /\ \A a, b : Ahead(queue', a, b)
                       <=> Ahead(queue, a, b) \/ (a \in Range(queue) /\ b = i)
        /\ queue' # <<>>
        /\ Head(queue') = IF queue = <<>> THEN i ELSE Head(queue)
    BY <1>0, <2>1, <2>2, AppendAhead
  <2>6. /\ rows' \in Seq(Items) /\ Range(rows') = Range(rows) \cup {i}
        /\ \A a, b : Ahead(rows', a, b)
                       <=> Ahead(rows, a, b) \/ (a \in Range(rows) /\ b = i)
    BY <1>0, <2>1, <2>2, AppendAhead
  <2>7. TypeOK'
    BY <1>0, <2>1, <2>2, <2>3, <2>5, <2>6, QueueAssumption DEF TypeOK, Requests
  <2>8. MemoryCovers'
    BY <1>0, <2>5, <2>6 DEF MemoryCovers
  <2>9. \A u \in Tasks : task[u].op = "deleteHead" => task[u].item # i
    <3>1. statements \in Seq(Tasks) /\ IsInjective(statements)
          /\ statements # <<>> /\ Head(statements) = t
      BY <1>0, <2>1 DEF TypeOK, TasksWait, Turn
    <3>2. \A u : ~Ahead(statements, u, t)
      BY <3>1, HeadFirst
    <3> QED BY <2>1, <3>2 DEF MemoryInv, InsertsFollow, i
  <2>10. HeadStaysHead'
    BY <2>4, <2>5, <2>6, <2>9 DEF MemoryInv, HeadStaysHead
  <2>11. InsertsFollow'
    BY <2>3, <2>4 DEF MemoryInv, InsertsFollow
  <2>12. InsertsUnseen'
    BY <2>1, <2>4, <2>5 DEF MemoryInv, InsertsUnseen, QueueInv, PendingInsertsAreNew, i
  <2>13. ExpiredCaptured' /\ (expired \subseteq Range(queue))'
    BY <2>1, <2>2, <2>4, <2>5, <2>6 DEF MemoryInv, ExpiredCaptured
  <2> QED BY <2>3, <2>7, <2>8, <2>10, <2>11, <2>12, <2>13 DEF MemoryInv
<1>d. /\ Keeps(queue, queue, Items) /\ Range(queue) \subseteq Items
      /\ Range(rows) \subseteq Items
      /\ expired = expired \cap Range(queue)
  BY <1>0, AllKept DEF MemoryInv
<1>e. ASSUME NEW i
      PROVE  /\ DeleteRow(rows, i) \in Seq(Items)
             /\ Range(DeleteRow(rows, i)) \subseteq Items \ {i}
             /\ Range(DeleteRow(rows, i)) \subseteq Range(rows)
  <2>1. /\ DeleteRow(rows, i) \in Seq(Items)
        /\ Keeps(DeleteRow(rows, i), rows, Items \ {i})
    BY <1>0, DeletedRow
  <2> QED BY <2>1 DEF Keeps
<1>f. Idle.op = "idle"
  BY DEF Idle, Awaiting
<1>6. ASSUME NEW t \in Tasks, InsertRefused(t) PROVE MemoryInv'
  <2>1. /\ Turn(t) /\ Finish(t)
        /\ UNCHANGED <<queue, scheduleIdsInQueue, rows, expired, reported, restarts>>
    BY <1>6 DEF InsertRefused
  <2> QED BY <1>0, <1>b, <1>d, <1>f, <2>1, DoneQuietly DEF TypeOK
<1>7. ASSUME NEW t \in Tasks, HeadDeleted(t) PROVE MemoryInv'
  <2> DEFINE i == task[t].item
  <2>1. /\ Turn(t) /\ Finish(t) /\ task[t].op = "deleteHead"
        /\ Contains(rows, i) /\ rows' = DeleteRow(rows, i)
        /\ queue' = Tail(queue)
        /\ scheduleIdsInQueue' = scheduleIdsInQueue \ {SchedOf[i]}
        /\ Report({i}, "dispatched") /\ ForgetTtl /\ restarts' = restarts
    BY <1>7 DEF HeadDeleted
  <2>2. i \in Range(rows)
    BY <1>0, <2>1, ContainsRange
  <2>3. queue # <<>> /\ Head(queue) = i
    BY <2>1, <2>2 DEF MemoryInv, HeadStaysHead
  <2> HIDE DEF i
  <2>4. queue' \in Seq(Items) /\ Keeps(queue', queue, Items \ {i})
    BY <1>0, <2>1, <2>3, TailKeeps
  <2>5. /\ reported' \in [Items -> SUBSET Reports]
        /\ scheduleIdsInQueue' \subseteq Schedules
        /\ expired' = expired \cap Range(queue')
        /\ Range(rows') \subseteq Items \ {i}
    BY <1>0, <1>e, <2>1, Reported DEF TypeOK, Reports, ForgetTtl
  <2> QED BY <1>b, <1>f, <2>1, <2>4, <2>5, DoneQuietly
<1>8. ASSUME NEW t \in Tasks, HeadGone(t) PROVE MemoryInv'
  <2> DEFINE req == Awaiting("reload", NoItem)
  <2>1. RequestOK(t, req) /\ req.op = "reload"
    BY <1>a DEF Ops, RunOps, Awaiting
  <2>2. /\ Turn(t) /\ Resubmit(t, req)
        /\ UNCHANGED <<queue, scheduleIdsInQueue, rows, expired, reported, restarts>>
    BY <1>8 DEF HeadGone
  <2> HIDE DEF req
  <2> QED BY <2>1, <2>2, BeginsQuietly
<1>9. ASSUME NEW t \in Tasks, Reloaded(t) PROVE MemoryInv'
  <2>1. /\ Turn(t) /\ queue' = rows /\ rows' = rows /\ restarts' = restarts
        /\ scheduleIdsInQueue' \subseteq Schedules
        /\ reported' \in [Items -> SUBSET Reports]
        /\ expired' = expired \cap Range(queue')
    BY <1>0, <1>9, Loaded DEF Reloaded, LoadRows, ForgetTtl, TypeOK
  <2>2. CASE rows = <<>>
    <3>1. Finish(t)
      BY <1>9, <2>2 DEF Reloaded
    <3> QED BY <1>b, <1>f, <2>1, <3>1, DoneQuietly
  <2>3. CASE rows # <<>>
    <3> DEFINE req == Awaiting("deleteHead", Head(rows))
    <3>1. RequestOK(t, req) /\ req.op = "deleteHead" /\ req.item = Head(rows)
      BY <1>a, <1>c, <2>3 DEF Ops, Awaiting
    <3>2. Resubmit(t, req)
      BY <1>9, <2>3 DEF Reloaded
    <3> HIDE DEF req
    <3> QED BY <2>1, <2>3, <3>1, <3>2, DoneQuietly
  <2> QED BY <2>2, <2>3
<1>10. ASSUME NEW t \in Tasks, QueuedRemoved(t) PROVE MemoryInv'
  <2> DEFINE i == task[t].item
  <2>1. /\ Turn(t) /\ Finish(t)
        /\ rows' = DeleteRow(rows, i) /\ queue' = RemoveFirst(queue, i)
        /\ scheduleIdsInQueue' \subseteq scheduleIdsInQueue
        /\ Report({i}, "cancelled") /\ ForgetTtl /\ restarts' = restarts
    BY <1>10 DEF QueuedRemoved
  <2> HIDE DEF i
  <2>2. queue' \in Seq(Items) /\ Keeps(queue', queue, Items \ {i})
    BY <1>0, <2>1, RemoveFirstKeeps
  <2>3. /\ reported' \in [Items -> SUBSET Reports]
        /\ scheduleIdsInQueue' \subseteq Schedules
        /\ expired' = expired \cap Range(queue')
        /\ Range(rows') \subseteq Items \ {i}
    BY <1>0, <1>e, <2>1, Reported DEF TypeOK, Reports, ForgetTtl
  <2> QED BY <1>b, <1>f, <2>1, <2>2, <2>3, DoneQuietly
<1>11. ASSUME NEW t \in Tasks, UnknownRemoved(t) PROVE MemoryInv'
  <2> DEFINE i == task[t].item
             req == Awaiting("reloadAfterDelete", i)
  <2>1. /\ Turn(t) /\ task[t].op = "deleteUnknown"
        /\ rows' = DeleteRow(rows, i)
        /\ Resubmit(t, req) \/ Finish(t)
        /\ UNCHANGED <<queue, scheduleIdsInQueue, expired, reported, restarts>>
    BY <1>11 DEF UnknownRemoved
  <2>2. i \in Items
    BY <1>0, <2>1 DEF RequestOK, RunOps
  <2>3. RequestOK(t, req) /\ req.op = "reloadAfterDelete"
    BY <1>a, <2>2 DEF Ops, Awaiting
  <2> HIDE DEF i, req
  <2>4. /\ queue' \in Seq(Items) /\ Keeps(queue', queue, Items)
        /\ Range(rows') \subseteq Items
        /\ expired' = expired \cap Range(queue')
        /\ scheduleIdsInQueue' \subseteq Schedules
        /\ reported' \in [Items -> SUBSET Reports]
    BY <1>0, <1>d, <1>e, <2>1 DEF TypeOK
  <2>5. CASE Finish(t)
    BY <1>b, <1>f, <2>1, <2>4, <2>5, DoneQuietly
  <2>6. CASE Resubmit(t, req)
    BY <2>1, <2>3, <2>4, <2>6, DoneQuietly
  <2> QED BY <2>1, <2>5, <2>6
<1>12. ASSUME NEW t \in Tasks, ReloadedAfterDelete(t) PROVE MemoryInv'
  <2>1. /\ Turn(t) /\ Finish(t) /\ queue' = rows /\ rows' = rows
        /\ restarts' = restarts
        /\ scheduleIdsInQueue' \subseteq Schedules
        /\ reported' \in [Items -> SUBSET Reports]
        /\ expired' = expired \cap Range(queue')
    BY <1>0, <1>12, Loaded, Reported
    DEF ReloadedAfterDelete, LoadRows, ForgetTtl, Reports
  <2> QED BY <1>b, <1>f, <2>1, DoneQuietly
<1>13. ASSUME NEW t \in Tasks, ExpiredDeleted(t) PROVE MemoryInv'
  <2> DEFINE todo == task[t].todo
             batch == task[t].batch
             i == Head(todo)
             req == Expiring(Tail(todo), batch)
  <2>1. /\ todo \in Seq(Items) /\ todo # <<>> /\ batch \subseteq Items
        /\ t = Housekeeper
        /\ \A j \in batch \cap expired : j \in Range(todo) \/ j \notin Range(rows)
    BY <1>0, <1>13
    DEF ExpiredDeleted, RequestOK, Requests, MemoryInv, ExpiredCaptured
  <2>2. /\ Turn(t) /\ rows' = DeleteRow(rows, i) /\ ForgetTtl
        /\ restarts' = restarts
        /\ scheduleIdsInQueue' = scheduleIdsInQueue \ {SchedOf[i]}
        /\ \/ /\ Len(todo) > 1 /\ Resubmit(t, req)
              /\ queue' = queue /\ reported' = reported
           \/ /\ ~(Len(todo) > 1) /\ Finish(t)
              /\ queue' = Unexpired(batch) /\ Report(batch, "ttlExpired")
    BY <1>13 DEF ExpiredDeleted
  <2>3. /\ Len(todo) \in Nat \ {0} /\ DOMAIN todo = 1..Len(todo)
        /\ i = todo[1] /\ Tail(todo) \in Seq(Items)
        /\ Len(Tail(todo)) = Len(todo) - 1
        /\ \A k \in 1..(Len(todo) - 1) : Tail(todo)[k] = todo[k + 1]
        /\ DOMAIN Tail(todo) = 1..(Len(todo) - 1)
    BY <2>1, LenProperties, EmptySeq, HeadTailProperties
  <2>4. \A j \in Range(todo) : j = i \/ (Len(todo) > 1 /\ j \in Range(Tail(todo)))
    <3> SUFFICES ASSUME NEW k \in 1..Len(todo), k # 1
                 PROVE  Len(todo) > 1 /\ todo[k] \in Range(Tail(todo))
      BY <2>3 DEF Range
    <3>1. k - 1 \in 1..(Len(todo) - 1) /\ (k - 1) + 1 = k
      BY <2>3
    <3>2. k - 1 \in DOMAIN Tail(todo) /\ Tail(todo)[k - 1] = todo[k]
      BY <2>3, <3>1
    <3>3. Len(todo) > 1
      BY <2>3, <3>1
    <3> QED BY <3>2, <3>3 DEF Range
  <2> HIDE DEF todo, batch, i
  <2>5. Len(todo) > 1 => Tail(todo) # <<>>
    <3>1. Len(todo) > 1 => Len(Tail(todo)) # 0
      BY <2>3
    <3> QED BY <3>1, EmptySeq
  <2>6. /\ Range(rows') \subseteq Items \ {i}
        /\ Range(rows') \subseteq Range(rows)
        /\ scheduleIdsInQueue' \subseteq Schedules
        /\ expired' = expired \cap Range(queue')
    BY <1>0, <1>e, <2>2 DEF TypeOK, ForgetTtl
  <2>7. CASE /\ Len(todo) > 1 /\ Resubmit(t, req)
             /\ queue' = queue /\ reported' = reported
    <3>1. /\ RequestOK(t, req) /\ req.op = "deleteExpired"
          /\ req.todo = Tail(todo) /\ req.batch = batch
      BY <2>1, <2>3, <2>5, <2>7 DEF RequestOK, Requests, Expiring, Ops, RunOps
    <3> HIDE DEF req
    <3>2. /\ queue' \in Seq(Items) /\ Keeps(queue', queue, Items)
          /\ Range(rows') \subseteq Items
          /\ reported' \in [Items -> SUBSET Reports]
      BY <1>0, <1>d, <2>6, <2>7 DEF TypeOK
    <3>3. \A j \in req.batch \cap expired' :
            j \in Range(req.todo) \/ j \notin Range(rows')
      BY <2>1, <2>4, <2>6, <3>1
    <3> QED BY <2>2, <2>6, <2>7, <3>1, <3>2, <3>3, DoneQuietly
  <2>8. CASE /\ ~(Len(todo) > 1) /\ Finish(t)
             /\ queue' = Unexpired(batch) /\ Report(batch, "ttlExpired")
    <3> DEFINE S == Items \ (batch \cap expired)
    <3>1. queue' \in Seq(Items) /\ Keeps(queue', queue, S)
      BY <1>0, <2>8, OnlyKeeps DEF Unexpired
    <3>2. Range(rows') \subseteq S
      BY <2>1, <2>4, <2>6, <2>8
    <3>3. reported' \in [Items -> SUBSET Reports]
      BY <1>0, <2>8, Reported DEF Reports
    <3> HIDE DEF S
    <3> QED BY <1>b, <1>f, <2>2, <2>6, <2>8, <3>1, <3>2, <3>3, DoneQuietly
  <2> QED BY <2>2, <2>7, <2>8
<1>14. ASSUME NEW i \in Items, TtlPasses(i) PROVE MemoryInv'
  <2>1. /\ Contains(queue, i) /\ i \notin task[Housekeeper].batch
        /\ expired' = expired \cup {i}
        /\ UNCHANGED <<queue, scheduleIdsInQueue, rows, statements, task,
                       reported, restarts>>
    BY <1>14 DEF TtlPasses
  <2>2. i \in Range(queue)
    BY <1>0, <2>1, ContainsRange
  <2>3. TypeOK' /\ TasksWait' /\ MemoryCovers'
    BY <1>0, <2>1 DEF TypeOK, TasksWait, MemoryCovers
  <2>4. HeadStaysHead' /\ InsertsFollow' /\ InsertsUnseen'
        /\ (expired \subseteq Range(queue))'
    BY <2>1, <2>2 DEF MemoryInv, HeadStaysHead, InsertsFollow, InsertsUnseen
  <2>5. ExpiredCaptured'
    BY <1>0, <2>1 DEF MemoryInv, ExpiredCaptured, RequestOK
  <2> QED BY <2>3, <2>4, <2>5 DEF MemoryInv
<1>15. ASSUME Restart PROVE MemoryInv'
  <2>1. /\ queue' = rows' /\ scheduleIdsInQueue' = SchedulesOf(rows')
        /\ task' = [t \in Tasks |-> Idle] /\ statements' = <<>>
        /\ expired' = expired \cap Range(queue')
        /\ reported' = reported /\ restarts' = restarts + 1
        /\ restarts < MaxRestarts
    BY <1>15 DEF Restart, LoadRows, ForgetTtl
  <2>2. rows' \in Seq(Items) /\ IsInjective(rows')
    <3>1. QueueInv' => rows' \in Seq(Items) /\ NoScheduleTwice'
      BY DEF QueueInv, TableTypes
    <3> QED BY <3>1 DEF NoScheduleTwice, IsInjective
  <2>3. TypeOK'
    <3>1. /\ task' \in [Tasks -> Requests] /\ statements' \in Seq(Tasks)
      BY <1>b, <2>1, EmptySeq DEF RequestOK
    <3>2. restarts' \in 0..MaxRestarts
      BY <1>0, <2>1, QueueAssumption DEF TypeOK
    <3> QED BY <1>0, <2>1, <2>2, <3>1, <3>2, Loaded DEF TypeOK, Requests
  <2>4. TasksWait'
    <3>1. DOMAIN <<>> = {}
      OBVIOUS
    <3> QED BY <1>b, <1>f, <2>1, <3>1 DEF TasksWait, Range, IsInjective
  <2>5. MemoryCovers'
    BY <2>1, <2>2 DEF MemoryCovers
  <2>6. HeadStaysHead' /\ InsertsFollow' /\ InsertsUnseen' /\ ExpiredCaptured'
        /\ (expired \subseteq Range(queue))'
    BY <1>f, <2>1
    DEF HeadStaysHead, InsertsFollow, InsertsUnseen, ExpiredCaptured
  <2> QED BY <2>3, <2>4, <2>5, <2>6 DEF MemoryInv
<1>16. CASE UNCHANGED vars
  BY <1>16
  DEF vars, MemoryInv, TypeOK, TasksWait, MemoryCovers, HeadStaysHead,
      InsertsFollow, InsertsUnseen, ExpiredCaptured
<1> QED
  BY <1>1, <1>2, <1>3, <1>4, <1>5, <1>6, <1>7, <1>8, <1>9, <1>10, <1>11,
     <1>12, <1>13, <1>14, <1>15, <1>16
  DEF Next, StatementRuns

LEMMA MemoryInvariant == Spec => [](QueueInv /\ MemoryInv)
<1>1. QueueInv /\ MemoryInv /\ [Next]_vars => (QueueInv /\ MemoryInv)'
  BY QueueInvStep, MemoryStep
<1> QED BY <1>1, QueueInvInit, MemoryInit, PTL DEF Spec

(* The types of the state. *)
THEOREM QueueTypeCorrect == Spec => []TypeOK
<1>1. MemoryInv => TypeOK
  BY DEF MemoryInv
<1> QED BY <1>1, MemoryInvariant, PTL

(* Every row is in memory, in its place: what the table accepted can be    *)
(* dequeued, listed and cancelled at any moment, between any two halves of *)
(* any operations, and after a crash.                                      *)
THEOREM RowsStayVisible == Spec => []RowsVisible
<1>1. QueueInv /\ MemoryInv => RowsVisible
  <2> SUFFICES ASSUME QueueInv, MemoryInv PROVE RowsVisible
    OBVIOUS
  <2>1. rows \in Seq(Items) /\ IsInjective(rows) /\ queue \in Seq(Items)
    BY RowsOnce DEF MemoryInv, TypeOK
  <2> QED BY <2>1, OnlyIsPart DEF MemoryInv, MemoryCovers, RowsVisible
<1> QED BY <1>1, MemoryInvariant, PTL
-----------------------------------------------------------------------------
(* The queue implements FifoQueue.                                         *)

Handed == {i \in Items : "dispatched" \in reported[i]}

(* A deletion withdraws the run, if its row was there.                     *)
LEMMA DeletionWithdraws ==
  ASSUME QueueInv, NEW i, rows' = DeleteRow(rows, i), Handed' = Handed
  PROVE  (\E j \in Items : Fifo!Withdraw(j)) \/ UNCHANGED <<rows, Handed>>
<1>1. DOMAIN rows = 1..Len(rows) /\ \A k \in DOMAIN rows : rows[k] \in Items
  BY RowsOnce, LenProperties, ElementOfSeq
<1>2. CASE Contains(rows, i)
  <2> DEFINE k == CHOOSE n \in DOMAIN rows : rows[n] = i
  <2>1. k \in DOMAIN rows /\ rows[k] = i
    BY <1>1, <1>2 DEF Contains
  <2>2. rows' = RemoveAt(rows, k)
    BY <1>2 DEF DeleteRow
  <2> HIDE DEF k
  <2>3. Fifo!Withdraw(i) /\ i \in Items
    BY <1>1, <2>1, <2>2 DEF Fifo!Withdraw, Handed, RemoveAt, Fifo!RemoveAt
  <2> QED BY <2>3
<1>3. CASE ~Contains(rows, i)
  BY <1>3 DEF DeleteRow
<1> QED BY <1>2, <1>3

LEMMA InsertionAccepts ==
  ASSUME QueueInv, NEW i \in Items, RowAccepted(i), ~Contains(rows, i),
         "dispatched" \notin reported[i],
         rows' = Append(rows, i), Handed' = Handed
  PROVE  Fifo!Accept(i)
<1>1. \A k \in DOMAIN rows : SchedOf[rows[k]] # SchedOf[i]
  BY DEF RowAccepted, SchedulesOf, Range
<1> QED BY <1>1 DEF Fifo!Accept, RowAccepted, Handed, Contains, Fifo!Contains

LEMMA FifoInit == Init => Fifo!Init
  BY DEF Init, Fifo!Init

LEMMA FifoStep ==
  QueueInv /\ MemoryInv /\ [Next]_vars => [Fifo!Next]_(Fifo!fifoVars)
<1> SUFFICES ASSUME QueueInv, MemoryInv, [Next]_vars
             PROVE  Fifo!Next \/ UNCHANGED <<rows, Handed>>
  BY DEF Fifo!fifoVars, Handed
<1>0. /\ TypeOK /\ rows \in Seq(Items) /\ IsInjective(rows)
      /\ reported \in [Items -> SUBSET Reports]
      /\ \A t \in Tasks : RequestOK(t, task[t])
  BY RowsOnce DEF MemoryInv, TypeOK, TasksWait
<1>1. ASSUME NEW t \in Callers, NEW i \in Items, TryEnqueue(t, i)
      PROVE  Fifo!Next \/ UNCHANGED <<rows, Handed>>
  <2>1. rows' = rows /\ reported' = [reported EXCEPT ![i] = {}]
    BY <1>1 DEF TryEnqueue
  <2>2. Handed' = Handed \ {i}
    BY <1>0, <2>1 DEF Handed
  <2>3. CASE i \in Handed
    <3>1. Fifo!GiveBack(i)
      BY <2>1, <2>2, <2>3 DEF Fifo!GiveBack, Handed
    <3> QED BY <3>1 DEF Fifo!Next
  <2>4. CASE i \notin Handed
    BY <2>1, <2>2, <2>4
  <2> QED BY <2>3, <2>4
<1>2. ASSUME NEW t \in Tasks, InsertCommitted(t) PROVE Fifo!Next
  <2>1. /\ task[t].item \in Items /\ RowAccepted(task[t].item)
        /\ ~Contains(rows, task[t].item)
        /\ "dispatched" \notin reported[task[t].item]
        /\ rows' = Append(rows, task[t].item) /\ reported' = reported
    BY <1>2 DEF InsertCommitted, QueueInv, PendingInsertsAreNew
  <2>2. Fifo!Accept(task[t].item)
    BY <2>1, InsertionAccepts DEF Handed
  <2> QED BY <2>1, <2>2 DEF Fifo!Next
<1>3. ASSUME NEW t \in Tasks, HeadDeleted(t) PROVE Fifo!Next
  <2> DEFINE i == task[t].item
  <2>1. /\ task[t].op = "deleteHead" /\ Contains(rows, i)
        /\ rows' = DeleteRow(rows, i) /\ Report({i}, "dispatched")
    BY <1>3 DEF HeadDeleted
  <2>2. i \in Range(rows) /\ i \in Items
    BY <1>0, <2>1, ContainsRange DEF RequestOK, RunOps
  <2>3. queue # <<>> /\ Head(queue) = i
    BY <2>1, <2>2 DEF MemoryInv, HeadStaysHead
  <2> HIDE DEF i
  <2>4. \A a : ~Ahead(rows, a, i)
    BY <2>3, HeadFirst DEF MemoryInv, MemoryCovers, TypeOK
  <2>5. rows # <<>> /\ Head(rows) = i
    BY <1>0, <2>2, <2>4, HeadFirst
  <2>6. rows' = Tail(rows)
    <3> DEFINE k == CHOOSE n \in DOMAIN rows : rows[n] = i
    <3>1. 1 \in DOMAIN rows /\ rows[1] = i
      BY <1>0, <2>5, LenProperties, EmptySeq
    <3>2. k = 1
      BY <3>1, <1>0 DEF IsInjective
    <3>3. rows' = RemoveAt(rows, 1)
      BY <2>1, <3>2 DEF DeleteRow
    <3> QED BY <1>0, <2>5, <3>3, RemoveHead
  <2>7. Handed' = Handed \cup {i}
    BY <1>0, <2>1, <2>2 DEF Handed, Report
  <2> QED BY <2>5, <2>6, <2>7 DEF Fifo!Next, Fifo!HandOut, Handed
<1>4. ASSUME NEW t \in Tasks,
             QueuedRemoved(t) \/ UnknownRemoved(t) \/ ExpiredDeleted(t)
      PROVE  Fifo!Next \/ UNCHANGED <<rows, Handed>>
  <2>1. \E i : rows' = DeleteRow(rows, i)
    BY <1>4 DEF QueuedRemoved, UnknownRemoved, ExpiredDeleted
  <2>2. \/ reported' = reported
        \/ \E S : Report(S, "cancelled") \/ Report(S, "ttlExpired")
    BY <1>4 DEF QueuedRemoved, UnknownRemoved, ExpiredDeleted
  <2>3. Handed' = Handed
    BY <1>0, <2>2 DEF Report, Handed
  <2> QED BY <2>1, <2>3, DeletionWithdraws DEF Fifo!Next
<1>5. ASSUME NEW t \in Tasks,
             \/ InsertRefused(t) \/ HeadGone(t) \/ Reloaded(t)
             \/ ReloadedAfterDelete(t)
      PROVE  UNCHANGED <<rows, Handed>>
  BY <1>0, <1>5
  DEF InsertRefused, HeadGone, Reloaded, ReloadedAfterDelete, Report, Handed
<1>6. ASSUME NEW t, Dequeue(t) \/ PruneExpired(t)
                    \/ \E i \in Items : RemoveByRunId(t, i) \/ TtlPasses(i)
      PROVE  UNCHANGED <<rows, Handed>>
  BY <1>6 DEF Dequeue, PruneExpired, RemoveByRunId, TtlPasses, Handed
<1>7. ASSUME Restart PROVE Fifo!Next \/ UNCHANGED <<rows, Handed>>
  <2>1. Handed' = Handed /\ (rows' = rows \/ (rows' = Committed /\ statements # <<>>))
    BY <1>7 DEF Restart, Committed, Handed
  <2>2. CASE rows' = Committed /\ statements # <<>>
    <3> DEFINE r == task[Head(statements)]
    <3>1. Head(statements) \in Tasks
      BY <1>0, <2>2, HeadTailProperties DEF TypeOK
    <3>2. \/ rows' = rows
          \/ \E i : rows' = DeleteRow(rows, i)
          \/ /\ r.op = "tryInsert" /\ RowAccepted(r.item)
             /\ rows' = Append(rows, r.item)
      BY <2>2 DEF Committed
    <3>3. CASE /\ r.op = "tryInsert" /\ RowAccepted(r.item)
               /\ rows' = Append(rows, r.item)
      <4>1. /\ r.item \in Items /\ ~Contains(rows, r.item)
            /\ "dispatched" \notin reported[r.item]
        BY <3>1, <3>3 DEF QueueInv, PendingInsertsAreNew
      <4>2. Fifo!Accept(r.item)
        BY <2>1, <3>3, <4>1, InsertionAccepts
      <4> QED BY <4>1, <4>2 DEF Fifo!Next
    <3> QED BY <2>1, <3>2, <3>3, DeletionWithdraws DEF Fifo!Next
  <2> QED BY <2>1, <2>2
<1>8. CASE UNCHANGED vars
  BY <1>8 DEF vars, Handed
<1> QED
  BY <1>1, <1>2, <1>3, <1>4, <1>5, <1>6, <1>7, <1>8 DEF Next, StatementRuns

(* The queue in two copies does what the queue of FifoQueue promises:      *)
(* dispatching is in order of arrival, whatever is cancelled, expires, is  *)
(* put back or is interrupted by a crash in the meantime.                  *)
THEOREM ImplementsFifo == Spec => RefinesFifo
  BY FifoInit, FifoStep, MemoryInvariant, PTL DEF Spec, RefinesFifo, Fifo!Spec

(* A run is handed to a drain only while no row is ahead of its own, and    *)
(* its row is gone with the same step.                                      *)
THEOREM OldestFirst ==
  Spec => [][\A i \in Handed' \ Handed : /\ rows # <<>> /\ i = Head(rows)
                                         /\ rows' = Tail(rows)]_vars
<1>1. ASSUME QueueInv, MemoryInv, [Next]_vars, NEW i \in Handed' \ Handed
      PROVE  rows # <<>> /\ i = Head(rows) /\ rows' = Tail(rows)
  <2>1. Fifo!Next \/ UNCHANGED <<rows, Handed>>
    BY <1>1, FifoStep DEF Fifo!fifoVars, Handed
  <2>2. Fifo!HandOut
    BY <1>1, <2>1 DEF Fifo!Next, Fifo!Accept, Fifo!Withdraw, Fifo!GiveBack, Handed
  <2> QED BY <1>1, <2>2 DEF Fifo!HandOut, Handed
<1>2. QueueInv /\ MemoryInv /\ [Next]_vars =>
        [\A i \in Handed' \ Handed : /\ rows # <<>> /\ i = Head(rows)
                                     /\ rows' = Tail(rows)]_vars
  BY <1>1
<1> QED BY <1>2, MemoryInvariant, PTL DEF Spec
=============================================================================
