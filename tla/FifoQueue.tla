------------------------------ MODULE FifoQueue ------------------------------
(***************************************************************************)
(* What the queue of remote executions promises its callers, with no word  *)
(* about how it is stored: accepted runs leave in arrival order, a         *)
(* schedule waits at most once, the number of waiting runs is bounded, and *)
(* a run that was handed to the dispatcher is not waiting any more.        *)
(*                                                                         *)
(* ExecutionQueue implements this module (property RefinesFifo there).     *)
(* Source of the promise: the class comment of                             *)
(* lib/infrastructure/socket/server/execution_queue_service.dart.          *)
(***************************************************************************)
EXTENDS SequencesExt

CONSTANTS Items,          \* run ids
          Schedules,      \* schedule ids
          SchedOf,        \* the schedule a run id belongs to
          MaxQueueSize    \* bound on the number of waiting runs

VARIABLES waiting,        \* the runs that wait, oldest first
          handed          \* the runs handed to the dispatcher

fifoVars == <<waiting, handed>>

Init == waiting = <<>> /\ handed = {}

(* A run is accepted at the tail. *)
Accept(i) ==
  /\ ~Contains(waiting, i)
  /\ i \notin handed
  /\ \A k \in DOMAIN waiting : SchedOf[waiting[k]] # SchedOf[i]
  /\ Len(waiting) < MaxQueueSize
  /\ waiting' = Append(waiting, i)
  /\ UNCHANGED handed

(* The oldest run, and no other, is handed out. *)
HandOut ==
  /\ waiting # <<>>
  /\ handed' = handed \cup {Head(waiting)}
  /\ waiting' = Tail(waiting)

(* A run is withdrawn: cancelled, expired, or lost with the process that   *)
(* was taking it.                                                          *)
Withdraw(i) ==
  /\ \E k \in DOMAIN waiting :
       waiting[k] = i /\ waiting' = RemoveAt(waiting, k)
  /\ UNCHANGED handed

(* The dispatcher gives a run back, or forgets it. *)
GiveBack(i) ==
  /\ i \in handed
  /\ handed' = handed \ {i}
  /\ UNCHANGED waiting

Next ==
  \/ HandOut
  \/ \E i \in Items : Accept(i) \/ Withdraw(i) \/ GiveBack(i)

Spec == Init /\ [][Next]_fifoVars
=============================================================================
