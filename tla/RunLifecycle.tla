----------------------------- MODULE RunLifecycle -----------------------------
(***************************************************************************)
(* The official life of a run: the table of transitions of                 *)
(* lib/infrastructure/socket/server/execution_state_machine.dart, with the *)
(* states before a run is accepted and after it is refused or given up.    *)
(* A run that reached a terminal state never leaves it, so no run is       *)
(* executed twice.                                                         *)
(*                                                                         *)
(* BackupExecution implements this module (property RefinesLifecycle).     *)
(***************************************************************************)
CONSTANT Runs

VARIABLE state

(* _transitions. *)
Transitions ==
  ({"queued"} \X {"running", "cancelled"})
    \cup ({"running"} \X {"completed", "failed", "cancelled"})

Init == state = [r \in Runs |-> "new"]

Accept(r) == state[r] = "new" /\ state' = [state EXCEPT ![r] = "running"]
Enqueue(r) == state[r] = "new" /\ state' = [state EXCEPT ![r] = "queued"]
Refuse(r) == state[r] = "new" /\ state' = [state EXCEPT ![r] = "refused"]

(* The server gives a queued run up: its schedule is gone, its TTL passed, *)
(* or the drain could not put it back.                                     *)
Drop(r) == state[r] = "queued" /\ state' = [state EXCEPT ![r] = "dropped"]

(* enforceTransition. *)
Move(r) ==
  \E t \in Transitions :
    state[r] = t[1] /\ state' = [state EXCEPT ![r] = t[2]]

Next == \E r \in Runs : Accept(r) \/ Enqueue(r) \/ Refuse(r) \/ Drop(r)
                                  \/ Move(r)

Spec == Init /\ [][Next]_state
=============================================================================
