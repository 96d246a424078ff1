--------------------------- MODULE MCExecutionQueue ---------------------------
(***************************************************************************)
(* Instances of ExecutionQueue: three run ids, two of one schedule, with   *)
(* room for two rows, and two run ids that want the only place.            *)
(***************************************************************************)
EXTENDS ExecutionQueue

CONSTANTS r1, r2, r3, s1, s2, c1, c2, hk

MCItems == {r1, r2, r3}
MCSchedules == {s1, s2}
MCSchedOf == (r1 :> s1) @@ (r2 :> s2) @@ (r3 :> s1)
MCSchedOf2 == (r1 :> s1) @@ (r2 :> s2)
MCTasks == {c1, c2, hk}

(* The callers are interchangeable. *)
Symmetry == Permutations({c1, c2})
=============================================================================
