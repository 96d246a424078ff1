------------------------ MODULE MCIdempotencyRegistry -------------------------
EXTENDS IdempotencyRegistry, TLC

CONSTANTS c1, c2, c3, c4, k1, k2

(* Three calls of one key race; another key must not be mixed up with it. *)
MCCalls == {c1, c2, c3, c4}
MCKeys == {k1, k2}
MCKeyOf == (c1 :> k1) @@ (c2 :> k1) @@ (c3 :> k1) @@ (c4 :> k2)
=============================================================================
