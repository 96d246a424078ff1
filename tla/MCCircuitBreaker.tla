--------------------------- MODULE MCCircuitBreaker ---------------------------
(* Three uploads to one destination that may overlap, with the thresholds of *)
(* CircuitBreakerConstants and three attempts each.                          *)
EXTENDS CircuitBreaker

CONSTANTS u1, u2, u3

MCUploads == {u1, u2, u3}
=============================================================================
