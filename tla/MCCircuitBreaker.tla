--------------------------- MODULE MCCircuitBreaker ---------------------------
(* Values of the constants of CircuitBreaker for TLC. *)
EXTENDS CircuitBreaker

\* Enough callers for late reports of before a trip to meet two trials.
CONSTANTS c1, c2, c3
SomeCallers == {c1, c2, c3}
===============================================================================
