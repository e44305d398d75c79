------------------------------- MODULE MCRetry -------------------------------
(* Values of the constants of Retry for TLC. *)
EXTENDS Retry

\* Attempts at their minimum, single and several; a backoff below a millisecond;
\* every multiplier up to one whose square leaves 32 bits; caps below, between
\* and above the delays, the last beyond 64 bits.
SomePolicies ==
  [ max_attempts : {0, 1, 2, 5}, initial_backoff : {1, 3, 6},
    multiplier : 0..3, max_backoff : {0, 5, 24, 40} ]
===============================================================================
