-------------------------------- MODULE Retry --------------------------------
(***************************************************************************)
(* retry of crates/securedeploy-resilience around an operation that is     *)
(* itself run under with_timeout, as a client of a remote service would:   *)
(* the operation has an effect somewhere, an attempt may be cut off before *)
(* anybody knows whether it had, and its effect may still come later.      *)
(* The caller may drop the whole future at any await.                      *)
(*                                                                         *)
(* Durations are whole numbers of a small unit, Millisecond of which make  *)
(* one of the milliseconds the delays are computed in.  The product before *)
(* the cap has 128 bits and cannot reach them: it needs no width.          *)
(***************************************************************************)
EXTENDS Naturals, FiniteSets

CONSTANTS
  Policies,       \* the policies callers pass
  Millisecond,
  U32Max, U64Max

RetryPolicy ==
  [ max_attempts : 0..U32Max, initial_backoff : Nat,
    multiplier : 0..U32Max, max_backoff : Nat ]

ASSUME RetryAssumption ==
  /\ U32Max \in Nat /\ U64Max \in Nat /\ Millisecond \in Nat \ {0}
  /\ Policies \subseteq RetryPolicy

VARIABLES
  policy,
  attempt,   \* the loop's counter
  pc,        \* "calling" or "sleeping", or how the future ended
  backoff,   \* the delay chosen last, in milliseconds
  effects,   \* the attempts whose effect has happened
  limbo      \* the attempts cut off whose effect may yet happen

vars == <<policy, attempt, pc, backoff, effects, limbo>>

Running == {"calling", "sleeping"}

as_millis(duration) == duration \div Millisecond

\* A wrapping multiplication.
FaultySaturatingPow(base, n) ==
  IF n = 0 THEN 1 ELSE (base ^ n) % (U32Max + 1)

saturated(n) == IF n > U32Max THEN U32Max ELSE n

\* A product that leaves 32 bits stays at their end in all further ones, unless
\* the base is 0.
saturating_pow(base, n) ==
  LET pow[k \in Nat] == IF k = 0 THEN 1 ELSE saturated(base * pow[k - 1])
  IN  pow[n]

\* The cap comes last but one: the result is cast to 64 bits.
backoff_for(n) ==
  LET millis == as_millis(policy.initial_backoff) * saturating_pow(policy.multiplier, n)
      capped == IF millis < as_millis(policy.max_backoff)
                THEN millis ELSE as_millis(policy.max_backoff)
  IN  capped % (U64Max + 1)

\* A policy of no attempts makes one.
Attempts == IF policy.max_attempts = 0 THEN 1 ELSE policy.max_attempts

\* max_attempts is taken for the number of retries.
FaultyMoreLeft == attempt < Attempts

MoreLeft == attempt + 1 < Attempts

Init ==
  /\ policy \in Policies
  /\ attempt = 0
  /\ pc = "calling"
  /\ backoff = 0
  /\ effects = {}
  /\ limbo = {}

\* The operation does its work.
TakeEffect ==
  /\ pc = "calling"
  /\ attempt \notin effects
  /\ effects' = effects \cup {attempt}
  /\ UNCHANGED <<policy, attempt, pc, backoff, limbo>>

\* Ok(value) ends the loop.
Succeed ==
  /\ pc = "calling"
  /\ attempt \in effects
  /\ pc' = "ok"
  /\ UNCHANGED <<policy, attempt, backoff, effects, limbo>>

\* Err(err): sleep before the next attempt, unless this was the last.
AfterError ==
  /\ IF MoreLeft
     THEN pc' = "sleeping" /\ backoff' = backoff_for(attempt)
     ELSE pc' = "err" /\ UNCHANGED backoff
  /\ UNCHANGED <<policy, attempt, effects>>

\* The operation reports an error, before its effect or after it.
Fail ==
  /\ pc = "calling"
  /\ AfterError
  /\ UNCHANGED limbo

\* The future of the present attempt is dropped.
CutOff == limbo' = IF attempt \in effects THEN limbo ELSE limbo \cup {attempt}

\* Only the first attempt runs under the deadline.
FaultyExpires == pc = "calling" /\ attempt = 0

Expires == pc = "calling"

\* with_timeout drops the attempt and makes an error of it.
TimeOut ==
  /\ Expires
  /\ CutOff
  /\ AfterError

Wake ==
  /\ pc = "sleeping"
  /\ attempt' = attempt + 1
  /\ pc' = "calling"
  /\ UNCHANGED <<policy, backoff, effects, limbo>>

\* The caller goes away.
Drop ==
  /\ pc \in Running
  /\ pc' = "dropped"
  /\ IF pc = "calling" THEN CutOff ELSE UNCHANGED limbo
  /\ UNCHANGED <<policy, attempt, backoff, effects>>

\* What was cut off happens after all, or never.
Land(n) ==
  /\ n \in limbo
  /\ limbo' = limbo \ {n}
  /\ effects' \in {effects, effects \cup {n}}
  /\ UNCHANGED <<policy, attempt, pc, backoff>>

Next ==
  \/ TakeEffect \/ Succeed \/ Fail \/ TimeOut \/ Wake \/ Drop
  \/ \E n \in limbo : Land(n)

Spec == Init /\ [][Next]_vars

\* The timers fire; the operation itself need never answer.
FairSpec == Spec /\ WF_vars(TimeOut) /\ WF_vars(Wake)

(***************************************************************************)
(* Properties                                                              *)
(***************************************************************************)
\* However attempts are cut off and land late, the effect happens at most
\* max(1, max_attempts) times in all; Ok is answered only by an attempt that had
\* it, and Err only after every attempt was made.
EffectsBounded ==
  /\ effects \cup limbo \subseteq 0..attempt
  /\ Cardinality(effects \cup limbo) <= Attempts
  /\ pc = "ok" => attempt \in effects
  /\ pc = "err" => attempt + 1 = Attempts

\* Delays never shrink and stay below the cap, however many attempts are made,
\* given a multiplier of at least 1 and a cap that fits 64 bits of milliseconds.
BackoffGrows ==
  [][pc = "calling" /\ pc' = "sleeping" /\ policy.multiplier >= 1
       /\ as_millis(policy.max_backoff) <= U64Max =>
         backoff <= backoff' /\ backoff' <= as_millis(policy.max_backoff)]_vars

\* The caller gets an answer, though the operation never gives one.
Answers == <>(pc \notin Running)
===============================================================================
