---------------------------- MODULE CircuitBreaker ----------------------------
(***************************************************************************)
(* The circuit breaker of crates/securedeploy-resilience, shared by        *)
(* concurrent callers.  acquire, record_success and record_failure hold    *)
(* the mutex from their first read to their last write, the clock reading  *)
(* included, so each is one action.  Between a caller's acquire and its    *)
(* report the guarded call runs, and anything may happen to the breaker:   *)
(* reports come late and out of order.  A call whose caller gave up (its   *)
(* future was dropped, for instance by with_timeout) is never reported.    *)
(*                                                                         *)
(* The clock is monotonic and only its distance from opened_at is looked   *)
(* at, only to compare it with open_duration: the state keeps that         *)
(* distance, capped at open_duration, so time needs no bound.              *)
(***************************************************************************)
EXTENDS Naturals

CONSTANTS
  Callers,             \* calls that can be in flight together
  failure_threshold,
  open_duration,
  U32Max

ASSUME BreakerAssumption ==
  /\ U32Max \in Nat \ {0}
  /\ failure_threshold \in 0..U32Max
  /\ open_duration \in Nat

VARIABLES
  state,       \* Inner.state, without the instant
  open_for,    \* time since Open's opened_at
  failures,    \* Inner.failures
  call,        \* how each caller was admitted, if it has a call in flight
  tripped      \* history: time since the breaker last became Open

vars == <<state, open_for, failures, call, tripped>>

CircuitState == {"Closed", "Open", "HalfOpen"}
Admission == {"none", "regular", "trial"}

\* failure_threshold = 0 trips at the first failure, as 1 does.
TripAt == IF failure_threshold = 0 THEN 1 ELSE failure_threshold

(***************************************************************************)
(* Helpers.  A Faulty... operator is the definition below it with a slip;  *)
(* no specification uses it.                                               *)
(***************************************************************************)
saturating_add(n) == IF n = U32Max THEN n ELSE n + 1

FaultyTrips(n) == n > failure_threshold

Trips(n) == n >= failure_threshold

Aged(t) == IF t = open_duration THEN t ELSE t + 1

\* A trial's failure opens the breaker again with its old opened_at.
FaultyOpenedFor == IF state = "HalfOpen" THEN open_for ELSE 0

\* `opened_at: self.clock.now()`
OpenedFor == 0

Cooled == open_for >= open_duration

\* A successful call closes the breaker and leaves the count.
FaultyCleared == failures

Cleared == 0

\* An admission after the cooldown leaves the breaker open.
FaultyAdmitted == state

Admitted == IF state = "Open" THEN "HalfOpen" ELSE state

(***************************************************************************)
(* Operations                                                              *)
(***************************************************************************)
Init ==
  /\ state = "Closed"
  /\ failures = 0
  /\ open_for = 0
  /\ call = [c \in Callers |-> "none"]
  /\ tripped = open_duration

\* A refusal (open and not cooled) changes nothing and is no step.
acquire(c) ==
  /\ call[c] = "none"
  /\ state = "Open" => Cooled
  /\ state' = Admitted
  /\ call' = [call EXCEPT ![c] = IF state = "Closed" THEN "regular" ELSE "trial"]
  /\ UNCHANGED <<open_for, failures, tripped>>

record_success(c) ==
  /\ call[c] # "none"
  /\ state' = "Closed"
  /\ failures' = Cleared
  /\ call' = [call EXCEPT ![c] = "none"]
  /\ UNCHANGED <<open_for, tripped>>

\* The breaker becomes Open now.
Open ==
  /\ state' = "Open"
  /\ open_for' = OpenedFor
  /\ tripped' = 0

record_failure(c) ==
  /\ call[c] # "none"
  /\ call' = [call EXCEPT ![c] = "none"]
  /\ \/ /\ state = "HalfOpen"
        /\ Open
        /\ UNCHANGED failures
     \/ /\ state = "Closed"
        /\ failures' = saturating_add(failures)
        /\ IF Trips(failures') THEN Open ELSE UNCHANGED <<state, open_for, tripped>>
     \/ /\ state = "Open"
        /\ UNCHANGED <<state, open_for, failures, tripped>>

\* The caller gives up; the breaker never hears how the call ended.
Abandon(c) ==
  /\ call[c] # "none"
  /\ call' = [call EXCEPT ![c] = "none"]
  /\ UNCHANGED <<state, open_for, failures, tripped>>

Tick ==
  /\ open_for' = Aged(open_for)
  /\ tripped' = Aged(tripped)
  /\ UNCHANGED <<state, failures, call>>

Finish(c) == record_success(c) \/ record_failure(c) \/ Abandon(c)

Next == Tick \/ \E c \in Callers : acquire(c) \/ Finish(c)

Spec == Init /\ [][Next]_vars

\* Time passes, every call ends (with_timeout bounds it), and callers that were
\* refused ask again.
FairSpec ==
  /\ Spec
  /\ WF_vars(Tick)
  /\ \A c \in Callers : WF_vars(acquire(c)) /\ WF_vars(Finish(c))

(***************************************************************************)
(* Properties                                                              *)
(***************************************************************************)
\* The fields hold values of their types; the count stops at the threshold and
\* so never saturates short of it.
TypeOK ==
  /\ state \in CircuitState
  /\ failures \in 0..TripAt
  /\ open_for \in 0..open_duration
  /\ call \in [Callers -> Admission]
  /\ tripped \in 0..open_duration

\* The breaker is closed exactly while fewer failures than the threshold were
\* counted since the last success, whatever the order late reports arrive in: a
\* recovered breaker has the full allowance again, and a failed trial has none.
ClosedBelowThreshold == state = "Closed" <=> failures < TripAt

Admits(c) == call[c] = "none" /\ call'[c] # "none"

\* Until a success is reported, no call is admitted within open_duration of the
\* last time the breaker opened, a trial's failure counting as such a time.
CooldownServed ==
  [][\A c \in Callers :
       Admits(c) /\ failures >= TripAt => tripped >= open_duration]_vars

\* An open breaker probes or closes in the end, even if every trial before it
\* failed or was abandoned without a report.
ProbesInTheEnd == state = "Open" ~> state # "Open"
===============================================================================
