-------------------------- MODULE CircuitBreakerProofs --------------------------
(***************************************************************************)
(* Safety of the circuit breaker for any callers, threshold and cooldown.  *)
(***************************************************************************)
EXTENDS CircuitBreaker, TLAPS

\* The least number of failures that trips the breaker is one the counter
\* reaches before it saturates.
LEMMA Threshold ==
  /\ TripAt \in 1..U32Max
  /\ \A n \in Nat : Trips(n) /\ n > 0 <=> n >= TripAt
  /\ \A n \in 0..TripAt : n < TripAt => saturating_add(n) = n + 1
BY BreakerAssumption DEF TripAt, Trips, saturating_add

\* Time since an instant stays within its cap.
LEMMA Ageing ==
  \A t \in 0..open_duration : Aged(t) \in 0..open_duration
BY BreakerAssumption DEF Aged

\* The inductive invariant: once tripped and until a success, the breaker's own
\* clock reading is the time since it last opened, and it probes only when that
\* time has passed.
CooldownTracked ==
  /\ state # "Closed" => open_for = tripped
  /\ state = "HalfOpen" => tripped = open_duration

IInv == TypeOK /\ ClosedBelowThreshold /\ CooldownTracked

LEMMA InitIInv == Init => IInv
BY BreakerAssumption, Threshold
   DEF Init, IInv, TypeOK, CircuitState, Admission, ClosedBelowThreshold, CooldownTracked

\* Every operation keeps the invariant.
LEMMA NextIInv == IInv /\ [Next]_vars => IInv'
<1> SUFFICES ASSUME IInv, [Next]_vars PROVE IInv'
    OBVIOUS
<1> USE DEF IInv, TypeOK, CircuitState, Admission
<1>1. ASSUME NEW c \in Callers, acquire(c) PROVE IInv'
  <2>1. state' \in CircuitState /\ (state' = "Closed" <=> state = "Closed")
        BY <1>1 DEF acquire, Admitted
  <2>2. call' \in [Callers -> Admission]
        BY <1>1 DEF acquire
  <2>3. ClosedBelowThreshold'
        BY <1>1, <2>1 DEF acquire, ClosedBelowThreshold
  <2>4. CooldownTracked'
        BY <1>1, BreakerAssumption DEF acquire, Admitted, Cooled, CooldownTracked
  <2> QED
        BY <1>1, <2>1, <2>2, <2>3, <2>4 DEF acquire
<1>2. ASSUME NEW c \in Callers, record_success(c) PROVE IInv'
  <2>1. ClosedBelowThreshold'
        BY <1>2, Threshold DEF record_success, Cleared, ClosedBelowThreshold
  <2> QED
        BY <1>2, <2>1, Threshold DEF record_success, Cleared, CooldownTracked
<1>3. ASSUME NEW c \in Callers, record_failure(c) PROVE IInv'
  <2>1. call' \in [Callers -> Admission]
        BY <1>3 DEF record_failure
  <2>2. CASE state = "HalfOpen"
        BY <2>1, <2>2, <1>3, BreakerAssumption
           DEF record_failure, Open, OpenedFor, ClosedBelowThreshold, CooldownTracked
  <2>3. CASE state = "Open"
        BY <2>1, <2>3, <1>3 DEF record_failure, ClosedBelowThreshold, CooldownTracked
  <2>4. CASE state = "Closed"
    <3>1. /\ failures' = failures + 1
          /\ failures' \in 0..TripAt
          /\ Trips(failures') <=> failures' = TripAt
          BY <2>4, <1>3, Threshold DEF record_failure, ClosedBelowThreshold
    <3>2. CASE Trips(failures')
          BY <3>1, <3>2, <2>1, <2>4, <1>3, BreakerAssumption, Threshold
             DEF record_failure, Open, OpenedFor, ClosedBelowThreshold, CooldownTracked
    <3>3. CASE ~Trips(failures')
          BY <3>1, <3>3, <2>1, <2>4, <1>3, Threshold
             DEF record_failure, ClosedBelowThreshold, CooldownTracked
    <3> QED
          BY <3>2, <3>3
  <2> QED
        BY <2>2, <2>3, <2>4
<1>4. ASSUME NEW c \in Callers, Abandon(c) PROVE IInv'
      BY <1>4 DEF Abandon, ClosedBelowThreshold, CooldownTracked
<1>5. CASE Tick
      BY <1>5, Ageing, BreakerAssumption
         DEF Tick, Aged, ClosedBelowThreshold, CooldownTracked
<1>6. CASE UNCHANGED vars
      BY <1>6 DEF vars, ClosedBelowThreshold, CooldownTracked
<1> QED
    BY <1>1, <1>2, <1>3, <1>4, <1>5, <1>6 DEF Next, Finish

LEMMA AlwaysIInv == Spec => []IInv
BY InitIInv, NextIInv, PTL DEF Spec

\* The breaker is closed exactly while the failures counted since the last
\* success are fewer than the threshold.
THEOREM TripsAtThreshold == Spec => []ClosedBelowThreshold
BY AlwaysIInv, PTL DEF IInv

\* The fields keep their types and the count never saturates short of the
\* threshold.
THEOREM BreakerTypes == Spec => []TypeOK
BY AlwaysIInv, PTL DEF IInv

\* Nothing is admitted within the cooldown unless a success was reported.
THEOREM CooldownHolds == Spec => CooldownServed
<1>1. IInv /\ [Next]_vars =>
        [\A c \in Callers :
           Admits(c) /\ failures >= TripAt => tripped >= open_duration]_vars
  <2> SUFFICES ASSUME IInv, Next, NEW c \in Callers, Admits(c), failures >= TripAt
               PROVE tripped >= open_duration
      OBVIOUS
  <2>1. call[c] = "none" /\ call'[c] # "none"
        BY DEF Admits
  <2>2. PICK d \in Callers : acquire(d) \/ Finish(d)
        BY <2>1 DEF Next, Tick
  <2>3. acquire(d)
        BY <2>1, <2>2
           DEF Finish, record_success, record_failure, Abandon, IInv, TypeOK
  <2>4. state # "Closed"
        BY Threshold DEF IInv, TypeOK, ClosedBelowThreshold
  <2> QED
        BY <2>3, <2>4, BreakerAssumption
           DEF acquire, Cooled, IInv, TypeOK, CircuitState, CooldownTracked
<1> QED
    BY AlwaysIInv, <1>1, PTL DEF Spec, CooldownServed
===============================================================================
