----------------------------- MODULE RetryProofs -----------------------------
(***************************************************************************)
(* How often an operation under retry can take effect, and how long its    *)
(* attempts lie apart, for any policies, any durations and any answers,    *)
(* late ones included.                                                     *)
(***************************************************************************)
EXTENDS Retry, FiniteSetTheorems, WellFoundedInduction, TLAPS

\* The inductive invariant: only attempts begun have had or may have an effect,
\* no attempt is begun or slept for beyond the last, and an answer was earned.
IInv ==
  /\ policy \in RetryPolicy
  /\ attempt \in Nat /\ attempt < Attempts
  /\ effects \subseteq 0..attempt /\ limbo \subseteq 0..attempt
  /\ pc = "sleeping" => attempt + 1 < Attempts
  /\ pc = "ok" => attempt \in effects
  /\ pc = "err" => attempt + 1 = Attempts

\* Every policy makes one attempt or more.
LEMMA AttemptsPositive == policy \in RetryPolicy => Attempts \in Nat \ {0}
BY RetryAssumption DEF Attempts, RetryPolicy

LEMMA InitIInv == Init => IInv
BY AttemptsPositive, RetryAssumption DEF Init, IInv

\* An error is answered by another attempt exactly when one is left.
LEMMA ErrorIInv ==
  ASSUME IInv, pc = "calling", AfterError, limbo' \subseteq 0..attempt
  PROVE  IInv'
<1>1. UNCHANGED <<policy, attempt, effects>> /\ Attempts' = Attempts
  BY DEF AfterError, Attempts
<1>2. Attempts \in Nat /\ attempt \in Nat /\ attempt < Attempts
  BY AttemptsPositive DEF IInv
<1>3. CASE MoreLeft
  BY <1>1, <1>2, <1>3 DEF IInv, AfterError, MoreLeft
<1>4. CASE ~MoreLeft
  BY <1>1, <1>2, <1>4 DEF IInv, AfterError, MoreLeft
<1>. QED  BY <1>3, <1>4

LEMMA NextIInv == IInv /\ [Next]_vars => IInv'
<1>. SUFFICES ASSUME IInv, [Next]_vars PROVE IInv'
  OBVIOUS
<1>1. policy \in RetryPolicy /\ Attempts \in Nat /\ attempt \in Nat
  BY AttemptsPositive DEF IInv
<1>2. UNCHANGED policy /\ Attempts' = Attempts
  BY DEF Next, TakeEffect, Succeed, Fail, TimeOut, AfterError, Wake, Drop, Land, vars,
         Attempts
<1>3. CASE TakeEffect
  BY <1>1, <1>2, <1>3 DEF TakeEffect, IInv
<1>4. CASE Succeed
  BY <1>1, <1>2, <1>4 DEF Succeed, IInv
<1>5. CASE Fail
  BY <1>5, ErrorIInv DEF Fail, IInv
<1>6. CASE TimeOut
  <2>1. limbo' \subseteq 0..attempt
    BY <1>1, <1>6 DEF TimeOut, CutOff, IInv
  <2>. QED  BY <1>6, <2>1, ErrorIInv DEF TimeOut, Expires
<1>7. CASE Wake
  BY <1>1, <1>2, <1>7 DEF Wake, IInv
<1>8. CASE Drop
  <2>1. attempt \in 0..attempt
    BY <1>1
  <2>2. limbo' \subseteq 0..attempt
    BY <1>8, <2>1 DEF Drop, CutOff, IInv
  <2>. QED  BY <1>1, <1>2, <1>8, <2>2 DEF Drop, IInv
<1>9. ASSUME NEW n \in limbo, Land(n) PROVE IInv'
  BY <1>1, <1>2, <1>9 DEF Land, IInv
<1>10. CASE UNCHANGED vars
  BY <1>2, <1>10 DEF vars, IInv
<1>. QED
  BY <1>3, <1>4, <1>5, <1>6, <1>7, <1>8, <1>9, <1>10 DEF Next

\* The effect of an operation happens at most max(1, max_attempts) times in all,
\* however attempts are cut off and land late; Ok and Err are answered only when
\* they are due.
THEOREM RetriesBounded == Spec => []EffectsBounded
<1>1. IInv => EffectsBounded
  <2>. SUFFICES ASSUME IInv PROVE EffectsBounded
    OBVIOUS
  <2>1. attempt \in Nat /\ Attempts \in Nat /\ attempt + 1 <= Attempts
    BY AttemptsPositive DEF IInv
  <2>2. IsFiniteSet(0..attempt) /\ Cardinality(0..attempt) = attempt + 1
    BY <2>1, FS_Interval
  <2>3. effects \cup limbo \in SUBSET (0..attempt)
    BY DEF IInv
  <2>4. /\ IsFiniteSet(effects \cup limbo)
        /\ Cardinality(effects \cup limbo) <= Cardinality(0..attempt)
    BY <2>2, <2>3, FS_Subset
  <2>5. Cardinality(effects \cup limbo) \in Nat
    BY <2>4, FS_CardinalityType
  <2>6. Cardinality(effects \cup limbo) <= Attempts
    BY <2>1, <2>2, <2>4, <2>5
  <2>. QED  BY <2>3, <2>6 DEF IInv, EffectsBounded
<1>. QED  BY <1>1, InitIInv, NextIInv, PTL DEF Spec

(***************************************************************************)
(* The delays.  saturating_pow is recursive; that its equation has a       *)
(* solution, and so what it computes, follows from the fact that a         *)
(* nonempty set of numbers has a least member.                             *)
(***************************************************************************)
LEMMA LeastNumber ==
  ASSUME NEW T \in SUBSET Nat, T # {}
  PROVE  \E x \in T : \A y \in T : x <= y
<1>. DEFINE Below == {ss \in Nat \X Nat : ss[1] < ss[2]}
<1>1. IsWellFoundedOn(OpToRel(<, Nat), Nat)
  BY NatLessThanWellFounded, Zenon
<1>2. IsWellFoundedOn(Below, Nat)
  BY <1>1, Zenon DEF OpToRel
<1>3. \A x, y \in Nat : <<y, x>> \in Below <=> y < x
  OBVIOUS
<1>. HIDE DEF Below
<1>4. PICK x \in T : \A y \in T : <<y, x>> \notin Below
  BY <1>2, WFMin
<1>5. \A y \in T : ~(y < x)
  BY <1>3, <1>4, Zenon
<1>. QED  BY <1>5

\* g gives the powers of base up to n.
Powers(g, base, n) ==
  \A k \in 0..n : g[k] = IF k = 0 THEN 1 ELSE saturated(base * g[k - 1])

\* What is saturated fits.
LEMMA SaturatedType == ASSUME NEW n \in Nat PROVE saturated(n) \in 0..U32Max
BY RetryAssumption DEF saturated

LEMMA PowersUnique ==
  ASSUME NEW base, NEW m \in Nat, NEW n \in Nat, m <= n,
         NEW g, NEW h, Powers(g, base, m), Powers(h, base, n)
  PROVE  \A k \in 0..m : g[k] = h[k]
<1>. DEFINE T == {k \in 0..m : g[k] # h[k]}
<1>1. ASSUME T # {} PROVE FALSE
  <2>0. T \in SUBSET Nat
    OBVIOUS
  <2>1. PICK k \in T : \A j \in T : k <= j
    <3>. HIDE DEF T
    <3>. QED  BY <1>1, <2>0, LeastNumber
  <2>2. k # 0
    BY <2>1 DEF Powers
  <2>3. k - 1 \in 0..m /\ k - 1 \notin T
    BY <2>1, <2>2
  <2>4. g[k - 1] = h[k - 1]
    BY <2>3
  <2>. QED  BY <2>1, <2>2, <2>4 DEF Powers
<1>. QED  BY <1>1

LEMMA PowersExist ==
  ASSUME NEW base \in Nat, NEW n \in Nat
  PROVE  \E g \in [Nat -> Nat] : Powers(g, base, n)
<1>. DEFINE T == {m \in Nat : ~\E g \in [Nat -> Nat] : Powers(g, base, m)}
<1>1. ASSUME T # {} PROVE FALSE
  <2>1. PICK m \in T : \A j \in T : m <= j
    BY <1>1, LeastNumber
  <2>2. m # 0
    <3>1. Powers([k \in Nat |-> 1], base, 0)
      BY DEF Powers
    <3>. QED  BY <2>1, <3>1
  <2>3. m - 1 \in Nat /\ m - 1 \notin T
    BY <2>1, <2>2
  <2>4. PICK g \in [Nat -> Nat] : Powers(g, base, m - 1)
    BY <2>3
  <2>. DEFINE h == [g EXCEPT ![m] = saturated(base * g[m - 1])]
  <2>5. base * g[m - 1] \in Nat
    BY <2>3
  <2>6. saturated(base * g[m - 1]) \in Nat
    BY <2>5, SaturatedType, RetryAssumption DEF saturated
  <2>7. h \in [Nat -> Nat]
    BY <2>6
  <2>8. \A k \in 0..(m - 1) : h[k] = g[k]
    BY <2>1, <2>2
  <2>9. h[m] = saturated(base * h[m - 1])
    BY <2>1, <2>3, <2>8, <2>2
  <2>10. Powers(h, base, m)
    <3>. HIDE DEF h
    <3>. SUFFICES ASSUME NEW k \in 0..m
                  PROVE  h[k] = IF k = 0 THEN 1 ELSE saturated(base * h[k - 1])
      BY DEF Powers
    <3>1. CASE k = m
      BY <2>2, <2>9, <3>1
    <3>2. CASE k # m
      <4>1. k \in 0..(m - 1) /\ h[k] = g[k] /\ (k # 0 => h[k - 1] = g[k - 1])
        BY <2>1, <2>2, <2>8, <3>2
      <4>. QED  BY <2>4, <4>1 DEF Powers
    <3>. QED  BY <3>1, <3>2
  <2>. QED  BY <2>1, <2>7, <2>10
<1>. QED  BY <1>1

\* The equation of saturating_pow, and the range of its values.
LEMMA PowUnfolds ==
  ASSUME NEW base \in Nat
  PROVE  /\ saturating_pow(base, 0) = 1
         /\ \A n \in Nat :
              /\ saturating_pow(base, n) \in Nat
              /\ saturating_pow(base, n + 1) = saturated(base * saturating_pow(base, n))
<1>. DEFINE upto(n) == CHOOSE g \in [Nat -> Nat] : Powers(g, base, n)
            all == [k \in Nat |-> upto(k)[k]]
<1>1. \A n \in Nat : upto(n) \in [Nat -> Nat] /\ Powers(upto(n), base, n)
  BY PowersExist
<1>2. \A k \in Nat : all[k] = IF k = 0 THEN 1 ELSE saturated(base * all[k - 1])
  <2>. HIDE DEF upto
  <2>. SUFFICES ASSUME NEW k \in Nat
                PROVE  all[k] = IF k = 0 THEN 1 ELSE saturated(base * all[k - 1])
    OBVIOUS
  <2>1. upto(k)[k] = IF k = 0 THEN 1 ELSE saturated(base * upto(k)[k - 1])
    BY <1>1 DEF Powers
  <2>2. k # 0 => upto(k - 1)[k - 1] = upto(k)[k - 1]
    BY <1>1, PowersUnique
  <2>. QED  BY <2>1, <2>2
<1>3. all = [k \in Nat |-> IF k = 0 THEN 1 ELSE saturated(base * all[k - 1])]
  <2>. HIDE DEF upto
  <2>. QED  BY <1>2
<1>. DEFINE pow == CHOOSE f :
              f = [k \in Nat |-> IF k = 0 THEN 1 ELSE saturated(base * f[k - 1])]
<1>4. pow = [k \in Nat |-> IF k = 0 THEN 1 ELSE saturated(base * pow[k - 1])]
  <2>. HIDE DEF all
  <2>. QED  BY <1>3, Zenon
<1>5. \A n : saturating_pow(base, n) = pow[n]
  BY Zenon DEF saturating_pow
<1>. HIDE DEF pow
<1>6. \A n \in Nat : Powers(pow, base, n)
  BY <1>4 DEF Powers
<1>7. \A n \in Nat : pow[n] \in Nat
  <2>. HIDE DEF upto
  <2>. SUFFICES ASSUME NEW n \in Nat PROVE pow[n] \in Nat
    OBVIOUS
  <2>1. \A k \in 0..n : upto(n)[k] = pow[k]
    BY <1>1, <1>6, PowersUnique
  <2>2. upto(n)[n] \in Nat
    BY <1>1
  <2>. QED  BY <2>1, <2>2
<1>8. pow[0] = 1 /\ \A n \in Nat : pow[n + 1] = saturated(base * pow[n])
  BY <1>4
<1>. QED  BY <1>5, <1>7, <1>8

\* With a multiplier of at least 1 the powers do not shrink.
LEMMA PowGrows ==
  ASSUME NEW base \in 1..U32Max, NEW n \in Nat
  PROVE  /\ saturating_pow(base, n) \in Nat
         /\ saturating_pow(base, n) <= saturating_pow(base, n + 1)
<1>. DEFINE p == saturating_pow(base, n)
<1>0. base \in Nat
  BY RetryAssumption
<1>1. p \in Nat /\ saturating_pow(base, n + 1) = saturated(base * p)
  BY <1>0, PowUnfolds
<1>2. p <= U32Max
  <2>1. CASE n = 0
    BY <1>0, <2>1, PowUnfolds, RetryAssumption
  <2>2. CASE n # 0
    <3>1. PICK m \in Nat : n = m + 1
      BY <2>2
    <3>2. saturating_pow(base, m) \in Nat /\ p = saturated(base * saturating_pow(base, m))
      BY <1>0, <3>1, PowUnfolds
    <3>3. base * saturating_pow(base, m) \in Nat
      BY <1>0, <3>2
    <3>. QED  BY <3>2, <3>3, SaturatedType, RetryAssumption
  <2>. QED  BY <2>1, <2>2
<1>. HIDE DEF p
<1>3. p <= base * p
  BY <1>1, RetryAssumption
<1>. QED  BY <1>1, <1>2, <1>3 DEF saturated, p

\* Nor do the delays, and they respect a cap that fits its type.
LEMMA DelayGrows ==
  ASSUME policy \in RetryPolicy, policy.multiplier >= 1,
         as_millis(policy.max_backoff) <= U64Max, NEW n \in Nat
  PROVE  /\ backoff_for(n) \in Nat
         /\ backoff_for(n) <= backoff_for(n + 1)
         /\ backoff_for(n) <= as_millis(policy.max_backoff)
<1>. DEFINE initial == as_millis(policy.initial_backoff)
            cap == as_millis(policy.max_backoff)
            capped(m) == IF m < cap THEN m ELSE cap
            pow(k) == saturating_pow(policy.multiplier, k)
<1>1. initial \in Nat /\ cap \in 0..U64Max
  BY RetryAssumption DEF as_millis, RetryPolicy
<1>2. policy.multiplier \in 1..U32Max
  BY RetryAssumption DEF RetryPolicy
<1>3. pow(n) \in Nat /\ pow(n + 1) \in Nat /\ pow(n) <= pow(n + 1)
  BY <1>2, PowGrows
<1>4. \A m \in 0..U64Max : m % (U64Max + 1) = m
  BY RetryAssumption
<1>5. \A k : backoff_for(k) = capped(initial * pow(k)) % (U64Max + 1)
  BY DEF backoff_for
<1>. HIDE DEF initial, cap, pow
<1>6. /\ initial * pow(n) \in Nat /\ initial * pow(n + 1) \in Nat
      /\ initial * pow(n) <= initial * pow(n + 1)
  BY <1>1, <1>3
<1>7. capped(initial * pow(n)) \in 0..cap /\ capped(initial * pow(n + 1)) \in 0..cap
  BY <1>1, <1>6
<1>8. /\ backoff_for(n) = capped(initial * pow(n))
      /\ backoff_for(n + 1) = capped(initial * pow(n + 1))
  BY <1>1, <1>4, <1>5, <1>7, RetryAssumption
<1>. QED  BY <1>1, <1>6, <1>7, <1>8 DEF cap

\* The delay chosen last is the one of the attempt that failed last.
BackoffInv ==
  /\ pc = "calling" => backoff = IF attempt = 0 THEN 0 ELSE backoff_for(attempt - 1)
  /\ pc = "sleeping" => backoff = backoff_for(attempt)

LEMMA NextBackoffInv == IInv /\ BackoffInv /\ [Next]_vars => BackoffInv'
<1>. SUFFICES ASSUME IInv, BackoffInv, [Next]_vars PROVE BackoffInv'
  OBVIOUS
<1>1. attempt \in Nat /\ UNCHANGED policy
  BY DEF IInv, Next, TakeEffect, Succeed, Fail, TimeOut, AfterError, Wake, Drop, Land, vars
<1>2. CASE UNCHANGED <<attempt, pc, backoff>>
  BY <1>1, <1>2 DEF BackoffInv, backoff_for
<1>3. CASE pc' \notin Running
  BY <1>3 DEF BackoffInv, Running
<1>4. CASE AfterError
  BY <1>1, <1>4 DEF AfterError, BackoffInv, backoff_for
<1>5. CASE Wake
  BY <1>1, <1>5 DEF Wake, BackoffInv, backoff_for
<1>. QED
  BY <1>2, <1>3, <1>4, <1>5
     DEF Next, TakeEffect, Succeed, Fail, TimeOut, Drop, Land, Running, vars

\* Under every policy with a multiplier and a cap that fits, the delays grow, if
\* they change, up to the cap.
THEOREM DelaysGrow == Spec => BackoffGrows
<1>1. Init => BackoffInv
  BY DEF Init, BackoffInv
<1>2. IInv /\ BackoffInv /\ [Next]_vars =>
        [pc = "calling" /\ pc' = "sleeping" /\ policy.multiplier >= 1
           /\ as_millis(policy.max_backoff) <= U64Max =>
             backoff <= backoff' /\ backoff' <= as_millis(policy.max_backoff)]_vars
  <2>. SUFFICES ASSUME IInv, BackoffInv, Next, pc = "calling", pc' = "sleeping",
                       policy.multiplier >= 1, as_millis(policy.max_backoff) <= U64Max
                PROVE  backoff <= backoff' /\ backoff' <= as_millis(policy.max_backoff)
    OBVIOUS
  <2>1. backoff' = backoff_for(attempt)
    BY DEF Next, TakeEffect, Succeed, Fail, TimeOut, AfterError, Wake, Drop, Land
  <2>2. attempt \in Nat /\ policy \in RetryPolicy
    BY DEF IInv
  <2>3. backoff_for(attempt) \in Nat /\ backoff_for(attempt) <= as_millis(policy.max_backoff)
    BY <2>2, DelayGrows
  <2>4. backoff <= backoff_for(attempt)
    <3>1. CASE attempt = 0
      BY <2>3, <3>1 DEF BackoffInv
    <3>2. CASE attempt # 0
      <4>1. PICK n \in Nat : attempt = n + 1
        BY <2>2, <3>2
      <4>2. backoff = backoff_for(n)
        BY <4>1 DEF BackoffInv
      <4>. QED  BY <2>2, <4>1, <4>2, DelayGrows
    <3>. QED  BY <3>1, <3>2
  <2>. QED  BY <2>1, <2>3, <2>4
<1>. QED  BY <1>1, <1>2, InitIInv, NextIInv, NextBackoffInv, PTL DEF Spec, BackoffGrows
==============================================================================
