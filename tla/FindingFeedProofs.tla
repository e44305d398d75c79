-------------------------- MODULE FindingFeedProofs --------------------------
(***************************************************************************)
(* What concurrent reports of findings leave in the store and what         *)
(* subscribers are told, for any number of both, of reports and of         *)
(* other events, and for every capacity of the channel.                    *)
(*                                                                         *)
(* The feed implements the finding store, whose invariant therefore holds  *)
(* here too; the two invariants of this module are about the channel alone *)
(* and about what the log says of the findings announced.                  *)
(***************************************************************************)
EXTENDS FindingFeed, TLAPS

(***************************************************************************)
(* The store alone                                                         *)
(***************************************************************************)
\* Report r, announced already, is the one stored.
StoredAs(r, id) == r.id = id /\ r.severity = records[id]

\* The inductive invariant: a stored finding is announced or its writer is about
\* to announce it, and whatever is or will be announced is stored.
Accounted ==
  /\ \A id \in FindingIds :
       Exists(id) =>
         \/ \E r \in announced : StoredAs(r, id)
         \/ \E w \in Workers : pc[w] = "publish" /\ StoredAs(call[w], id)
  /\ \A r \in announced : Exists(r.id)
  /\ \A w \in Workers : pc[w] = "publish" => Exists(call[w].id)

IInv == TypeOK /\ Accounted

LEMMA InitIInv == Init => IInv
BY FindingAssumption
   DEF Init, IInv, TypeOK, Labels, Accounted, Exists

\* Every step keeps the fields within their types.
LEMMA NextTypeOK == TypeOK /\ [Next]_vars => TypeOK'
<1> SUFFICES ASSUME TypeOK, [Next]_vars PROVE TypeOK'
    OBVIOUS
<1> USE FindingAssumption DEF TypeOK, Labels
<1>1. ASSUME NEW w \in Workers, NEW id \in FindingIds, NEW severity \in Severities,
             raise_finding(w, id, severity)
      PROVE TypeOK'
  <2> DEFINE r == [raise |-> raises + 1, id |-> id, severity |-> severity]
  <2>1. raises + 1 \in 1..MaxRaises /\ r \in Raise
        BY <1>1 DEF raise_finding, Raise
  <2>2. call' = [call EXCEPT ![w] = r] /\ pc' = [pc EXCEPT ![w] = "contains_key"]
        BY <1>1 DEF raise_finding
  <2> HIDE DEF r
  <2> QED
        BY <2>1, <2>2, <1>1 DEF raise_finding
<1>2. ASSUME NEW w \in Workers, ContainsKey(w) PROVE TypeOK'
      BY <1>2 DEF ContainsKey, IfVacant
<1>3. ASSUME NEW w \in Workers, Insert(w) PROVE TypeOK'
  <2>1. call[w].id \in FindingIds /\ call[w].severity \in Severities
        BY <1>3 DEF Insert, Raise
  <2> QED
        BY <2>1, <1>3 DEF Insert, AfterInsert
<1>4. ASSUME NEW w \in Workers, Publish(w) PROVE TypeOK'
      BY <1>4 DEF Publish
<1>5. CASE UNCHANGED vars
      BY <1>5 DEF vars
<1> QED
    BY <1>1, <1>2, <1>3, <1>4, <1>5 DEF Next, Step, Done

\* Every step keeps stored and announced findings in agreement.
LEMMA NextAccounted == IInv /\ [Next]_vars => Accounted'
<1> SUFFICES ASSUME IInv, [Next]_vars PROVE Accounted'
    OBVIOUS
<1> USE DEF IInv
<1>1. ASSUME NEW v \in Workers, pc[v] # "publish",
             pc' \in [Workers -> Labels], pc'[v] # "publish",
             \A w \in Workers \ {v} : pc'[w] = pc[w] /\ call'[w] = call[w],
             UNCHANGED <<records, announced>>
      PROVE Accounted'
      BY <1>1 DEF Accounted, Exists, StoredAs
<1>2. ASSUME NEW w \in Workers, NEW id \in FindingIds, NEW severity \in Severities,
             raise_finding(w, id, severity)
      PROVE Accounted'
      BY <1>1, <1>2 DEF raise_finding, TypeOK, Labels
<1>3. ASSUME NEW w \in Workers, ContainsKey(w) PROVE Accounted'
      BY <1>1, <1>3 DEF ContainsKey, IfVacant, TypeOK, Labels
<1>4. ASSUME NEW w \in Workers, Insert(w) PROVE Accounted'
  <2> DEFINE f == call[w].id
             s == call[w].severity
  <2>1. call[w] \in Raise /\ f \in FindingIds /\ s \in Severities /\ s # NoFinding
        BY <1>4, FindingAssumption DEF Insert, TypeOK, Raise
  <2>2. /\ records' = [records EXCEPT ![f] = s]
        /\ pc' = [pc EXCEPT ![w] = "publish"]
        /\ UNCHANGED <<call, announced>>
        BY <1>4 DEF Insert, AfterInsert
  <2>3. records'[f] = s /\ \A id \in FindingIds \ {f} : records'[id] = records[id]
        BY <2>1, <2>2 DEF TypeOK
  <2>4. pc'[w] = "publish" /\ \A v \in Workers \ {w} : pc'[v] = pc[v]
        BY <2>2 DEF TypeOK
  <2>5. \A id \in FindingIds : Exists(id) => Exists(id)'
        BY <2>1, <2>3 DEF Exists
  <2>6. /\ \A r \in announced : r.id \in FindingIds
        /\ \A v \in Workers : pc[v] = "publish" => call[v].id \in FindingIds
        BY DEF TypeOK, Raise
  <2>7. ASSUME NEW id \in FindingIds, Exists(id)'
        PROVE \/ \E r \in announced' : StoredAs(r, id)'
              \/ \E v \in Workers : pc'[v] = "publish" /\ StoredAs(call[v], id)'
    <3>1. CASE id = f
          BY <3>1, <2>2, <2>3, <2>4 DEF StoredAs
    <3>2. CASE id # f
      <4>1. Exists(id)
            BY <3>2, <2>3, <2>7 DEF Exists
      <4>2. \/ \E r \in announced : StoredAs(r, id)
            \/ \E v \in Workers : pc[v] = "publish" /\ StoredAs(call[v], id)
            BY <4>1 DEF Accounted
      <4> QED
            BY <4>2, <3>2, <2>2, <2>3, <2>4 DEF StoredAs
    <3> QED
          BY <3>1, <3>2
  <2>8. \A r \in announced' : Exists(r.id)'
        BY <2>2, <2>5, <2>6 DEF Accounted
  <2>9. \A v \in Workers : pc'[v] = "publish" => Exists(call[v].id)'
        BY <2>1, <2>2, <2>3, <2>4, <2>5, <2>6 DEF Accounted, Exists
  <2> QED
        BY <2>7, <2>8, <2>9 DEF Accounted
<1>5. ASSUME NEW w \in Workers, Publish(w) PROVE Accounted'
  <2>1. /\ announced' = announced \cup {call[w]}
        /\ pc[w] = "publish" /\ pc'[w] = "idle"
        /\ \A v \in Workers \ {w} : pc'[v] = pc[v] /\ call'[v] = call[v]
        /\ records' = records
        BY <1>5 DEF Publish, TypeOK
  <2> QED
        BY <2>1 DEF Accounted, Exists, StoredAs
<1>6. CASE UNCHANGED vars
      BY <1>6 DEF vars, Accounted, Exists, StoredAs
<1> QED
    BY <1>2, <1>3, <1>4, <1>5, <1>6 DEF Next, Step, Done

LEMMA AlwaysIInv == Spec => []IInv
<1>1. IInv /\ [Next]_vars => IInv'
      BY NextTypeOK, NextAccounted DEF IInv
<1> QED
    BY InitIInv, <1>1, PTL DEF Spec

\* Between requests the store holds exactly the findings announced, each as one
\* of its announcements said.
THEOREM RegistryMatchesEvents == Spec => []StoredAsAnnounced
<1>1. IInv => StoredAsAnnounced
  <2> SUFFICES ASSUME IInv, Quiet, NEW id \in FindingIds
               PROVE /\ Exists(id) <=> ReportsOf(id) # {}
                     /\ Exists(id) => \E r \in ReportsOf(id) : r.severity = records[id]
      BY DEF StoredAsAnnounced
  <2>1. Exists(id) => \E r \in announced : StoredAs(r, id)
        BY DEF IInv, Accounted, Quiet
  <2>2. \A r \in ReportsOf(id) : Exists(id)
        BY DEF IInv, Accounted, ReportsOf
  <2> QED
        BY <2>1, <2>2 DEF ReportsOf, StoredAs
<1> QED
    BY AlwaysIInv, <1>1, PTL

(***************************************************************************)
(* The store inside the feed                                               *)
(***************************************************************************)
\* Whatever the feed does is a step of the store, or none.
LEMMA FeedStepsStore == [FeedNext]_feedVars => [Next]_vars
<1>1. ASSUME NEW w \in Workers, Report(w) PROVE Next
  BY <1>1 DEF Report, Next, Step
<1>2. CASE Others \/ UNCHANGED feedVars
  BY <1>2 DEF Others, feedVars, vars
<1>3. ASSUME NEW s \in Subscribers, Client(s) PROVE UNCHANGED vars
  BY <1>3 DEF Client
<1>. QED  BY <1>1, <1>2, <1>3 DEF FeedNext

\* The composition implements the finding store by itself.
LEMMA FeedImplementsStore == FeedSpec => Spec
<1>1. FeedInit => Init
  BY DEF FeedInit
<1>. QED  BY <1>1, FeedStepsStore, PTL DEF FeedSpec, Spec

\* With subscribers coming, going and lagging, too, the findings stored between
\* requests are those announced.
THEOREM FeedRegistryMatches == FeedSpec => []StoredAsAnnounced
BY FeedImplementsStore, RegistryMatchesEvents, PTL

(***************************************************************************)
(* The channel                                                             *)
(***************************************************************************)
Events == OtherEvents \cup {FindingRaised(c) : c \in Raise}

BusTypes ==
  /\ log \in Seq(Events)
  /\ next \in [Subscribers -> Nat \cup {Off}]
  /\ since \in [Subscribers -> Nat]
  /\ got \in [Subscribers -> SUBSET Nat]

\* The inductive invariant: a receiver is somewhere between its subscription and
\* the end, a client was shown what lies in the log, and what it was not shown on
\* the way has left the channel.
Positions ==
  /\ \A s \in Subscribers : \A p \in got[s] : p < Len(log)
  /\ \A s \in Subscribers :
       Connected(s) =>
         /\ since[s] <= next[s] /\ next[s] <= Len(log)
         /\ \A p \in since[s]..(next[s] - 1) : p \notin got[s] => Len(log) - p > Capacity

BusInv == BusTypes /\ Positions

\* What is sent is an event; the log grows at its end, if at all.
LEMMA PublishGrows ==
  ASSUME BusTypes, NEW e \in Events, publish(e)
  PROVE  /\ log' \in Seq(Events)
         /\ log' = log \/ log' = Append(log, e)
         /\ Len(log) \in Nat /\ Len(log') \in Nat /\ Len(log) <= Len(log')
         /\ UNCHANGED <<next, since, got>>
BY DEF BusTypes, publish

LEMMA PublishKeeps ==
  ASSUME BusInv, NEW e \in Events, publish(e)
  PROVE  BusInv'
<1>1. /\ log' \in Seq(Events)
      /\ Len(log) \in Nat /\ Len(log') \in Nat /\ Len(log) <= Len(log')
      /\ UNCHANGED <<next, since, got>>
  BY PublishGrows DEF BusInv
<1>2. ASSUME NEW s \in Subscribers
      PROVE  /\ \A p \in got[s] : p < Len(log')
             /\ Connected(s) =>
                  /\ since[s] <= next[s] /\ next[s] <= Len(log')
                  /\ \A p \in since[s]..(next[s] - 1) :
                       p \notin got[s] => Len(log') - p > Capacity
  <2>1. since[s] \in Nat /\ next[s] \in Nat \cup {Off} /\ got[s] \in SUBSET Nat
    BY DEF BusInv, BusTypes
  <2>2. \A p \in got[s] : p < Len(log')
    BY <1>1, <2>1 DEF BusInv, Positions
  <2>3. ASSUME Connected(s)
        PROVE  /\ since[s] <= next[s] /\ next[s] <= Len(log')
               /\ \A p \in since[s]..(next[s] - 1) :
                    p \notin got[s] => Len(log') - p > Capacity
    BY <1>1, <2>1, <2>3, BusAssumption DEF BusInv, Positions, Connected
  <2>. QED  BY <2>2, <2>3
<1>. QED  BY <1>1, <1>2 DEF BusInv, BusTypes, Positions, Connected

\* A receiver is made at the end, and let go anywhere.
LEMMA SubscribeKeeps ==
  ASSUME BusInv, NEW s \in Subscribers, subscribe(s) \/ unsubscribe(s)
  PROVE  BusInv'
<1>1. /\ Len(log) \in Nat /\ log' = log /\ Off \notin Nat
      /\ log \in Seq(Events) /\ next \in [Subscribers -> Nat \cup {Off}]
      /\ since \in [Subscribers -> Nat] /\ got \in [Subscribers -> SUBSET Nat]
  BY BusAssumption DEF BusInv, BusTypes, subscribe, unsubscribe
<1>2. CASE subscribe(s)
  <2>1. /\ next' = [next EXCEPT ![s] = Len(log)]
        /\ since' = [since EXCEPT ![s] = Len(log)]
        /\ got' = [got EXCEPT ![s] = {}]
    BY <1>2 DEF subscribe
  <2>2. BusTypes'
    BY <1>1, <2>1 DEF BusTypes
  <2>3. /\ next'[s] = Len(log) /\ since'[s] = Len(log) /\ got'[s] = {}
        /\ \A t \in Subscribers \ {s} :
             next'[t] = next[t] /\ since'[t] = since[t] /\ got'[t] = got[t]
    BY <1>1, <2>1
  <2>. QED  BY <1>1, <2>2, <2>3 DEF BusInv, Positions, Connected
<1>3. CASE unsubscribe(s)
  <2>1. next' = [next EXCEPT ![s] = Off] /\ UNCHANGED <<log, since, got>>
    BY <1>3 DEF unsubscribe
  <2>2. BusTypes'
    BY <1>1, <2>1 DEF BusTypes
  <2>3. next'[s] = Off /\ \A t \in Subscribers \ {s} : next'[t] = next[t]
    BY <1>1, <2>1
  <2>. QED  BY <1>1, <2>1, <2>2, <2>3 DEF BusInv, Positions, Connected
<1>. QED  BY <1>2, <1>3

\* Positions skipped have left the channel; the next one is delivered.
LEMMA PollKeeps ==
  ASSUME BusInv, NEW s \in Subscribers, poll(s)
  PROVE  BusInv'
<1>1. /\ Len(log) \in Nat /\ UNCHANGED <<log, since>> /\ Off \notin Nat
      /\ Capacity \in Nat \ {0}
      /\ log \in Seq(Events) /\ next \in [Subscribers -> Nat \cup {Off}]
      /\ since \in [Subscribers -> Nat] /\ got \in [Subscribers -> SUBSET Nat]
  BY BusAssumption DEF BusInv, BusTypes, poll
<1>2. /\ next[s] \in Nat /\ next[s] < Len(log)
      /\ since[s] \in Nat /\ since[s] <= next[s] /\ got[s] \in SUBSET Nat
      /\ \A p \in since[s]..(next[s] - 1) : p \notin got[s] => Len(log) - p > Capacity
      /\ \A p \in got[s] : p < Len(log)
  BY <1>1 DEF poll, Connected, BusInv, Positions
<1>3. \A t \in Subscribers \ {s} : next'[t] = next[t] /\ got'[t] = got[t]
  BY <1>1 DEF poll
<1>4. CASE next[s] < Oldest
  <2>1. next' = [next EXCEPT ![s] = Oldest] /\ got' = got
    BY <1>4 DEF poll, AfterLag
  <2>2. Oldest = Len(log) - Capacity /\ Oldest \in Nat
    BY <1>1, <1>2, <1>4 DEF Oldest, Slots
  <2>3. BusTypes' /\ next'[s] = Oldest
    BY <1>1, <2>1, <2>2 DEF BusTypes
  <2>4. /\ since[s] <= Oldest /\ Oldest <= Len(log)
        /\ \A p \in since[s]..(Oldest - 1) : p \notin got[s] => Len(log) - p > Capacity
    BY <1>1, <1>2, <1>4, <2>2
  <2>. QED  BY <1>1, <1>3, <2>1, <2>3, <2>4 DEF BusInv, Positions, Connected
<1>5. CASE ~(next[s] < Oldest)
  <2>1. /\ next' = [next EXCEPT ![s] = next[s] + 1]
        /\ got' = [got EXCEPT ![s] = got[s] \cup {next[s]}]
    BY <1>5 DEF poll
  <2>2. /\ BusTypes'
        /\ next'[s] = next[s] + 1 /\ got'[s] = got[s] \cup {next[s]}
    BY <1>1, <1>2, <2>1 DEF BusTypes
  <2>3. /\ since[s] <= next'[s] /\ next'[s] <= Len(log)
        /\ \A p \in since[s]..(next'[s] - 1) : p \notin got'[s] => Len(log) - p > Capacity
        /\ \A p \in got'[s] : p < Len(log)
    BY <1>1, <1>2, <2>2
  <2>. QED  BY <1>1, <1>3, <2>2, <2>3 DEF BusInv, Positions, Connected
<1>. QED  BY <1>4, <1>5

\* The events the feed sends.
LEMMA Sends ==
  ASSUME IInv, [FeedNext]_feedVars
  PROVE  \/ \E w \in Workers :
              /\ Publish(w) /\ call[w] \in Raise
              /\ FindingRaised(call[w]) \in Events /\ publish(FindingRaised(call[w]))
         \/ \E e \in OtherEvents : publish(e) /\ UNCHANGED vars
         \/ \E s \in Subscribers : (subscribe(s) \/ unsubscribe(s) \/ poll(s)) /\ UNCHANGED vars
         \/ UNCHANGED busVars
<1>1. ASSUME NEW w \in Workers, Publish(w)
      PROVE  call[w] \in Raise /\ FindingRaised(call[w]) \in Events
  BY <1>1 DEF Publish, IInv, TypeOK, Events
<1>. QED  BY <1>1 DEF FeedNext, Report, Others, Client, feedVars

LEMMA NextBus == IInv /\ BusInv /\ [FeedNext]_feedVars => BusInv'
<1>. SUFFICES ASSUME IInv, BusInv, [FeedNext]_feedVars PROVE BusInv'
  OBVIOUS
<1>1. CASE UNCHANGED busVars
  BY <1>1 DEF busVars, BusInv, BusTypes, Positions, Connected
<1>2. OtherEvents \subseteq Events
  BY DEF Events
<1>. QED  BY <1>1, <1>2, Sends, PublishKeeps, SubscribeKeeps, PollKeeps

LEMMA AlwaysBus == FeedSpec => [](IInv /\ BusInv)
<1>1. FeedInit => BusInv
  BY BusAssumption
  DEF FeedInit, BusInit, BusInv, BusTypes, Positions, Connected
<1>. QED
  BY <1>1, NextBus, FeedImplementsStore, AlwaysIInv, PTL DEF FeedSpec

\* A client misses an event it was subscribed for only by letting a whole channel
\* of later events pass before it polls again.
THEOREM GapsAreLags == FeedSpec => []GapsOnlyFromLag
<1>1. BusInv => GapsOnlyFromLag
  BY DEF BusInv, Positions, GapsOnlyFromLag
<1>. QED  BY <1>1, AlwaysBus, PTL

(***************************************************************************)
(* What the log says                                                       *)
(***************************************************************************)
\* The inductive invariant: a finding the log tells of was announced.
Told ==
  \A i \in 1..Len(log) :
    log[i].name = "FindingRaised" =>
      \E r \in announced : r.id = log[i].id /\ r.severity = log[i].severity

LEMMA NextTold == IInv /\ BusInv /\ Told /\ [FeedNext]_feedVars => Told'
<1>. SUFFICES ASSUME IInv, BusInv, Told, [FeedNext]_feedVars PROVE Told'
  OBVIOUS
<1>1. announced \subseteq announced'
  BY FeedStepsStore
  DEF Next, Step, raise_finding, ContainsKey, Insert, Publish, Done, vars
<1>2. CASE log' = log
  BY <1>1, <1>2 DEF Told
<1>3. ASSUME NEW e \in Events, publish(e),
             e.name = "FindingRaised" =>
               \E r \in announced' : r.id = e.id /\ r.severity = e.severity
      PROVE  Told'
  <2>1. CASE log' = Append(log, e)
    <3>1. /\ log \in Seq(Events) /\ Len(log') = Len(log) + 1 /\ Len(log) \in Nat
          /\ log'[Len(log) + 1] = e
          /\ \A i \in 1..Len(log) : log'[i] = log[i]
      BY <2>1 DEF BusInv, BusTypes
    <3>2. ASSUME NEW i \in 1..Len(log'), log'[i].name = "FindingRaised"
          PROVE  \E r \in announced' : r.id = log'[i].id /\ r.severity = log'[i].severity
      <4>1. CASE i = Len(log) + 1
        BY <1>3, <3>1, <3>2, <4>1
      <4>2. CASE i \in 1..Len(log)
        BY <1>1, <3>1, <3>2, <4>2 DEF Told
      <4>. QED  BY <3>1, <4>1, <4>2
    <3>. QED  BY <3>2 DEF Told
  <2>. QED  BY <1>2, <1>3, <2>1, PublishGrows DEF BusInv
<1>4. ASSUME NEW w \in Workers, Publish(w), call[w] \in Raise,
             FindingRaised(call[w]) \in Events, publish(FindingRaised(call[w]))
      PROVE  Told'
  <2>1. call[w] \in announced'
    BY <1>4 DEF Publish
  <2>2. /\ FindingRaised(call[w]).id = call[w].id
        /\ FindingRaised(call[w]).severity = call[w].severity
    BY DEF FindingRaised
  <2>. QED  BY <1>3, <1>4, <2>1, <2>2
<1>5. ASSUME NEW e \in OtherEvents, publish(e)
      PROVE  Told'
  <2>1. e \in Events /\ e.name # "FindingRaised"
    BY FeedAssumption DEF Events
  <2>. QED  BY <1>3, <1>5, <2>1
<1>6. CASE UNCHANGED busVars \/ \E s \in Subscribers : subscribe(s) \/ unsubscribe(s) \/ poll(s)
  BY <1>2, <1>6 DEF busVars, subscribe, unsubscribe, poll
<1>. QED  BY <1>4, <1>5, <1>6, Sends

\* Only a finding is shown as one.
LEMMA ShownFinding ==
  ASSUME NEW e \in Events, GqlEvent(e).kind = "FINDING_RAISED"
  PROVE  /\ e.name = "FindingRaised"
         /\ GqlEvent(e).id = e.id /\ GqlEvent(e).detail = e.severity
<1>1. e.name \in {"ProposalCreated", "ProposalApproved", "ProposalExecuted",
                  "ProposalCancelled", "PauseChanged", "FindingRaised"}
  BY FeedAssumption DEF Events, FindingRaised
<1>2. e.name = "FindingRaised"
  BY <1>1 DEF GqlEvent
<1>. QED  BY <1>2 DEF GqlEvent

\* A client is shown findings that were accepted, with the severity of their
\* report, and can query them at once, though reports of one id overwrite each
\* other.
THEOREM FeedTellsTruth == FeedSpec => []FeedTruthful
<1>1. FeedInit => Told
  BY DEF FeedInit, BusInit, Told
<1>2. IInv /\ BusInv /\ Told => FeedTruthful
  <2>. SUFFICES ASSUME IInv, BusInv, Told, NEW s \in Subscribers,
                       NEW shown \in Shown(s), shown.kind = "FINDING_RAISED"
                PROVE  /\ finding(shown.id) # NoFinding
                       /\ \E r \in ReportsOf(shown.id) : r.severity = shown.detail
    BY DEF FeedTruthful
  <2>1. PICK p \in got[s] : shown = GqlEvent(log[p + 1])
    BY DEF Shown
  <2>2. p + 1 \in 1..Len(log) /\ log[p + 1] \in Events
    BY DEF BusInv, BusTypes, Positions
  <2>3. /\ log[p + 1].name = "FindingRaised"
        /\ shown.id = log[p + 1].id /\ shown.detail = log[p + 1].severity
    BY <2>1, <2>2, ShownFinding
  <2>4. PICK r \in announced : r.id = shown.id /\ r.severity = shown.detail
    BY <2>2, <2>3 DEF Told
  <2>. QED  BY <2>4 DEF IInv, Accounted, Exists, finding, ReportsOf
<1>. QED  BY <1>1, <1>2, NextTold, AlwaysBus, PTL DEF FeedSpec
==============================================================================
