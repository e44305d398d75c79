----------------------- MODULE AuditEngineMemoryProofs -----------------------
(***************************************************************************)
(* What the engine keeps over the store that the node wires, where nothing *)
(* restarts and nothing goes astray, for any number of requests in flight. *)
(* The first sections hold of every proposal however requests interleave,  *)
(* the last of the proposals that no two handlers held together.           *)
(*                                                                         *)
(* Where counts matter the keys that are ever made guardians are no more   *)
(* than a u8 counts: beyond that the code's count of approvals wraps.      *)
(***************************************************************************)
EXTENDS AuditEngineProofs, EngineOverlap

\* Every key that some rotation makes a guardian.
EverGuardians == UNION {Range(vec) : vec \in GuardianVecs}

NoWrap == Cardinality(EverGuardians) <= U8Max

(***************************************************************************)
(* Only guardians vote, so that counts do not wrap                         *)
(***************************************************************************)
GuardiansOnly ==
  /\ config.guardians \subseteq EverGuardians
  /\ \A id \in Ids : approvals[id] \subseteq EverGuardians
  /\ \A w \in Workers :
       call[w].op = "approve" /\ pc[w] \in {"load", "vote"} => call[w].key \in EverGuardians

LEMMA EverGuardiansKeys == EverGuardians \in SUBSET Keys
<1>1. ASSUME NEW vec \in GuardianVecs PROVE Range(vec) \in SUBSET Keys
  <2>1. vec \in Seq(Keys) /\ DOMAIN vec = 1..Len(vec)
    BY EngineAssumption
  <2>. QED  BY <2>1 DEF Range
<1>. QED  BY <1>1 DEF EverGuardians

\* The guardians change by rotation, the counter by the section that counts, both
\* by a restart.
LEMMA ConfigFrom ==
  ASSUME IInv, [Next]_vars
  PROVE  /\ \/ config'.guardians = config.guardians
            \/ \E vec \in GuardianVecs : config'.guardians = Range(vec)
         /\ \/ config'.proposal_count = config.proposal_count
            \/ \E w \in Workers :
                 Count(w) /\ config'.proposal_count = config.proposal_count + 1
            \/ Restart
<1>1. config \in GovernanceConfig
  BY HandlerTypes
<1>2. ASSUME NEW w \in Workers, Acts(w)
      PROVE  /\ config'.guardians = config.guardians
             /\ \/ config'.proposal_count = config.proposal_count
                \/ Count(w) /\ config'.proposal_count = config.proposal_count + 1
  <2>1. CASE Count(w)
    BY <1>1, <2>1 DEF Count, NextCount, GovernanceConfig
  <2>2. CASE set_paused(w)
    BY <1>1, <2>2 DEF set_paused, GovernanceConfig
  <2>3. CASE ~Count(w) /\ ~set_paused(w)
    BY <1>2, <2>3
    DEF Acts, Step, ensure_active, ReadConfig, Create, CheckGuardian, Load, Vote, Decide,
        Store, Publish, Cut, Land, Lose, Begin, Refuse, shared
  <2>. QED  BY <2>1, <2>2, <2>3
<1>3. CASE Rotates
  BY <1>1, <1>3 DEF Rotates, set_guardians, GovernanceConfig
<1>4. CASE Tick \/ UNCHANGED vars
  BY <1>4 DEF Tick, vars
<1>5. CASE Restart
  <2>1. config' \in FreshConfigs
    BY <1>5 DEF Restart
  <2>2. \E vec \in GuardianVecs : config'.guardians = Range(vec)
    BY <2>1 DEF FreshConfigs, NewConfig
  <2>. QED  BY <1>5, <2>2
<1>. QED  BY <1>2, <1>3, <1>4, <1>5, NextCases

\* An approval gets to its record past the check of its key.
LEMMA LoadFrom ==
  ASSUME IInv, [Next]_vars, NEW v \in Workers, pc'[v] = "load", call'[v].op = "approve"
  PROVE  call'[v] = call[v] /\ (pc[v] = "load" \/ is_guardian(call[v].key))
<1>1. CASE Acts(v)
  <2>1. ~Return(v)
    BY HandlerTypes DEF Return
  <2>2. CASE ensure_active(v)
    <3>1. call[v].op \in {"propose", "approve", "execute"} /\ call' = call
          /\ pc' = [pc EXCEPT ![v] = CASE call[v].op = "propose" -> "read_config"
                                       [] call[v].op = "approve" -> "check_guardian"
                                       [] call[v].op = "execute" -> "load"]
      BY <2>1, <2>2, HandlerTypes DEF ensure_active, Goto, Refuse, HandlerOK
    <3>. QED  BY <3>1, HandlerTypes
  <2>3. CASE CheckGuardian(v)
    BY <2>1, <2>3 DEF CheckGuardian, Refuse
  <2>4. CASE ReadConfig(v) \/ Load(v) \/ Vote(v) \/ Decide(v)
    BY <2>1, <2>4, CarrySteps DEF Refuse
  <2>5. CASE Create(v) \/ Count(v) \/ Store(v) \/ set_paused(v) \/ Cut(v)
    BY <2>1, <2>5, HandlerTypes
    DEF Create, Count, Store, set_paused, Cut, Goto, AfterStore, Refuse
  <2>6. ASSUME NEW op \in Requests, NEW id \in Ids, NEW key \in Keys \cup {NoKey},
               Begin(v, op, id, key)
        PROVE  FALSE
    <3>1. op = "approve"
      BY <2>6, HandlerTypes DEF Begin
    <3>. QED  BY <2>6, <3>1, HandlerTypes DEF Begin, Goto, FirstLabel
  <2>. QED
    BY <1>1, <2>1, <2>2, <2>3, <2>4, <2>5, <2>6 DEF Acts, Step, Publish, Land, Lose, Refuse
<1>2. CASE (\E w \in Workers \ {v} : Acts(w)) \/ Rotates \/ Tick \/ UNCHANGED vars
  BY <1>2, SeenKept
<1>3. CASE Restart
  BY <1>3, RestartFrame
<1>. QED  BY <1>1, <1>2, <1>3, NextCases

LEMMA NextGuardians == IInv /\ GuardiansOnly /\ [Next]_vars => GuardiansOnly'
<1>. SUFFICES ASSUME IInv, GuardiansOnly, [Next]_vars PROVE GuardiansOnly'
  OBVIOUS
<1>1. config'.guardians \subseteq EverGuardians
  BY ConfigFrom DEF GuardiansOnly, EverGuardians
<1>2. \A id \in Ids : approvals'[id] \subseteq EverGuardians
  <2>1. ASSUME NEW w \in Workers, Vote(w), ~Refuse(w)
        PROVE  \A id \in Ids : approvals'[id] \subseteq EverGuardians
    <3>1. /\ call[w].id \in Ids /\ pc[w] = "vote" /\ call[w].op = "approve"
          /\ approvals' = [approvals EXCEPT ![call[w].id] = @ \cup {call[w].key}]
      BY <2>1, VoteRecord
    <3>2. approvals \in [Ids -> SUBSET Keys] /\ call[w].key \in EverGuardians
      BY <3>1 DEF IInv, TypeOK, GuardiansOnly
    <3>. QED  BY <3>1, <3>2 DEF GuardiansOnly
  <2>2. CASE UNCHANGED approvals
    BY <2>2 DEF GuardiansOnly
  <2>3. CASE Restart
    BY <2>3, RestartFrame
  <2>. QED  BY <2>1, <2>2, <2>3, VotesFrom
<1>3. ASSUME NEW v \in Workers, call'[v].op = "approve", pc'[v] \in {"load", "vote"}
      PROVE  call'[v].key \in EverGuardians
  <2>1. CASE pc'[v] = "load"
    BY <1>3, <2>1, LoadFrom DEF GuardiansOnly, is_guardian
  <2>2. CASE pc'[v] = "vote"
    <3>1. \/ pc[v] = "vote" /\ call'[v] = call[v]
          \/ Load(v) /\ ~Refuse(v)
      BY <1>3, <2>2, CarriedFrom, CarrySteps DEF Carrying
    <3>2. CASE Load(v) /\ ~Refuse(v)
      BY <1>3, <3>2, LoadRecord DEF GuardiansOnly
    <3>. QED  BY <1>3, <3>1, <3>2 DEF GuardiansOnly
  <2>. QED  BY <1>3, <2>1, <2>2
<1>. QED  BY <1>1, <1>2, <1>3 DEF GuardiansOnly

LEMMA AlwaysGuardians == Spec => []GuardiansOnly
<1>1. Init => GuardiansOnly
  <2>. SUFFICES ASSUME Init PROVE GuardiansOnly
    OBVIOUS
  <2>1. \E vec \in GuardianVecs : config.guardians = Range(vec)
    BY DEF Init, FreshConfigs, NewConfig
  <2>. QED  BY <2>1 DEF Init, GuardiansOnly, EverGuardians
<1>. QED  BY <1>1, NextGuardians, AlwaysIInv, PTL DEF Spec

\* Where counts do not wrap, a vote is counted exactly.
LEMMA VoteExact ==
  ASSUME NoWrap, IInv, GuardiansOnly, NEW w \in Workers, Vote(w), ~Refuse(w)
  PROVE  LET id == call[w].id
         IN  /\ call'[w].rec.approvals = Cardinality(approvals'[id])
             /\ Cardinality(approvals'[id]) = Cardinality(approvals[id]) + 1
             /\ Cardinality(approvals[id]) \in Nat
             /\ \A i \in Ids \ {id} : approvals'[i] = approvals[i]
<1> DEFINE id == call[w].id
           key == call[w].key
           all == approvals[id] \cup {key}
<1>1. /\ call'[w].rec.approvals = Counted(id, key, call[w].rec)
      /\ id \in Ids /\ key \in Keys /\ key \notin approvals[id]
      /\ approvals' = [approvals EXCEPT ![id] = @ \cup {key}]
      /\ pc[w] = "vote" /\ call[w].op = "approve"
  BY VoteRecord
<1>2. approvals \in [Ids -> SUBSET Keys]
  BY DEF IInv, TypeOK
<1>3. /\ approvals'[id] = all
      /\ \A i \in Ids \ {id} : approvals'[i] = approvals[i]
  BY <1>1, <1>2
<1>4. all \in SUBSET EverGuardians /\ EverGuardians \in SUBSET Keys
  BY <1>1, EverGuardiansKeys DEF GuardiansOnly
<1>5. /\ Cardinality(all) \in Nat /\ Cardinality(EverGuardians) \in Nat
      /\ Cardinality(all) <= Cardinality(EverGuardians)
  BY <1>4, KeysCounted
<1>6. Cardinality(all) <= U8Max
  BY <1>5, EngineAssumption DEF NoWrap
<1>7. Counted(id, key, call[w].rec) = Cardinality(all)
  BY <1>1, <1>6, CountedBounds
<1>8. IsFiniteSet(approvals[id]) /\ Cardinality(approvals[id]) \in Nat
  BY <1>1, <1>2, KeysCounted
<1>9. Cardinality(all) = Cardinality(approvals[id]) + 1
  BY <1>1, <1>8, FS_AddElement
<1>. QED  BY <1>1, <1>3, <1>7, <1>8, <1>9

(***************************************************************************)
(* A status is earned by the present guard set                             *)
(***************************************************************************)
\* A record that counts no more than the guard set holds, and is Approved or
\* Executed only with its approvals.
Supported(rec, id) ==
  /\ rec.approvals <= Cardinality(approvals[id])
  /\ rec.status \in {"Approved", "Executed"} => rec.approvals >= rec.threshold

\* The inductive invariant: this holds of what is stored and what is carried.
StatusInv ==
  /\ \A id \in Ids : Exists(id) => Supported(proposals[id], id)
  /\ \A w \in Workers : pc[w] \in Carrying => Supported(call[w].rec, call[w].id)

LEMMA GuardSetsCounted ==
  ASSUME Backend = "memory", IInv, [Next]_vars, NEW id \in Ids
  PROVE  /\ Cardinality(approvals[id]) \in Nat /\ Cardinality(approvals'[id]) \in Nat
         /\ Cardinality(approvals[id]) <= Cardinality(approvals'[id])
<1>1. approvals[id] \subseteq approvals'[id]
  BY VotesGrow
<1>2. approvals'[id] \in SUBSET Keys
  BY NextTypes DEF IInv, TypeOK
<1>. QED  BY <1>1, <1>2, KeysCounted

LEMMA StoredSupported ==
  ASSUME Backend = "memory", IInv, StatusInv, [Next]_vars, NEW id \in Ids, Exists(id)'
  PROVE  Supported(proposals[id], id)'
<1>1. ASSUME NEW rec \in ProposalRecord, Supported(rec, id), proposals'[id] = rec
      PROVE  Supported(proposals[id], id)'
  <2>1. rec.approvals \in Int
    BY DEF ProposalRecord
  <2>. QED  BY <1>1, <2>1, GuardSetsCounted DEF Supported
<1>2. CASE proposals'[id] = proposals[id]
  <2>1. Exists(id) /\ proposals[id] \in ProposalRecord
    BY <1>2, HandlerTypes DEF Exists
  <2>. QED  BY <1>1, <1>2, <2>1 DEF StatusInv
<1>3. ASSUME NEW w \in Workers, pc[w] \in {"create", "store", "stray"}, upsert(call[w]),
             id = call[w].id
      PROVE  Supported(proposals[id], id)'
  <2>1. /\ call[w].rec \in ProposalRecord
        /\ proposals'[id] = Upserted(id, call[w].rec)
    BY <1>3, UpsertTypes
  <2>2. Upserted(id, call[w].rec) = call[w].rec
    BY <2>1, UpsertedFields
  <2>3. Supported(call[w].rec, id)
    BY <1>3 DEF StatusInv, Carrying
  <2>. QED  BY <1>1, <2>1, <2>2, <2>3
<1>4. ASSUME NEW w \in Workers, pc[w] \in {"create", "store", "stray"}, upsert(call[w]),
             id # call[w].id
      PROVE  proposals'[id] = proposals[id]
  BY <1>4, UpsertTypes
<1>. QED  BY <1>2, <1>3, <1>4, StoredFrom

LEMMA CarriedSupported ==
  ASSUME Backend = "memory", NoWrap, IInv, ExecutionInv, GuardiansOnly, StatusInv,
         [Next]_vars, NEW v \in Workers, pc'[v] \in Carrying
  PROVE  Supported(call[v].rec, call[v].id)'
<1>1. ASSUME NEW rec \in ProposalRecord, NEW id \in Ids, Supported(rec, id),
             call'[v].id = id, call'[v].rec.approvals = rec.approvals,
             call'[v].rec.threshold = rec.threshold,
             call'[v].rec.status \in {"Approved", "Executed"} =>
               rec.approvals >= rec.threshold
      PROVE  Supported(call[v].rec, call[v].id)'
  <2>1. rec.approvals \in Int
    BY DEF ProposalRecord
  <2>. QED  BY <1>1, <2>1, GuardSetsCounted DEF Supported
<1>2. CASE pc[v] \in Carrying /\ call'[v] = call[v]
  <2>1. /\ Supported(call[v].rec, call[v].id) /\ call[v].rec \in ProposalRecord
        /\ call[v].id \in Ids
    BY <1>2, HandlerTypes DEF StatusInv, HandlerOK
  <2>. QED  BY <1>1, <1>2, <2>1 DEF Supported
<1>3. CASE ReadConfig(v) /\ ~Refuse(v)
  <2>1. /\ call'[v].rec.approvals = 0 /\ call'[v].rec.status = "Pending"
        /\ call'[v].id \in Ids
    BY <1>3, ReadConfigRecord DEF Call
  <2>2. Cardinality(approvals'[call'[v].id]) \in Nat
    BY <2>1, GuardSetsCounted
  <2>. QED  BY <2>1, <2>2 DEF Supported
<1>4. CASE Load(v) /\ ~Refuse(v)
  <2> DEFINE rec == proposals[call[v].id]
  <2>1. /\ Exists(call[v].id) /\ rec \in ProposalRecord /\ call[v].id \in Ids
        /\ call'[v].rec = IF call'[v].op = "cancel" THEN [rec EXCEPT !.status = "Cancelled"]
                          ELSE rec
        /\ call'[v].id = call[v].id
    BY <1>4, LoadRecord, HandlerTypes
  <2>2. Supported(rec, call[v].id)
    BY <2>1 DEF StatusInv
  <2>3. /\ call'[v].rec.approvals = rec.approvals /\ call'[v].rec.threshold = rec.threshold
        /\ call'[v].rec.status \in {rec.status, "Cancelled"}
    BY <2>1 DEF ProposalRecord
  <2>. QED  BY <1>1, <2>1, <2>2, <2>3 DEF Supported
<1>5. CASE Vote(v) /\ ~Refuse(v)
  <2> DEFINE id == call[v].id
             old == call[v].rec
             count == call'[v].rec.approvals
  <2>1. /\ call'[v].rec.threshold = old.threshold
        /\ call'[v].rec.status = IF count >= old.threshold THEN "Approved" ELSE old.status
        /\ call'[v].id = id /\ old \in ProposalRecord /\ pc[v] = "vote"
    BY <1>5, VoteRecord
  <2>2. /\ count = Cardinality(approvals'[id])
        /\ count = Cardinality(approvals[id]) + 1 /\ Cardinality(approvals[id]) \in Nat
    BY <1>5, VoteExact
  <2>3. Supported(old, id) /\ ~Final(old)
    BY <2>1 DEF StatusInv, ExecutionInv, Carrying
  <2>4. old.status = "Approved" => count >= old.threshold
    <3>1. old.approvals \in Int /\ old.threshold \in Int
      BY <2>1 DEF ProposalRecord
    <3>2. old.approvals <= Cardinality(approvals[id])
      BY <2>3 DEF Supported
    <3>3. old.status = "Approved" => old.approvals >= old.threshold
      BY <2>3 DEF Supported
    <3>. QED  BY <2>2, <3>1, <3>2, <3>3
  <2> HIDE DEF count
  <2>5. call'[v].rec.status \in {"Approved", "Executed"} => count >= old.threshold
    BY <2>1, <2>3, <2>4 DEF Final
  <2>6. count <= Cardinality(approvals'[call'[v].id])
    BY <2>1, <2>2
  <2>. QED  BY <2>1, <2>5, <2>6 DEF Supported, count
<1>6. CASE Decide(v) /\ ~Refuse(v)
  <2> DEFINE old == call[v].rec
  <2>1. /\ can_execute(old) /\ call'[v].rec.approvals = old.approvals
        /\ call'[v].rec.threshold = old.threshold /\ call'[v].id = call[v].id
        /\ old \in ProposalRecord /\ pc[v] = "decide" /\ call[v].id \in Ids
    BY <1>6, DecideRecord, HandlerTypes
  <2>2. Supported(old, call[v].id)
    BY <2>1 DEF StatusInv, Carrying
  <2>. QED  BY <1>1, <2>1, <2>2 DEF can_execute
<1>. QED  BY <1>2, <1>3, <1>4, <1>5, <1>6, CarriedFrom

\* Handlers that overwrite each other's records may set a count back, but never to
\* one that the guard set does not cover, and never below the threshold of a
\* proposal they leave Approved or Executed.
THEOREM StatusEarned ==
  ASSUME Backend = "memory", NoWrap
  PROVE  Spec => []EarnedStatus
<1>1. Init => StatusInv
  BY DEF Init, StatusInv, Exists, Carrying
<1>2. IInv /\ ExecutionInv /\ GuardiansOnly /\ StatusInv /\ [Next]_vars => StatusInv'
  <2>. SUFFICES ASSUME IInv, ExecutionInv, GuardiansOnly, StatusInv, [Next]_vars
                PROVE  StatusInv'
    OBVIOUS
  <2>1. \A id \in Ids : Exists(id)' => Supported(proposals[id], id)'
    BY StoredSupported
  <2>2. \A w \in Workers : pc'[w] \in Carrying => Supported(call[w].rec, call[w].id)'
    BY CarriedSupported
  <2>. QED  BY <2>1, <2>2 DEF StatusInv
<1>3. StatusInv => EarnedStatus
  BY DEF StatusInv, EarnedStatus, Supported
<1>. QED
  BY <1>1, <1>2, <1>3, AlwaysIInv, AlwaysExecution, AlwaysGuardians, PTL DEF Spec

(***************************************************************************)
(* The counter passes every record                                         *)
(***************************************************************************)
\* The inductive invariant: a record the counter has not passed is about to be
\* counted, no handler is ahead of the counter, and one that looked at a record
\* has a record.
CounterInv ==
  /\ \A id \in Ids :
       /\ Exists(id) => \/ id < config.proposal_count
                        \/ \E w \in Workers : pc[w] = "count" /\ call[w].id = id
       /\ approvals[id] # {} => Exists(id)
  /\ \A w \in Workers :
       /\ pc[w] \in {"create", "count"} => call[w].id <= config.proposal_count
       /\ pc[w] \in {"vote", "decide", "store"} => Exists(call[w].id)
       /\ pc[w] # "stray"

\* Over memory records only come into being.
LEMMA RecordsStay ==
  ASSUME IInv, [Next]_vars, NEW id \in Ids, Exists(id)
  PROVE  Exists(id)'
<1>1. CASE UNCHANGED proposals
  BY <1>1 DEF Exists
<1>2. ASSUME NEW w \in Workers, pc[w] \in {"create", "store", "stray"}, upsert(call[w])
      PROVE  Exists(id)'
  BY <1>2, UpsertTypes
<1>. QED  BY <1>1, <1>2, StoredFrom

\* Nothing goes astray in memory.
LEMMA NothingAstray ==
  ASSUME Backend = "memory", IInv, CounterInv, [Next]_vars
  PROVE  \A w \in Workers : pc'[w] # "stray"
<1>. SUFFICES ASSUME NEW w \in Workers, pc'[w] = "stray" PROVE FALSE
  OBVIOUS
<1>1. pc[w] # "stray"
  BY DEF CounterInv
<1>2. pc'[w] \in Carrying
  BY DEF Carrying
<1>3. \/ ReadConfig(w) /\ ~Refuse(w)
      \/ Load(w) /\ ~Refuse(w)
      \/ Vote(w) /\ ~Refuse(w)
      \/ Decide(w) /\ ~Refuse(w)
  BY <1>1, <1>2, CarriedFrom
<1>. QED  BY <1>3, CarrySteps

\* The counter moves up by one, if at all.
LEMMA CounterMoves ==
  ASSUME Backend = "memory", IInv, [Next]_vars
  PROVE  /\ config.proposal_count \in Int
         /\ \/ config'.proposal_count = config.proposal_count
            \/ \E w \in Workers :
                 Count(w) /\ config'.proposal_count = config.proposal_count + 1
<1>1. config.proposal_count \in Int
  BY HandlerTypes DEF GovernanceConfig
<1>. QED  BY <1>1, ConfigFrom DEF Restart

\* A handler stays at its count until it counts.
LEMMA CountsItself ==
  ASSUME Backend = "memory", IInv, [Next]_vars, NEW w \in Workers, pc[w] = "count"
  PROVE  \/ pc'[w] = "count" /\ call'[w] = call[w]
         \/ Count(w)
<1>1. CASE Acts(w)
  BY <1>1
  DEF Acts, Step, ensure_active, ReadConfig, Create, CheckGuardian, Load, Vote, Decide,
      Store, set_paused, Publish, Cut, Land, Lose, Begin
<1>2. CASE (\E v \in Workers \ {w} : Acts(v)) \/ Rotates \/ Tick \/ UNCHANGED vars
  BY <1>2, SeenKept
<1>3. CASE Restart
  BY <1>3 DEF Restart
<1>. QED  BY <1>1, <1>2, <1>3, NextCases

\* A record that is new was put there by a handler that has yet to count it.
LEMMA NewRecordCounts ==
  ASSUME Backend = "memory", IInv, CounterInv, [Next]_vars,
         NEW id \in Ids, Exists(id)', ~Exists(id)
  PROVE  \E w \in Workers : pc'[w] = "count" /\ call'[w].id = id
<1>1. PICK w \in Workers :
        /\ pc[w] \in {"create", "store", "stray"} /\ upsert(call[w])
        /\ pc'[w] \in {"count", "publish", "idle"}
  BY StoredFrom DEF Exists
<1>2. id = call[w].id
  BY <1>1, UpsertTypes
<1>3. pc[w] = "create"
  BY <1>1, <1>2 DEF CounterInv
<1>4. Acts(w)
  <2>1. pc'[w] # pc[w]
    BY <1>1, <1>3
  <2>2. CASE (\E v \in Workers \ {w} : Acts(v)) \/ Rotates \/ Tick \/ UNCHANGED vars
    BY <2>1, <2>2, SeenKept
  <2>. QED  BY <2>1, <2>2, NextCases DEF Restart
<1>5. Create(w)
  BY <1>3, <1>4
  DEF Acts, Step, ensure_active, ReadConfig, Count, CheckGuardian, Load, Vote, Decide,
      Store, set_paused, Publish, Cut, Land, Lose, Begin
<1>. QED  BY <1>2, <1>5, HandlerTypes DEF Create, Goto

LEMMA NextCounter ==
  ASSUME Backend = "memory", IInv, CounterInv, [Next]_vars
  PROVE  CounterInv'
<1>1. ASSUME NEW id \in Ids, Exists(id)'
      PROVE  \/ id < config'.proposal_count
             \/ \E w \in Workers : pc'[w] = "count" /\ call'[w].id = id
  <2>1. CASE ~Exists(id)
    BY <1>1, <2>1, NewRecordCounts
  <2>2. CASE Exists(id) /\ id < config.proposal_count
    BY <2>2, CounterMoves DEF Ids
  <2>3. ASSUME NEW w \in Workers, pc[w] = "count", call[w].id = id
        PROVE  \/ id < config'.proposal_count
               \/ pc'[w] = "count" /\ call'[w].id = id
    <3>1. CASE pc'[w] = "count" /\ call'[w] = call[w]
      BY <2>3, <3>1
    <3>2. CASE Count(w)
      <4>1. config'.proposal_count = config.proposal_count + 1
        BY <3>2, HandlerTypes DEF Count, NextCount, GovernanceConfig
      <4>2. id <= config.proposal_count
        BY <2>3 DEF CounterInv
      <4>. QED  BY <4>1, <4>2, CounterMoves DEF Ids
    <3>. QED  BY <2>3, <3>1, <3>2, CountsItself
  <2>. QED  BY <1>1, <2>1, <2>2, <2>3 DEF CounterInv
<1>2. ASSUME NEW id \in Ids, approvals'[id] # {}
      PROVE  Exists(id)'
  <2>1. CASE approvals'[id] = approvals[id]
    BY <1>2, <2>1, RecordsStay DEF CounterInv
  <2>2. ASSUME NEW w \in Workers, Vote(w), ~Refuse(w), approvals'[id] # approvals[id]
        PROVE  Exists(id)
    <3>1. /\ pc[w] = "vote" /\ call[w].id \in Ids
          /\ approvals' = [approvals EXCEPT ![call[w].id] = @ \cup {call[w].key}]
      BY <2>2, VoteRecord
    <3>2. id = call[w].id
      BY <2>2, <3>1 DEF IInv, TypeOK
    <3>. QED  BY <3>1, <3>2 DEF CounterInv
  <2>. QED  BY <2>1, <2>2, VotesFrom, RecordsStay DEF Restart
<1>3. ASSUME NEW w \in Workers, pc'[w] \in {"create", "count"}
      PROVE  call'[w].id <= config'.proposal_count
  <2>1. call'[w].id <= config.proposal_count
    <3>1. CASE pc[w] \in {"create", "count"} /\ call'[w] = call[w]
      BY <3>1 DEF CounterInv
    <3>2. CASE ReadConfig(w) /\ ~Refuse(w)
      BY <3>2, ReadConfigRecord, CounterMoves
    <3>3. CASE (Load(w) \/ Vote(w) \/ Decide(w)) /\ ~Refuse(w)
      BY <1>3, <3>3, CarrySteps
    <3>. QED  BY <1>3, <3>1, <3>2, <3>3, CarriedFrom DEF Carrying
  <2>2. call'[w].id \in Int
    BY NextTypes, HandlerTypes DEF IInv, TypeOK, Call, Ids
  <2>. QED  BY <2>1, <2>2, CounterMoves
<1>4. ASSUME NEW w \in Workers, pc'[w] \in {"vote", "decide", "store"}
      PROVE  Exists(call[w].id)'
  <2>1. call'[w].id \in Ids /\ Exists(call'[w].id)
    <3>1. CASE pc[w] \in {"vote", "decide", "store"} /\ call'[w] = call[w]
      BY <3>1, HandlerTypes DEF CounterInv
    <3>2. CASE ReadConfig(w) /\ ~Refuse(w)
      BY <1>4, <3>2, CarrySteps
    <3>3. CASE Load(w) /\ ~Refuse(w)
      BY <3>3, LoadRecord, HandlerTypes
    <3>4. CASE (Vote(w) \/ Decide(w)) /\ ~Refuse(w)
      <4>1. pc[w] \in {"vote", "decide"} /\ call'[w].id = call[w].id
        BY <3>4, VoteRecord, DecideRecord
      <4>. QED  BY <4>1, HandlerTypes DEF CounterInv
    <3>. QED  BY <1>4, <3>1, <3>2, <3>3, <3>4, CarriedFrom DEF Carrying
  <2>2. PICK id \in Ids : id = call'[w].id
    BY <2>1
  <2>3. Exists(id)'
    BY <2>1, <2>2, RecordsStay
  <2>. QED  BY <2>2, <2>3 DEF Exists
<1>. QED  BY <1>1, <1>2, <1>3, <1>4, NothingAstray DEF CounterInv, Exists

LEMMA AlwaysCounter == ASSUME Backend = "memory" PROVE Spec => []CounterInv
<1>1. Init => CounterInv
  BY DEF Init, CounterInv, Exists
<1>2. IInv /\ CounterInv /\ [Next]_vars => CounterInv'
  BY NextCounter
<1>. QED  BY <1>1, <1>2, AlwaysIInv, PTL DEF Spec

\* Two proposals may take the same id and the counter may skip one, but between
\* requests it is past every record, and no votes wait for a proposal to come.
THEOREM CounterPasses ==
  ASSUME Backend = "memory"
  PROVE  Spec => []CounterPastRecords
<1>1. CounterInv => CounterPastRecords
  BY DEF CounterInv, CounterPastRecords, Quiet
<1>. QED  BY <1>1, AlwaysCounter, PTL

(***************************************************************************)
(* Counts are announced once                                               *)
(***************************************************************************)
\* An approval that was counted and has yet to be announced.
InFlight(w) == call[w].op = "approve" /\ pc[w] \in {"store", "publish"}

\* The inductive invariant: no two approvals of a proposal, in flight or announced,
\* have the same count, and none exceeds the guard set.
CountInv ==
  /\ \A w \in Workers :
       InFlight(w) => call[w].rec.approvals \in 1..Cardinality(approvals[call[w].id])
  /\ \A v, w \in Workers :
       InFlight(v) /\ InFlight(w) /\ v # w /\ call[v].id = call[w].id =>
         call[v].rec.approvals # call[w].rec.approvals
  /\ \A e \in events :
       e.name = "ProposalApproved" =>
         /\ e.id \in Ids /\ e.approvals \in Nat
         /\ e.approvals <= Cardinality(approvals[e.id])
         /\ \A w \in Workers :
              InFlight(w) /\ call[w].id = e.id => call[w].rec.approvals # e.approvals

\* A handler gets to its announcement from the step before it.
LEMMA PublishFrom ==
  ASSUME Backend = "memory", IInv, [Next]_vars, NEW v \in Workers, pc'[v] = "publish"
  PROVE  call'[v] = call[v] /\ pc[v] \in {"publish", "store", "count", "set_paused"}
<1>1. CASE Acts(v)
  <2>1. ~Return(v)
    BY HandlerTypes DEF Return
  <2>2. CASE ensure_active(v)
    <3>1. call[v].op \in {"propose", "approve", "execute"}
          /\ pc' = [pc EXCEPT ![v] = CASE call[v].op = "propose" -> "read_config"
                                       [] call[v].op = "approve" -> "check_guardian"
                                       [] call[v].op = "execute" -> "load"]
      BY <2>1, <2>2, HandlerTypes DEF ensure_active, Goto, Refuse, HandlerOK
    <3>. QED  BY <3>1, HandlerTypes
  <2>3. CASE ReadConfig(v) \/ Load(v) \/ Vote(v) \/ Decide(v)
    BY <2>1, <2>3, CarrySteps DEF Refuse
  <2>4. CASE Create(v) \/ CheckGuardian(v)
    BY <2>1, <2>4, HandlerTypes DEF Create, CheckGuardian, Goto, Refuse
  <2>5. CASE Count(v) \/ Store(v) \/ set_paused(v)
    BY <2>5, HandlerTypes DEF Count, Store, set_paused
  <2>6. ASSUME NEW op \in Requests, NEW id \in Ids, NEW key \in Keys \cup {NoKey},
               Begin(v, op, id, key)
        PROVE  FALSE
    BY <2>6, HandlerTypes, EngineAssumption DEF Begin, Goto, FirstLabel, Ops
  <2>. QED
    BY <1>1, <2>1, <2>2, <2>3, <2>4, <2>5, <2>6
    DEF Acts, Step, Publish, Land, Lose, Cut, Refuse
<1>2. CASE (\E w \in Workers \ {v} : Acts(w)) \/ Rotates \/ Tick \/ UNCHANGED vars
  BY <1>2, SeenKept
<1>. QED  BY <1>1, <1>2, NextCases DEF Restart

\* What is in flight was in flight, or was counted just now.
LEMMA InFlightFrom ==
  ASSUME Backend = "memory", IInv, [Next]_vars, NEW v \in Workers, InFlight(v)'
  PROVE  \/ InFlight(v) /\ call'[v] = call[v]
         \/ Vote(v) /\ ~Refuse(v)
<1>1. CASE pc'[v] = "publish"
  <2>1. call'[v] = call[v] /\ pc[v] \in {"publish", "store", "count", "set_paused"}
    BY <1>1, PublishFrom
  <2>2. pc[v] \notin {"count", "set_paused"}
    BY <2>1, HandlerTypes DEF InFlight, HandlerOK
  <2>. QED  BY <2>1, <2>2 DEF InFlight
<1>2. CASE pc'[v] = "store"
  <2>1. ~(ReadConfig(v) /\ ~Refuse(v)) /\ ~(Decide(v) /\ ~Refuse(v)) /\ ~(Load(v) /\ ~Refuse(v))
    BY <1>2, ReadConfigRecord, DecideRecord, LoadRecord, HandlerTypes DEF InFlight
  <2>. QED  BY <1>2, <2>1, CarriedFrom DEF Carrying, InFlight
<1>. QED  BY <1>1, <1>2 DEF InFlight

\* Only a handler at its end tells the sink.
LEMMA EventsFrom ==
  ASSUME IInv, [Next]_vars
  PROVE  \/ UNCHANGED events
         \/ \E w \in Workers : Publish(w)
<1>1. ASSUME NEW w \in Workers, Acts(w), ~Publish(w)
      PROVE  UNCHANGED events
  BY <1>1
  DEF Acts, Step, ensure_active, ReadConfig, Create, Count, CheckGuardian, Load, Vote,
      Decide, Store, set_paused, Cut, Land, Lose, Begin, Refuse, shared
<1>2. CASE Rotates \/ Tick \/ Restart \/ UNCHANGED vars
  BY <1>2 DEF Rotates, set_guardians, Tick, Restart, vars
<1>. QED  BY <1>1, <1>2, NextCases

\* The others neither move nor vote while a handler publishes or votes.
LEMMA OthersInFlight ==
  ASSUME Backend = "memory", IInv, [Next]_vars, NEW w \in Workers, NEW v \in Workers \ {w},
         Publish(w) \/ Vote(w), InFlight(v)'
  PROVE  InFlight(v) /\ call'[v] = call[v]
<1>1. pc'[v] = pc[v] /\ call'[v] = call[v]
  BY OthersKept DEF Acts, Step
<1>. QED  BY <1>1 DEF InFlight

LEMMA NextCounts ==
  ASSUME Backend = "memory", NoWrap, IInv, GuardiansOnly, CountInv, [Next]_vars
  PROVE  CountInv'
<1> DEFINE size(id) == Cardinality(approvals[id])
<1>1. ASSUME NEW w \in Workers, InFlight(w)'
      PROVE  /\ call[w].id \in Ids /\ call'[w].id = call[w].id
             /\ call'[w].rec.approvals \in 1..Cardinality(approvals'[call[w].id])
             /\ \/ InFlight(w) /\ call'[w] = call[w]
                   /\ call[w].rec.approvals <= size(call[w].id)
                \/ Vote(w) /\ call'[w].rec.approvals = size(call[w].id) + 1
             /\ size(call[w].id) \in Nat
  <2>1. call[w].id \in Ids
    BY HandlerTypes
  <2>2. /\ size(call[w].id) \in Nat /\ Cardinality(approvals'[call[w].id]) \in Nat
        /\ size(call[w].id) <= Cardinality(approvals'[call[w].id])
    BY <2>1, GuardSetsCounted
  <2>3. CASE InFlight(w) /\ call'[w] = call[w]
    BY <2>1, <2>2, <2>3 DEF CountInv
  <2>4. CASE Vote(w) /\ ~Refuse(w)
    <3>1. call'[w].id = call[w].id
      BY <2>4, VoteRecord
    <3>2. /\ call'[w].rec.approvals = Cardinality(approvals'[call[w].id])
          /\ Cardinality(approvals'[call[w].id]) = size(call[w].id) + 1
      BY <2>4, VoteExact
    <3>. QED  BY <2>1, <2>2, <2>4, <3>1, <3>2
  <2>. QED  BY <1>1, <2>3, <2>4, InFlightFrom
<1>2. ASSUME NEW v \in Workers, NEW w \in Workers, InFlight(v)', InFlight(w)', v # w,
             call'[v].id = call'[w].id
      PROVE  call'[v].rec.approvals # call'[w].rec.approvals
  <2>1. CASE Vote(v)
    <3>1. InFlight(w) /\ call'[w] = call[w]
      BY <1>2, <2>1, OthersInFlight
    <3>2. call'[v].rec.approvals = size(call[v].id) + 1
      BY <1>1, <1>2, <2>1, HandlerTypes DEF Vote, InFlight
    <3>3. call[w].rec.approvals \in 1..size(call[w].id)
      BY <3>1 DEF CountInv
    <3>4. call[w].id = call[v].id /\ size(call[v].id) \in Nat
      BY <1>1, <1>2
    <3>. QED  BY <3>1, <3>2, <3>3, <3>4
  <2>2. CASE Vote(w)
    <3>1. InFlight(v) /\ call'[v] = call[v]
      BY <1>2, <2>2, OthersInFlight
    <3>2. call'[w].rec.approvals = size(call[w].id) + 1
      BY <1>1, <1>2, <2>2, HandlerTypes DEF Vote, InFlight
    <3>3. call[v].rec.approvals \in 1..size(call[v].id)
      BY <3>1 DEF CountInv
    <3>4. call[v].id = call[w].id /\ size(call[w].id) \in Nat
      BY <1>1, <1>2
    <3>. QED  BY <3>1, <3>2, <3>3, <3>4
  <2>3. CASE ~Vote(v) /\ ~Vote(w)
    <3>1. InFlight(v) /\ call'[v] = call[v] /\ InFlight(w) /\ call'[w] = call[w]
      BY <1>2, <2>3, InFlightFrom
    <3>. QED  BY <1>2, <3>1 DEF CountInv
  <2>. QED  BY <2>1, <2>2, <2>3
<1>3. ASSUME NEW e \in events', e.name = "ProposalApproved"
      PROVE  /\ e.id \in Ids /\ e.approvals \in Nat
             /\ e.approvals <= Cardinality(approvals'[e.id])
             /\ \A w \in Workers :
                  InFlight(w)' /\ call'[w].id = e.id => call'[w].rec.approvals # e.approvals
  <2>1. CASE e \in events
    <3>1. e.id \in Ids /\ e.approvals \in Nat /\ e.approvals <= size(e.id)
      BY <1>3, <2>1 DEF CountInv
    <3>2. size(e.id) \in Nat /\ Cardinality(approvals'[e.id]) \in Nat
          /\ size(e.id) <= Cardinality(approvals'[e.id])
      BY <3>1, GuardSetsCounted
    <3>3. ASSUME NEW w \in Workers, InFlight(w)', call'[w].id = e.id
          PROVE  call'[w].rec.approvals # e.approvals
      <4>1. CASE InFlight(w) /\ call'[w] = call[w]
        BY <1>3, <2>1, <3>3, <4>1 DEF CountInv
      <4>2. CASE Vote(w) /\ call'[w].rec.approvals = size(call[w].id) + 1
        BY <1>1, <3>1, <3>2, <3>3, <4>2
      <4>. QED  BY <1>1, <3>3, <4>1, <4>2
    <3>. QED  BY <3>1, <3>2, <3>3
  <2>2. CASE e \notin events
    <3>1. PICK u \in Workers : Publish(u) /\ events' = events \cup {EventOf(call[u])}
      BY <2>2, EventsFrom DEF Publish
    <3>2. e = EventOf(call[u]) /\ call[u].op \in Ops
      BY <2>2, <3>1, HandlerTypes DEF Call
    <3>3. call[u].op = "approve"
      BY <1>3, <3>2 DEF EventOf, Ops
    <3>4. e = [name |-> "ProposalApproved", id |-> call[u].id,
               approvals |-> call[u].rec.approvals]
      BY <3>2, <3>3 DEF EventOf
    <3>5. /\ InFlight(u) /\ call[u].id \in Ids /\ UNCHANGED approvals /\ pc'[u] = "idle"
      BY <3>1, <3>3, HandlerTypes DEF Publish, Return, InFlight
    <3>6. /\ e.id = call[u].id /\ e.approvals = call[u].rec.approvals
          /\ e.approvals \in 1..size(e.id)
      BY <3>4, <3>5 DEF CountInv
    <3>7. ASSUME NEW w \in Workers, InFlight(w)', call'[w].id = e.id
          PROVE  call'[w].rec.approvals # e.approvals
      <4>1. w # u
        BY <3>5, <3>7 DEF InFlight
      <4>2. InFlight(w) /\ call'[w] = call[w]
        BY <3>1, <3>7, <4>1, OthersInFlight
      <4>. QED  BY <3>5, <3>6, <3>7, <4>1, <4>2 DEF CountInv
    <3>. QED  BY <3>5, <3>6, <3>7, GuardSetsCounted
  <2>. QED  BY <2>1, <2>2
<1>. QED  BY <1>1, <1>2, <1>3 DEF CountInv, InFlight

LEMMA AlwaysCount ==
  ASSUME Backend = "memory", NoWrap
  PROVE  Spec => []CountInv
<1>1. Init => CountInv
  BY DEF Init, CountInv, InFlight
<1>2. IInv /\ GuardiansOnly /\ CountInv /\ [Next]_vars => CountInv'
  BY NextCounts
<1>. QED  BY <1>1, <1>2, AlwaysIInv, AlwaysGuardians, PTL DEF Spec

\* Subscribers never hear of two approvals of a proposal with the same count,
\* however the approvals' handlers overlap.
THEOREM CountsDiffer ==
  ASSUME Backend = "memory", NoWrap
  PROVE  Spec => CountsAnnouncedOnce
<1>1. CountInv =>
        [\A w \in Workers : Publishes(w, "approve") => EventOf(call[w]) \notin events]_vars
  <2>. SUFFICES ASSUME CountInv, NEW w \in Workers, pc[w] = "publish",
                       call[w].op = "approve", EventOf(call[w]) \in events
                PROVE  FALSE
    BY DEF Publishes
  <2>1. EventOf(call[w]) = [name |-> "ProposalApproved", id |-> call[w].id,
                            approvals |-> call[w].rec.approvals]
    BY DEF EventOf
  <2>2. InFlight(w)
    BY DEF InFlight
  <2>. QED  BY <2>1, <2>2 DEF CountInv
<1>. QED  BY <1>1, AlwaysCount, PTL DEF CountsAnnouncedOnce

\* A handler leaves the store step by storing.
LEMMA StoresItself ==
  ASSUME Backend = "memory", IInv, [Next]_vars, NEW w \in Workers, pc[w] = "store"
  PROVE  \/ pc'[w] = "store" /\ call'[w] = call[w]
         \/ Store(w)
<1>1. CASE Acts(w)
  BY <1>1
  DEF Acts, Step, ensure_active, ReadConfig, Create, CheckGuardian, Load, Vote, Decide,
      Count, set_paused, Publish, Cut, Land, Lose, Begin
<1>2. CASE (\E v \in Workers \ {w} : Acts(v)) \/ Rotates \/ Tick \/ UNCHANGED vars
  BY <1>2, SeenKept
<1>. QED  BY <1>1, <1>2, NextCases DEF Restart

\* It leaves its announcement by making it.
LEMMA PublishesItself ==
  ASSUME Backend = "memory", IInv, [Next]_vars, NEW w \in Workers, pc[w] = "publish"
  PROVE  \/ pc'[w] = "publish" /\ call'[w] = call[w]
         \/ Publish(w)
<1>1. CASE Acts(w)
  BY <1>1
  DEF Acts, Step, ensure_active, ReadConfig, Create, CheckGuardian, Load, Vote, Decide,
      Count, set_paused, Store, Cut, Land, Lose, Begin
<1>2. CASE (\E v \in Workers \ {w} : Acts(v)) \/ Rotates \/ Tick \/ UNCHANGED vars
  BY <1>2, SeenKept
<1>. QED  BY <1>1, <1>2, NextCases DEF Restart

\* A counted approval is under way until it is announced.
LEMMA InFlightTo ==
  ASSUME Backend = "memory", IInv, [Next]_vars, NEW w \in Workers, InFlight(w)
  PROVE  \/ InFlight(w)' /\ call'[w] = call[w]
         \/ EventOf(call[w]) \in events'
<1>1. CASE pc[w] = "store"
  <2>1. CASE Store(w)
    BY <2>1, HandlerTypes DEF Store, Goto, AfterStore, InFlight
  <2>. QED  BY <1>1, <2>1, StoresItself DEF InFlight
<1>2. CASE pc[w] = "publish"
  BY <1>2, PublishesItself DEF Publish, InFlight
<1>. QED  BY <1>1, <1>2 DEF InFlight

LEMMA NextSkipsNone ==
  ASSUME Backend = "memory", NoWrap, IInv, GuardiansOnly, NoCountSkipped, [Next]_vars
  PROVE  NoCountSkipped'
<1> DEFINE Told(id, n) == [name |-> "ProposalApproved", id |-> id, approvals |-> n]
           Under(w, id, n) ==
             /\ pc[w] \in {"store", "publish"}
             /\ call[w].op = "approve" /\ call[w].id = id /\ call[w].rec.approvals = n
<1>1. ASSUME NEW id \in Ids, NEW n \in 1..Cardinality(approvals'[id])
      PROVE  \/ Told(id, n) \in events'
             \/ \E w \in Workers : Under(w, id, n)'
  <2>1. events \subseteq events'
    BY EventsFrom DEF Publish
  <2>2. /\ Cardinality(approvals[id]) \in Nat /\ Cardinality(approvals'[id]) \in Nat
    BY GuardSetsCounted
  <2>3. CASE n <= Cardinality(approvals[id])
    <3>1. n \in 1..Cardinality(approvals[id])
      BY <2>2, <2>3
    <3>2. Told(id, n) \in events \/ \E w \in Workers : Under(w, id, n)
      BY <3>1 DEF NoCountSkipped
    <3>3. ASSUME NEW w \in Workers, Under(w, id, n)
          PROVE  Told(id, n) \in events' \/ Under(w, id, n)'
      <4>1. EventOf(call[w]) = Told(id, n)
        BY <3>3 DEF EventOf
      <4>2. \/ InFlight(w)' /\ call'[w] = call[w]
            \/ EventOf(call[w]) \in events'
        BY <3>3, InFlightTo DEF InFlight
      <4>. QED  BY <3>3, <4>1, <4>2 DEF InFlight
    <3>. QED  BY <2>1, <3>2, <3>3
  <2>4. CASE ~(n <= Cardinality(approvals[id]))
    <3>1. approvals'[id] # approvals[id]
      BY <2>2, <2>4
    <3>2. PICK w \in Workers : Vote(w) /\ ~Refuse(w)
      BY <3>1, VotesFrom DEF Restart
    <3>3. id = call[w].id
      BY <3>1, <3>2, VoteExact
    <3>4. /\ call'[w].rec.approvals = Cardinality(approvals'[id])
          /\ Cardinality(approvals'[id]) = Cardinality(approvals[id]) + 1
      BY <3>2, <3>3, VoteExact
    <3>5. n = call'[w].rec.approvals
      BY <2>2, <2>4, <3>4
    <3>6. call'[w].op = "approve" /\ call'[w].id = id /\ pc'[w] = "store"
      BY <3>2, <3>3, VoteRecord, CarrySteps
    <3>. QED  BY <3>5, <3>6
  <2>. QED  BY <2>3, <2>4
<1>. QED  BY <1>1 DEF NoCountSkipped

\* Announcements of approvals may overtake each other, but every count up to the
\* size of the guard set is announced or about to be.
THEOREM NoneSkipped ==
  ASSUME Backend = "memory", NoWrap
  PROVE  Spec => []NoCountSkipped
<1>1. Init => NoCountSkipped
  <2>. SUFFICES ASSUME Init, NEW id \in Ids PROVE 1..Cardinality(approvals[id]) = {}
    BY DEF NoCountSkipped
  <2>. QED  BY FS_EmptySet DEF Init
<1>2. IInv /\ GuardiansOnly /\ NoCountSkipped /\ [Next]_vars => NoCountSkipped'
  BY NextSkipsNone
<1>. QED  BY <1>1, <1>2, AlwaysIInv, AlwaysGuardians, PTL DEF Spec

(***************************************************************************)
(* Who holds an id                                                         *)
(***************************************************************************)
\* A handler gets hold of an id by reading the counter or a record that is open.
LEMMA HoldsFrom ==
  ASSUME Backend = "memory", IInv, CounterInv, [Next]_vars,
         NEW w \in Workers, NEW id \in Ids, Holds(w, id)'
  PROVE  \/ Holds(w, id)
         \/ ReadConfig(w) /\ ~Refuse(w) /\ id = config.proposal_count
         \/ Load(w) /\ ~Refuse(w) /\ id = call[w].id
<1>1. pc'[w] \in Carrying /\ call'[w].id = id
  BY DEF Holds, Carrying
<1>2. CASE pc[w] \in Carrying /\ call'[w] = call[w]
  BY <1>1, <1>2 DEF CounterInv, Carrying, Holds
<1>3. CASE ReadConfig(w) /\ ~Refuse(w)
  BY <1>1, <1>3, ReadConfigRecord
<1>4. CASE Load(w) /\ ~Refuse(w)
  BY <1>1, <1>4, LoadRecord
<1>5. CASE (Vote(w) \/ Decide(w)) /\ ~Refuse(w)
  BY <1>1, <1>5, VoteRecord, DecideRecord DEF Holds
<1>. QED  BY <1>1, <1>2, <1>3, <1>4, <1>5, CarriedFrom

\* A record changes only at the hand of a handler that holds its id.
LEMMA WritesFrom ==
  ASSUME Backend = "memory", IInv, CounterInv, [Next]_vars, NEW id \in Ids
  PROVE  \/ proposals'[id] = proposals[id]
         \/ \E w \in Workers :
              /\ pc[w] \in {"create", "store"} /\ call[w].id = id /\ Holds(w, id)
              /\ call[w].rec \in ProposalRecord /\ proposals'[id] = call[w].rec
              /\ pc'[w] \in {"count", "publish", "idle"}
              /\ UNCHANGED approvals
<1>1. ASSUME NEW w \in Workers, pc[w] \in {"create", "store", "stray"}, upsert(call[w]),
             UNCHANGED approvals, pc'[w] \in {"count", "publish", "idle"},
             proposals'[id] # proposals[id]
      PROVE  /\ pc[w] \in {"create", "store"} /\ call[w].id = id /\ Holds(w, id)
             /\ call[w].rec \in ProposalRecord /\ proposals'[id] = call[w].rec
  <2>1. pc[w] \in {"create", "store"}
    BY <1>1 DEF CounterInv
  <2>2. id = call[w].id
    BY <1>1, UpsertTypes
  <2>3. call[w].rec \in ProposalRecord /\ proposals'[id] = Upserted(id, call[w].rec)
    BY <1>1, <2>2, UpsertTypes
  <2>4. Upserted(id, call[w].rec) = call[w].rec
    BY <2>3, UpsertedFields
  <2>. QED  BY <2>1, <2>2, <2>3, <2>4 DEF Holds
<1>. QED  BY <1>1, StoredFrom

\* A final record that no handler holds is out of every handler's reach: approve,
\* execute and cancel turn it away, and propose gets past it with the counter.
THEOREM FinalityAtRest ==
  ASSUME Backend = "memory"
  PROVE  Spec => FinalAtRest
<1>1. ASSUME IInv, CounterInv, [Next]_vars, NEW id \in Ids, Exists(id),
             proposals[id].status \in {"Executed", "Cancelled"}, ~Held(id)
      PROVE  proposals'[id] = proposals[id] /\ ~Held(id)'
  <2>1. proposals'[id] = proposals[id]
    BY <1>1, WritesFrom DEF Held
  <2>2. ASSUME NEW w \in Workers, Holds(w, id)'
        PROVE  FALSE
    <3>1. CASE Holds(w, id)
      BY <1>1, <3>1 DEF Held
    <3>2. CASE ReadConfig(w) /\ ~Refuse(w) /\ id = config.proposal_count
      BY <1>1, <3>2, CounterMoves DEF CounterInv, Held, Holds
    <3>3. CASE Load(w) /\ ~Refuse(w) /\ id = call[w].id
      BY <1>1, <3>3, LoadRecord DEF Final
    <3>. QED  BY <1>1, <2>2, <3>1, <3>2, <3>3, HoldsFrom
  <2>. QED  BY <2>1, <2>2 DEF Held
<1>2. IInv /\ CounterInv /\ [Next]_vars =>
        [\A id \in Ids :
           Exists(id) /\ proposals[id].status \in {"Executed", "Cancelled"} /\ ~Held(id) =>
             proposals'[id] = proposals[id] /\ ~Held(id)']_vars
  BY <1>1
<1>. QED  BY <1>2, AlwaysIInv, AlwaysCounter, PTL DEF Spec, FinalAtRest
(***************************************************************************)
(* Proposals that no two handlers held together                            *)
(***************************************************************************)
\* A handler that holds an id alone finds its record as it left it.
LEMMA SoleWrites ==
  ASSUME Backend = "memory", IInv, CounterInv, [Next]_vars,
         NEW id \in Ids, ~Contention(id), NEW w \in Workers, Holds(w, id)',
         pc'[w] # "count"
  PROVE  proposals'[id] = proposals[id]
<1>1. CASE Holds(w, id)
  <2>1. ASSUME NEW v \in Workers, Holds(v, id), pc'[v] \in {"count", "publish", "idle"}
        PROVE  FALSE
    <3>1. v = w
      BY <1>1, <2>1 DEF Contention
    <3>. QED  BY <2>1, <3>1 DEF Holds
  <2>. QED  BY <2>1, WritesFrom
<1>2. CASE (ReadConfig(w) \/ Load(w)) /\ ~Refuse(w)
  BY <1>2, ReadConfigRecord, LoadRecord DEF shared
<1>. QED  BY <1>1, <1>2, HoldsFrom

\* And nobody else votes on it.
LEMMA SoleVotes ==
  ASSUME Backend = "memory", IInv, [Next]_vars,
         NEW id \in Ids, ~Contention(id)', NEW w \in Workers, Holds(w, id)',
         approvals'[id] # approvals[id]
  PROVE  Vote(w) /\ ~Refuse(w)
<1>1. PICK v \in Workers : Vote(v) /\ ~Refuse(v)
  BY VotesFrom DEF Restart
<1>2. /\ approvals' = [approvals EXCEPT ![call[v].id] = @ \cup {call[v].key}]
      /\ pc'[v] = "store" /\ call'[v].id = call[v].id
  BY <1>1, VoteRecord, CarrySteps
<1>3. call[v].id = id
  BY <1>2 DEF IInv, TypeOK
<1>4. v = w
  BY <1>2, <1>3 DEF Contention, Holds
<1>. QED  BY <1>1, <1>4

\* The id of a new record is free.
LEMMA FreeId ==
  ASSUME IInv, CounterInv, NEW id \in Ids, ~Contention(id)',
         NEW w \in Workers, ReadConfig(w), ~Refuse(w), id = config.proposal_count
  PROVE  ~Exists(id) /\ approvals[id] = {}
<1>1. /\ pc[w] = "read_config" /\ pc' = [pc EXCEPT ![w] = "create"]
      /\ call' = [call EXCEPT ![w] = call'[w]] /\ call'[w].id = id
  BY ReadConfigRecord
<1>2. pc'[w] = "create"
  BY <1>1, HandlerTypes
<1>3. ASSUME NEW v \in Workers, pc[v] = "count", call[v].id = id
      PROVE  FALSE
  <2>1. v # w
    BY <1>1, <1>3
  <2>2. pc'[v] = pc[v] /\ call'[v] = call[v]
    BY <1>1, <2>1, HandlerTypes
  <2>. QED  BY <1>1, <1>2, <1>3, <2>1, <2>2 DEF Contention, Holds
<1>4. ~Exists(id)
  BY <1>3 DEF CounterInv, Ids
<1>. QED  BY <1>4 DEF CounterInv

\* A handler writes to a free id, or to a record that is as open as when it was loaded.
Open(id) ==
  \A w \in Workers :
    call[w].id = id =>
      /\ pc[w] = "create" => ~Exists(id)
      /\ pc[w] \in {"vote", "decide", "store"} => ~Final(proposals[id])

LEMMA NextOpen ==
  ASSUME Backend = "memory", IInv, CounterInv, [Next]_vars,
         NEW id \in Ids, ~Contention(id), ~Contention(id)', Open(id)
  PROVE  Open(id)'
<1>1. ASSUME NEW w \in Workers, call'[w].id = id, pc'[w] = "create"
      PROVE  ~Exists(id)'
  <2>1. Holds(w, id)'
    BY <1>1 DEF Holds
  <2>2. proposals'[id] = proposals[id]
    BY <1>1, <2>1, SoleWrites
  <2>3. CASE pc[w] = "create" /\ call'[w] = call[w]
    BY <1>1, <2>2, <2>3 DEF Open, Exists
  <2>4. CASE ReadConfig(w) /\ ~Refuse(w)
    <3>1. id = config.proposal_count
      BY <1>1, <2>4, ReadConfigRecord
    <3>. QED  BY <2>2, <2>4, <3>1, FreeId DEF Exists
  <2>5. CASE (Load(w) \/ Vote(w) \/ Decide(w)) /\ ~Refuse(w)
    BY <1>1, <2>5, CarrySteps
  <2>. QED  BY <1>1, <2>3, <2>4, <2>5, CarriedFrom DEF Carrying
<1>2. ASSUME NEW w \in Workers, call'[w].id = id, pc'[w] \in {"vote", "decide", "store"}
      PROVE  ~Final(proposals'[id])
  <2>1. Holds(w, id)'
    BY <1>2 DEF Holds
  <2>2. proposals'[id] = proposals[id]
    BY <1>2, <2>1, SoleWrites
  <2>3. CASE pc[w] \in {"vote", "decide", "store"} /\ call'[w].id = call[w].id
    BY <1>2, <2>2, <2>3 DEF Open
  <2>4. CASE ReadConfig(w) /\ ~Refuse(w)
    BY <1>2, <2>4, CarrySteps
  <2>5. CASE Load(w) /\ ~Refuse(w)
    <3>1. call'[w].id = call[w].id /\ ~Final(proposals[call[w].id])
      BY <2>5, LoadRecord
    <3>. QED  BY <1>2, <2>2, <3>1
  <2>6. CASE (Vote(w) \/ Decide(w)) /\ ~Refuse(w)
    BY <2>3, <2>6, CarrySteps
  <2>. QED  BY <1>2, <2>3, <2>4, <2>5, <2>6, CarriedFrom DEF Carrying
<1>. QED  BY <1>1, <1>2 DEF Open, Final

Executed(id) == Exists(id) /\ proposals[id].status = "Executed"

LEMMA ExecutedStays ==
  ASSUME Backend = "memory", IInv, CounterInv, [Next]_vars,
         NEW id \in Ids, Open(id), Executed(id)
  PROVE  Executed(id)'
<1>1. ASSUME NEW w \in Workers, pc[w] \in {"create", "store"}, call[w].id = id
      PROVE  FALSE
  BY <1>1 DEF Open, Executed, Final
<1>2. proposals'[id] = proposals[id]
  BY <1>1, WritesFrom
<1>. QED  BY <1>2 DEF Executed, Exists

ExecutionOf(id) == [name |-> "ProposalExecuted", id |-> id]

\* A handler that is about to announce the execution.
Announces(w, id) == pc[w] = "publish" /\ call[w].op = "execute" /\ call[w].id = id

\* What is announced as executed is stored so, and a handler about to announce an
\* execution is the only one and the first.
Once(id) ==
  /\ \A w \in Workers :
       /\ pc[w] = "store" /\ call[w].op = "execute" /\ call[w].id = id =>
            call[w].rec.status = "Executed"
       /\ Announces(w, id) => ExecutionOf(id) \notin events /\ Executed(id)
  /\ \A v, w \in Workers : Announces(v, id) /\ Announces(w, id) => v = w
  /\ ExecutionOf(id) \in events => Executed(id)

\* A handler that is to announce an execution was to, or has just stored it.
LEMMA AnnouncesFrom ==
  ASSUME Backend = "memory", IInv, CounterInv, [Next]_vars, NEW id \in Ids, Open(id),
         Once(id), NEW w \in Workers, Announces(w, id)'
  PROVE  \/ Announces(w, id) /\ Executed(id)
         \/ Store(w) /\ ~Executed(id) /\ Executed(id)'
<1>1. /\ call'[w] = call[w] /\ pc[w] \in {"publish", "store", "count", "set_paused"}
      /\ call[w].op = "execute" /\ call[w].id = id
  BY PublishFrom DEF Announces
<1>2. CASE pc[w] = "publish"
  BY <1>1, <1>2 DEF Once, Announces
<1>3. CASE pc[w] = "store"
  <2>1. Store(w)
    BY <1>3, StoresItself DEF Announces
  <2>2. upsert(call[w]) /\ call[w].rec.status = "Executed"
    BY <1>1, <1>3, <2>1 DEF Store, Once
  <2>3. /\ call[w].rec \in ProposalRecord /\ Exists(id)'
        /\ proposals'[id] = Upserted(id, call[w].rec)
    BY <1>1, <1>3, <2>2, UpsertTypes
  <2>4. proposals'[id].status = "Executed"
    BY <2>2, <2>3, UpsertedFields
  <2>5. ~Final(proposals[id])
    BY <1>1, <1>3 DEF Open
  <2>. QED  BY <2>1, <2>3, <2>4, <2>5 DEF Executed, Final, Exists
<1>4. CASE pc[w] \in {"count", "set_paused"}
  BY <1>1, <1>4, HandlerTypes DEF HandlerOK
<1>. QED  BY <1>1, <1>2, <1>3, <1>4

LEMMA NextOnce ==
  ASSUME Backend = "memory", IInv, CounterInv, [Next]_vars,
         NEW id \in Ids, ~Contention(id), Open(id), Once(id)
  PROVE  Once(id)'
<1>1. ASSUME NEW w \in Workers, pc'[w] = "store", call'[w].op = "execute", call'[w].id = id
      PROVE  call'[w].rec.status = "Executed"
  <2>1. CASE pc[w] = "store" /\ call'[w] = call[w]
    BY <1>1, <2>1 DEF Once
  <2>2. CASE Decide(w) /\ ~Refuse(w)
    BY <2>2, DecideRecord
  <2>3. CASE (ReadConfig(w) \/ Load(w) \/ Vote(w)) /\ ~Refuse(w)
    BY <1>1, <2>3, ReadConfigRecord, LoadRecord, VoteRecord
  <2>. QED  BY <1>1, <2>1, <2>2, <2>3, CarriedFrom DEF Carrying
<1>2. \/ events' = events
      \/ \E u \in Workers : Publish(u) /\ events' = events \cup {EventOf(call[u])}
  BY EventsFrom DEF Publish
<1>3. ASSUME NEW u \in Workers, Publish(u), EventOf(call[u]) = ExecutionOf(id)
      PROVE  Announces(u, id)
  <2>1. call[u].op \in Ops /\ pc[u] = "publish"
    BY <1>3, HandlerTypes DEF Call, Publish
  <2>2. call[u].op = "execute"
    BY <1>3, <2>1 DEF EventOf, ExecutionOf, Ops
  <2>. QED  BY <1>3, <2>1, <2>2 DEF EventOf, ExecutionOf, Announces
<1>4. ExecutionOf(id) \in events' => Executed(id)
  BY <1>2, <1>3 DEF Once
<1>5. ASSUME NEW w \in Workers, Announces(w, id)'
      PROVE  ExecutionOf(id) \notin events' /\ Executed(id)'
  <2>1. Executed(id)'
    BY <1>5, AnnouncesFrom, ExecutedStays
  <2>2. CASE ~Executed(id)
    BY <1>4, <2>1, <2>2
  <2>3. CASE Announces(w, id)
    <3>1. ExecutionOf(id) \notin events
      BY <2>3 DEF Once
    <3>2. ASSUME NEW u \in Workers, Publish(u), EventOf(call[u]) = ExecutionOf(id)
          PROVE  FALSE
      <4>1. u = w
        BY <1>3, <2>3, <3>2 DEF Once
      <4>2. pc'[w] = "idle"
        BY <3>2, <4>1, HandlerTypes DEF Publish, Return
      <4>. QED  BY <1>5, <4>2 DEF Announces
    <3>. QED  BY <1>2, <2>1, <3>1, <3>2
  <2>. QED  BY <1>5, <2>2, <2>3, AnnouncesFrom
<1>6. ASSUME NEW v \in Workers, NEW w \in Workers, Announces(v, id)', Announces(w, id)'
      PROVE  v = w
  <2>1. CASE Announces(v, id) /\ Announces(w, id)
    BY <2>1 DEF Once
  <2>2. CASE Store(v) /\ Store(w)
    <3>1. call'[v] = call[v] /\ call'[w] = call[w]
      BY <2>2 DEF Store
    <3>. QED  BY <1>6, <2>2, <3>1 DEF Contention, Holds, Store, Announces
  <2>. QED  BY <1>6, <2>1, <2>2, AnnouncesFrom
<1>7. ExecutionOf(id) \in events' => Executed(id)'
  BY <1>4, ExecutedStays
<1>. QED  BY <1>1, <1>5, <1>6, <1>7 DEF Once, ExecutionOf

\* The inductive invariant of the proposals that were not contended for.
ApartInv ==
  \A id \in Ids :
    /\ Contention(id) => id \in contended
    /\ id \notin contended => Open(id) /\ Once(id)

\* What is not contended for was not, before the step or after it.
LEMMA OverlapSteps ==
  ASSUME [OverlapNext]_overlapVars, \A id \in Ids : Contention(id) => id \in contended
  PROVE  /\ [Next]_vars
         /\ \A id \in Ids : Contention(id)' => id \in contended'
         /\ \A id \in Ids \ contended' :
              id \notin contended /\ ~Contention(id) /\ ~Contention(id)'
<1>1. CASE OverlapNext
  BY <1>1 DEF OverlapNext
<1>2. CASE UNCHANGED overlapVars
  <2>1. \A id \in Ids : Contention(id)' <=> Contention(id)
    BY <1>2 DEF overlapVars, vars, Contention, Holds
  <2>. QED  BY <1>2, <2>1 DEF overlapVars
<1>. QED  BY <1>1, <1>2

LEMMA OverlapImplements == OverlapSpec => Spec
<1>1. OverlapInit => Init
  BY DEF OverlapInit
<1>2. [OverlapNext]_overlapVars => [Next]_vars
  BY DEF OverlapNext, overlapVars
<1>. QED  BY <1>1, <1>2, PTL DEF OverlapSpec, Spec

LEMMA AlwaysApart == ASSUME Backend = "memory" PROVE OverlapSpec => []ApartInv
<1>1. OverlapInit => ApartInv
  BY DEF OverlapInit, Init, ApartInv, Contention, Holds, Open, Once, Announces
<1>2. IInv /\ CounterInv /\ ApartInv /\ [OverlapNext]_overlapVars => ApartInv'
  <2>. SUFFICES ASSUME IInv, CounterInv, ApartInv, [OverlapNext]_overlapVars
                PROVE  ApartInv'
    OBVIOUS
  <2>1. /\ [Next]_vars
        /\ \A id \in Ids : Contention(id)' => id \in contended'
        /\ \A id \in Ids \ contended' :
             id \notin contended /\ ~Contention(id) /\ ~Contention(id)'
    BY OverlapSteps DEF ApartInv
  <2>2. ASSUME NEW id \in Ids, id \notin contended'
        PROVE  Open(id)' /\ Once(id)'
    <3>1. Open(id) /\ Once(id)
      BY <2>1, <2>2 DEF ApartInv
    <3>. QED  BY <2>1, <2>2, <3>1, NextOpen, NextOnce
  <2>. QED  BY <2>1, <2>2 DEF ApartInv
<1>. QED
  BY <1>1, <1>2, AlwaysIInv, AlwaysCounter, OverlapImplements, PTL DEF OverlapSpec

\* A proposal gets an id that no proposal has, unless another handler holds it too.
THEOREM IdsFreshApart ==
  ASSUME Backend = "memory"
  PROVE  OverlapSpec => FreshApart
<1>1. IInv /\ ApartInv =>
        [\A w \in Workers :
           pc[w] = "create" /\ pc'[w] = "count" /\ call[w].id \notin contended =>
             ~Exists(call[w].id)]_overlapVars
  BY HandlerTypes DEF ApartInv, Open
<1>. QED  BY <1>1, AlwaysIInv, AlwaysApart, OverlapImplements, PTL DEF FreshApart

\* An execution is announced once, unless two handlers held the proposal together.
THEOREM ExecutionAnnouncedOnce ==
  ASSUME Backend = "memory"
  PROVE  OverlapSpec => ExecutedOnceApart
<1>1. IInv /\ ApartInv =>
        [\A w \in Workers :
           Publishes(w, "execute") /\ call[w].id \notin contended =>
             EventOf(call[w]) \notin events]_overlapVars
  <2>. SUFFICES ASSUME IInv, ApartInv, NEW w \in Workers, pc[w] = "publish",
                       call[w].op = "execute", call[w].id \notin contended
                PROVE  EventOf(call[w]) \notin events
    BY DEF Publishes
  <2>1. EventOf(call[w]) = ExecutionOf(call[w].id) /\ call[w].id \in Ids
    BY HandlerTypes DEF EventOf, ExecutionOf
  <2>. QED  BY <2>1 DEF ApartInv, Once, Announces
<1>. QED  BY <1>1, AlwaysIInv, AlwaysApart, OverlapImplements, PTL DEF ExecutedOnceApart
\* A record that counts the guard set exactly and is not left Pending by it.
Tallied(rec, id) ==
  /\ rec.approvals = Cardinality(approvals[id])
  /\ rec.status = "Pending" => rec.approvals < rec.threshold

\* A stored record lags only behind the handler that is about to store it.
Tally(id) ==
  /\ \A w \in Workers : Holds(w, id) => Tallied(call[w].rec, id)
  /\ Exists(id) => \/ Tallied(proposals[id], id)
                   \/ \E w \in Workers : pc[w] = "store" /\ call[w].id = id

LEMMA CarriedTallied ==
  ASSUME Backend = "memory", NoWrap, IInv, GuardiansOnly, CounterInv, [Next]_vars,
         NEW id \in Ids, ~Contention(id)', Tally(id), NEW w \in Workers, Holds(w, id)'
  PROVE  Tallied(call[w].rec, id)'
<1>1. CASE Vote(w) /\ ~Refuse(w)
  <2> DEFINE old == call[w].rec
             count == call'[w].rec.approvals
  <2>1. /\ call'[w].rec.threshold = old.threshold /\ old \in ProposalRecord
        /\ call'[w].rec.status = IF count >= old.threshold THEN "Approved" ELSE old.status
        /\ call'[w].id = call[w].id
    BY <1>1, VoteRecord
  <2>2. call'[w].id = id /\ call[w].id = id
    BY <2>1 DEF Holds
  <2>3. count = Cardinality(approvals'[id]) /\ count \in Int
    <3>1. /\ count = Cardinality(approvals'[call[w].id])
          /\ count = Cardinality(approvals[call[w].id]) + 1
          /\ Cardinality(approvals[call[w].id]) \in Nat
      BY <1>1, VoteExact
    <3>. QED  BY <2>2, <3>1
  <2>4. old.threshold \in Int
    BY <2>1 DEF ProposalRecord
  <2> HIDE DEF count
  <2>5. call'[w].rec.status = "Pending" => count < old.threshold
    BY <2>1, <2>3, <2>4
  <2>. QED  BY <2>1, <2>3, <2>5 DEF Tallied, count
<1>2. CASE ~(Vote(w) /\ ~Refuse(w))
  <2>1. approvals'[id] = approvals[id]
    BY <1>2, SoleVotes
  <2>2. pc'[w] \in Carrying /\ call'[w].id = id
    BY DEF Holds, Carrying
  <2>3. CASE pc[w] \in Carrying /\ call'[w] = call[w]
    <3>1. Holds(w, id)
      BY <2>2, <2>3 DEF Holds, Carrying, CounterInv
    <3>. QED  BY <2>1, <2>3, <3>1 DEF Tally, Tallied
  <2>4. CASE ReadConfig(w) /\ ~Refuse(w)
    <3>1. /\ call'[w].rec.approvals = 0 /\ call'[w].rec \in ProposalRecord
          /\ id = config.proposal_count
      BY <2>2, <2>4, ReadConfigRecord
    <3>2. approvals[id] = {}
      BY <2>4, <3>1, FreeId
    <3>3. call'[w].rec.threshold \in 1..U8Max
      BY <3>1 DEF ProposalRecord
    <3>. QED  BY <2>1, <3>1, <3>2, <3>3, FS_EmptySet, EngineAssumption DEF Tallied
  <2>5. CASE Load(w) /\ ~Refuse(w)
    <3> DEFINE rec == proposals[id]
    <3>0. call[w].id = id
      BY <2>2, <2>5, LoadRecord
    <3>1. /\ Exists(id) /\ rec \in ProposalRecord
          /\ call'[w].rec = IF call'[w].op = "cancel"
                            THEN [rec EXCEPT !.status = "Cancelled"] ELSE rec
          /\ pc[w] = "load" /\ pc' = [pc EXCEPT ![w] = pc'[w]]
          /\ call' = [call EXCEPT ![w] = call'[w]]
      BY <2>5, <3>0, LoadRecord
    <3>2. ASSUME NEW v \in Workers, pc[v] = "store", call[v].id = id
          PROVE  FALSE
      <4>1. v # w /\ pc'[v] = pc[v] /\ call'[v] = call[v]
        BY <3>1, <3>2, HandlerTypes
      <4>. QED  BY <3>2, <4>1 DEF Contention, Holds
    <3>3. Tallied(rec, id)
      BY <3>1, <3>2 DEF Tally
    <3>4. /\ call'[w].rec.approvals = rec.approvals
          /\ call'[w].rec.threshold = rec.threshold
          /\ call'[w].rec.status \in {rec.status, "Cancelled"}
      BY <3>1 DEF ProposalRecord
    <3>. QED  BY <2>1, <3>3, <3>4 DEF Tallied
  <2>6. CASE Decide(w) /\ ~Refuse(w)
    <3>1. /\ call'[w].rec.approvals = call[w].rec.approvals
          /\ call'[w].rec.status = "Executed"
          /\ call'[w].id = call[w].id /\ pc[w] = "decide"
      BY <2>6, DecideRecord
    <3>2. Tallied(call[w].rec, id)
      BY <2>2, <3>1 DEF Tally, Holds
    <3>. QED  BY <2>1, <3>1, <3>2 DEF Tallied
  <2>. QED  BY <1>2, <2>2, <2>3, <2>4, <2>5, <2>6, CarriedFrom
<1>. QED  BY <1>1, <1>2

LEMMA StoredTallied ==
  ASSUME Backend = "memory", IInv, CounterInv, [Next]_vars,
         NEW id \in Ids, Tally(id), Exists(id)'
  PROVE  \/ Tallied(proposals[id], id)'
         \/ \E w \in Workers : pc'[w] = "store" /\ call'[w].id = id
<1>1. ASSUME NEW w \in Workers, Holds(w, id), proposals'[id] = call[w].rec,
             UNCHANGED approvals
      PROVE  Tallied(proposals[id], id)'
  BY <1>1 DEF Tally, Tallied
<1>2. ASSUME proposals'[id] = proposals[id], Tallied(proposals[id], id)
      PROVE  \/ Tallied(proposals[id], id)'
             \/ \E w \in Workers : pc'[w] = "store" /\ call'[w].id = id
  <2>1. CASE approvals'[id] = approvals[id]
    BY <1>2, <2>1 DEF Tallied
  <2>2. ASSUME NEW w \in Workers, Vote(w), ~Refuse(w), approvals'[id] # approvals[id]
        PROVE  pc'[w] = "store" /\ call'[w].id = id
    <3>1. /\ call[w].id \in Ids /\ pc'[w] = "store" /\ call'[w].id = call[w].id
          /\ approvals' = [approvals EXCEPT ![call[w].id] = @ \cup {call[w].key}]
      BY <2>2, VoteRecord, CarrySteps
    <3>. QED  BY <2>2, <3>1 DEF IInv, TypeOK
  <2>. QED  BY <2>1, <2>2, VotesFrom DEF Restart
<1>3. ASSUME NEW w \in Workers, pc[w] = "store", call[w].id = id
      PROVE  \/ Tallied(proposals[id], id)'
             \/ pc'[w] = "store" /\ call'[w].id = id
  <2>1. CASE pc'[w] = "store" /\ call'[w] = call[w]
    BY <1>3, <2>1
  <2>2. CASE Store(w)
    <3>1. upsert(call[w]) /\ UNCHANGED approvals /\ Holds(w, id)
      BY <1>3, <2>2 DEF Store, Holds
    <3>2. call[w].rec \in ProposalRecord /\ proposals'[id] = Upserted(id, call[w].rec)
      BY <1>3, <3>1, UpsertTypes
    <3>3. proposals'[id] = call[w].rec
      BY <3>2, UpsertedFields
    <3>. QED  BY <1>1, <3>1, <3>3
  <2>. QED  BY <1>3, <2>1, <2>2, StoresItself
<1>4. CASE proposals'[id] = proposals[id]
  <2>1. Exists(id)
    BY <1>4 DEF Exists
  <2>. QED  BY <1>2, <1>3, <1>4, <2>1 DEF Tally
<1>. QED  BY <1>1, <1>4, WritesFrom

\* The inductive invariant of their votes.
TallyInv == \A id \in Ids : id \notin contended => Tally(id)

\* A record counts, whenever no handler holds it, every key that approved its
\* proposal, and is Approved as soon as they are enough, unless two handlers once
\* held it together.
THEOREM EveryVoteCounted ==
  ASSUME Backend = "memory", NoWrap
  PROVE  OverlapSpec => []VotesCountedApart
<1>1. OverlapInit => TallyInv
  BY DEF OverlapInit, Init, TallyInv, Tally, Exists, Holds
<1>2. IInv /\ GuardiansOnly /\ CounterInv /\ ApartInv /\ TallyInv
        /\ [OverlapNext]_overlapVars => TallyInv'
  <2>. SUFFICES ASSUME IInv, GuardiansOnly, CounterInv, ApartInv, TallyInv,
                       [OverlapNext]_overlapVars, NEW id \in Ids, id \notin contended'
                PROVE  Tally(id)'
    BY DEF TallyInv
  <2>1. /\ [Next]_vars
        /\ id \notin contended /\ ~Contention(id)'
    BY OverlapSteps DEF ApartInv
  <2>2. Tally(id)
    BY <2>1 DEF TallyInv
  <2>3. \A w \in Workers : Holds(w, id)' => Tallied(call[w].rec, id)'
    BY <2>1, <2>2, CarriedTallied
  <2>4. Exists(id)' => \/ Tallied(proposals[id], id)'
                       \/ \E w \in Workers : pc'[w] = "store" /\ call'[w].id = id
    BY <2>1, <2>2, StoredTallied
  <2>. QED  BY <2>3, <2>4 DEF Tally
<1>3. TallyInv => VotesCountedApart
  BY DEF TallyInv, Tally, VotesCountedApart, Tallied, Held, Holds
<1>. QED
  BY <1>1, <1>2, <1>3, AlwaysIInv, AlwaysGuardians, AlwaysCounter, AlwaysApart,
     OverlapImplements, PTL DEF OverlapSpec
==============================================================================
