-------------------------- MODULE AuditEngineProofs --------------------------
(***************************************************************************)
(* What the engine keeps under any interleaving of any number of requests, *)
(* for every set of keys, every threshold and timelock, every width.       *)
(*                                                                         *)
(* IInv says of which kind each handler is at each step, and comes first.  *)
(* The frames after it say where the records that handlers carry, the      *)
(* records stored and the votes come from; the invariants of the sections  *)
(* that follow are kept because of those few origins.                      *)
(***************************************************************************)
EXTENDS AuditEngine, FiniteSetTheorems, TLAPS

(***************************************************************************)
(* Types and control                                                       *)
(***************************************************************************)
\* The steps at which a handler has a record in hand.
Carrying == {"create", "count", "vote", "decide", "store", "stray"}

\* Handler c, at this label, is of a kind that gets there, with a record and a
\* key if it needs them.
HandlerOK(label, c) ==
  /\ label = "idle" => c = NoCall
  /\ label = "ensure_active" => c.op \in {"propose", "approve", "execute"}
  /\ label \in {"read_config", "create", "count"} => c.op = "propose"
  /\ label \in {"check_guardian", "vote"} => c.op = "approve"
  /\ label = "decide" => c.op = "execute"
  /\ label \in {"load", "store"} => c.op \in {"approve", "execute", "cancel"}
  /\ label = "set_paused" => c.op \in {"pause", "resume"}
  /\ label \in Carrying => c.rec \in ProposalRecord
  /\ c.op \in {"propose", "approve"} => c.key \in Keys

Handlers == \A w \in Workers : HandlerOK(pc[w], call[w])

\* The handlers that have yet to count their proposal.
Creating == {w \in Workers : call[w].op = "propose" /\ pc[w] # "publish"}

\* There is an id left for each of them.
IdsLeft == config.proposal_count + Cardinality(Creating) <= MaxProposals

IInv == TypeOK /\ Handlers /\ IdsLeft

LEMMA HandlerTypes ==
  ASSUME IInv
  PROVE  /\ pc \in [Workers -> Labels] /\ call \in [Workers -> Call]
         /\ \A w \in Workers : pc[w] \in Labels /\ call[w] \in Call
         /\ \A w \in Workers : call[w].id \in Ids /\ HandlerOK(pc[w], call[w])
         /\ config \in GovernanceConfig
         /\ proposals \in [Ids -> ProposalRecord \cup {NoRecord}]
BY DEF IInv, TypeOK, Handlers, Call

\* The handler of one worker moves on to a step that it may get to.
LEMMA MoveTypes ==
  ASSUME IInv, NEW w \in Workers, NEW label \in Labels, NEW c \in Call,
         HandlerOK(label, c),
         pc' = [pc EXCEPT ![w] = label], call' = [call EXCEPT ![w] = c]
  PROVE  /\ pc' \in [Workers -> Labels] /\ call' \in [Workers -> Call]
         /\ Handlers'
         /\ Creating' = IF c.op = "propose" /\ label # "publish"
                        THEN Creating \cup {w} ELSE Creating \ {w}
<1>1. /\ pc'[w] = label /\ call'[w] = c
      /\ \A v \in Workers \ {w} : pc'[v] = pc[v] /\ call'[v] = call[v]
      /\ pc' \in [Workers -> Labels] /\ call' \in [Workers -> Call]
  BY HandlerTypes
<1>2. \A v \in Workers : HandlerOK(pc'[v], call'[v])
  BY <1>1, HandlerTypes
<1>3. Handlers'
  BY <1>2 DEF Handlers, HandlerOK
<1>4. Creating' = IF c.op = "propose" /\ label # "publish"
                  THEN Creating \cup {w} ELSE Creating \ {w}
  BY <1>1 DEF Creating
<1>. QED  BY <1>1, <1>3, <1>4

\* Ids do not run short as long as neither the counter nor the handlers that are
\* to count grow.
LEMMA IdsLeftKept ==
  ASSUME IInv, Creating' \subseteq Creating,
         config'.proposal_count = config.proposal_count \/ config'.proposal_count = 0
  PROVE  IdsLeft'
<1>1. IsFiniteSet(Creating)
  BY EngineAssumption, FS_Subset DEF Creating
<1>2. /\ Cardinality(Creating) \in Nat /\ Cardinality(Creating') \in Nat
      /\ Cardinality(Creating') <= Cardinality(Creating)
  BY <1>1, FS_Subset, FS_CardinalityType
<1>3. config.proposal_count \in Nat /\ MaxProposals \in Nat
  BY HandlerTypes, EngineAssumption DEF GovernanceConfig
<1>. QED  BY <1>2, <1>3 DEF IInv, IdsLeft

\* A handler that ends, refused or not.
LEMMA ReturnTypes ==
  ASSUME IInv, NEW w \in Workers, Return(w)
  PROVE  /\ pc' \in [Workers -> Labels] /\ call' \in [Workers -> Call]
         /\ seen' \in [Workers -> SUBSET {"active", "entitled"}]
         /\ Handlers'
         /\ Creating' \subseteq Creating
<1>1. NoCall \in Call /\ NoCall.op = "resume" /\ "idle" \in Labels
  BY EngineAssumption DEF NoCall, Call, Ops, Ids, Labels
<1>2. HandlerOK("idle", NoCall)
  BY <1>1 DEF HandlerOK, Carrying
<1>3. seen' \in [Workers -> SUBSET {"active", "entitled"}]
  BY DEF Return, IInv, TypeOK
<1>. QED  BY <1>1, <1>2, <1>3, MoveTypes DEF Return

\* A refusal keeps everything in order.
LEMMA RefuseTypes == ASSUME IInv, NEW w \in Workers, Refuse(w) PROVE IInv'
<1>1. UNCHANGED shared /\ Return(w)
  BY DEF Refuse
<1>2. TypeOK'
  BY <1>1, ReturnTypes DEF shared, IInv, TypeOK
<1>3. IdsLeft'
  BY <1>1, ReturnTypes, IdsLeftKept DEF shared
<1>. QED  BY <1>1, <1>2, <1>3, ReturnTypes DEF IInv

(***************************************************************************)
(* Rules and conversions                                                   *)
(***************************************************************************)
LEMMA ValidGuardians ==
  ASSUME NEW vec \in GuardianVecs, NEW threshold, validate_guardians(vec, threshold)
  PROVE  Range(vec) \in SUBSET Keys /\ threshold \in 1..U8Max
<1>1. vec \in Seq(Keys) /\ DOMAIN vec = 1..Len(vec) /\ Len(vec) \in Nat
  BY EngineAssumption
<1>2. Range(vec) \in SUBSET Keys
  BY <1>1 DEF Range
<1>3. threshold \in 1..U8Max
  BY <1>1, EngineAssumption DEF validate_guardians
<1>. QED  BY <1>2, <1>3

LEMMA FreshConfigTypes ==
  ASSUME NEW cfg \in FreshConfigs
  PROVE  cfg \in GovernanceConfig /\ cfg.proposal_count = 0
<1>1. PICK s \in GuardianVecs \X (1..U8Max) :
        validate_guardians(s[1], s[2]) /\ cfg = NewConfig(s[1], s[2])
  BY DEF FreshConfigs
<1>2. Range(s[1]) \in SUBSET Keys /\ s[2] \in 1..U8Max
  BY <1>1, ValidGuardians
<1>. QED  BY <1>1, <1>2, EngineAssumption DEF NewConfig, GovernanceConfig

\* A status goes into a row and comes back the same.
LEMMA RowFaithful ==
  ASSUME NEW rec \in ProposalRecord
  PROVE  Row(rec) = rec
<1>1. parse_status(status_str(rec.status)) = rec.status
  BY DEF ProposalRecord, Statuses, parse_status, status_str
<1>. QED  BY <1>1 DEF Row, ProposalRecord

\* What the store holds after an upsert has the approvals and the status sent; the
\* rest is sent too, or over Postgres what a row already there had.
LEMMA UpsertedFields ==
  ASSUME IInv, NEW id \in Ids, NEW rec \in ProposalRecord
  PROVE  LET new == Upserted(id, rec)
         IN  /\ new \in ProposalRecord /\ new # NoRecord
             /\ new.approvals = rec.approvals /\ new.status = rec.status
             /\ Backend = "memory" \/ ~Exists(id) => new = rec
             /\ Backend = "postgres" /\ Exists(id) =>
                  new.eta = proposals[id].eta /\ new.threshold = proposals[id].threshold
<1>1. Row(rec) = rec
  BY RowFaithful
<1>2. Exists(id) => proposals[id] \in ProposalRecord
  BY HandlerTypes DEF Exists
<1>3. CASE Backend = "postgres" /\ Exists(id)
  <2>1. Upserted(id, rec) =
          [proposals[id] EXCEPT !.approvals = rec.approvals, !.status = rec.status]
    BY <1>1, <1>3 DEF Upserted
  <2>. QED  BY <1>2, <1>3, <2>1, NoRecordAssumption DEF ProposalRecord
<1>4. CASE ~(Backend = "postgres" /\ Exists(id))
  <2>1. Upserted(id, rec) = rec
    BY <1>1, <1>4 DEF Upserted
  <2>. QED  BY <1>4, <2>1, EngineAssumption, NoRecordAssumption
<1>. QED  BY <1>3, <1>4

LEMMA UpsertTypes ==
  ASSUME IInv, NEW w \in Workers, pc[w] \in {"create", "store", "stray"}, upsert(call[w])
  PROVE  LET c == call[w]
         IN  /\ c.id \in Ids /\ c.rec \in ProposalRecord
             /\ proposals' \in [Ids -> ProposalRecord \cup {NoRecord}]
             /\ proposals'[c.id] = Upserted(c.id, c.rec)
             /\ \A id \in Ids \ {c.id} : proposals'[id] = proposals[id]
             /\ \A id \in Ids : Exists(id)' <=> Exists(id) \/ id = c.id
<1> DEFINE c == call[w]
<1>1. c.id \in Ids /\ c.rec \in ProposalRecord
  BY HandlerTypes DEF HandlerOK, Carrying
<1>2. Upserted(c.id, c.rec) \in ProposalRecord /\ Upserted(c.id, c.rec) # NoRecord
  BY <1>1, UpsertedFields
<1>3. proposals' = [proposals EXCEPT ![c.id] = Upserted(c.id, c.rec)]
  BY DEF upsert
<1> HIDE DEF c
<1>4. /\ proposals' \in [Ids -> ProposalRecord \cup {NoRecord}]
      /\ proposals'[c.id] = Upserted(c.id, c.rec)
      /\ \A id \in Ids \ {c.id} : proposals'[id] = proposals[id]
  BY <1>1, <1>2, <1>3, HandlerTypes
<1>5. \A id \in Ids : Exists(id)' <=> Exists(id) \/ id = c.id
  BY <1>2, <1>4 DEF Exists
<1>. QED  BY <1>1, <1>4, <1>5 DEF c

\* Sets of keys can be counted.
LEMMA KeysCounted ==
  ASSUME NEW B \in SUBSET Keys, NEW A \in SUBSET B
  PROVE  /\ IsFiniteSet(B) /\ IsFiniteSet(A)
         /\ Cardinality(A) \in Nat /\ Cardinality(B) \in Nat
         /\ Cardinality(A) <= Cardinality(B)
<1>1. IsFiniteSet(B)
  BY EngineAssumption, FS_Subset
<1>2. IsFiniteSet(A) /\ Cardinality(A) <= Cardinality(B)
  BY <1>1, FS_Subset
<1>. QED  BY <1>1, <1>2, FS_CardinalityType

\* The length cast to a u8 fits one, and is never more than the length.
LEMMA CountedBounds ==
  ASSUME IInv, NEW id \in Ids, NEW key \in Keys, NEW rec
  PROVE  LET count == Counted(id, key, rec)
             all == Cardinality(approvals[id] \cup {key})
         IN  /\ count \in 0..U8Max /\ all \in Nat /\ count <= all
             /\ all <= U8Max => count = all
<1>1. approvals[id] \cup {key} \in SUBSET Keys
  BY DEF IInv, TypeOK
<1>2. Cardinality(approvals[id] \cup {key}) \in Nat
  BY <1>1, KeysCounted
<1>. QED  BY <1>2, EngineAssumption DEF Counted

(***************************************************************************)
(* Every step keeps types and control                                      *)
(***************************************************************************)
LEMMA BeginTypes ==
  ASSUME IInv, NEW w \in Workers, NEW op \in Requests, NEW id \in Ids,
         NEW key \in Keys \cup {NoKey}, Begin(w, op, id, key)
  PROVE  IInv'
<1> DEFINE c == [op |-> op, id |-> id, key |-> key, rec |-> NoRecord]
<1>1. c \in Call /\ c.op = op /\ FirstLabel(op) \in Labels
  BY EngineAssumption DEF Call, Ops, FirstLabel, Labels
<1>2. HandlerOK(FirstLabel(op), c)
  BY EngineAssumption DEF HandlerOK, Begin, FirstLabel, Carrying, Ops
<1>3. /\ pc' = [pc EXCEPT ![w] = FirstLabel(op)] /\ call' = [call EXCEPT ![w] = c]
      /\ UNCHANGED shared
      /\ seen' = [seen EXCEPT ![w] = Grounds(config, [op |-> op, key |-> key])]
  BY DEF Begin, Goto
<1> HIDE DEF c
<1>4. /\ pc' \in [Workers -> Labels] /\ call' \in [Workers -> Call] /\ Handlers'
      /\ Creating' = IF op = "propose" /\ FirstLabel(op) # "publish"
                     THEN Creating \cup {w} ELSE Creating \ {w}
  BY <1>1, <1>2, <1>3, MoveTypes
<1>5. seen' \in [Workers -> SUBSET {"active", "entitled"}]
  BY <1>3 DEF Grounds, IInv, TypeOK
<1>6. TypeOK'
  BY <1>3, <1>4, <1>5 DEF shared, IInv, TypeOK
<1>7. IdsLeft'
  <2>1. CASE op = "propose"
    <3>1. config.proposal_count + Cardinality(Proposing) < MaxProposals
      BY <2>1 DEF Begin
    <3>2. Creating \subseteq Proposing /\ IsFiniteSet(Proposing)
      BY EngineAssumption, FS_Subset DEF Creating, Proposing
    <3>3. Cardinality(Creating) <= Cardinality(Proposing) /\ IsFiniteSet(Creating)
      BY <3>2, FS_Subset
    <3>4. Cardinality(Creating) \in Nat /\ Cardinality(Proposing) \in Nat
      BY <3>2, <3>3, FS_CardinalityType
    <3>5. /\ Cardinality(Creating \cup {w}) \in Nat
          /\ Cardinality(Creating \cup {w}) <= Cardinality(Creating) + 1
      <4>1. Cardinality(Creating \cup {w}) =
              IF w \in Creating THEN Cardinality(Creating) ELSE Cardinality(Creating) + 1
        BY <3>3, FS_AddElement
      <4>. QED  BY <3>4, <4>1
    <3>6. config.proposal_count \in Nat /\ MaxProposals \in Nat
      BY HandlerTypes, EngineAssumption DEF GovernanceConfig
    <3>7. Creating' = Creating \cup {w} /\ config' = config
      BY <1>3, <1>4, <2>1 DEF FirstLabel, shared
    <3>. QED  BY <3>1, <3>3, <3>4, <3>5, <3>6, <3>7 DEF IdsLeft
  <2>2. CASE op # "propose"
    BY <1>3, <1>4, <2>2, IdsLeftKept DEF shared
  <2>. QED  BY <2>1, <2>2
<1>. QED  BY <1>4, <1>6, <1>7 DEF IInv

\* A step that only moves one handler on, with a record or without.
LEMMA AdvanceTypes ==
  ASSUME IInv, NEW w \in Workers, NEW label \in Labels, NEW c \in Call,
         c.op = call[w].op, HandlerOK(label, c),
         pc' = [pc EXCEPT ![w] = label], call' = [call EXCEPT ![w] = c],
         call[w].op = "propose" => pc[w] # "publish",
         UNCHANGED <<shared, seen>>
  PROVE  IInv'
<1>1. /\ pc' \in [Workers -> Labels] /\ call' \in [Workers -> Call] /\ Handlers'
      /\ Creating' \subseteq Creating
  BY MoveTypes DEF Creating
<1>2. TypeOK'
  BY <1>1 DEF shared, IInv, TypeOK
<1>. QED  BY <1>1, <1>2, IdsLeftKept DEF shared, IInv

LEMMA AdmitTypes ==
  ASSUME IInv, NEW w \in Workers, ensure_active(w) \/ CheckGuardian(w)
  PROVE  IInv'
<1>1. CASE Refuse(w)
  BY <1>1, RefuseTypes
<1>2. CASE ensure_active(w) /\ ~Refuse(w)
  <2> DEFINE label == CASE call[w].op = "propose" -> "read_config"
                        [] call[w].op = "approve" -> "check_guardian"
                        [] call[w].op = "execute" -> "load"
  <2>1. pc[w] = "ensure_active" /\ pc' = [pc EXCEPT ![w] = label] /\ UNCHANGED <<shared, call, seen>>
    BY <1>2 DEF ensure_active, Goto
  <2>2. call[w].op \in {"propose", "approve", "execute"}
    BY <2>1, HandlerTypes DEF HandlerOK
  <2>3. label \in Labels /\ HandlerOK(label, call[w])
    BY <2>1, <2>2, HandlerTypes DEF HandlerOK, Labels, Carrying
  <2> HIDE DEF label
  <2>4. call[w] \in Call /\ call' = [call EXCEPT ![w] = call[w]] /\ pc[w] # "publish"
    BY <2>1, HandlerTypes
  <2>. QED  BY <2>1, <2>3, <2>4, AdvanceTypes
<1>3. CASE CheckGuardian(w) /\ ~Refuse(w)
  <2>1. /\ pc[w] = "check_guardian" /\ pc' = [pc EXCEPT ![w] = "load"]
        /\ UNCHANGED <<shared, call, seen>>
    BY <1>3 DEF CheckGuardian, Goto
  <2>2. "load" \in Labels /\ HandlerOK("load", call[w])
    BY <2>1, HandlerTypes DEF HandlerOK, Labels, Carrying
  <2>3. call[w] \in Call /\ call' = [call EXCEPT ![w] = call[w]]
    BY <2>1, HandlerTypes
  <2>. QED  BY <2>1, <2>2, <2>3, AdvanceTypes
<1>. QED  BY <1>1, <1>2, <1>3

\* A new record has the types of one, and its id is one that is left.
LEMMA ReadConfigRecord ==
  ASSUME IInv, NEW w \in Workers, ReadConfig(w), ~Refuse(w)
  PROVE  LET c == call'[w]
         IN  /\ c.rec = [eta |-> compute_eta, approvals |-> 0,
                         threshold |-> config.threshold, status |-> "Pending"]
             /\ c.rec \in ProposalRecord
             /\ c.id = config.proposal_count
             /\ c.op = "propose" /\ c.op = call[w].op /\ c.key = call[w].key /\ c \in Call
             /\ call' = [call EXCEPT ![w] = c]
             /\ pc[w] = "read_config" /\ pc' = [pc EXCEPT ![w] = "create"]
             /\ UNCHANGED <<shared, seen>>
<1> DEFINE rec == [eta |-> compute_eta, approvals |-> 0,
                   threshold |-> config.threshold, status |-> "Pending"]
           c == [call[w] EXCEPT !.id = config.proposal_count, !.rec = rec]
<1>1. /\ pc[w] = "read_config" /\ Fits(compute_eta)
      /\ pc' = [pc EXCEPT ![w] = "create"] /\ UNCHANGED <<shared, seen>>
      /\ call' = [call EXCEPT ![w].id = config.proposal_count, ![w].rec = rec]
  BY DEF ReadConfig, Goto
<1>2. call[w] \in Call /\ call[w].op = "propose" /\ config \in GovernanceConfig
  BY <1>1, HandlerTypes DEF HandlerOK
<1>3. compute_eta \in Int /\ compute_eta <= I64Max
  BY <1>1, EngineAssumption DEF Fits, compute_eta, IInv, TypeOK, Times
<1>4. rec \in ProposalRecord
  BY <1>2, <1>3, EngineAssumption DEF ProposalRecord, Statuses, GovernanceConfig
<1>5. config.proposal_count \in Ids
  <2>1. w \in Creating /\ IsFiniteSet(Creating)
    BY <1>1, <1>2, EngineAssumption, FS_Subset DEF Creating
  <2>2. Cardinality(Creating) \in Nat \ {0}
    BY <2>1, FS_CardinalityType, FS_EmptySet
  <2>3. config.proposal_count \in Nat /\ MaxProposals \in Nat
    BY <1>2, EngineAssumption DEF GovernanceConfig
  <2>. QED  BY <2>2, <2>3 DEF IInv, IdsLeft, Ids
<1> HIDE DEF rec
<1>6. c \in Call /\ c.op = "propose" /\ c.rec = rec /\ c.id = config.proposal_count
      /\ c.key = call[w].key
  BY <1>2, <1>4, <1>5 DEF Call
<1>7. call' = [call EXCEPT ![w] = c] /\ call'[w] = c
  BY <1>1, HandlerTypes
<1>. QED  BY <1>1, <1>2, <1>4, <1>6, <1>7 DEF rec

LEMMA ReadConfigTypes == ASSUME IInv, NEW w \in Workers, ReadConfig(w) PROVE IInv'
<1>1. CASE Refuse(w)
  BY <1>1, RefuseTypes
<1>2. CASE ~Refuse(w)
  <2>1. call[w].key \in Keys
    BY <1>2, ReadConfigRecord, HandlerTypes DEF HandlerOK
  <2>2. HandlerOK("create", call'[w]) /\ "create" \in Labels
    BY <1>2, <2>1, ReadConfigRecord DEF HandlerOK, Labels
  <2>. QED  BY <1>2, <2>2, ReadConfigRecord, AdvanceTypes
<1>. QED  BY <1>1, <1>2

\* What a handler loads is the record as it is, or cancelled if it came for that.
LEMMA LoadRecord ==
  ASSUME IInv, NEW w \in Workers, Load(w), ~Refuse(w)
  PROVE  LET c == call'[w]
             rec == proposals[call[w].id]
         IN  /\ Exists(call[w].id) /\ ~Final(rec) /\ rec \in ProposalRecord
             /\ c.rec = IF c.op = "cancel" THEN [rec EXCEPT !.status = "Cancelled"] ELSE rec
             /\ c.rec \in ProposalRecord
             /\ c.id = call[w].id /\ c.op = call[w].op /\ c.key = call[w].key /\ c \in Call
             /\ c.op \in {"approve", "execute", "cancel"}
             /\ call' = [call EXCEPT ![w] = c]
             /\ pc[w] = "load" /\ pc' = [pc EXCEPT ![w] = pc'[w]]
             /\ pc'[w] = IF c.op = "approve" THEN "vote"
                         ELSE IF c.op = "execute" THEN "decide" ELSE "store"
             /\ UNCHANGED <<shared, seen>>
<1> DEFINE id == call[w].id
           rec == proposals[id]
           new == IF call[w].op = "cancel" THEN [rec EXCEPT !.status = "Cancelled"] ELSE rec
           c == [call[w] EXCEPT !.rec = new]
           label == CASE call[w].op = "approve" -> "vote" [] call[w].op = "execute" -> "decide"
                      [] call[w].op = "cancel" -> "store"
<1>1. /\ pc[w] = "load" /\ Exists(id) /\ ~Final(rec)
      /\ pc' = [pc EXCEPT ![w] = label]
      /\ call' = [call EXCEPT ![w].rec = new]
      /\ UNCHANGED <<shared, seen>>
  BY DEF Load, Goto, Carry
<1>2. /\ call[w] \in Call /\ call[w].op \in {"approve", "execute", "cancel"}
      /\ id \in Ids /\ rec \in ProposalRecord
  BY <1>1, HandlerTypes DEF HandlerOK, Exists
<1>3. new \in ProposalRecord
  BY <1>2 DEF ProposalRecord, Statuses
<1>4. label = IF call[w].op = "approve" THEN "vote"
              ELSE IF call[w].op = "execute" THEN "decide" ELSE "store"
  BY <1>2
<1> HIDE DEF new, label
<1>5. /\ c \in Call /\ c.rec = new
      /\ c.op = call[w].op /\ c.id = call[w].id /\ c.key = call[w].key
  BY <1>2, <1>3 DEF Call
<1>6. call' = [call EXCEPT ![w] = c] /\ call'[w] = c
  BY <1>1, HandlerTypes
<1>7. pc'[w] = label
  BY <1>1, HandlerTypes
<1> HIDE DEF c
<1>8. c.rec = IF c.op = "cancel" THEN [rec EXCEPT !.status = "Cancelled"] ELSE rec
  BY <1>5 DEF new
<1>. QED  BY <1>1, <1>2, <1>3, <1>4, <1>5, <1>6, <1>7, <1>8

\* A vote is cast by one that has not voted, and counted.
LEMMA VoteRecord ==
  ASSUME IInv, NEW w \in Workers, Vote(w), ~Refuse(w)
  PROVE  LET c == call'[w]
             old == call[w].rec
             count == Counted(call[w].id, call[w].key, old)
         IN  /\ c.rec = [old EXCEPT !.approvals = count,
                           !.status = IF count >= old.threshold THEN "Approved" ELSE old.status]
             /\ c.rec \in ProposalRecord /\ old \in ProposalRecord
             /\ c.rec.approvals = count /\ c.rec.threshold = old.threshold
             /\ c.rec.eta = old.eta
             /\ c.rec.status = IF count >= old.threshold THEN "Approved" ELSE old.status
             /\ c.id = call[w].id /\ c.op = call[w].op /\ c.key = call[w].key /\ c \in Call
             /\ c.op = "approve" /\ call[w].id \in Ids /\ call[w].key \in Keys
             /\ call[w].key \notin approvals[call[w].id]
             /\ approvals' = [approvals EXCEPT ![call[w].id] = @ \cup {call[w].key}]
             /\ voted' = [voted EXCEPT ![call[w].id] = @ \cup {call[w].key}]
             /\ call' = [call EXCEPT ![w] = c]
             /\ pc[w] = "vote" /\ pc' = [pc EXCEPT ![w] = "store"]
             /\ UNCHANGED <<config, proposals, events, now, seen>>
<1> DEFINE old == call[w].rec
           count == Counted(call[w].id, call[w].key, old)
           status == IF count >= old.threshold THEN "Approved" ELSE old.status
           new == [old EXCEPT !.approvals = count, !.status = status]
           c == [call[w] EXCEPT !.rec = new]
<1>1. /\ pc[w] = "vote" /\ call[w].key \notin approvals[call[w].id]
      /\ approvals' = [approvals EXCEPT ![call[w].id] = @ \cup {call[w].key}]
      /\ voted' = [voted EXCEPT ![call[w].id] = @ \cup {call[w].key}]
      /\ pc' = [pc EXCEPT ![w] = "store"]
      /\ UNCHANGED <<config, proposals, events, now, seen>>
  BY DEF Vote, Goto
<1>2. /\ call[w] \in Call /\ call[w].op = "approve" /\ call[w].id \in Ids
      /\ call[w].key \in Keys /\ old \in ProposalRecord
  BY <1>1, HandlerTypes DEF HandlerOK, Carrying
<1>3. count \in 0..U8Max /\ status \in Statuses
  BY <1>2, CountedBounds DEF ProposalRecord, Statuses
<1> HIDE DEF count, status
<1>4. /\ new \in ProposalRecord /\ new.approvals = count /\ new.status = status
      /\ new.threshold = old.threshold /\ new.eta = old.eta
  BY <1>2, <1>3 DEF ProposalRecord
<1>5. call' = [call EXCEPT ![w].rec = new]
  BY <1>1, <1>2 DEF Vote, Refuse, Return, Carry, count, status
<1> HIDE DEF new
<1>6. /\ c \in Call /\ c.rec = new
      /\ c.op = call[w].op /\ c.id = call[w].id /\ c.key = call[w].key
  BY <1>2, <1>4 DEF Call
<1>7. call' = [call EXCEPT ![w] = c] /\ call'[w] = c
  BY <1>5, HandlerTypes
<1> HIDE DEF c
<1>. QED  BY <1>1, <1>2, <1>4, <1>6, <1>7 DEF new, count, status

\* An execution is decided upon a record with its approvals, past its deadline.
LEMMA DecideRecord ==
  ASSUME IInv, NEW w \in Workers, Decide(w), ~Refuse(w)
  PROVE  LET c == call'[w]
             old == call[w].rec
         IN  /\ can_execute(old) /\ old \in ProposalRecord
             /\ c.rec \in ProposalRecord
             /\ c.rec.approvals = old.approvals /\ c.rec.threshold = old.threshold
             /\ c.rec.eta = old.eta /\ c.rec.status = "Executed"
             /\ c.id = call[w].id /\ c.op = call[w].op /\ c.key = call[w].key /\ c \in Call
             /\ c.op = "execute"
             /\ call' = [call EXCEPT ![w] = c]
             /\ pc[w] = "decide" /\ pc' = [pc EXCEPT ![w] = "store"]
             /\ UNCHANGED <<shared, seen>>
<1> DEFINE old == call[w].rec
           new == [old EXCEPT !.status = "Executed"]
           c == [call[w] EXCEPT !.rec = new]
<1>1. /\ pc[w] = "decide" /\ can_execute(old)
      /\ pc' = [pc EXCEPT ![w] = "store"] /\ UNCHANGED <<shared, seen>>
      /\ call' = [call EXCEPT ![w].rec = new]
  BY DEF Decide, Goto, Carry
<1>2. call[w] \in Call /\ call[w].op = "execute" /\ old \in ProposalRecord
  BY <1>1, HandlerTypes DEF HandlerOK, Carrying
<1>3. /\ new \in ProposalRecord /\ new.approvals = old.approvals
      /\ new.threshold = old.threshold /\ new.eta = old.eta /\ new.status = "Executed"
  BY <1>2 DEF ProposalRecord, Statuses
<1> HIDE DEF new
<1>4. /\ c \in Call /\ c.rec = new
      /\ c.op = call[w].op /\ c.id = call[w].id /\ c.key = call[w].key
  BY <1>2, <1>3 DEF Call
<1>5. call' = [call EXCEPT ![w] = c] /\ call'[w] = c
  BY <1>1, HandlerTypes
<1> HIDE DEF c
<1>. QED  BY <1>1, <1>2, <1>3, <1>4, <1>5

\* Where the steps that take up a record lead to; but for the first they keep the
\* request as it is.
LEMMA CarrySteps ==
  ASSUME IInv, NEW w \in Workers, ~Refuse(w)
  PROVE  /\ ReadConfig(w) => pc[w] = "read_config" /\ pc'[w] = "create"
         /\ Load(w) => pc[w] = "load" /\ pc'[w] \in {"vote", "decide", "store"}
         /\ Vote(w) => pc[w] = "vote" /\ pc'[w] = "store" /\ UNCHANGED <<config, seen>>
         /\ Decide(w) => pc[w] = "decide" /\ pc'[w] = "store"
         /\ Load(w) \/ Vote(w) \/ Decide(w) =>
              /\ call'[w].id = call[w].id
              /\ call'[w].op = call[w].op
              /\ call'[w].key = call[w].key
<1>0. \A label : pc' = [pc EXCEPT ![w] = label] => pc'[w] = label
  BY HandlerTypes
<1>1. CASE ReadConfig(w)
  <2>1. pc[w] = "read_config" /\ pc' = [pc EXCEPT ![w] = "create"]
    BY <1>1, ReadConfigRecord
  <2>. QED  BY <1>0, <2>1 DEF ReadConfig, Load, Vote, Decide
<1>2. CASE Load(w)
  <2>1. /\ pc[w] = "load" /\ pc'[w] \in {"vote", "decide", "store"}
        /\ call'[w].id = call[w].id /\ call'[w].op = call[w].op /\ call'[w].key = call[w].key
    BY <1>2, LoadRecord
  <2>. QED  BY <2>1 DEF ReadConfig, Load, Vote, Decide
<1>3. CASE Vote(w)
  <2>1. /\ pc[w] = "vote" /\ pc' = [pc EXCEPT ![w] = "store"]
        /\ call'[w].id = call[w].id /\ call'[w].op = call[w].op /\ call'[w].key = call[w].key
    BY <1>3, VoteRecord
  <2>2. UNCHANGED <<config, seen>>
    BY <1>3 DEF Vote
  <2>. QED  BY <1>0, <2>1, <2>2 DEF ReadConfig, Load, Vote, Decide
<1>4. CASE Decide(w)
  <2>1. /\ pc[w] = "decide" /\ pc' = [pc EXCEPT ![w] = "store"]
        /\ call'[w].id = call[w].id /\ call'[w].op = call[w].op /\ call'[w].key = call[w].key
    BY <1>4, DecideRecord
  <2>. QED  BY <1>0, <2>1 DEF ReadConfig, Load, Vote, Decide
<1>. QED  BY <1>1, <1>2, <1>3, <1>4

LEMMA RecordTypes ==
  ASSUME IInv, NEW w \in Workers, Load(w) \/ Vote(w) \/ Decide(w)
  PROVE  IInv'
<1>1. CASE Refuse(w)
  BY <1>1, RefuseTypes
<1>2. CASE Load(w) /\ ~Refuse(w)
  <2>1. call[w].op \in {"propose", "approve"} => call[w].key \in Keys
    BY HandlerTypes DEF HandlerOK
  <2>2. pc'[w] \in Labels /\ HandlerOK(pc'[w], call'[w])
    BY <1>2, <2>1, LoadRecord DEF HandlerOK, Labels
  <2>. QED  BY <1>2, <2>2, LoadRecord, AdvanceTypes
<1>3. CASE Vote(w) /\ ~Refuse(w)
  <2>1. HandlerOK("store", call'[w]) /\ "store" \in Labels
    BY <1>3, VoteRecord DEF HandlerOK, Labels
  <2>2. /\ pc' \in [Workers -> Labels] /\ call' \in [Workers -> Call] /\ Handlers'
        /\ Creating' \subseteq Creating
    <3>1. /\ pc' = [pc EXCEPT ![w] = "store"] /\ call' = [call EXCEPT ![w] = call'[w]]
          /\ call'[w] \in Call /\ call'[w].op = "approve"
      BY <1>3, VoteRecord
    <3> DEFINE c == call'[w]
    <3> HIDE DEF c
    <3>2. /\ call' = [call EXCEPT ![w] = c] /\ c \in Call /\ c.op # "propose"
          /\ HandlerOK("store", c)
      BY <2>1, <3>1 DEF c
    <3>. QED  BY <2>1, <3>1, <3>2, MoveTypes
  <2>3. /\ call[w].id \in Ids /\ call[w].key \in Keys
        /\ approvals' = [approvals EXCEPT ![call[w].id] = @ \cup {call[w].key}]
        /\ voted' = [voted EXCEPT ![call[w].id] = @ \cup {call[w].key}]
        /\ UNCHANGED <<config, proposals, events, now, seen>>
    BY <1>3, VoteRecord
  <2>4. approvals' \in [Ids -> SUBSET Keys] /\ voted' \in [Ids -> SUBSET Keys]
    BY <2>3 DEF IInv, TypeOK
  <2>5. TypeOK'
    BY <2>2, <2>3, <2>4 DEF IInv, TypeOK
  <2>. QED  BY <2>2, <2>3, <2>5, IdsLeftKept DEF IInv
<1>4. CASE Decide(w) /\ ~Refuse(w)
  <2>1. HandlerOK("store", call'[w]) /\ "store" \in Labels
    BY <1>4, DecideRecord DEF HandlerOK, Labels
  <2>. QED  BY <1>4, <2>1, DecideRecord, AdvanceTypes
<1>. QED  BY <1>1, <1>2, <1>3, <1>4

LEMMA WriteTypes ==
  ASSUME IInv, NEW w \in Workers, Create(w) \/ Store(w) \/ Land(w)
  PROVE  IInv'
<1>1. pc[w] \in {"create", "store", "stray"} /\ upsert(call[w])
  BY DEF Create, Store, Land
<1>2. proposals' \in [Ids -> ProposalRecord \cup {NoRecord}]
  BY <1>1, UpsertTypes
<1>3. UNCHANGED <<config, approvals, events, now, voted>>
  BY DEF Create, Store, Land
<1>4. /\ pc' \in [Workers -> Labels] /\ call' \in [Workers -> Call] /\ Handlers'
      /\ seen' \in [Workers -> SUBSET {"active", "entitled"}]
      /\ Creating' \subseteq Creating
  <2>1. CASE Land(w)
    BY <2>1, ReturnTypes DEF Land
  <2>2. CASE Create(w) \/ Store(w)
    <3> DEFINE label == IF Create(w) THEN "count" ELSE "publish"
    <3>1. /\ pc' = [pc EXCEPT ![w] = label] /\ UNCHANGED <<call, seen>>
          /\ pc[w] = IF Create(w) THEN "create" ELSE "store"
      BY <2>2 DEF Create, Store, Goto, AfterStore
    <3>2. label \in Labels /\ HandlerOK(label, call[w])
      BY <3>1, HandlerTypes DEF HandlerOK, Labels, Carrying
    <3> HIDE DEF label
    <3>3. call[w] \in Call /\ call' = [call EXCEPT ![w] = call[w]]
      BY <3>1, HandlerTypes
    <3>4. call[w].op = "propose" => w \in Creating
      <4>1. pc[w] # "publish"
        BY <1>1
      <4>. QED  BY <4>1 DEF Creating
    <3>. QED  BY <3>1, <3>2, <3>3, <3>4, MoveTypes DEF IInv, TypeOK
  <2>. QED  BY <2>1, <2>2
<1>5. TypeOK'
  BY <1>2, <1>3, <1>4 DEF IInv, TypeOK
<1>. QED  BY <1>3, <1>4, <1>5, IdsLeftKept DEF IInv

LEMMA CountTypes == ASSUME IInv, NEW w \in Workers, Count(w) PROVE IInv'
<1>1. /\ pc[w] = "count" /\ pc' = [pc EXCEPT ![w] = "publish"]
      /\ config' = [config EXCEPT !.proposal_count = config.proposal_count + 1]
      /\ UNCHANGED <<proposals, approvals, events, now, call, voted, seen>>
  BY DEF Count, Goto, NextCount
<1>2. call[w] \in Call /\ call[w].op = "propose" /\ config \in GovernanceConfig
  BY <1>1, HandlerTypes DEF HandlerOK
<1>3. "publish" \in Labels /\ HandlerOK("publish", call[w])
  BY <1>2, HandlerTypes DEF HandlerOK, Labels, Carrying
<1>4. /\ pc' \in [Workers -> Labels] /\ call' \in [Workers -> Call] /\ Handlers'
      /\ Creating' = Creating \ {w}
  <2>1. call' = [call EXCEPT ![w] = call[w]]
    BY <1>1, HandlerTypes
  <2>. QED  BY <1>1, <1>2, <1>3, <2>1, MoveTypes
<1>5. w \in Creating /\ IsFiniteSet(Creating)
  BY <1>1, <1>2, EngineAssumption, FS_Subset DEF Creating
<1>6. /\ Cardinality(Creating) \in Nat
      /\ Cardinality(Creating') = Cardinality(Creating) - 1
      /\ Cardinality(Creating') \in Nat
  BY <1>4, <1>5, FS_RemoveElement, FS_CardinalityType
<1>7. /\ config.proposal_count \in Nat /\ MaxProposals \in Nat
      /\ config'.proposal_count = config.proposal_count + 1
  BY <1>1, <1>2, EngineAssumption DEF GovernanceConfig
<1>8. IdsLeft'
  BY <1>6, <1>7 DEF IInv, IdsLeft
<1>9. config' \in GovernanceConfig
  <2>1. config'.proposal_count \in 0..MaxProposals
    BY <1>6, <1>7 DEF IInv, IdsLeft
  <2>. QED  BY <1>1, <1>2, <1>7, <2>1 DEF GovernanceConfig
<1>10. TypeOK'
  BY <1>1, <1>4, <1>9 DEF IInv, TypeOK
<1>. QED  BY <1>4, <1>8, <1>10 DEF IInv

LEMMA ConfigTypes ==
  ASSUME IInv,
         \/ \E w \in Workers : set_paused(w)
         \/ \E vec \in GuardianVecs, threshold \in 1..U8Max : set_guardians(vec, threshold)
  PROVE  IInv'
<1>1. /\ config' \in GovernanceConfig /\ config'.proposal_count = config.proposal_count
      /\ seen' = SeenUnder(config')
      /\ UNCHANGED <<proposals, approvals, events, now, call, voted>>
  <2>1. ASSUME NEW w \in Workers, set_paused(w)
        PROVE  config' \in GovernanceConfig /\ config'.proposal_count = config.proposal_count
    BY <2>1, HandlerTypes DEF set_paused, GovernanceConfig
  <2>2. ASSUME NEW vec \in GuardianVecs, NEW threshold \in 1..U8Max, set_guardians(vec, threshold)
        PROVE  config' \in GovernanceConfig /\ config'.proposal_count = config.proposal_count
    BY <2>2, HandlerTypes, ValidGuardians DEF set_guardians, GovernanceConfig
  <2>. QED  BY <2>1, <2>2 DEF set_paused, set_guardians
<1>2. seen' \in [Workers -> SUBSET {"active", "entitled"}]
  BY <1>1 DEF SeenUnder, Grounds, IInv, TypeOK
<1>3. pc' \in [Workers -> Labels] /\ Handlers' /\ Creating' \subseteq Creating
  <2>1. ASSUME NEW w \in Workers, set_paused(w)
        PROVE  pc' \in [Workers -> Labels] /\ Handlers' /\ Creating' \subseteq Creating
    <3>1. pc[w] = "set_paused" /\ pc' = [pc EXCEPT ![w] = "publish"]
      BY <2>1 DEF set_paused, Goto
    <3>2. /\ call[w] \in Call /\ call' = [call EXCEPT ![w] = call[w]]
          /\ call[w].op \in {"pause", "resume"}
      BY <1>1, <3>1, HandlerTypes DEF HandlerOK
    <3>3. "publish" \in Labels /\ HandlerOK("publish", call[w])
      BY <3>2 DEF HandlerOK, Labels, Carrying
    <3>. QED  BY <3>1, <3>2, <3>3, MoveTypes
  <2>2. ASSUME UNCHANGED pc
        PROVE  pc' \in [Workers -> Labels] /\ Handlers' /\ Creating' \subseteq Creating
    BY <1>1, <2>2 DEF Handlers, HandlerOK, Creating, IInv, TypeOK
  <2>. QED  BY <2>1, <2>2 DEF set_guardians
<1>4. TypeOK'
  BY <1>1, <1>2, <1>3 DEF IInv, TypeOK
<1>. QED  BY <1>1, <1>3, <1>4, IdsLeftKept DEF IInv

LEMMA PublishTypes == ASSUME IInv, NEW w \in Workers, Publish(w) PROVE IInv'
<1>1. Return(w) /\ UNCHANGED <<config, proposals, approvals, now, voted>>
  BY DEF Publish
<1>2. TypeOK'
  BY <1>1, ReturnTypes DEF IInv, TypeOK
<1>. QED  BY <1>1, <1>2, ReturnTypes, IdsLeftKept DEF IInv

LEMMA FaultTypes ==
  ASSUME IInv, NEW w \in Workers, Cut(w) \/ Lose(w)
  PROVE  IInv'
<1>1. CASE Refuse(w)
  BY <1>1, RefuseTypes
<1>2. CASE ~Refuse(w)
  <2>1. /\ pc[w] \in {"create", "store"} /\ pc' = [pc EXCEPT ![w] = "stray"]
        /\ UNCHANGED <<shared, call, seen>>
    BY <1>2 DEF Cut, Lose, Goto
  <2>2. "stray" \in Labels /\ HandlerOK("stray", call[w])
    BY <2>1, HandlerTypes DEF HandlerOK, Labels, Carrying
  <2>3. call[w] \in Call /\ call' = [call EXCEPT ![w] = call[w]] /\ pc[w] # "publish"
    BY <2>1, HandlerTypes
  <2>. QED  BY <2>1, <2>2, <2>3, AdvanceTypes
<1>. QED  BY <1>1, <1>2

\* What a restart leaves of a handler: a write that it sent, or nothing.
LEMMA RestartFrame ==
  ASSUME IInv, Restart
  PROVE  /\ Backend = "postgres"
         /\ config' \in FreshConfigs /\ approvals' = [id \in Ids |-> {}]
         /\ UNCHANGED <<proposals, events, now, voted>>
         /\ \A w \in Workers :
              \/ pc[w] \in {"create", "store", "stray"} /\ pc'[w] = "stray"
                 /\ call'[w] = call[w] /\ seen'[w] = seen[w]
              \/ pc[w] \notin {"create", "store", "stray"} /\ pc'[w] = "idle"
                 /\ call'[w] = NoCall /\ seen'[w] = {}
BY DEF Restart

LEMMA RestartTypes == ASSUME IInv, Restart PROVE IInv'
<1>1. NoCall \in Call /\ NoCall.op = "resume" /\ "idle" \in Labels /\ "stray" \in Labels
  BY EngineAssumption DEF NoCall, Call, Ops, Ids, Labels
<1>2. HandlerOK("idle", NoCall)
  BY <1>1 DEF HandlerOK, Carrying
<1>3. ASSUME NEW w \in Workers
      PROVE  /\ pc'[w] \in Labels /\ call'[w] \in Call
             /\ seen'[w] \in SUBSET {"active", "entitled"}
             /\ HandlerOK(pc'[w], call'[w])
             /\ w \in Creating' => w \in Creating
  <2>1. CASE pc[w] \in {"create", "store", "stray"}
    <3>1. HandlerOK("stray", call[w])
      BY <2>1, HandlerTypes DEF HandlerOK, Carrying
    <3>2. pc'[w] = "stray" /\ call'[w] = call[w] /\ seen'[w] = seen[w]
      BY <2>1, RestartFrame
    <3>. QED  BY <1>1, <2>1, <3>1, <3>2, HandlerTypes DEF Creating, IInv, TypeOK
  <2>2. CASE pc[w] \notin {"create", "store", "stray"}
    <3>1. pc'[w] = "idle" /\ call'[w] = NoCall /\ seen'[w] = {}
      BY <2>2, RestartFrame
    <3>. QED  BY <1>1, <1>2, <3>1 DEF Creating
  <2>. QED  BY <2>1, <2>2
<1>4. /\ pc' \in [Workers -> Labels] /\ call' \in [Workers -> Call]
      /\ seen' \in [Workers -> SUBSET {"active", "entitled"}]
  BY <1>3 DEF Restart
<1>5. Handlers' /\ Creating' \subseteq Creating
  BY <1>3 DEF Handlers, HandlerOK, Creating
<1>6. config' \in GovernanceConfig /\ config'.proposal_count = 0
  BY RestartFrame, FreshConfigTypes
<1>7. TypeOK'
  <2>1. approvals' \in [Ids -> SUBSET Keys]
    BY RestartFrame
  <2>. QED  BY <1>4, <1>6, <2>1, RestartFrame DEF IInv, TypeOK
<1>. QED  BY <1>5, <1>6, <1>7, IdsLeftKept DEF IInv

LEMMA InitTypes == Init => IInv
<1>. SUFFICES ASSUME Init PROVE IInv
  OBVIOUS
<1>1. NoCall \in Call /\ NoCall.op = "resume"
  BY EngineAssumption DEF NoCall, Call, Ops, Ids
<1>2. config \in GovernanceConfig /\ config.proposal_count = 0
  BY FreshConfigTypes DEF Init
<1>3. TypeOK
  BY <1>1, <1>2, EngineAssumption DEF Init, TypeOK, Labels, Times
<1>4. Handlers
  BY <1>1 DEF Init, Handlers, HandlerOK, Carrying
<1>5. IdsLeft
  <2>1. Creating = {}
    BY <1>1 DEF Init, Creating
  <2>. QED  BY <1>2, <2>1, EngineAssumption, FS_EmptySet DEF IdsLeft
<1>. QED  BY <1>3, <1>4, <1>5 DEF IInv

LEMMA NextTypes == IInv /\ [Next]_vars => IInv'
<1>. SUFFICES ASSUME IInv, [Next]_vars PROVE IInv'
  OBVIOUS
<1>1. ASSUME NEW w \in Workers, Step(w) PROVE IInv'
  BY <1>1, AdmitTypes, ReadConfigTypes, RecordTypes, WriteTypes, CountTypes,
     ConfigTypes, PublishTypes DEF Step
<1>2. ASSUME NEW w \in Workers, Cut(w) \/ Land(w) \/ Lose(w) PROVE IInv'
  BY <1>2, FaultTypes, WriteTypes
<1>3. ASSUME NEW w \in Workers, NEW op \in Requests, NEW id \in Ids,
             NEW key \in Keys \cup {NoKey}, Begin(w, op, id, key)
      PROVE  IInv'
  BY <1>3, BeginTypes
<1>4. ASSUME NEW vec \in GuardianVecs, NEW threshold \in 1..U8Max, set_guardians(vec, threshold)
      PROVE  IInv'
  BY <1>4, ConfigTypes
<1>5. CASE Tick
  <2>1. TypeOK'
    BY <1>5, EngineAssumption DEF Tick, IInv, TypeOK, Times
  <2>2. Handlers' /\ Creating' \subseteq Creating
    BY <1>5 DEF Tick, IInv, Handlers, HandlerOK, Creating
  <2>. QED  BY <1>5, <2>1, <2>2, IdsLeftKept DEF Tick, IInv
<1>6. CASE Restart
  BY <1>6, RestartTypes
<1>7. CASE UNCHANGED vars
  BY <1>7 DEF vars, IInv, TypeOK, Handlers, HandlerOK, IdsLeft, Creating
<1>. QED
  BY <1>1, <1>2, <1>3, <1>4, <1>5, <1>6, <1>7 DEF Next

LEMMA AlwaysIInv == Spec => []IInv
BY InitTypes, NextTypes, PTL DEF Spec

\* Every field of the engine, every record stored and every record in the hands of
\* a request holds a value its Rust type can hold, and no deadline overflows,
\* over either store and through faults and restarts.
THEOREM EngineTypes == Spec => []TypeOK
<1>1. IInv => TypeOK
  BY DEF IInv
<1>. QED  BY <1>1, AlwaysIInv, PTL

(***************************************************************************)
(* Frames: who changes what                                                *)
(***************************************************************************)
\* Any step in which worker w takes part.
Acts(w) ==
  \/ Step(w) \/ Cut(w) \/ Land(w) \/ Lose(w)
  \/ \E op \in Requests, id \in Ids, key \in Keys \cup {NoKey} : Begin(w, op, id, key)

\* Steps of no worker.
Rotates == \E vec \in GuardianVecs, threshold \in 1..U8Max : set_guardians(vec, threshold)

LEMMA NextCases ==
  [Next]_vars <=> (\E w \in Workers : Acts(w)) \/ Rotates \/ Tick \/ Restart \/ UNCHANGED vars
BY DEF Next, Acts, Rotates

\* A worker's step leaves the other workers where they are.
LEMMA OthersKept ==
  ASSUME IInv, NEW w \in Workers, NEW v \in Workers \ {w}, Acts(w)
  PROVE  pc'[v] = pc[v] /\ call'[v] = call[v]
<1>1. /\ pc \in [Workers -> Labels] /\ call \in [Workers -> Call]
      /\ seen \in [Workers -> SUBSET {"active", "entitled"}]
  BY HandlerTypes DEF IInv, TypeOK
<1>2. ASSUME NEW label, pc' = [pc EXCEPT ![w] = label] PROVE pc'[v] = pc[v]
  BY <1>1, <1>2
<1>3. ASSUME NEW c, call' = [call EXCEPT ![w] = c] PROVE call'[v] = call[v]
  BY <1>1, <1>3
<1>4. CASE Return(w)
  BY <1>1, <1>4 DEF Return
<1>5. CASE ~Return(w)
  <2>1. pc'[v] = pc[v]
    BY <1>2, <1>5
    DEF Acts, Step, ensure_active, ReadConfig, Create, Count, CheckGuardian, Load, Vote,
        Decide, Store, set_paused, Publish, Cut, Land, Lose, Begin, Refuse, Goto
  <2>2. call'[v] = call[v]
    <3>1. CASE ReadConfig(w)
      <4>1. ~Refuse(w)
        BY <1>5 DEF Refuse
      <4>2. call' = [call EXCEPT ![w] = call'[w]]
        BY <3>1, <4>1, ReadConfigRecord
      <4>. QED  BY <1>1, <4>2
    <3>2. CASE Load(w)
      <4>1. ~Refuse(w)
        BY <1>5 DEF Refuse
      <4>2. call' = [call EXCEPT ![w] = call'[w]]
        BY <3>2, <4>1, LoadRecord
      <4>. QED  BY <1>1, <4>2
    <3>3. CASE Vote(w)
      <4>1. ~Refuse(w)
        BY <1>5 DEF Refuse
      <4>2. call' = [call EXCEPT ![w] = call'[w]]
        BY <3>3, <4>1, VoteRecord
      <4>. QED  BY <1>1, <4>2
    <3>4. CASE Decide(w)
      <4>1. ~Refuse(w)
        BY <1>5 DEF Refuse
      <4>2. call' = [call EXCEPT ![w] = call'[w]]
        BY <3>4, <4>1, DecideRecord
      <4>. QED  BY <1>1, <4>2
    <3>5. CASE ~(ReadConfig(w) \/ Load(w) \/ Vote(w) \/ Decide(w))
      BY <1>3, <1>5, <3>5
      DEF Acts, Step, ensure_active, Create, Count, CheckGuardian, Store, set_paused,
          Publish, Cut, Land, Lose, Begin, Refuse
    <3>. QED  BY <3>1, <3>2, <3>3, <3>4, <3>5
  <2>. QED  BY <2>1, <2>2
<1>. QED  BY <1>4, <1>5

(***************************************************************************)
(* Admission                                                               *)
(***************************************************************************)
\* What a request was or would be admitted by is on record from its beginning,
\* and a request past a check was admitted by it.
Admitted(w) ==
  /\ pc[w] \notin {"idle", "stray"} => Grounds(config, call[w]) \subseteq seen[w]
  /\ /\ pc[w] \in {"read_config", "create", "check_guardian", "load", "vote", "decide", "store"}
     /\ call[w].op \in {"propose", "approve", "execute"}
     => "active" \in seen[w]
  /\ /\ pc[w] \in {"create", "load", "vote", "store"}
     /\ call[w].op \in {"propose", "approve"}
     => "entitled" \in seen[w]

AllAdmitted == \A w \in Workers : Admitted(w)

\* Grounds look at the key, the operation, the pause flag and the guardians only.
LEMMA GroundsDepend ==
  ASSUME NEW cfg, NEW new, NEW c, NEW d,
         new.paused = cfg.paused, new.guardians = cfg.guardians, d.op = c.op, d.key = c.key
  PROVE  Grounds(new, d) = Grounds(cfg, c)
BY DEF Grounds

LEMMA GroundsMembers ==
  ASSUME NEW cfg, NEW c
  PROVE  /\ Grounds(cfg, c) \subseteq {"active", "entitled"}
         /\ ~cfg.paused => "active" \in Grounds(cfg, c)
         /\ c.key \in cfg.guardians \/ (c.op = "propose" /\ c.key = Authority)
              => "entitled" \in Grounds(cfg, c)
BY DEF Grounds

\* A handler that is not at work itself misses no configuration.
LEMMA SeenKept ==
  ASSUME IInv, NEW v \in Workers,
         \/ \E w \in Workers \ {v} : Acts(w)
         \/ Rotates \/ Tick \/ UNCHANGED vars
  PROVE  /\ pc'[v] = pc[v] /\ call'[v] = call[v]
         /\ pc[v] # "idle" => seen[v] \subseteq seen'[v]
         /\ \/ Grounds(config', call[v]) = Grounds(config, call[v])
            \/ pc[v] # "idle" => Grounds(config', call[v]) \subseteq seen'[v]
<1>1. /\ seen \in [Workers -> SUBSET {"active", "entitled"}]
      /\ config \in GovernanceConfig
  BY HandlerTypes DEF IInv, TypeOK
<1>2. ASSUME seen' = SeenUnder(config')
      PROVE  pc[v] # "idle" => seen'[v] = seen[v] \cup Grounds(config', call[v])
  BY <1>2 DEF SeenUnder
<1>3. ASSUME UNCHANGED <<config, seen>>
      PROVE  seen[v] \subseteq seen'[v] /\ Grounds(config', call[v]) = Grounds(config, call[v])
  BY <1>3
<1>4. ASSUME NEW w \in Workers \ {v}, Acts(w)
      PROVE  /\ pc[v] # "idle" => seen[v] \subseteq seen'[v]
             /\ \/ Grounds(config', call[v]) = Grounds(config, call[v])
                \/ pc[v] # "idle" => Grounds(config', call[v]) \subseteq seen'[v]
  <2>1. CASE set_paused(w)
    BY <1>2, <2>1 DEF set_paused
  <2>2. CASE Count(w)
    <3>1. /\ config'.paused = config.paused /\ config'.guardians = config.guardians
          /\ seen' = seen
      BY <1>1, <2>2 DEF Count, GovernanceConfig
    <3>. QED  BY <3>1, GroundsDepend
  <2>3. CASE ~set_paused(w) /\ ~Count(w)
    <3>1. config' = config
      BY <1>4, <2>3
      DEF Acts, Step, ensure_active, ReadConfig, Create, CheckGuardian, Load, Vote,
          Decide, Store, Publish, Cut, Land, Lose, Begin, Refuse, shared
    <3>2. seen' = seen \/ seen' = [seen EXCEPT ![w] = seen'[w]]
      BY <1>1, <1>4, <2>3
      DEF Acts, Step, ensure_active, ReadConfig, Create, CheckGuardian, Load, Vote,
          Decide, Store, Publish, Cut, Land, Lose, Begin, Refuse, Return
    <3>3. seen'[v] = seen[v]
      BY <1>1, <3>2
    <3>. QED  BY <3>1, <3>3
  <2>. QED  BY <2>1, <2>2, <2>3
<1>5. CASE Rotates
  BY <1>2, <1>5 DEF Rotates, set_guardians
<1>6. CASE Tick \/ UNCHANGED vars
  BY <1>3, <1>6 DEF Tick, vars
<1>7. pc'[v] = pc[v] /\ call'[v] = call[v]
  <2>1. CASE \E w \in Workers \ {v} : Acts(w)
    BY <2>1, OthersKept
  <2>2. CASE Rotates \/ Tick \/ UNCHANGED vars
    BY <2>2 DEF Rotates, set_guardians, Tick, vars
  <2>. QED  BY <2>1, <2>2
<1>. QED  BY <1>4, <1>5, <1>6, <1>7

\* A handler is admitted by what it reads, and it began no later.
LEMMA AdmittedOwn ==
  ASSUME IInv, NEW w \in Workers, Admitted(w), Acts(w)
  PROVE  Admitted(w)'
<1>1. CASE Return(w)
  BY <1>1, HandlerTypes DEF Return, Admitted
<1>2. /\ pc \in [Workers -> Labels] /\ call[w] \in Call
      /\ seen \in [Workers -> SUBSET {"active", "entitled"}]
      /\ HandlerOK(pc[w], call[w])
  BY HandlerTypes DEF IInv, TypeOK
<1>3. ASSUME NEW op \in Requests, NEW id \in Ids, NEW key \in Keys \cup {NoKey},
             Begin(w, op, id, key)
      PROVE  Admitted(w)'
  <2>1. /\ call'[w] = [op |-> op, id |-> id, key |-> key, rec |-> NoRecord]
        /\ pc'[w] = FirstLabel(op) /\ config' = config
        /\ seen'[w] = Grounds(config, [op |-> op, key |-> key])
    BY <1>2, <1>3, HandlerTypes DEF Begin, Goto, shared
  <2>2. Grounds(config', call'[w]) = seen'[w]
    BY <2>1, GroundsDepend
  <2>3. pc'[w] = "ensure_active" \/ op \notin {"propose", "approve", "execute"}
    BY <2>1, EngineAssumption DEF FirstLabel, Ops
  <2>. QED  BY <2>1, <2>2, <2>3 DEF Admitted
<1>4. ASSUME ensure_active(w), ~Return(w)
      PROVE  Admitted(w)'
  <2>1. /\ ~config.paused /\ pc[w] = "ensure_active" /\ UNCHANGED <<config, call, seen>>
        /\ pc'[w] \in {"read_config", "check_guardian", "load"}
        /\ pc'[w] = "load" => call[w].op = "execute"
    BY <1>2, <1>4 DEF ensure_active, Goto, Refuse, shared, HandlerOK
  <2>2. "active" \in Grounds(config, call[w])
    BY <2>1, GroundsMembers
  <2>3. Grounds(config, call[w]) \subseteq seen[w] /\ "active" \in seen'[w]
    BY <2>1, <2>2 DEF Admitted
  <2>. QED  BY <2>1, <2>3 DEF Admitted
<1>5. ASSUME ReadConfig(w), ~Return(w)
      PROVE  Admitted(w)'
  <2>1. /\ pc[w] = "read_config" /\ pc'[w] = "create" /\ UNCHANGED <<config, seen>>
        /\ call'[w].op = call[w].op /\ call'[w].key = call[w].key /\ call[w].op = "propose"
    BY <1>2, <1>5, ReadConfigRecord DEF Refuse, shared
  <2>2. "entitled" \in Grounds(config, call[w])
    BY <1>5, <2>1 DEF ReadConfig, Refuse, is_guardian, Grounds
  <2>3. Grounds(config', call'[w]) = Grounds(config, call[w])
    BY <2>1, GroundsDepend
  <2>. QED  BY <2>1, <2>2, <2>3 DEF Admitted
<1>6. ASSUME CheckGuardian(w), ~Return(w)
      PROVE  Admitted(w)'
  <2>1. /\ pc[w] = "check_guardian" /\ pc'[w] = "load"
        /\ UNCHANGED <<config, call, seen>> /\ is_guardian(call[w].key)
    BY <1>2, <1>6 DEF CheckGuardian, Goto, Refuse, shared
  <2>2. "entitled" \in Grounds(config, call[w])
    BY <2>1 DEF Grounds, is_guardian
  <2>. QED  BY <2>1, <2>2 DEF Admitted
<1>7. ASSUME Load(w) \/ Vote(w) \/ Decide(w), ~Return(w)
      PROVE  Admitted(w)'
  <2>1. /\ pc[w] \in {"load", "vote", "decide"} /\ pc'[w] \in {"vote", "decide", "store"}
        /\ UNCHANGED <<config, seen>>
        /\ call'[w].op = call[w].op /\ call'[w].key = call[w].key
        /\ pc[w] = "decide" => call[w].op = "execute"
    <3>1. CASE Load(w)
      BY <1>2, <1>7, <3>1, LoadRecord DEF Refuse, shared
    <3>2. CASE Vote(w)
      BY <1>7, <3>2, CarrySteps DEF Refuse
    <3>3. CASE Decide(w)
      BY <1>2, <1>7, <3>3, DecideRecord DEF Refuse, shared
    <3>. QED  BY <1>7, <3>1, <3>2, <3>3
  <2>2. Grounds(config', call'[w]) = Grounds(config, call[w])
    BY <2>1, GroundsDepend
  <2>. QED  BY <2>1, <2>2 DEF Admitted
<1>8. ASSUME Create(w) \/ Store(w) \/ Cut(w), ~Return(w)
      PROVE  Admitted(w)'
  <2>1. /\ pc[w] \in {"create", "store"} /\ pc'[w] \in {"count", "publish", "stray"}
        /\ UNCHANGED <<config, call, seen>>
    BY <1>2, <1>8 DEF Create, Store, Cut, Goto, AfterStore, Refuse, shared
  <2>. QED  BY <2>1 DEF Admitted
<1>9. ASSUME Count(w) \/ set_paused(w)
      PROVE  Admitted(w)'
  <2>1. pc[w] \in {"count", "set_paused"} /\ pc'[w] = "publish" /\ UNCHANGED call
    BY <1>2, <1>9 DEF Count, set_paused, Goto
  <2>2. Grounds(config', call[w]) \subseteq seen'[w]
    <3>1. CASE set_paused(w)
      BY <3>1 DEF set_paused, SeenUnder
    <3>2. CASE Count(w)
      <4>1. /\ config'.paused = config.paused /\ config'.guardians = config.guardians
            /\ seen' = seen
        BY <3>2, HandlerTypes DEF Count, GovernanceConfig
      <4>. QED  BY <4>1, <2>1, GroundsDepend DEF Admitted
    <3>. QED  BY <1>9, <3>1, <3>2
  <2>. QED  BY <2>1, <2>2 DEF Admitted
<1>. QED
  BY <1>1, <1>3, <1>4, <1>5, <1>6, <1>7, <1>8, <1>9 DEF Acts, Step, Publish, Land, Lose, Refuse

LEMMA NextAdmitted == IInv /\ AllAdmitted /\ [Next]_vars => AllAdmitted'
<1>. SUFFICES ASSUME IInv, AllAdmitted, [Next]_vars, NEW v \in Workers
              PROVE  Admitted(v)'
  BY DEF AllAdmitted
<1>1. Admitted(v)
  BY DEF AllAdmitted
<1>2. CASE Acts(v)
  BY <1>1, <1>2, AdmittedOwn
<1>3. CASE \/ \E w \in Workers \ {v} : Acts(w)
           \/ Rotates \/ Tick \/ UNCHANGED vars
  <2>1. /\ pc'[v] = pc[v] /\ call'[v] = call[v]
        /\ pc[v] # "idle" => seen[v] \subseteq seen'[v]
        /\ \/ Grounds(config', call[v]) = Grounds(config, call[v])
           \/ pc[v] # "idle" => Grounds(config', call[v]) \subseteq seen'[v]
    BY <1>3, SeenKept
  <2>2. pc[v] \notin {"idle", "stray"} => Grounds(config', call[v]) \subseteq seen'[v]
    BY <1>1, <2>1 DEF Admitted
  <2>. QED  BY <1>1, <2>1, <2>2 DEF Admitted
<1>4. CASE Restart
  BY <1>4, RestartFrame DEF Admitted
<1>. QED  BY <1>2, <1>3, <1>4, NextCases

\* No proposal, vote or execution is in a position to take effect without
\* governance active, and its key entitled, at some time during its request: with
\* any number of requests in flight, over either store, through restarts.
THEOREM EffectsAdmitted == Spec => []AdmittedInTime
<1>1. Init => AllAdmitted
  BY DEF Init, AllAdmitted, Admitted
<1>2. AllAdmitted => AdmittedInTime
  BY DEF AllAdmitted, Admitted, AdmittedInTime
<1>. QED  BY <1>1, <1>2, NextAdmitted, AlwaysIInv, PTL DEF Spec

(***************************************************************************)
(* Records: where they come from                                           *)
(***************************************************************************)
\* A stored record changes only by an upsert of what some handler carries.
LEMMA StoredFrom ==
  ASSUME IInv, [Next]_vars
  PROVE  \/ UNCHANGED proposals
         \/ \E w \in Workers :
              /\ pc[w] \in {"create", "store", "stray"} /\ upsert(call[w])
              /\ UNCHANGED <<config, approvals, now, voted>>
              /\ pc'[w] \in {"count", "publish", "idle"}
<1>1. ASSUME NEW w \in Workers, Acts(w), ~UNCHANGED proposals
      PROVE  /\ pc[w] \in {"create", "store", "stray"} /\ upsert(call[w])
             /\ UNCHANGED <<config, approvals, now, voted>>
             /\ pc'[w] \in {"count", "publish", "idle"}
  <2>1. Create(w) \/ Store(w) \/ Land(w)
    BY <1>1
    DEF Acts, Step, ensure_active, ReadConfig, Count, CheckGuardian, Load, Vote, Decide,
        set_paused, Publish, Cut, Lose, Begin, Refuse, shared
  <2>2. pc \in [Workers -> Labels]
    BY HandlerTypes
  <2>. QED  BY <2>1, <2>2 DEF Create, Store, Land, Goto, Return, AfterStore
<1>2. CASE Rotates \/ Tick \/ Restart \/ UNCHANGED vars
  BY <1>2 DEF Rotates, set_guardians, Tick, Restart, vars
<1>. QED  BY <1>1, <1>2, NextCases

\* A carried record was carried before, or comes from one of four steps.
LEMMA CarriedFrom ==
  ASSUME IInv, [Next]_vars, NEW v \in Workers, pc'[v] \in Carrying
  PROVE  \/ /\ pc[v] \in Carrying /\ call'[v] = call[v]
            /\ \/ pc'[v] = pc[v]
               \/ pc[v] = "create" /\ pc'[v] = "count"
               \/ Backend = "postgres" /\ pc'[v] = "stray"
         \/ ReadConfig(v) /\ ~Refuse(v)
         \/ Load(v) /\ ~Refuse(v)
         \/ Vote(v) /\ ~Refuse(v)
         \/ Decide(v) /\ ~Refuse(v)
<1>1. CASE Acts(v)
  <2>1. ~Return(v)
    BY HandlerTypes DEF Return, Carrying
  <2>2. CASE ReadConfig(v) \/ Load(v) \/ Vote(v) \/ Decide(v)
    BY <2>1, <2>2 DEF Refuse
  <2>3. CASE Create(v) \/ Store(v) \/ Cut(v)
    BY <2>1, <2>3, HandlerTypes DEF Create, Store, Cut, Refuse, Carrying, Goto, AfterStore
  <2>4. CASE ensure_active(v)
    <3>1. pc[v] = "ensure_active" /\ pc'[v] \in {"read_config", "check_guardian", "load"}
      BY <2>1, <2>4, HandlerTypes DEF ensure_active, Goto, Refuse, HandlerOK
    <3>. QED  BY <3>1 DEF Carrying
  <2>5. CASE CheckGuardian(v) \/ Count(v) \/ set_paused(v)
    <3>1. pc'[v] \in {"load", "publish"}
      BY <2>1, <2>5, HandlerTypes DEF CheckGuardian, Count, set_paused, Goto, Refuse
    <3>. QED  BY <3>1 DEF Carrying
  <2>6. ASSUME NEW op \in Requests, NEW id \in Ids, NEW key \in Keys \cup {NoKey},
               Begin(v, op, id, key)
        PROVE  FALSE
    <3>1. pc'[v] \in {"ensure_active", "load", "set_paused"}
      BY <2>6, HandlerTypes, EngineAssumption DEF Begin, Goto, FirstLabel, Ops
    <3>. QED  BY <3>1 DEF Carrying
  <2>. QED
    BY <1>1, <2>1, <2>2, <2>3, <2>4, <2>5, <2>6 DEF Acts, Step, Publish, Land, Lose, Refuse
<1>2. CASE (\E w \in Workers \ {v} : Acts(w)) \/ Rotates \/ Tick \/ UNCHANGED vars
  BY <1>2, SeenKept
<1>3. CASE Restart
  BY <1>3, RestartFrame DEF Carrying, Restart
<1>. QED  BY <1>1, <1>2, <1>3, NextCases

\* The guard sets and the clock are changed by votes, time and restarts only.
LEMMA VotesFrom ==
  ASSUME IInv, [Next]_vars
  PROVE  \/ \E w \in Workers : Vote(w) /\ ~Refuse(w)
         \/ UNCHANGED <<approvals, voted>> /\ (UNCHANGED now \/ now' \in (now + 1)..I64Max)
         \/ Restart
<1>1. ASSUME NEW w \in Workers, Acts(w), ~(Vote(w) /\ ~Refuse(w))
      PROVE  UNCHANGED <<approvals, voted, now>>
  <2>1. CASE Refuse(w)
    BY <2>1 DEF Refuse, shared
  <2>2. CASE ~Refuse(w) /\ ~Vote(w)
    BY <1>1, <2>2
    DEF Acts, Step, ensure_active, ReadConfig, Create, Count, CheckGuardian, Load, Decide,
        Store, set_paused, Publish, Cut, Land, Lose, Begin, shared
  <2>. QED  BY <1>1, <2>1, <2>2
<1>2. CASE Rotates \/ UNCHANGED vars
  BY <1>2 DEF Rotates, set_guardians, vars
<1>3. CASE Tick
  BY <1>3 DEF Tick
<1>. QED  BY <1>1, <1>2, <1>3, NextCases

\* Votes are never taken back, but by a restart from the guard set; the clock goes
\* forward.
LEMMA VotesGrow ==
  ASSUME IInv, [Next]_vars
  PROVE  /\ \A id \in Ids : voted[id] \subseteq voted'[id]
         /\ Backend = "memory" => \A id \in Ids : approvals[id] \subseteq approvals'[id]
         /\ now \in Int /\ now' \in Int /\ now <= now'
<1>1. /\ approvals \in [Ids -> SUBSET Keys] /\ voted \in [Ids -> SUBSET Keys]
      /\ now \in Int
  BY DEF IInv, TypeOK, Times
<1>2. ASSUME NEW w \in Workers, Vote(w), ~Refuse(w)
      PROVE  /\ \A id \in Ids : voted[id] \subseteq voted'[id]
             /\ \A id \in Ids : approvals[id] \subseteq approvals'[id]
             /\ now' = now
  <2>1. /\ call[w].id \in Ids
        /\ approvals' = [approvals EXCEPT ![call[w].id] = @ \cup {call[w].key}]
        /\ voted' = [voted EXCEPT ![call[w].id] = @ \cup {call[w].key}]
        /\ now' = now
    BY <1>2, VoteRecord
  <2>. QED  BY <1>1, <2>1
<1>3. CASE UNCHANGED <<approvals, voted>> /\ (UNCHANGED now \/ now' \in (now + 1)..I64Max)
  BY <1>1, <1>3, EngineAssumption
<1>4. CASE Restart
  BY <1>1, <1>4, RestartFrame
<1>. QED  BY <1>1, <1>2, <1>3, <1>4, VotesFrom

\* Over Postgres a row is never replaced.
LEMMA RowsKept ==
  ASSUME Backend = "postgres", IInv, [Next]_vars, NEW id \in Ids, Exists(id)
  PROVE  /\ Exists(id)'
         /\ proposals'[id].eta = proposals[id].eta
         /\ proposals'[id].threshold = proposals[id].threshold
<1>1. CASE UNCHANGED proposals
  BY <1>1 DEF Exists
<1>2. ASSUME NEW w \in Workers, pc[w] \in {"create", "store", "stray"}, upsert(call[w])
      PROVE  /\ Exists(id)'
             /\ proposals'[id].eta = proposals[id].eta
             /\ proposals'[id].threshold = proposals[id].threshold
  <2>1. /\ call[w].id \in Ids /\ call[w].rec \in ProposalRecord
        /\ proposals'[call[w].id] = Upserted(call[w].id, call[w].rec)
        /\ \A i \in Ids \ {call[w].id} : proposals'[i] = proposals[i]
        /\ \A i \in Ids : Exists(i)' <=> Exists(i) \/ i = call[w].id
    BY <1>2, UpsertTypes
  <2>2. CASE id = call[w].id
    BY <2>1, <2>2, UpsertedFields
  <2>3. CASE id # call[w].id
    BY <2>1, <2>3
  <2>. QED  BY <2>2, <2>3
<1>. QED  BY <1>1, <1>2, StoredFrom

\* Over Postgres the deadline and the threshold of a proposal stay what they were
\* when its row was created, whatever races, faults and restarts do to it.
THEOREM VotedContentKept == ASSUME Backend = "postgres" PROVE Spec => ContentKept
<1>1. IInv /\ [Next]_vars =>
        [\A id \in Ids :
           Exists(id) => /\ proposals[id].eta = proposals'[id].eta
                         /\ proposals[id].threshold = proposals'[id].threshold]_vars
  <2>. SUFFICES ASSUME IInv, [Next]_vars, NEW id \in Ids, Exists(id)
                PROVE  /\ proposals[id].eta = proposals'[id].eta
                       /\ proposals[id].threshold = proposals'[id].threshold
    OBVIOUS
  <2>. QED  BY RowsKept
<1>. QED  BY <1>1, AlwaysIInv, PTL DEF Spec, ContentKept

(***************************************************************************)
(* Executions are earned                                                   *)
(***************************************************************************)
\* A record that counts no more keys than ever approved and is Executed only past
\* its deadline with its approvals.
Earned(rec, id) ==
  /\ rec.approvals <= Cardinality(voted[id])
  /\ rec.status = "Executed" => rec.approvals >= rec.threshold /\ now >= rec.eta

\* What handler w carries goes with the row it will be written to: the row has the
\* deadline and threshold that were looked at, unless nothing was.
GoesWithRow(w) ==
  IF call[w].op = "propose" THEN call[w].rec.status # "Executed"
  ELSE Backend = "postgres" =>
         LET row == proposals[call[w].id]
         IN  /\ Exists(call[w].id)
             /\ call[w].rec.eta = row.eta /\ call[w].rec.threshold = row.threshold

\* The inductive invariant: what is stored and what is carried is earned.
ExecutionInv ==
  /\ \A id \in Ids : approvals[id] \subseteq voted[id]
  /\ \A id \in Ids : Exists(id) => Earned(proposals[id], id)
  /\ \A w \in Workers :
       /\ pc[w] \in Carrying => Earned(call[w].rec, call[w].id) /\ GoesWithRow(w)
       /\ pc[w] = "vote" => ~Final(call[w].rec)

\* What was earned stays earned.
LEMMA EarnedKept ==
  ASSUME IInv, [Next]_vars, NEW id \in Ids, NEW rec \in ProposalRecord, Earned(rec, id)
  PROVE  /\ rec.approvals <= Cardinality(voted'[id])
         /\ rec.status = "Executed" => rec.approvals >= rec.threshold /\ now' >= rec.eta
<1>1. voted[id] \subseteq voted'[id] /\ now \in Int /\ now' \in Int /\ now <= now'
  BY VotesGrow
<1>2. voted'[id] \in SUBSET Keys
  BY NextTypes DEF IInv, TypeOK
<1>3. /\ Cardinality(voted[id]) \in Nat /\ Cardinality(voted'[id]) \in Nat
      /\ Cardinality(voted[id]) <= Cardinality(voted'[id])
  BY <1>1, <1>2, KeysCounted
<1>4. rec.approvals \in Nat /\ rec.eta \in Int
  BY EngineAssumption DEF ProposalRecord
<1>. QED  BY <1>1, <1>3, <1>4 DEF Earned

LEMMA GuardSetsVoted ==
  ASSUME IInv, ExecutionInv, [Next]_vars
  PROVE  \A id \in Ids : approvals'[id] \subseteq voted'[id]
<1>1. approvals \in [Ids -> SUBSET Keys] /\ voted \in [Ids -> SUBSET Keys]
  BY DEF IInv, TypeOK
<1>2. ASSUME NEW w \in Workers, Vote(w), ~Refuse(w)
      PROVE  \A id \in Ids : approvals'[id] \subseteq voted'[id]
  <2>1. /\ call[w].id \in Ids
        /\ approvals' = [approvals EXCEPT ![call[w].id] = @ \cup {call[w].key}]
        /\ voted' = [voted EXCEPT ![call[w].id] = @ \cup {call[w].key}]
    BY <1>2, VoteRecord
  <2>. QED  BY <1>1, <2>1 DEF ExecutionInv
<1>3. CASE UNCHANGED <<approvals, voted>>
  BY <1>3 DEF ExecutionInv
<1>4. CASE Restart
  BY <1>4, RestartFrame
<1>. QED  BY <1>2, <1>3, <1>4, VotesFrom

\* An upsert of an earned record that goes with its row stores an earned record.
LEMMA StoredEarned ==
  ASSUME IInv, ExecutionInv, [Next]_vars, NEW id \in Ids, Exists(id)'
  PROVE  Earned(proposals[id], id)'
<1>1. CASE UNCHANGED proposals
  <2>1. Exists(id) /\ proposals[id] \in ProposalRecord /\ proposals'[id] = proposals[id]
    BY <1>1, HandlerTypes DEF Exists
  <2>2. Earned(proposals[id], id)
    BY <2>1 DEF ExecutionInv
  <2>. QED  BY <2>1, <2>2, EarnedKept DEF Earned
<1>2. ASSUME NEW w \in Workers, pc[w] \in {"create", "store", "stray"}, upsert(call[w]),
             UNCHANGED <<now, voted>>
      PROVE  Earned(proposals[id], id)'
  <2>1. /\ call[w].id \in Ids /\ call[w].rec \in ProposalRecord
        /\ proposals'[call[w].id] = Upserted(call[w].id, call[w].rec)
        /\ \A i \in Ids \ {call[w].id} : proposals'[i] = proposals[i]
        /\ \A i \in Ids : Exists(i)' <=> Exists(i) \/ i = call[w].id
    BY <1>2, UpsertTypes
  <2>2. Earned(call[w].rec, call[w].id) /\ GoesWithRow(w)
    BY <1>2 DEF ExecutionInv, Carrying
  <2>3. CASE id = call[w].id
    <3> DEFINE rec == call[w].rec
               new == Upserted(id, rec)
    <3>1. /\ new.approvals = rec.approvals /\ new.status = rec.status
          /\ Backend = "memory" \/ ~Exists(id) => new = rec
          /\ Backend = "postgres" /\ Exists(id) =>
               new.eta = proposals[id].eta /\ new.threshold = proposals[id].threshold
      BY <2>1, <2>3, UpsertedFields
    <3>2. new.status = "Executed" => new.eta = rec.eta /\ new.threshold = rec.threshold
      BY <2>2, <2>3, <3>1, EngineAssumption DEF GoesWithRow
    <3>3. proposals'[id] = new /\ Earned(rec, id)
      BY <2>1, <2>2, <2>3
    <3> HIDE DEF new
    <3>. QED  BY <1>2, <3>1, <3>2, <3>3 DEF Earned
  <2>4. CASE id # call[w].id
    <3>1. Exists(id) /\ proposals'[id] = proposals[id]
      BY <2>1, <2>4
    <3>. QED  BY <1>2, <3>1 DEF ExecutionInv, Earned
  <2>. QED  BY <2>3, <2>4
<1>. QED  BY <1>1, <1>2, StoredFrom

\* A record is earned when a handler makes it: new, as loaded, voted on or decided.
LEMMA CarriedEarned ==
  ASSUME IInv, ExecutionInv, [Next]_vars, NEW v \in Workers, pc'[v] \in Carrying
  PROVE  Earned(call[v].rec, call[v].id)'
<1>1. /\ approvals \in [Ids -> SUBSET Keys] /\ voted \in [Ids -> SUBSET Keys]
      /\ now \in Int /\ call[v].id \in Ids
  BY HandlerTypes DEF IInv, TypeOK, Times
<1>2. CASE pc[v] \in Carrying /\ call'[v] = call[v]
  <2>1. Earned(call[v].rec, call[v].id) /\ call[v].rec \in ProposalRecord
    BY <1>2, HandlerTypes DEF ExecutionInv, HandlerOK
  <2>. QED  BY <1>1, <1>2, <2>1, EarnedKept DEF Earned
<1>3. CASE ReadConfig(v) /\ ~Refuse(v)
  <2>1. /\ call'[v].rec.approvals = 0 /\ call'[v].rec.status = "Pending"
        /\ call'[v].id \in Ids
    BY <1>3, ReadConfigRecord DEF Call
  <2>2. voted'[call'[v].id] \in SUBSET Keys
    BY <2>1, NextTypes DEF IInv, TypeOK
  <2>3. Cardinality(voted'[call'[v].id]) \in Nat
    BY <2>2, KeysCounted
  <2>. QED  BY <2>1, <2>3 DEF Earned
<1>4. CASE Load(v) /\ ~Refuse(v)
  <2> DEFINE id == call[v].id
             rec == proposals[id]
  <2>1. /\ Exists(id) /\ rec \in ProposalRecord /\ ~Final(rec)
        /\ call'[v].rec = IF call'[v].op = "cancel" THEN [rec EXCEPT !.status = "Cancelled"]
                          ELSE rec
        /\ call'[v].id = id
        /\ UNCHANGED <<shared, seen>>
    BY <1>4, LoadRecord
  <2>2. Earned(rec, id)
    BY <1>1, <2>1 DEF ExecutionInv
  <2>3. call'[v].rec.approvals = rec.approvals /\ call'[v].rec.status # "Executed"
    BY <2>1 DEF ProposalRecord, Final
  <2>. QED  BY <2>1, <2>2, <2>3 DEF Earned, shared
<1>5. CASE Vote(v) /\ ~Refuse(v)
  <2> DEFINE id == call[v].id
             key == call[v].key
             old == call[v].rec
             count == Counted(id, key, old)
  <2>1. /\ call'[v].rec.approvals = count /\ call'[v].rec.threshold = old.threshold
        /\ call'[v].rec.eta = old.eta
        /\ call'[v].rec.status = IF count >= old.threshold THEN "Approved" ELSE old.status
        /\ call'[v].id = id /\ key \in Keys /\ old \in ProposalRecord
        /\ voted' = [voted EXCEPT ![id] = @ \cup {key}]
        /\ pc[v] = "vote" /\ UNCHANGED now
    BY <1>5, VoteRecord
  <2>2. /\ count \in 0..U8Max /\ count <= Cardinality(approvals[id] \cup {key})
        /\ Cardinality(approvals[id] \cup {key}) \in Nat
    BY <1>1, <2>1, CountedBounds
  <2>3. /\ voted'[id] \in SUBSET Keys
        /\ approvals[id] \cup {key} \subseteq voted'[id]
    BY <1>1, <2>1 DEF ExecutionInv
  <2>4. /\ Cardinality(voted'[id]) \in Nat
        /\ Cardinality(approvals[id] \cup {key}) <= Cardinality(voted'[id])
    BY <2>3, KeysCounted
  <2> HIDE DEF count
  <2>5. count <= Cardinality(voted'[id])
    BY <2>2, <2>4, EngineAssumption
  <2>6. call'[v].rec.status = "Executed" => count < old.threshold /\ old.status = "Executed"
    BY <2>1, <2>2, EngineAssumption DEF ProposalRecord
  <2>7. old.status # "Executed"
    BY <2>1 DEF ExecutionInv, Final
  <2>. QED  BY <2>1, <2>5, <2>6, <2>7 DEF Earned
<1>6. CASE Decide(v) /\ ~Refuse(v)
  <2> DEFINE old == call[v].rec
  <2>1. /\ can_execute(old) /\ call'[v].rec.approvals = old.approvals
        /\ call'[v].rec.threshold = old.threshold /\ call'[v].rec.eta = old.eta
        /\ call'[v].id = call[v].id /\ pc[v] = "decide" /\ UNCHANGED <<shared, seen>>
    BY <1>6, DecideRecord
  <2>2. Earned(old, call[v].id)
    BY <2>1 DEF ExecutionInv, Carrying
  <2>. QED  BY <2>1, <2>2 DEF Earned, can_execute, shared
<1>. QED  BY <1>2, <1>3, <1>4, <1>5, <1>6, CarriedFrom

\* Only records not final are voted on.
LEMMA VotedOnOpen ==
  ASSUME IInv, ExecutionInv, [Next]_vars, NEW v \in Workers, pc'[v] = "vote"
  PROVE  ~Final(call'[v].rec)
<1>1. CASE pc[v] \in Carrying /\ call'[v] = call[v] /\ pc[v] = "vote"
  BY <1>1 DEF ExecutionInv
<1>2. CASE Load(v) /\ ~Refuse(v)
  <2>1. /\ ~Final(proposals[call[v].id]) /\ call'[v].op = "approve"
        /\ call'[v].rec = IF call'[v].op = "cancel"
                          THEN [proposals[call[v].id] EXCEPT !.status = "Cancelled"]
                          ELSE proposals[call[v].id]
    BY <1>2, LoadRecord
  <2>. QED  BY <2>1
<1>3. CASE (ReadConfig(v) \/ Vote(v) \/ Decide(v)) /\ ~Refuse(v)
  BY <1>3, CarrySteps
<1>. QED  BY <1>1, <1>2, <1>3, CarriedFrom DEF Carrying

\* What is carried goes with its row as long as the row stays.
LEMMA CarriedGoes ==
  ASSUME IInv, ExecutionInv, [Next]_vars, NEW v \in Workers, pc'[v] \in Carrying
  PROVE  GoesWithRow(v)'
<1>1. CASE pc[v] \in Carrying /\ call'[v] = call[v]
  <2>1. GoesWithRow(v) /\ call[v].id \in Ids
    BY <1>1, HandlerTypes DEF ExecutionInv
  <2>. QED  BY <1>1, <2>1, RowsKept DEF GoesWithRow, Exists
<1>2. CASE ReadConfig(v) /\ ~Refuse(v)
  <2>1. call'[v].op = "propose" /\ call'[v].rec.status = "Pending"
    BY <1>2, ReadConfigRecord
  <2>. QED  BY <2>1 DEF GoesWithRow
<1>3. CASE Load(v) /\ ~Refuse(v)
  <2> DEFINE rec == proposals[call[v].id]
  <2>1. /\ Exists(call[v].id) /\ rec \in ProposalRecord
        /\ call'[v].rec = IF call'[v].op = "cancel" THEN [rec EXCEPT !.status = "Cancelled"]
                          ELSE rec
        /\ call'[v].id = call[v].id /\ call'[v].op \in {"approve", "execute", "cancel"}
        /\ UNCHANGED proposals
    BY <1>3, LoadRecord DEF shared
  <2>2. call'[v].rec.eta = rec.eta /\ call'[v].rec.threshold = rec.threshold
    BY <2>1 DEF ProposalRecord
  <2>. QED  BY <2>1, <2>2 DEF GoesWithRow, Exists
<1>4. CASE (Vote(v) \/ Decide(v)) /\ ~Refuse(v)
  <2>1. /\ call'[v].rec.eta = call[v].rec.eta
        /\ call'[v].rec.threshold = call[v].rec.threshold
        /\ call'[v].id = call[v].id /\ call'[v].op \in {"approve", "execute"}
        /\ call'[v].op = call[v].op
        /\ pc[v] \in Carrying /\ UNCHANGED proposals
    BY <1>4, VoteRecord, DecideRecord DEF shared, Carrying
  <2>2. GoesWithRow(v)
    BY <2>1 DEF ExecutionInv
  <2>. QED  BY <2>1, <2>2 DEF GoesWithRow, Exists
<1>. QED  BY <1>1, <1>2, <1>3, <1>4, CarriedFrom

LEMMA NextExecution == IInv /\ ExecutionInv /\ [Next]_vars => ExecutionInv'
<1>. SUFFICES ASSUME IInv, ExecutionInv, [Next]_vars PROVE ExecutionInv'
  OBVIOUS
<1>1. \A id \in Ids : approvals'[id] \subseteq voted'[id]
  BY GuardSetsVoted
<1>2. \A id \in Ids : Exists(id)' => Earned(proposals[id], id)'
  BY StoredEarned
<1>3. \A w \in Workers :
        pc'[w] \in Carrying => Earned(call[w].rec, call[w].id)' /\ GoesWithRow(w)'
  BY CarriedEarned, CarriedGoes
<1>4. \A w \in Workers : pc'[w] = "vote" => ~Final(call'[w].rec)
  BY VotedOnOpen
<1>. QED  BY <1>1, <1>2, <1>3, <1>4 DEF ExecutionInv, Final

LEMMA AlwaysExecution == Spec => []ExecutionInv
<1>1. Init => ExecutionInv
  BY DEF Init, ExecutionInv, Exists, Carrying
<1>. QED  BY <1>1, NextExecution, AlwaysIInv, PTL DEF Spec

\* An Executed proposal was executed after its deadline with as many approvals as
\* its threshold, and no count exceeds the keys that ever approved: over either
\* store, through races, writes gone astray and restarts, for every width of the
\* count.
THEOREM ExecutionsEarned == Spec => []ExecutionEarned
<1>1. ExecutionInv => ExecutionEarned
  BY DEF ExecutionInv, ExecutionEarned, Earned
<1>. QED  BY <1>1, AlwaysExecution, PTL
==============================================================================
