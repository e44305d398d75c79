----------------------------- MODULE AuditEngine -----------------------------
(***************************************************************************)
(* The off-chain engine of crates/securedeploy-core over one of its stores *)
(* and the broadcast sink, serving GraphQL mutations.                      *)
(*                                                                         *)
(* Requests run in parallel on the threads of the runtime, one per worker  *)
(* here.  Nothing is held across a whole handler: each use of a lock, of   *)
(* the store's map, of the clock or of the sink is atomic, and steps of    *)
(* other requests may come between any two.  A handler is therefore a      *)
(* chain of actions, the label pc[w] naming the next one, and the record   *)
(* it loaded travels with it in call[w].                                   *)
(*                                                                         *)
(* No await on the in-memory adapters ever suspends, so there the request  *)
(* timeout cannot cut a handler short; a refusal ends it.  A statement     *)
(* sent to Postgres can fail, or the timeout can drop the handler waiting  *)
(* for it; then nobody knows whether, or when, the statement takes effect. *)
(* The rows survive a restart of the service, everything else is lost.     *)
(*                                                                         *)
(* Left out: program, build hash, proposer and creation time of a record   *)
(* (stored, never consulted), findings (FindingStore), queries, and the     *)
(* overflow of proposal_count, 2^64 proposals away.  The config's          *)
(* authority and timelock_seconds have no setter and are constants.        *)
(***************************************************************************)
EXTENDS Integers, FiniteSets, Sequences, Functions

CONSTANTS
  Workers,          \* requests that can be in flight together
  Keys,             \* the keys callers name
  Authority,
  GuardianVecs,     \* guardian vectors that pass through set_guardians
  Timelock,         \* timelock_seconds, which the engine takes unchecked
  MAX_GUARDIANS,
  U8Max, I64Max,
  Backend,          \* "memory", which the node wires, or "postgres"
  Requests,         \* bound: the operations callers ask for
  MaxProposals,     \* bound: proposals begun in a behaviour
  NoRecord, NoKey

Ops == {"propose", "approve", "execute", "cancel", "pause", "resume"}

ASSUME EngineAssumption ==
  /\ Requests \subseteq Ops
  /\ IsFiniteSet(Workers)
  /\ IsFiniteSet(Keys) /\ Authority \in Keys /\ NoKey \notin Keys
  /\ GuardianVecs \subseteq Seq(Keys)
  /\ U8Max \in Nat /\ MAX_GUARDIANS \in Nat /\ MAX_GUARDIANS <= U8Max
  /\ I64Max \in Nat /\ Timelock \in Int /\ Timelock <= I64Max
  /\ MaxProposals \in Nat \ {0}
  /\ Backend \in {"memory", "postgres"}

VARIABLES
  config,      \* the RwLock'ed GovernanceConfig: the fields that change
  proposals,   \* the store's map
  approvals,   \* the RwLock'ed map from id to the set of keys that approved
  events,      \* the domain events handed to the sink
  now,         \* the wall clock
  pc,          \* the next step of each worker's handler
  call,        \* its arguments and the record it carries
  voted,       \* history: the keys that ever approved, over restarts
  seen         \* history: what held at some time since each request began

vars == <<config, proposals, approvals, events, now, pc, call, voted, seen>>
shared == <<config, proposals, approvals, events, now, voted>>

Ids == 0..(MaxProposals - 1)
Times == 0..I64Max
Statuses == {"Pending", "Approved", "Executed", "Cancelled"}
Labels == {"idle", "ensure_active", "read_config", "create", "count",
           "check_guardian", "load", "vote", "decide", "store",
           "set_paused", "publish", "stray"}

GovernanceConfig ==
  [ guardians : SUBSET Keys, threshold : 1..U8Max, paused : BOOLEAN,
    proposal_count : 0..MaxProposals ]

ProposalRecord ==
  [ eta : {t \in Int : t <= I64Max}, approvals : 0..U8Max, threshold : 1..U8Max, status : Statuses ]

\* The absence of a row is not taken for one.
ASSUME NoRecordAssumption == NoRecord \notin ProposalRecord

Call ==
  [ op : Ops, id : Ids, key : Keys \cup {NoKey},
    rec : ProposalRecord \cup {NoRecord} ]

NoCall == [op |-> "resume", id |-> 0, key |-> NoKey, rec |-> NoRecord]

(***************************************************************************)
(* Rules (crates/securedeploy-types) and helpers.  A Faulty... operator is *)
(* the definition below it with a slip; no specification uses it.          *)
(***************************************************************************)
validate_guardians(vec, threshold) ==
  /\ Len(vec) \in 1..MAX_GUARDIANS
  /\ IsInjective(vec)
  /\ threshold \in 1..Len(vec)

is_guardian(key) == key \in config.guardians

\* `created_at + timelock` in a build without overflow checks.
FaultyFits(eta) == TRUE

\* compute_eta's checked_add fits an i64.
Fits(eta) == eta <= I64Max

compute_eta == now + Timelock

status_str(status) ==
  CASE status = "Pending" -> "pending" [] status = "Approved" -> "approved"
    [] status = "Executed" -> "executed" [] status = "Cancelled" -> "cancelled"

parse_status(text) ==
  CASE text = "approved" -> "Approved" [] text = "executed" -> "Executed"
    [] text = "cancelled" -> "Cancelled" [] OTHER -> "Pending"

FaultyCanExecute(rec) == now >= rec.eta

can_execute(rec) == rec.approvals >= rec.threshold /\ now >= rec.eta

Exists(id) == proposals[id] # NoRecord

\* The row a statement binds, as map_row reads it back.
Row(rec) == [rec EXCEPT !.status = parse_status(status_str(@))]

\* ON CONFLICT replaces the whole row, as the in-memory store does.
FaultyUpserted(id, rec) == rec

\* What the store holds under the id after an upsert: in memory the new record;
\* a row that exists takes over its approvals and status and nothing else.
Upserted(id, rec) ==
  IF Backend = "postgres" /\ Exists(id)
  THEN [proposals[id] EXCEPT !.approvals = rec.approvals, !.status = Row(rec).status]
  ELSE IF Backend = "postgres" THEN Row(rec) ELSE rec

\* One of the two final states is forgotten.
FaultyFinalNoCancel(rec) == rec.status = "Executed"
FaultyFinalNoExecute(rec) == rec.status = "Cancelled"

Final(rec) == rec.status \in {"Executed", "Cancelled"}

\* Incrementing the count in the loaded record.
FaultyCountedStale(id, key, rec) == rec.approvals + 1

\* The length is taken before the insertion.
FaultyCountedEarly(id, key, rec) == Cardinality(approvals[id])

\* `set.len() as u8` after the insertion, still under the lock.
Counted(id, key, rec) == Cardinality(approvals[id] \cup {key}) % (U8Max + 1)

\* The event a handler publishes at its end.
EventOf(c) ==
  CASE c.op = "propose" -> [name |-> "ProposalCreated", id |-> c.id]
    [] c.op = "approve" -> [name |-> "ProposalApproved", id |-> c.id,
                            approvals |-> c.rec.approvals]
    [] c.op = "execute" -> [name |-> "ProposalExecuted", id |-> c.id]
    [] c.op = "cancel"  -> [name |-> "ProposalCancelled", id |-> c.id]
    [] c.op = "pause"   -> [name |-> "PauseChanged", paused |-> TRUE]
    [] c.op = "resume"  -> [name |-> "PauseChanged", paused |-> FALSE]

\* The handler returns, with an error or its result.
Return(w) ==
  /\ pc' = [pc EXCEPT ![w] = "idle"]
  /\ call' = [call EXCEPT ![w] = NoCall]
  /\ seen' = [seen EXCEPT ![w] = {}]

Refuse(w) == Return(w) /\ UNCHANGED shared

Goto(w, label) == pc' = [pc EXCEPT ![w] = label]

Carry(w, rec) == call' = [call EXCEPT ![w].rec = rec]

\* What request c could be admitted by under configuration cfg.
Grounds(cfg, c) ==
  {g \in {"active", "entitled"} :
     IF g = "active" THEN ~cfg.paused
     ELSE c.key \in cfg.guardians \/ (c.op = "propose" /\ c.key = Authority)}

\* A new configuration is seen by every request in flight.
SeenUnder(cfg) ==
  [w \in Workers |-> IF pc[w] = "idle" THEN {} ELSE seen[w] \cup Grounds(cfg, call[w])]

(***************************************************************************)
(* Steps of the handlers                                                   *)
(***************************************************************************)
\* GovernanceConfig::new
NewConfig(vec, threshold) ==
  [ guardians |-> Range(vec), threshold |-> threshold,
    paused |-> FALSE, proposal_count |-> 0 ]

\* `AuditEngine::new` is given one that it validates.
FreshConfigs ==
  {NewConfig(s[1], s[2]) :
     s \in {t \in GuardianVecs \X (1..U8Max) : validate_guardians(t[1], t[2])}}

Init ==
  /\ config \in FreshConfigs
  /\ proposals = [id \in Ids |-> NoRecord]
  /\ approvals = [id \in Ids |-> {}]
  /\ events = {}
  /\ now = 0
  /\ pc = [w \in Workers |-> "idle"]
  /\ call = [w \in Workers |-> NoCall]
  /\ voted = [id \in Ids |-> {}]
  /\ seen = [w \in Workers |-> {}]

Proposing == {w \in Workers : call[w].op = "propose"}

\* execute does not ask whether governance is paused.
FaultyFirstLabel(op) ==
  CASE op \in {"propose", "approve"} -> "ensure_active"
    [] op \in {"execute", "cancel"} -> "load"
    [] op \in {"pause", "resume"} -> "set_paused"

FirstLabel(op) ==
  CASE op \in {"propose", "approve", "execute"} -> "ensure_active"
    [] op = "cancel" -> "load"
    [] op \in {"pause", "resume"} -> "set_paused"

Begin(w, op, id, key) ==
  /\ pc[w] = "idle"
  /\ op = "propose" => config.proposal_count + Cardinality(Proposing) < MaxProposals
  /\ op \notin {"approve", "execute", "cancel"} => id = 0
  /\ (key = NoKey) <=> (op \notin {"propose", "approve"})
  /\ Goto(w, FirstLabel(op))
  /\ call' = [call EXCEPT ![w] = [op |-> op, id |-> id, key |-> key, rec |-> NoRecord]]
  /\ seen' = [seen EXCEPT ![w] = Grounds(config, [op |-> op, key |-> key])]
  /\ UNCHANGED shared

ensure_active(w) ==
  /\ pc[w] = "ensure_active"
  /\ IF config.paused
     THEN Refuse(w)
     ELSE /\ Goto(w, CASE call[w].op = "propose" -> "read_config"
                       [] call[w].op = "approve" -> "check_guardian"
                       [] call[w].op = "execute" -> "load")
          /\ UNCHANGED <<shared, call, seen>>

\* propose, under the read lock: who asks, the id, the deadline, the threshold.
ReadConfig(w) ==
  /\ pc[w] = "read_config"
  /\ IF /\ call[w].key = Authority \/ is_guardian(call[w].key)
        /\ Fits(compute_eta)
     THEN /\ call' = [call EXCEPT ![w].id = config.proposal_count,
                                  ![w].rec = [eta       |-> compute_eta,
                                              approvals |-> 0,
                                              threshold |-> config.threshold,
                                              status    |-> "Pending"]]
          /\ Goto(w, "create")
          /\ UNCHANGED <<shared, seen>>
     ELSE Refuse(w)

\* The record a handler carries goes into the store.
upsert(c) == proposals' = [proposals EXCEPT ![c.id] = Upserted(c.id, c.rec)]

\* propose: whatever the store holds under the id.
Create(w) ==
  /\ pc[w] = "create"
  /\ upsert(call[w])
  /\ Goto(w, "count")
  /\ UNCHANGED <<config, approvals, events, now, call, voted, seen>>

\* The increment is forgotten.
FaultyNextCount == config.proposal_count

NextCount == config.proposal_count + 1

\* propose: a second section, under the write lock.
Count(w) ==
  /\ pc[w] = "count"
  /\ config' = [config EXCEPT !.proposal_count = NextCount]
  /\ Goto(w, "publish")
  /\ UNCHANGED <<proposals, approvals, events, now, call, voted, seen>>

CheckGuardian(w) ==
  /\ pc[w] = "check_guardian"
  /\ IF is_guardian(call[w].key)
     THEN Goto(w, "load") /\ UNCHANGED <<shared, call, seen>>
     ELSE Refuse(w)

\* approve, execute, cancel: get the record and turn a finalized one away.
Load(w) ==
  LET c == call[w]
      rec == proposals[c.id]
  IN  /\ pc[w] = "load"
      /\ IF Exists(c.id) /\ ~Final(rec)
         THEN /\ Goto(w, CASE c.op = "approve" -> "vote"
                           [] c.op = "execute" -> "decide"
                           [] c.op = "cancel"  -> "store")
              /\ Carry(w, IF c.op = "cancel" THEN [rec EXCEPT !.status = "Cancelled"]
                                             ELSE rec)
              /\ UNCHANGED <<shared, seen>>
         ELSE Refuse(w)

\* approve, under the approvals lock.
Vote(w) ==
  LET c == call[w]
      count == Counted(c.id, c.key, c.rec)
  IN  /\ pc[w] = "vote"
      /\ IF c.key \notin approvals[c.id]
         THEN /\ approvals' = [approvals EXCEPT ![c.id] = @ \cup {c.key}]
              /\ voted' = [voted EXCEPT ![c.id] = @ \cup {c.key}]
              /\ Carry(w, [c.rec EXCEPT
                             !.approvals = count,
                             !.status = IF count >= c.rec.threshold THEN "Approved" ELSE @])
              /\ Goto(w, "store")
              /\ UNCHANGED <<config, proposals, events, now, seen>>
         ELSE Refuse(w)

\* execute: the clock is read after the record.
Decide(w) ==
  /\ pc[w] = "decide"
  /\ IF can_execute(call[w].rec)
     THEN /\ Carry(w, [call[w].rec EXCEPT !.status = "Executed"])
          /\ Goto(w, "store")
          /\ UNCHANGED <<shared, seen>>
     ELSE Refuse(w)

\* The handler returns before telling the sink.
FaultyAfterStore(op) == IF op = "cancel" THEN "idle" ELSE "publish"

AfterStore(op) == "publish"

\* approve, execute, cancel: write the carried record back.
Store(w) ==
  /\ pc[w] = "store"
  /\ upsert(call[w])
  /\ Goto(w, AfterStore(call[w].op))
  /\ UNCHANGED <<config, approvals, events, now, call, voted, seen>>

set_paused(w) ==
  /\ pc[w] = "set_paused"
  /\ config' = [config EXCEPT !.paused = (call[w].op = "pause")]
  /\ seen' = SeenUnder(config')
  /\ Goto(w, "publish")
  /\ UNCHANGED <<proposals, approvals, events, now, call, voted>>

Publish(w) ==
  /\ pc[w] = "publish"
  /\ events' = events \cup {EventOf(call[w])}
  /\ Return(w)
  /\ UNCHANGED <<config, proposals, approvals, now, voted>>

\* Not a GraphQL mutation: whoever embeds the engine rotates the guardians.
set_guardians(vec, threshold) ==
  /\ validate_guardians(vec, threshold)
  /\ config' = [config EXCEPT !.guardians = Range(vec), !.threshold = threshold]
  /\ seen' = SeenUnder(config')
  /\ UNCHANGED <<proposals, approvals, events, now, pc, call, voted>>

\* The wall clock is taken not to step back.
Tick ==
  /\ now' \in (now + 1)..I64Max
  /\ UNCHANGED <<config, proposals, approvals, events, pc, call, voted, seen>>

(***************************************************************************)
(* Faults, over Postgres                                                   *)
(***************************************************************************)
\* A statement fails, or TimeoutLayer drops the handler that awaits it.  A
\* write is then astray, though its sender has been answered with an error.
Cut(w) ==
  /\ Backend = "postgres"
  /\ \/ pc[w] = "load" /\ Refuse(w)
     \/ /\ pc[w] \in {"create", "store"}
        /\ Goto(w, "stray")
        /\ UNCHANGED <<shared, call, seen>>

\* A write astray takes effect in the end, or never.
Land(w) ==
  /\ pc[w] = "stray"
  /\ upsert(call[w])
  /\ Return(w)
  /\ UNCHANGED <<config, approvals, events, now, voted>>

Lose(w) == pc[w] = "stray" /\ Refuse(w)

\* The service stops at any point and starts over the same rows: handlers are
\* gone, a write they sent is astray, and the engine counts from zero again.
Restart ==
  LET sent(w) == pc[w] \in {"create", "store", "stray"}
  IN  /\ Backend = "postgres"
      /\ config' \in FreshConfigs
      /\ approvals' = [id \in Ids |-> {}]
      /\ pc' = [w \in Workers |-> IF sent(w) THEN "stray" ELSE "idle"]
      /\ call' = [w \in Workers |-> IF sent(w) THEN call[w] ELSE NoCall]
      /\ seen' = [w \in Workers |-> IF sent(w) THEN seen[w] ELSE {}]
      /\ UNCHANGED <<proposals, events, now, voted>>

Step(w) ==
  \/ ensure_active(w) \/ ReadConfig(w) \/ Create(w) \/ Count(w)
  \/ CheckGuardian(w) \/ Load(w) \/ Vote(w) \/ Decide(w) \/ Store(w)
  \/ set_paused(w) \/ Publish(w)

Next ==
  \/ \E w \in Workers :
       \/ Step(w) \/ Cut(w) \/ Land(w) \/ Lose(w)
       \/ \E op \in Requests, id \in Ids, key \in Keys \cup {NoKey} : Begin(w, op, id, key)
  \/ \E vec \in GuardianVecs, threshold \in 1..U8Max : set_guardians(vec, threshold)
  \/ Tick
  \/ Restart

Spec == Init /\ [][Next]_vars

\* A runtime thread that runs a handler gets on with it.
FairSpec == Spec /\ \A w \in Workers : WF_vars(Step(w))

(***************************************************************************)
(* Properties that hold however requests interleave                        *)
(***************************************************************************)
\* Every field, and every record carried by a request in flight, holds a value
\* its Rust type can hold; no deadline overflows an i64.
TypeOK ==
  /\ config \in GovernanceConfig
  /\ proposals \in [Ids -> ProposalRecord \cup {NoRecord}]
  /\ approvals \in [Ids -> SUBSET Keys]
  /\ now \in Times
  /\ pc \in [Workers -> Labels]
  /\ call \in [Workers -> Call]
  /\ voted \in [Ids -> SUBSET Keys]
  /\ seen \in [Workers -> SUBSET {"active", "entitled"}]

\* An executed proposal was executed after its deadline with as many approvals as
\* its threshold, and no count exceeds the keys that ever approved the proposal:
\* even when handlers overwrite each other's records, writes go astray, a restart
\* forgets who voted, and the count of approvals wraps.
ExecutionEarned ==
  \A id \in Ids :
    Exists(id) =>
      LET rec == proposals[id]
      IN  /\ rec.approvals <= Cardinality(voted[id])
          /\ rec.status = "Executed" => rec.approvals >= rec.threshold /\ now >= rec.eta

\* Without a restart an Approved proposal has its approvals too, and every count
\* is covered by the present guard set, as long as no more keys approve than a u8
\* counts.
EarnedStatus ==
  \A id \in Ids :
    Exists(id) =>
      LET rec == proposals[id]
      IN  /\ rec.approvals <= Cardinality(approvals[id])
          /\ rec.status \in {"Approved", "Executed"} => rec.approvals >= rec.threshold

\* The pause flag and the guardian set are read once, in sections of their own,
\* and a request may take effect after either has changed.  But a proposal, vote
\* or execution that takes effect comes from a request during which governance
\* was active at some time, and its key entitled at some time.
AdmittedInTime ==
  \A w \in Workers :
    pc[w] \in {"create", "vote", "store"} =>
      /\ call[w].op \in {"propose", "approve", "execute"} => "active" \in seen[w]
      /\ call[w].op \in {"propose", "approve"} => "entitled" \in seen[w]

\* What guardians vote on is not swapped under their votes: over Postgres a row
\* keeps the deadline and the threshold it was created with, though a restart, a
\* lost count or a race gives its id to a second proposal.
ContentKept ==
  [][\A id \in Ids :
       Exists(id) => /\ proposals[id].eta = proposals'[id].eta
                     /\ proposals[id].threshold = proposals'[id].threshold]_vars

Quiet == \A w \in Workers : pc[w] = "idle"

Publishes(w, op) == pc[w] = "publish" /\ pc'[w] = "idle" /\ call[w].op = op

\* Two approvals of a proposal are never announced with the same count, since
\* the count is taken under the lock that admitted the vote.
CountsAnnouncedOnce ==
  [][\A w \in Workers : Publishes(w, "approve") => EventOf(call[w]) \notin events]_vars

\* Between requests every record lies below the counter, even after two
\* proposals took the same id, and only a proposal that exists has votes.
CounterPastRecords ==
  Quiet =>
    \A id \in Ids :
      /\ Exists(id) => id < config.proposal_count
      /\ approvals[id] # {} => Exists(id)

Announced(name, id) == \E e \in events : e.name = name /\ e.id = id

\* Subscribers hear of every effect in the end: of each record created,
\* executed or cancelled, and of each vote that was counted.
EffectsAnnounced ==
  \A id \in Ids :
    /\ Exists(id) ~> Announced("ProposalCreated", id)
    /\ (Exists(id) /\ proposals[id].status = "Executed") ~> Announced("ProposalExecuted", id)
    /\ (Exists(id) /\ proposals[id].status = "Cancelled") ~> Announced("ProposalCancelled", id)
    /\ \A n \in 1..Cardinality(Keys) :
         (Cardinality(approvals[id]) >= n) ~>
           [name |-> "ProposalApproved", id |-> id, approvals |-> n] \in events

\* Every vote in the guard set is on its way to its announcement, or was announced:
\* announcements may come out of order, but none is left out.
NoCountSkipped ==
  \A id \in Ids : \A n \in 1..Cardinality(approvals[id]) :
    \/ [name |-> "ProposalApproved", id |-> id, approvals |-> n] \in events
    \/ \E w \in Workers :
         /\ pc[w] \in {"store", "publish"}
         /\ call[w].op = "approve" /\ call[w].id = id /\ call[w].rec.approvals = n

\* A handler that is to write the record of this id, or has yet to count it.
Holds(w, id) ==
  pc[w] \in {"create", "count", "vote", "decide", "store"} /\ call[w].id = id

Held(id) == \E w \in Workers : Holds(w, id)

\* An executed or cancelled record that no handler holds stays as it is: no
\* request, of any number at a time, gets hold of it again.
FinalAtRest ==
  [][\A id \in Ids :
       Exists(id) /\ proposals[id].status \in {"Executed", "Cancelled"} /\ ~Held(id) =>
         proposals'[id] = proposals[id] /\ ~Held(id)']_vars

(***************************************************************************)
(* What the code says, and overlapping requests break.  What is left of    *)
(* such promises is in EngineOverlap.                                      *)
(***************************************************************************)
\* engine.rs:163 and :235: "Rejects [...] finalized proposals", "Cancel a
\* not-yet-finalized proposal".  An executed or cancelled record stays as it is.
FinalizedForGood ==
  [][\A id \in Ids :
       Exists(id) /\ proposals[id].status \in {"Executed", "Cancelled"} =>
         proposals'[id] = proposals[id]]_vars

\* types/src/lib.rs:25: "Monotonic proposal id, mirroring the on-chain
\* `proposal_count`".  A new proposal gets an id no proposal has had.
FreshIds ==
  [][\A w \in Workers :
       pc[w] = "create" /\ pc'[w] = "count" => ~Exists(call[w].id)]_vars
===============================================================================
