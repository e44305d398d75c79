# SecureDeploySol: TLA+ models, checks and proofs

Paths are relative to the repository root. `lib.rs` and `state.rs` without a
directory are those of `anchor/programs/securedeploy-core/src`; `engine.rs` is
`crates/securedeploy-core/src/engine.rs`.

## 1. The system

SecureDeploySol governs upgrades of Solana programs. A proposal pins the hash of
a build, collects approvals from registered guardians, waits out a timelock and
is then executed, unless the authority cancels it or pauses governance.

| Component | Code | State it keeps | Operations |
|---|---|---|---|
| On-chain program | `lib.rs`, `state.rs` | governance account; a proposal account per id; an approval marker account per (id, guardian) | initialize, set_guardians, set_paused, transfer/accept_authority, propose/approve/execute_upgrade, cancel_proposal |
| Audit engine | `engine.rs`, `domain.rs`, `ports.rs` | `RwLock` config, `RwLock` map id -> set of approvers, the stores behind ports | propose, approve, execute, cancel, set_paused, set_guardians, raise_finding, queries |
| Shared rules | `crates/securedeploy-types` | none | validate_guardians, compute_eta, can_execute, BuildHash parsing |
| In-memory stores | `crates/securedeploy-infra/src/memory.rs` | two `DashMap`s | upsert/get/list; insert/get/list of findings |
| Event sink | `crates/securedeploy-infra/src/events.rs` | broadcast channel | publish, subscribe |
| Postgres stores | `crates/securedeploy-infra/src/postgres.rs` | tables | the same ports; not wired in the node |
| Resilience | `crates/securedeploy-resilience` | breaker state, token bucket | breaker, retry, timeout, rate limit |
| GraphQL API | `crates/securedeploy-api` | shared service state | mutations, queries, subscription |
| Node | `crates/securedeploy-node` | configuration | startup, HTTP timeout, telemetry, demo |

**How they interact.** GraphQL mutations take a rate-limit token and call the
engine; the engine uses its own locks, then the store, the clock and the event
sink; subscriptions read from the sink. The engine *mirrors* the program's rules
(engine.rs:39); it never talks to the chain. The node serves requests on a
multi-threaded runtime, so two requests interleave between any two lock sections
of the engine. The in-memory adapters never suspend a future, so a request that
has started runs to its end. The Postgres store suspends at every statement; a
statement can fail, the request timeout can drop the handler that waits for it,
and the rows outlive the service.

**What is hard.**

- *On chain* a transaction is atomic, and the difficulty is in sequences:
  guardians and thresholds rotate between votes, the authority changes hands, a
  proposal is cancelled twice or while paused, transactions are sent again,
  counters and deadlines come to the end of their range, and everything an
  indexer knows comes from emitted events.
- *Off chain* no lock is held for a whole handler. Each of `approve`, `execute`
  and `cancel` is a read-modify-write of a stored record, and `propose` reads the
  counter in one section and increments it in another.
- *Between the two*, the same rules are written twice, over different state: the
  engine keeps a threshold in each record and a count that wraps where the program
  compares with the threshold in force and refuses to overflow; and the program
  looks at signatures where the service looks at names.
- *Towards clients* events travel over a bounded channel that overwrites what a
  slow subscriber has not read.
- *Towards other services* an attempt that timed out may still take effect.

`PROJECT.json` lists these under "hazards", at the line where each one bites.

**What makes each component correct.**

- Program: votes are counted once; the quorum is always reachable; nothing is
  executed early, twice, without votes, or after cancelling; ids are dense; no
  nomination outlives its author; the log agrees with the accounts.
- Engine: the record agrees with the set of voters; a finalized record stays;
  ids are fresh; an execution succeeds once. Overlapping requests for one proposal
  break all four; for a proposal that requests did not contend for, all four must
  hold whatever else overlaps. In any case: a status was earned; every effect is
  announced, every vote once; whatever takes effect was admissible while its request
  was in flight. Over a store that fails: an execution was earned, and the content
  voted on stays.
- Engine and program: they decide requests alike, but for known differences, and
  where they did, queries answer what the accounts say.
- Stores and sink: what is announced is stored; a subscriber misses only what it
  let a whole channel pass, and catches up.
- Breaker: closed exactly below the threshold, the cooldown, a probe in the end.
- Retry: no more effects than attempts, growing capped delays, an answer.

## 2. The modules

| Module | What it is |
|---|---|
| `UpgradeLifecycle` | Abstract specification: the life of an upgrade as an observer sees it |
| `UpgradeGovernance` | The on-chain program, its properties, and the refinement mapping to `UpgradeLifecycle` |
| `MCUpgradeGovernance` | Constants for TLC |
| `UpgradeGovernanceProofs` | Invariants of `UpgradeGovernance` proved for all constants |
| `UpgradeRefinementProofs` | `UpgradeGovernance` implements `UpgradeLifecycle`, proved |
| `AuditEngine` | The off-chain engine with its store and sink, one action per lock section or statement, and the faults of a Postgres store |
| `EngineOverlap` | The engine with a record of which proposals were contended for, and what holds of the others |
| `AuditEngineProofs` | What the engine keeps over either store, through faults and restarts, proved for any number of requests in flight |
| `AuditEngineMemoryProofs` | What it keeps over the in-memory store, of every proposal and of those not contended for, proved for any number of requests in flight |
| `GovernanceMirror` | `UpgradeGovernance` and the engine side by side on the same requests, with the queries |
| `GovernanceMirrorProofs` | The two decide alike and the queries answer what the accounts say, proved for all constants |
| `FindingStore` | Findings: `raise_finding` over the finding map and the sink, one action per map operation |
| `EventBus` | The broadcast channel and the `events` subscription |
| `FindingFeed` | `FindingStore` publishing to `EventBus`, among other events |
| `FindingFeedProofs` | What overlapping reports leave behind, what subscribers miss and what they are told, proved; the feed implements `FindingStore` |
| `CircuitBreaker` | The circuit breaker with concurrent callers and late reports |
| `CircuitBreakerProofs` | Its safety, proved for any callers, threshold and cooldown |
| `Retry` | `retry` around an operation under `with_timeout` |
| `RetryProofs` | How often the operation can take effect and how its delays grow, proved for all policies |
| `MCUpgradeGovernance`, `MCAuditEngine`, `MCEngineOverlap`, `MCGovernanceMirror`, `MCFindingFeed`, `MCCircuitBreaker`, `MCRetry` | Constants, symmetry and views for TLC |

`GovernanceMirror` extends `UpgradeGovernance`, `EngineOverlap` extends
`AuditEngine`, `FindingFeed` extends `FindingStore` and `EventBus`; they add no state
but the engine's in the mirror and history variables. Operators named `Faulty...` are slips of the definition
below them, used to see that a property notices such a change; no specification
refers to them.

### UpgradeGovernance

One action per instruction, named as in `lib.rs`. Solana commits a transaction
whole or not at all, so an instruction with all its `require!`s and account
constraints is one atomic action and a failing transaction is no action. What an
instruction requires beyond a check or two has a name of its own (`MayPropose`,
`MayApprove`, `MayExecute`, ...), since `GovernanceMirror` asks it too.

- `governance` is the governance account, `proposals[id]` the account at the
  proposal address of `id`, `approvals` the set of `<<id, guardian>>` whose
  marker account exists; `NoAccount` is an address never created.
- Anchor's constraints are guards: `init` is `GovernanceVacant`,
  `~Exists(id)` and `ApprovalVacant`; `has_one = authority` is `AdminOnly`.
- `checked_add` is `Fits`, with the widths `U8Max`, `U64Max`, `I64Max` as
  constants, so that TLC meets the end of every range and the proofs hold for
  the real ones.
- `now` is the Clock sysvar. It starts anywhere in effect (it may jump before
  the first transaction) and never runs backwards, which is the cluster's
  promise; no property depends on that promise.
- `events` is the log. `UpgradeProposed` and `UpgradeExecuted` carry their block
  time `at`, which any reader of the chain sees beside the event.
- `nominator` is a history variable: who made the standing nomination.
- The guardian vector is kept as a set. Order and multiplicity are only looked at
  by `validate_guardians`, which is given the vector.
- The stored `proposer`, bumps and rent are left out: nothing reads them.

### UpgradeLifecycle and the refinement

The abstract state is a council, a quorum, an emergency stop, and per upgrade a
stage, a payload and a set of voters, plus the set of upgrades whose delay has
run out. Its actions say who may vote, when an upgrade may be released and that
release and withdrawal are final. There is no counter (it counts the *set* of
voters), no signer, no account and no clock. The mapping (end of
`UpgradeGovernance`) reads stage from the two flags, voters from the markers and
ripeness from the deadline. A second cancellation is a stuttering step.

### AuditEngine

`pc[w]` names the next step of the handler that worker `w` runs, and `call[w]`
holds its arguments and the record it carries. The steps are exactly the uses of
shared state: the pause check, the config read section, the counter write
section, the guardian check, the store's `get` and `upsert`, the approvals
section, the clock reading, the publish. A handler's local computation belongs
to the step whose result it uses.

- `ensure_active -> ReadConfig -> Create -> Count -> Publish` is `propose`.
- `ensure_active -> CheckGuardian -> Load -> Vote -> Store -> Publish` is `approve`.
- `ensure_active -> Load -> Decide -> Store -> Publish` is `execute`.
- `Load -> Store -> Publish` is `cancel`; `set_paused -> Publish` is `set_paused`.
- `set_guardians` is one write section and has no event; no mutation exposes it,
  so it is an action of the embedding program.

`Backend` chooses the store. In memory, `upsert` replaces the record. Over
Postgres (postgres.rs:58-79) a row that exists takes over approvals and status and
keeps everything else, and three things can go wrong:

- `Cut`: a statement fails, or the request timeout (startup.rs:60-63) drops the
  handler waiting for it. The caller has an error; a write is then astray, and
  takes effect later (`Land`) or never (`Lose`).
- `Restart`: the service stops anywhere and starts over the same rows. Config,
  counter and guard sets begin anew; handlers are gone, their last write astray.

The node wires the in-memory store; this variant is what the Postgres feature
would run. Two history variables serve the properties: `voted`, who ever approved,
over restarts, and `seen[w]`, whether governance was active and the caller
entitled at some time since its request began.

Left out: program, hash, proposer and creation time of a record (stored, never
consulted), findings, queries, the overflow of a 64-bit proposal counter.

### EngineOverlap

A handler *holds* an id from the step that settles which record it writes
(`ReadConfig` reads the counter, `Load` the record) until the record is stored and, for
a proposal, counted. `contended` is a history variable: the ids that two handlers held
at one time. The module adds nothing to what the engine may do (`OverlapSpec => Spec`
is proved); it lets properties speak of the proposals that are not in that set.

### GovernanceMirror

Program and engine are set up by one `Deploy` with the same parameters, and every
request goes to both at the same time of day. `Attempt` lets the program's
instruction happen if what it requires holds and nothing otherwise (a failed
transaction); the engine's handlers are whole, an effect if accepted and nothing
otherwise, since their interleaving is `AuditEngine`'s subject. Here a record carries its content,
and a build hash its spelling: `from_hex` takes both cases, refuses zero and what
is not 64 digits, and `to_hex` writes lower case. `GqlProposal`, `GqlConfig` and
`GqlStats` are the queries.

A request has a signer. The program wants the signature of the key that is named as
proposer or guardian, and the authority's to cancel or pause (`ChainTakes...`,
`AdminOnly`). The resolvers (schema.rs:314-369, 393-399) take names as arguments and
ask nobody who is calling, for cancelling and pausing not even for a name, and the
engine leaves that to them (engine.rs:235), so `Takes...` has no signer. Rotation is
the one exception: no resolver offers it, and whoever embeds both signs as the
authority.

The two therefore part. `parted` are the ids of which one side took a request that the
other refused, `forked` says that this happened to the settings or to a new id; both
are histories. `SameVerdicts` says which requests are decided apart and that all others
are not; `Mirrors` compares the queries with the accounts, for whatever is not parted.
Handing over the authority has no counterpart in the engine, and after a restart the
in-memory engine is empty, so neither is part of the comparison.

### FindingStore

A request of `raise_finding` goes `ContainsKey -> Insert -> Publish`; the first
two are the two map operations of `InMemoryFindingStore::insert`. It shares only
the sink with the proposals, so it is a module of its own. A record is reduced
to its severity, which stands for whatever tells two reports of one id apart.
`announced` is a history variable: the requests whose event is out and whose
caller was answered Ok. `Done` is the end of a behaviour whose `MaxRaises`
requests are all answered.

### EventBus and FindingFeed

`log` is every event sent, of which the channel holds the last `Capacity`;
`next[s]` is the position of a client's receiver. `poll` delivers the next event
or, if it was overwritten, moves on to the oldest that is left: the notice tokio
gives of that is filtered out by the subscription (schema.rs:418), so a client
cannot tell a gap from silence. Nothing is kept while nobody is subscribed, and a
receiver starts behind the last event. `GqlEvent` is the conversion of what is
delivered. `since` and `got` are history variables: where a client subscribed and
which positions it was given. `FindingFeed` lets `raise_finding` publish there,
between other events, and asks what a client may conclude from what it is shown.

### Retry

A policy is any of `Policies`; durations are in a unit finer than the milliseconds
in which delays are computed. `pc` is "calling" during an attempt and "sleeping"
between two; `effects` are the attempts whose effect has happened and `limbo`
those cut off whose effect may yet happen. An attempt may do its work and still
report an error, be cut off by `with_timeout` before or after its work, and the
caller may drop the whole future. `saturating_pow` and the final cast keep their
widths; the power is computed step by step and stops at the width. No caller in the repository uses `retry`; the module models what a user of
it gets.

### CircuitBreaker

`acquire`, `record_success` and `record_failure` hold the mutex throughout, so
each is one action; what interleaves are the guarded calls between a caller's
`acquire` and its report. `call[c]` says whether a caller has a call in flight
and whether it was let in as a trial; `Abandon` is a call that is never
reported. `open_for` is the distance of the clock from `opened_at`, capped at
`open_duration`: the code looks at nothing else, and time needs no bound.
`tripped` is a history variable with the time since the breaker last opened;
that it agrees with `open_for` is what the proof shows. Nothing in the node
calls the breaker yet; its users are the tests.

## 3. The runs

All invariants and properties are defined, with what they mean, at the end of
their modules.

| Run | Instance | What it shows |
|---|---|---|
| `governance_rotation` | 3 keys, 1 proposal, vectors with overlap, a duplicate, an empty one and one beyond `MAX_GUARDIANS`, delays -1..1, time to 2 | `TypeOK`, `VoteCountExact`, `QuorumReachable`, `NoStaleNomination`, refinement |
| `governance_two_proposals` | 2 keys, 2 proposals, 2 builds and the zero hash, time to 2 | `SettledOnce`, `IdsDense`, `TimelockServed`, `EventLogFaithful` |
| `engine_overlap` | 2 requests in flight, 2 proposals, 2 keys, rotation, pausing | In every interleaving, even when two proposes take one id: `EarnedStatus`, `NoCountSkipped`, `AdmittedInTime`, `CounterPastRecords`, `CountsAnnouncedOnce`, `FinalAtRest`. Of a proposal that was not contended for: `VotesCountedApart`, `FreshApart`, `ExecutedOnceApart` |
| `engine_announces` | 2 requests in flight, 1 proposal, all operations, a delay of 1, fair workers | `TypeOK`, `FinalAtRest` with cancelling, `EffectsAnnounced` |
| `engine_durable` | 2 requests in flight over Postgres, 1 id, time to 2, rotation, faults and restarts at any point | `ExecutionEarned`, `ContentKept` |
| `governance_mirror` | 3 keys, 2 proposals, delays -1 and 1, every request by every signer, accepted or refused | `Mirrors`, `SameVerdicts` |
| `finding_feed` | 2 reports in flight, 2 ids, 2 severities, other events, 1 subscriber, a channel of 2, fair | `StoredAsAnnounced`, `FeedTruthful`, `GapsOnlyFromLag`, `CatchesUp` |
| `breaker` | 3 callers, threshold 3, cooldown 2, fair | `TypeOK`, `ClosedBelowThreshold`, `CooldownServed`, `ProbesInTheEnd` |
| `retry` | 192 policies of up to 5 attempts, fair timers | `EffectsBounded`, `BackoffGrows`, `Answers` |
| `engine_lost_finality`, `engine_reused_id` | 2 requests in flight | `FinalizedForGood` and `FreshIds` are violated, see below |
| `finding_duplicate` | 2 requests in flight | `DuplicatesRefused` is violated |

**Why the bounds are enough.** Three keys are the least with which guardian sets
overlap without being equal and a removed guardian's vote still counts. `U8Max`
and `MAX_GUARDIANS` of 2 make a third voter overflow the counter and a vector of
three too long. Two proposals are the least with which ids, payloads and events
could be confused, and `U64Max` = 2 makes the last id the end of the range.
Time to 2 separates "before", "at" and "after" a deadline with a delay of 1 and
lets the deadline itself overflow.

For the engine, each race needs two requests in flight and one proposal, or two for
the ids; `MaxProposals` bounds the proposals begun and `Requests` names the
operations offered: all in `engine_announces`, without rotation; in `engine_overlap`
those that races need, without cancelling and resuming, and one rotation that takes a
guardian away, while the second proposal also lets requests overlap that do not
contend; proposing, voting and executing in `engine_durable`, where a restart brings
a second proposal with the same id, at another time of day and so with another
deadline. The engine's `U8Max` is at least the number of keys, so that the count of
votes does not wrap there; in `governance_mirror` it does. Workers are
interchangeable, so the safety runs use symmetry over them. Two runs have a view.
`engine_durable` leaves out events and `seen`. `governance_mirror` leaves out the
program's event log, the state of proposals that parted, and, once the sides forked,
everything: its properties claim nothing of these. What a view leaves out decides no
step about what is left, and no property of its run reads it.

A channel of two events, overtaken by up to five, meets every lag; the log of
other events is bounded by `MaxLog`. The breaker needs no bound; three callers
let late reports from before a trip meet two trials. The policies of `retry` have
attempts of none, one and several, a backoff below a millisecond, multipliers
whose power leaves the (3-bit) width, and caps below, between and above the
delays.

**Deadlock** is checked everywhere but in `retry`, whose future comes to its end:
the authority can always send a transaction, an idle worker take a request, a
client subscribe or leave.

**Fairness.** `FairSpec` of the engine has weak fairness of each worker's steps,
because a runtime thread that runs a handler, none of whose awaits suspends,
gets on with it. Requests, rotation and the clock are not fair. `FairFeedSpec`
adds that the stream of a connected client is polled. `FairSpec` of the breaker
lets time pass, calls end (a timeout ends them at the latest) and refused callers
ask again; how a call ends is left open. `FairSpec` of `Retry` lets timers fire
and asks nothing of the operation. Nothing on chain and nothing of a Postgres
server is assumed to happen.

### What the violation runs say

*Overlapping requests.* Records are read and written back without a lock in between,
and the counter is read in one section and incremented in another:

- `engine_lost_finality`: a request that loaded the record earlier writes it back
  over a final one; a cancelled proposal becomes executed, or an executed one
  approved (engine.rs:215-228, 241-249).
- `engine_reused_id`: two proposals take one id, one record disappears and the
  counter skips an id (engine.rs:131, 145-152).

In the same way a record loses a vote that the guard set keeps, when the one of two
approvals that voted first stores last, and both guardians are refused from then on
(engine.rs:174-197); and two executions that load the record before either stores
Executed both succeed and are both announced. TLC finds such behaviours when
`contended` is left out of `VotesCountedApart` or `ExecutedOnceApart`.

All four need two handlers that hold one id together, and `engine_overlap` shows that
nothing else does it: a request that comes later, however many others are in flight for
other proposals, finds its record as it should be.

Of contended proposals, too, something survives: the count is taken under the lock
that admits the vote, so no record ever claims more than was cast, a status was
always earned by the record it is written in, and each count is announced, once. The
order of announcements is lost: a handler publishes after it let go of every lock
(engine.rs:198), and no doc promises an order; `NoCountSkipped` and
`CountsAnnouncedOnce` say that nothing but the order is. This rests on no more keys
approving a proposal than a u8 counts: `set.len() as u8` (engine.rs:192) wraps where
the program refuses, and `EarnedStatus` fails as soon as `U8Max` is below the number
of keys. A request that was let in may take effect after a pause or a rotation;
`AdmittedInTime` states the most that holds, that it could have been let in at some
time while it was in flight.

`finding_duplicate` is a check and an insertion with a gap between them
(memory.rs:42-48): both of two reports of an id are accepted and one is lost.

### What the other runs found out about the code

- Over Postgres a vote whose upsert is cut off is in the guard set and not in the
  row: its guardian is refused a second time (engine.rs:189-197). After a restart
  the engine counts from zero again: a new proposal takes the id of an old row,
  which keeps its content and goes back to Pending, while caller and subscribers
  are told of the new content (postgres.rs:63-64). `EarnedStatus` and
  `VotesCountedApart` do not hold there; `ExecutionEarned` and `ContentKept` do.
- The engine "mirrors on-chain governance rules" (engine.rs:39) with these differences,
  which `SameVerdicts` states exactly and shows to be all:
  - anyone can propose or vote in another's name, cancel, and pause or resume the
    service (schema.rs:314-369, 393-399). engine.rs:235 says of cancelling "authority
    action, enforced by API", but the resolver asks for nothing but the id, where the
    program requires the authority's signature (lib.rs:313);
  - a negative timelock is refused at lib.rs:40 and taken at engine.rs:72;
  - an execution goes by the record's threshold, set at creation (engine.rs:225), where
    the program goes by the one in force (lib.rs:191);
  - with 255 approvers the program refuses one more, and the engine's count wraps
    (engine.rs:192);
  - the program takes a second cancel, without effect, and the engine refuses it.
- A gap in a subscription is silent (schema.rs:418).
- With a multiplier of 0 the second delay is 0, and `capped as u64` (retry.rs:42)
  drops high bits of a cap beyond 2^64 ms; `BackoffGrows` excludes both.
- breaker.rs:36 says "A single trial call is permitted to probe recovery"; while
  half-open, `acquire` lets everyone in (breaker.rs:96). The breaker also closes on
  any success, one that was admitted before the trip included (breaker.rs:112),
  where the comment on `open_duration` speaks of a cooldown without exception.
  Apart from such a success the cooldown is kept, which `CooldownServed` states
  and TLAPS proves.

## 4. What is proved

TLAPS checks every step. TLC meets the same statements on the instances above; the
theorems are for every value of the constants that their assumptions admit.

### The on-chain program

For every finite set of keys, all programs and hashes, every width and every
behaviour of `UpgradeGovernance`.

| Theorem | Statement |
|---|---|
| `TypeCorrect` | `Spec => []TypeOK` |
| `IdsNeverReused` | `Spec => []IdsDense` |
| `VotesCountedOnce` | `Spec => []VoteCountExact` |
| `QuorumAlwaysReachable` | `Spec => []QuorumReachable` |
| `SettledForGood` | `Spec => []SettledOnce` |
| `NominationsAreCurrent` | `Spec => []NoStaleNomination` |
| `TimelockHolds` | `Spec => []TimelockServed` |
| `LogTellsAccounts` | `Spec => []EventLogFaithful` |
| `GovernanceRefinesLifecycle` | `Spec => ImplementsLifecycle` |

Assumptions: `KeysAssumption` (keys are finitely many, nobody signs for the
default key, vectors are sequences of keys), `WidthAssumption` (widths are
naturals, `MAX_GUARDIANS` fits a u8, delays fit an i64) and
`NoAccountAssumption` (an empty address is not an account).

Argument. Type correctness goes first, action by action; administration is
handled once in `AdministerType` and `AdministerFrame`, the rest in
`ProposeFrame` and `ExistsFrame`, which say what an action leaves alone and are
cited by everything after. Three properties are inductive once types are known
(`IdsDense`, `VoteCountExact`, `SettledOnce`, and `NoStaleNomination` alike).
Two are not and rest on a stronger invariant: `QuorumReachable` on
`ElectorateSound` (the threshold is at most the number of guardians, by the
bijection that an injective vector gives), and `TimelockServed` on
`DeadlinesLogged` (each logged proposal's deadline is its block time plus the
delay, each logged execution's block time is past the deadline, and each account
carries its own id), which needs `IdsDense` to know that nothing is logged
before initialization. `EventLogFaithful` is inductive per proposal and for a
finite log (`LogInv`): an instruction adds one event, which belongs to one name
and one id (`LogGrows`), and every other proposal keeps its account, its markers
and its events (`FaithfulKept`). That the number an approval announces is new
needs `VoteCountExact`, and that nothing is said of an id to come
`DeadlinesLogged`. The refinement maps every instruction to one abstract
action or a stutter; `VoteCountExact` turns the counter the code compares into
the set the abstract specification counts, and `ElectorateSound` makes every
installed council a legal one.

### Engine and program

For every finite set of keys, all programs and hashes, and every width:

| Theorem | Statement |
|---|---|
| `ServiceMirrorsProgram` | `MirrorSpec => []Mirrors` |
| `SidesDecideAlike` | `MirrorSpec => []SameVerdicts` |

Assumptions: the program's, and `NothingAssumption` (what stands for no engine or
no record is not one). It is about requests that the engine handles one at a time,
as `GovernanceMirror` is; what overlapping requests do to records is in
`AuditEngineProofs` and `AuditEngineMemoryProofs`.

Argument. Whatever the two do together is an instruction of the program or leaves it
alone, so the pair implements the program (`PairImplementsProgram`) and the theorems
above hold inside it. `Mirrors` compares answers, which is too little to carry on
with: two sides that answer alike may still differ on who voted, and part at the
next vote. The inductive invariant `Agreement` therefore compares state, as long as
nothing forked: the settings are equal (`SameSettings`), each record has its account
and each account its record (`Twins`), and unless they parted these agree in voters,
content, deadline, count, and in the status, which is worked out from the account
(`Agree`). With the invariants of both sides it makes up `Together`.

The verdicts come first, rule by rule (`StartVerdict`, `ProposalVerdict`, `VoteVerdict`,
`ExecutionVerdict`, `CancelVerdict`): agreeing state makes the two sides decide alike
but for signers, threshold and width, which is `SameVerdicts` (`TogetherVerdicts`).
Then, request by request, what both take keeps them together, and what one takes alone
marks them as parted or forked: `DeployAgrees`, `ProposeAgrees`, `ApproveAgrees`,
`SettleAgrees` (execute and cancel), `SettingsAgree` (pause and rotation). A new
proposal lands on a vacant pair by `IdsDense`; the count a u8 holds is the count of the
markers by `VoteCountExact` (`CountAsU8`); and `SettledOnce` is what makes the order in
which the status is read from the two flags immaterial.

### The engine

For every finite set of workers and of keys, every threshold, timelock, guardian
vector and width (`EngineAssumption`: the vectors are over the keys,
`MAX_GUARDIANS` fits a u8, the timelock an i64; `NoRecordAssumption`: the absent
row is not a record). The number of proposals is bounded by `MaxProposals`, any
positive number, which stands for the end of the 64-bit counter.

`AuditEngineProofs` is about both stores, with every fault and restart:

| Theorem | Statement | For |
|---|---|---|
| `EngineTypes` | `Spec => []TypeOK` | either store |
| `EffectsAdmitted` | `Spec => []AdmittedInTime` | either store |
| `ExecutionsEarned` | `Spec => []ExecutionEarned` | either store |
| `VotedContentKept` | `Spec => ContentKept` | `Backend = "postgres"` |

`AuditEngineMemoryProofs` is about the store the node wires:

| Theorem | Statement | For `Backend = "memory"` and |
|---|---|---|
| `StatusEarned` | `Spec => []EarnedStatus` | `NoWrap` |
| `CounterPasses` | `Spec => []CounterPastRecords` | |
| `CountsDiffer` | `Spec => CountsAnnouncedOnce` | `NoWrap` |
| `NoneSkipped` | `Spec => []NoCountSkipped` | `NoWrap` |
| `FinalityAtRest` | `Spec => FinalAtRest` | |
| `IdsFreshApart` | `OverlapSpec => FreshApart` | |
| `ExecutionAnnouncedOnce` | `OverlapSpec => ExecutedOnceApart` | |
| `EveryVoteCounted` | `OverlapSpec => []VotesCountedApart` | `NoWrap` |

They are about any number of requests in flight. `NoWrap`: the keys that any rotation
makes guardians are no more than a u8 counts; beyond it the count wraps (engine.rs:192)
and is no longer the number of votes. The runs over memory satisfy it. The last three are about
proposals that no two handlers held together, which is the boundary of what is true: a
contended proposal may lose a vote, its finality or its record, as the violation runs
show. Over Postgres `EarnedStatus` and `VotesCountedApart` fail for other reasons
(section 3).

Argument. `IInv` says of which kind a handler is at each step, that it has the
record and the key that its next step uses, and that an id is left for each
proposal begun (`IdsLeft`). From it come frames (lemmas) that name where things come
from instead of going through all actions again: a record in hand was in hand before,
was made by `ReadConfig`, or comes from `Load`, `Vote` or `Decide` (`CarriedFrom`); a
stored record was written by a handler or was there (`StoredFrom`); the guardians
change by rotation, the counter by `Count`, both by a restart (`ConfigFrom`).
Each invariant below is then shown for those few origins.

- `Admitted`: what a request was let in by is in `seen` from then on, and stays.
- `GoesWithRow`, in `ExecutionInv`: over Postgres a record in hand, astray or not,
  has the deadline and threshold of its row, so that writing its status back
  writes an earned one. What was earned stays earned because `voted` only grows
  and the clock does not step back; this is where restarts do no harm, and a wrap
  only makes a count smaller.
- `StatusInv` (memory): every record, stored or in hand, counts no more than the
  present guard set. Handlers that overwrite each other's records may set a count
  back, never beyond it. It needs that only keys once made guardians are in a
  guard set (`GuardiansOnly`), which keeps the count from wrapping.
- `CounterInv` (memory): a record the counter has not passed is about to be
  counted, and no handler is ahead of the counter. So two proposals with one id
  leave no record behind that is out of the counter's reach.
- `CountInv` (memory): two approvals in flight for one proposal carry different
  counts, none above the guard set, and no announced count is above it either; the
  next vote therefore has a new one.
- For `FinalAtRest` (memory): a record changes only at the hand of a handler that holds
  it (`WritesFrom`), and a handler gets hold of an id through the counter, which is past
  every record that nobody holds, or through `Load`, which turns a final record away
  (`HoldsFrom`).
- `ApartInv` (memory) is about a proposal that was not contended for: a handler that
  holds it alone finds it as it left it (`SoleWrites`, `SoleVotes`), so what was free or
  open when it was read is so when it is written (`Open`), and an execution in hand is
  the first (`Once`).
- `TallyInv` (memory): the record in the hand of the handler that holds such a proposal
  counts the guard set exactly, and so does the stored one unless that handler is about
  to store.

All strengthened invariants were model-checked before they were proved.

### Findings and the feed

`FindingAssumption`: the absent record is not a severity. `BusAssumption`: the
channel holds something, and an absent receiver is no position.
`FeedAssumption`: the other events are of the five other variants of
`DomainEvent`.

| Theorem | Statement |
|---|---|
| `RegistryMatchesEvents` | `Spec => []StoredAsAnnounced` (`FindingStore`) |
| `FeedRegistryMatches` | `FeedSpec => []StoredAsAnnounced` |
| `GapsAreLags` | `FeedSpec => []GapsOnlyFromLag` |
| `FeedTellsTruth` | `FeedSpec => []FeedTruthful` |

The invariant `Accounted` says that a stored finding is announced or its writer
is about to announce it, and that whatever is or will be announced is stored;
between requests nobody is about to. `FeedImplementsStore` (`FeedSpec => Spec`)
carries it over to the composition. `Positions` says where a receiver may be and
that what it was not shown on its way has left the channel: that much is true of a
log that grows at its end and of a receiver that only moves to the oldest event
left. `Told` says that a finding the log tells of was announced; with what is
stored, that gives `FeedTruthful`.

### The breaker and retry

For the breaker (`BreakerAssumption`: the threshold is a u32):

| Theorem | Statement |
|---|---|
| `BreakerTypes` | `Spec => []TypeOK` |
| `TripsAtThreshold` | `Spec => []ClosedBelowThreshold` |
| `CooldownHolds` | `Spec => CooldownServed` |

`ClosedBelowThreshold` and the types need each other: below the threshold the
counter cannot saturate. `CooldownTracked` adds that once tripped the breaker's
own reading is the time since it last opened, and that it probes only when that
time is served.

For retry (`RetryAssumption`: widths are naturals, a millisecond is at least one
unit of time, policies are of the type):

| Theorem | Statement |
|---|---|
| `RetriesBounded` | `Spec => []EffectsBounded` |
| `DelaysGrow` | `Spec => BackoffGrows` |

The invariant says that only attempts begun have had or may still have an effect,
that none is slept for beyond the last, and that an answer was earned; attempts
are numbered, so effects are no more than attempts. What the delays are does not
matter there.

`DelaysGrow` is about them. `saturating_pow` is a recursive function, and the
library's induction rules, which take a predicate as a parameter, cannot be
instantiated here; `LeastNumber` (a nonempty set of naturals has a least member, from
the well-foundedness of `<`) takes their place. A least number up to which the
recursion had two solutions, or none, cannot exist (`PowersUnique`, `PowersExist`),
so the function meets its equation (`PowUnfolds`), and with a positive base each
power, cut off at the width, is no less than the one before (`PowGrows`).
Multiplying and
capping keep that order, and a capped delay fits the final cast (`DelayGrows`). `BackoffInv` says
that the delay chosen last is that of the attempt that failed last, so the property,
which compares two consecutive delays, is about two consecutive powers.

### Only model-checked

Every invariant and action property of the passing runs is proved. What is left:

- `EffectsAnnounced`, `CatchesUp`, `ProbesInTheEnd`, `Answers`: liveness under
  fairness.
- The three violation runs are counterexamples, found by TLC.

## 5. Plan

1. Done: `UpgradeGovernance`, `UpgradeLifecycle`, `FindingStore`,
   `CircuitBreaker`, with their proofs.
2. Done: `AuditEngine` over both stores, `EngineOverlap`, `GovernanceMirror`, `EventBus`,
   `FindingFeed`, `Retry`.
3. Done: proofs for every invariant and every action property the passing runs
   check, and the two refinements (`UpgradeGovernance` of `UpgradeLifecycle`,
   `FindingFeed` of `FindingStore`).
4. Left: liveness, which the prover cannot treat, stays with TLC; shorter proofs
   where two theorems go through the same cases.

## 6. Not modelled

- The rate limiter: the algorithm is the governor crate's; a request it refuses
  never reaches the engine.
- Argument parsing, HTTP routing, playground, telemetry and the demo (wiring and
  output), error texts, `ThreatClass` codes and other conversions without state.
- SQL beyond the two statements that change or read one row; list and count read.
- Rent and account sizes; hashing of artifacts (`BuildHash::of`, `matches`).
- Clocks: the host's wall clock is taken not to step back, and in
  `GovernanceMirror` to agree with the cluster's.
