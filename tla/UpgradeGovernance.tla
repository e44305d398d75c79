-------------------------- MODULE UpgradeGovernance --------------------------
(***************************************************************************)
(* The on-chain program of anchor/programs/securedeploy-core: one          *)
(* governance account, one proposal account per id, and one approval       *)
(* marker account per (id, guardian).                                      *)
(*                                                                         *)
(* A transaction either commits or leaves no trace, so every instruction   *)
(* is one atomic action and a failing one is no action at all.  The order  *)
(* in which transactions land, who signs them, and how much time passes    *)
(* between them are arbitrary.                                             *)
(*                                                                         *)
(* Left out: rent and bump seeds, and the proposer's name, which is stored *)
(* and never read.  The guardian vector is stored as the set of its        *)
(* members, since the program only ever asks who is in it.                 *)
(***************************************************************************)
EXTENDS Integers, FiniteSets, Sequences, Functions

CONSTANTS
  Keys,          \* the public keys that may sign
  DefaultKey,    \* Pubkey::default(), which nobody can sign for
  Programs,      \* program ids whose upgrades are governed
  BuildHashes,   \* 32-byte hashes, ZeroHash among them
  ZeroHash,
  GuardianVecs,  \* the guardian vectors callers pass
  Timelocks,     \* the timelock_seconds callers pass
  MAX_GUARDIANS, \* 16
  U8Max, U64Max, I64Max,
  NoAccount      \* an address where no account has been created

ASSUME KeysAssumption ==
  /\ IsFiniteSet(Keys)
  /\ DefaultKey \notin Keys
  /\ GuardianVecs \subseteq Seq(Keys)

ASSUME WidthAssumption ==
  /\ U8Max \in Nat /\ U64Max \in Nat /\ I64Max \in Nat
  /\ MAX_GUARDIANS \in Nat
  /\ MAX_GUARDIANS <= U8Max
  /\ Timelocks \subseteq {t \in Int : t <= I64Max}

VARIABLES
  governance,   \* the governance account
  proposals,    \* the proposal account at each id's address
  approvals,    \* the approval markers: the <<id, guardian>> whose account exists
  events,       \* the events emitted; two of them carry their block time, `at`
  now,          \* the Clock sysvar's unix_timestamp
  nominator     \* history: the authority that made the standing nomination

vars == <<governance, proposals, approvals, events, now, nominator>>

(***************************************************************************)
(* Accounts and events                                                     *)
(***************************************************************************)
\* An id is a proposal_count before its increment, which is checked.
ProposalIds == 0..(U64Max - 1)

Times == 0..I64Max

Governance ==
  [ authority         : Keys,
    pending_authority : Keys \cup {DefaultKey},
    guardians         : SUBSET Keys,
    threshold         : 1..U8Max,
    timelock_seconds  : Times,
    paused            : BOOLEAN,
    proposal_count    : 0..U64Max ]

Proposal ==
  [ id         : ProposalIds,
    program_id : Programs,
    build_hash : BuildHashes \ {ZeroHash},
    eta        : Times,
    approvals  : 0..U8Max,
    executed   : BOOLEAN,
    cancelled  : BOOLEAN ]

\* An address with nothing at it is not taken for an account.
ASSUME NoAccountAssumption ==
  NoAccount \notin Governance /\ NoAccount \notin Proposal

UpgradeProposed(id, program_id, build_hash, eta) ==
  [ name |-> "UpgradeProposed", id |-> id, program_id |-> program_id,
    build_hash |-> build_hash, eta |-> eta, at |-> now ]

\* Emitted before the increment.
FaultyUpgradeApproved(id, guardian, count) ==
  [ name |-> "UpgradeApproved", id |-> id, guardian |-> guardian,
    approvals |-> count - 1 ]

UpgradeApproved(id, guardian, count) ==
  [ name |-> "UpgradeApproved", id |-> id, guardian |-> guardian,
    approvals |-> count ]

UpgradeExecuted(p) ==
  [ name |-> "UpgradeExecuted", id |-> p.id, program_id |-> p.program_id,
    build_hash |-> p.build_hash, at |-> now ]

(***************************************************************************)
(* Conditions.  A Faulty... operator is the definition below it with a     *)
(* slip that a change to the program could make; no specification uses it. *)
(***************************************************************************)
Initialized == governance # NoAccount

\* `init_if_needed` in place of `init`.
FaultyGovernanceVacant == TRUE

\* The `init` constraint on the Governance account.
GovernanceVacant == ~Initialized

\* A plain `+` for what is as wide as a time, in a build without overflow checks.
FaultyFits(n, max) == n <= max \/ max = I64Max

\* checked_add: the sum must fit its type.
Fits(n, max) == n <= max

\* The loop over pairs is dropped.
FaultyValidate(vec, threshold) ==
  /\ Len(vec) \in 1..MAX_GUARDIANS
  /\ threshold \in 1..Len(vec)

validate_guardians(vec, threshold) ==
  /\ Len(vec) \in 1..MAX_GUARDIANS
  /\ IsInjective(vec)
  /\ threshold \in 1..Len(vec)

is_guardian(key) == key \in governance.guardians

\* The Accounts constraint `has_one = authority`, with the key that signed.
AdminOnly(signer) == Initialized /\ signer = governance.authority

Active == Initialized /\ ~governance.paused

Exists(id) == proposals[id] # NoAccount

\* require!(!proposal.cancelled) is forgotten.
FaultyUnsettled(p) == ~p.executed

\* Neither executed nor cancelled.
Unsettled(p) == ~p.executed /\ ~p.cancelled

FaultyApprovalVacant(id, guardian) == TRUE

\* The `init` constraint on the Approval account.
ApprovalVacant(id, guardian) == <<id, guardian>> \notin approvals

FaultyQuorumMet(p) == p.approvals + 1 >= governance.threshold

QuorumMet(p) == p.approvals >= governance.threshold

TimelockServedFor(p) == now >= p.eta

(***************************************************************************)
(* What an instruction requires: the constraints on its accounts, its      *)
(* require!s and its checked arithmetic.  A transaction fails otherwise.   *)
(***************************************************************************)
\* The timelock is left to the caller.
FaultyEta == now

\* now.checked_add(timelock_seconds), before the width check.
Eta == now + governance.timelock_seconds

MayInitialize(vec, threshold, timelock) ==
  GovernanceVacant /\ timelock >= 0 /\ validate_guardians(vec, threshold)

MaySetGuardians(signer, vec, threshold) ==
  AdminOnly(signer) /\ validate_guardians(vec, threshold)

MayPropose(proposer, build_hash) ==
  /\ Active
  /\ build_hash # ZeroHash
  /\ proposer = governance.authority \/ is_guardian(proposer)
  /\ Fits(Eta, I64Max)
  /\ Fits(governance.proposal_count + 1, U64Max)
  /\ ~Exists(governance.proposal_count)

MayApprove(guardian, id) ==
  /\ Active
  /\ is_guardian(guardian)
  /\ Exists(id) /\ Unsettled(proposals[id])
  /\ ApprovalVacant(id, guardian)
  /\ Fits(proposals[id].approvals + 1, U8Max)

MayExecute(id) ==
  /\ Active
  /\ Exists(id) /\ Unsettled(proposals[id])
  /\ QuorumMet(proposals[id])
  /\ TimelockServedFor(proposals[id])

\* Works while paused, and on a proposal that is cancelled already.
MayCancel(signer, id) == AdminOnly(signer) /\ Exists(id) /\ ~proposals[id].executed

(***************************************************************************)
(* Instructions                                                            *)
(***************************************************************************)
Init ==
  /\ governance = NoAccount
  /\ proposals = [id \in ProposalIds |-> NoAccount]
  /\ approvals = {}
  /\ events = {}
  /\ now = 0
  /\ nominator = DefaultKey

initialize(authority, vec, threshold, timelock) ==
  /\ MayInitialize(vec, threshold, timelock)
  /\ governance' = [ authority         |-> authority,
                     pending_authority |-> DefaultKey,
                     guardians         |-> Range(vec),
                     threshold         |-> threshold,
                     timelock_seconds  |-> timelock,
                     paused            |-> FALSE,
                     proposal_count    |-> 0 ]
  /\ UNCHANGED <<proposals, approvals, events, now, nominator>>

set_guardians(signer, vec, threshold) ==
  /\ MaySetGuardians(signer, vec, threshold)
  /\ governance' = [governance EXCEPT !.guardians = Range(vec),
                                      !.threshold = threshold]
  /\ UNCHANGED <<proposals, approvals, events, now, nominator>>

set_paused(signer, paused) ==
  /\ AdminOnly(signer)
  /\ governance' = [governance EXCEPT !.paused = paused]
  /\ UNCHANGED <<proposals, approvals, events, now, nominator>>

\* Naming DefaultKey withdraws the nomination.
transfer_authority(signer, new_authority) ==
  /\ AdminOnly(signer)
  /\ governance' = [governance EXCEPT !.pending_authority = new_authority]
  /\ nominator' = signer
  /\ UNCHANGED <<proposals, approvals, events, now>>

\* The nomination is left standing.
FaultyHandover == [governance EXCEPT !.authority = governance.pending_authority]

\* What accept_authority writes.
Handover ==
  [governance EXCEPT !.authority = governance.pending_authority,
                     !.pending_authority = DefaultKey]

accept_authority(signer) ==
  /\ Initialized
  /\ governance.pending_authority # DefaultKey
  /\ governance.pending_authority = signer
  /\ governance' = Handover
  /\ UNCHANGED <<proposals, approvals, events, now, nominator>>

propose_upgrade(proposer, program_id, build_hash) ==
  LET id == governance.proposal_count
  IN  /\ MayPropose(proposer, build_hash)
      /\ proposals' = [proposals EXCEPT ![id] =
                         [ id |-> id, program_id |-> program_id,
                           build_hash |-> build_hash, eta |-> Eta,
                           approvals |-> 0,
                           executed |-> FALSE, cancelled |-> FALSE ]]
      /\ governance' = [governance EXCEPT !.proposal_count = id + 1]
      /\ events' = events \cup {UpgradeProposed(id, program_id, build_hash, Eta)}
      /\ UNCHANGED <<approvals, now, nominator>>

approve_upgrade(guardian, id) ==
  LET count == proposals[id].approvals + 1
  IN  /\ MayApprove(guardian, id)
      /\ approvals' = approvals \cup {<<id, guardian>>}
      /\ proposals' = [proposals EXCEPT ![id].approvals = count]
      /\ events' = events \cup {UpgradeApproved(id, guardian, count)}
      /\ UNCHANGED <<governance, now, nominator>>

\* Anybody may sign this one.
execute_upgrade(id) ==
  /\ MayExecute(id)
  /\ proposals' = [proposals EXCEPT ![id].executed = TRUE]
  /\ events' = events \cup {UpgradeExecuted(proposals[id])}
  /\ UNCHANGED <<governance, approvals, now, nominator>>

cancel_proposal(signer, id) ==
  /\ MayCancel(signer, id)
  /\ proposals' = [proposals EXCEPT ![id].cancelled = TRUE]
  /\ UNCHANGED <<governance, approvals, events, now, nominator>>

\* The cluster's clock does not run backwards; it may jump.
Tick ==
  /\ now' \in (now + 1)..I64Max
  /\ UNCHANGED <<governance, proposals, approvals, events, nominator>>

Administer(signer) ==
  \/ \E vec \in GuardianVecs, threshold \in 0..U8Max, timelock \in Timelocks :
       initialize(signer, vec, threshold, timelock)
  \/ \E vec \in GuardianVecs, threshold \in 0..U8Max :
       set_guardians(signer, vec, threshold)
  \/ \E paused \in BOOLEAN : set_paused(signer, paused)
  \/ \E key \in Keys \cup {DefaultKey} : transfer_authority(signer, key)
  \/ accept_authority(signer)

Upgrade(signer) ==
  \/ \E program_id \in Programs, build_hash \in BuildHashes :
       propose_upgrade(signer, program_id, build_hash)
  \/ \E id \in ProposalIds :
       \/ approve_upgrade(signer, id)
       \/ execute_upgrade(id)
       \/ cancel_proposal(signer, id)

Next ==
  \/ Tick
  \/ \E signer \in Keys : Administer(signer) \/ Upgrade(signer)

Spec == Init /\ [][Next]_vars

(***************************************************************************)
(* Properties                                                              *)
(***************************************************************************)
VotersOf(id) == {g \in Keys : <<id, g>> \in approvals}

EventsOf(name, id) == {e \in events : e.name = name /\ e.id = id}

\* Every account holds values its Rust type can hold: no counter, threshold or
\* deadline leaves its integer's range, and no delay is negative.
TypeOK ==
  /\ governance \in Governance \cup {NoAccount}
  /\ proposals \in [ProposalIds -> Proposal \cup {NoAccount}]
  /\ approvals \subseteq ProposalIds \X Keys
  /\ now \in Times
  /\ nominator \in Keys \cup {DefaultKey}

\* The `approvals` counter of a proposal is the number of distinct keys whose
\* approval marker exists, through any rotation of the guardians, and no
\* marker precedes its proposal.
VoteCountExact ==
  \A id \in ProposalIds :
    IF Exists(id) THEN proposals[id].approvals = Cardinality(VotersOf(id))
                  ELSE VotersOf(id) = {}

\* However the guardians are rotated, a proposal can still collect enough
\* approvals: those it has and those of the guardians that have not voted
\* reach the threshold.  (validate_guardians rejects duplicates for this.)
QuorumReachable ==
  Initialized =>
    \A id \in ProposalIds :
      Cardinality(VotersOf(id) \cup governance.guardians) >= governance.threshold

\* No proposal is both executed and cancelled, and none is executed without
\* a vote, although cancelling is allowed on a proposal in any other state and
\* the threshold may be lowered at any time.
SettledOnce ==
  \A id \in ProposalIds :
    Exists(id) /\ proposals[id].executed =>
      ~proposals[id].cancelled /\ proposals[id].approvals >= 1

\* Ids are handed out without gaps and never reused: the accounts that exist
\* are those below proposal_count, so `init` of the next one cannot collide.
IdsDense ==
  {id \in ProposalIds : Exists(id)} =
    IF Initialized THEN 0..(governance.proposal_count - 1) ELSE {}

\* A standing nomination was made by the authority in office: none made by a
\* predecessor survives a handover.
NoStaleNomination ==
  Initialized /\ governance.pending_authority # DefaultKey =>
    nominator = governance.authority

\* Between the block that proposed an upgrade and the block that executed it
\* at least timelock_seconds went by.
TimelockServed ==
  \A id \in ProposalIds :
    \A e \in EventsOf("UpgradeProposed", id), x \in EventsOf("UpgradeExecuted", id) :
      x.at - e.at >= governance.timelock_seconds

\* Somebody who only reads the emitted events has the accounts right: one
\* UpgradeProposed per account, the approvals numbered 1, 2, ... by distinct
\* voters, and an UpgradeExecuted with the proposed build exactly when the
\* account says executed.
EventLogFaithful ==
  \A id \in ProposalIds :
    LET proposed == EventsOf("UpgradeProposed", id)
        approved == EventsOf("UpgradeApproved", id)
        executed == EventsOf("UpgradeExecuted", id)
        p == proposals[id]
    IN  IF ~Exists(id)
        THEN proposed \cup approved \cup executed = {}
        ELSE /\ Cardinality(proposed) = 1
             /\ {e.guardian : e \in approved} = VotersOf(id)
             /\ {e.approvals : e \in approved} = 1..p.approvals
             /\ Cardinality(approved) = p.approvals
             /\ Cardinality(executed) = (IF p.executed THEN 1 ELSE 0)
             /\ \A e \in proposed \cup executed :
                  e.program_id = p.program_id /\ e.build_hash = p.build_hash

(***************************************************************************)
(* The program implements the abstract life of an upgrade.                 *)
(***************************************************************************)
StageOf(id) ==
  IF ~Exists(id) THEN "absent"
  ELSE IF proposals[id].executed THEN "released"
  ELSE IF proposals[id].cancelled THEN "withdrawn"
  ELSE "open"

PayloadOf(id) ==
  IF Exists(id) THEN <<proposals[id].program_id, proposals[id].build_hash>>
                ELSE NoAccount

Council == IF Initialized THEN governance.guardians ELSE {}
VotesNeeded == IF Initialized THEN governance.threshold ELSE 0
Halted == IF Initialized THEN governance.paused ELSE FALSE
Ripe == {id \in ProposalIds : Exists(id) /\ now >= proposals[id].eta}

Lifecycle == INSTANCE UpgradeLifecycle WITH
  Ids      <- ProposalIds,
  Voters   <- Keys,
  Payloads <- Programs \X (BuildHashes \ {ZeroHash}),
  None     <- NoAccount,
  council  <- Council,
  quorum   <- VotesNeeded,
  halted   <- Halted,
  stage    <- [id \in ProposalIds |-> StageOf(id)],
  payload  <- [id \in ProposalIds |-> PayloadOf(id)],
  votes    <- [id \in ProposalIds |-> VotersOf(id)],
  ripe     <- Ripe

\* Every instruction is a step of UpgradeLifecycle, or invisible in it: votes
\* only from the guardians of the moment and only while open, a release only
\* with a quorum of distinct voters after the delay, nothing but
\* administration and cancelling while paused, and no way back from a release
\* or a cancellation.
ImplementsLifecycle == Lifecycle!Spec
===============================================================================
