--------------------------- MODULE GovernanceMirror ---------------------------
(***************************************************************************)
(* The off-chain engine as the mirror of the on-chain program: both are    *)
(* set up with the same parameters and given the same requests, one at a   *)
(* time and at the same time of day, and each accepts or refuses by its    *)
(* own rules.  What GraphQL queries then answer is compared with the       *)
(* accounts.                                                               *)
(*                                                                         *)
(* Whoever makes a request signs the transaction, which the program looks  *)
(* at; the service asks nobody who they are.  A proposer's or guardian's   *)
(* name is an argument of the service's like any other.                    *)
(*                                                                         *)
(* UpgradeGovernance is the program.  A handler of the engine is one step  *)
(* here, since nothing else runs meanwhile; AuditEngine has its steps.     *)
(* Here a record has its content, and a build hash its spelling.           *)
(*                                                                         *)
(* Left out: handing the authority over, which the engine has no operation *)
(* for; a restart, after which the engine has nothing; the proposer and    *)
(* the creation time, which have no counterpart in an account's logic.     *)
(***************************************************************************)
EXTENDS UpgradeGovernance

CONSTANTS
  Malformed,   \* a text that is no 64-digit hexadecimal number
  NoEngine, NoRecord

VARIABLES
  config,    \* the engine's GovernanceConfig, once it runs
  records,   \* its proposal store
  voters,    \* its guard sets
  parted,    \* history: the ids of which one side took a request and one did not
  forked     \* history: so they did with the settings or with a new id

mirror == <<config, records, voters>>
history == <<parted, forked>>
mirrorVars == <<vars, mirror, history>>

\* Hexadecimal digits come in two cases.
HexTexts == (BuildHashes \X {"lower", "upper"}) \cup {Malformed}

GovernanceConfig ==
  [ authority : Keys, guardians : SUBSET Keys, threshold : 1..U8Max,
    timelock_seconds : Int, paused : BOOLEAN, proposal_count : 0..U64Max ]

Record ==
  [ id : ProposalIds, program_id : Programs, build_hash : BuildHashes \X {"lower"},
    eta : Int, approvals : 0..U8Max, threshold : 1..U8Max,
    status : {"Pending", "Approved", "Executed", "Cancelled"} ]

\* What stands for nothing is not taken for something.
ASSUME NothingAssumption == NoEngine \notin GovernanceConfig /\ NoRecord \notin Record

(***************************************************************************)
(* Rules and conversions.  A Faulty... operator is the definition below it *)
(* with a slip; no specification uses it.                                  *)
(***************************************************************************)
\* The check for all zeroes is dropped.
FaultyHashAccepted(text) == text # Malformed

\* `BuildHash::from_hex` accepts it: 32 bytes, not all zero.
HashAccepted(text) == text # Malformed /\ text[1] # ZeroHash

to_hex(hash) == <<hash, "lower">>

\* `>` for `>=`.
FaultyReached(count, threshold) == count > threshold

Reached(count, threshold) == count >= threshold

\* `set.len() as u8`
len_as_u8(set) == Cardinality(set) % (U8Max + 1)

Final(rec) == rec.status \in {"Executed", "Cancelled"}

HasRecord(id) == config # NoEngine /\ records[id] # NoRecord

can_execute(rec, threshold) == Reached(rec.approvals, threshold) /\ now >= rec.eta

(***************************************************************************)
(* What the engine asks before a handler takes effect                      *)
(***************************************************************************)
TakesProposal(text, proposer) ==
  /\ ~config.paused
  /\ HashAccepted(text)
  /\ proposer = config.authority \/ proposer \in config.guardians
  /\ Fits(now + config.timelock_seconds, I64Max)

TakesVote(id, guardian) ==
  /\ ~config.paused
  /\ guardian \in config.guardians
  /\ HasRecord(id) /\ ~Final(records[id])
  /\ guardian \notin voters[id]

TakesExecutionBy(threshold, id) ==
  /\ ~config.paused
  /\ HasRecord(id) /\ ~Final(records[id])
  /\ can_execute(records[id], threshold)

\* The record's own threshold is what the engine goes by.
TakesExecution(id) == HasRecord(id) /\ TakesExecutionBy(records[id].threshold, id)

\* Not who cancels, though engine.rs:235 has the API ask.
TakesCancel(id) == HasRecord(id) /\ ~Final(records[id])

(***************************************************************************)
(* The engine's handlers, whole.  One that refuses changes nothing.        *)
(***************************************************************************)
Keep == UNCHANGED mirror

\* build_state: GovernanceConfig::new, then AuditEngine::new over empty stores.
build_state(authority, vec, threshold, timelock) ==
  IF validate_guardians(vec, threshold)
  THEN /\ config' = [ authority |-> authority, guardians |-> Range(vec),
                      threshold |-> threshold, timelock_seconds |-> timelock,
                      paused |-> FALSE, proposal_count |-> 0 ]
       /\ UNCHANGED <<records, voters>>
  ELSE Keep

propose(program_id, text, proposer) ==
  LET id == config.proposal_count
  IN  IF TakesProposal(text, proposer)
      THEN /\ records' = [records EXCEPT ![id] =
                            [ id |-> id, program_id |-> program_id,
                              build_hash |-> to_hex(text[1]),
                              eta |-> now + config.timelock_seconds,
                              approvals |-> 0, threshold |-> config.threshold,
                              status |-> "Pending" ]]
           /\ config' = [config EXCEPT !.proposal_count = id + 1]
           /\ UNCHANGED voters
      ELSE Keep

approve(id, guardian) ==
  LET count == len_as_u8(voters[id] \cup {guardian})
  IN  IF TakesVote(id, guardian)
      THEN /\ voters' = [voters EXCEPT ![id] = @ \cup {guardian}]
           /\ records' = [records EXCEPT
                ![id].approvals = count,
                ![id].status = IF Reached(count, records[id].threshold)
                               THEN "Approved" ELSE @]
           /\ UNCHANGED config
      ELSE Keep

execute(id) ==
  IF TakesExecution(id)
  THEN /\ records' = [records EXCEPT ![id].status = "Executed"]
       /\ UNCHANGED <<config, voters>>
  ELSE Keep

cancel(id) ==
  IF TakesCancel(id)
  THEN /\ records' = [records EXCEPT ![id].status = "Cancelled"]
       /\ UNCHANGED <<config, voters>>
  ELSE Keep

engine_set_paused(paused) ==
  /\ config' = [config EXCEPT !.paused = paused]
  /\ UNCHANGED <<records, voters>>

engine_set_guardians(vec, threshold) ==
  IF validate_guardians(vec, threshold)
  THEN /\ config' = [config EXCEPT !.guardians = Range(vec), !.threshold = threshold]
       /\ UNCHANGED <<records, voters>>
  ELSE Keep

(***************************************************************************)
(* Queries                                                                 *)
(***************************************************************************)
status_str(status) ==
  CASE status = "Pending" -> "pending" [] status = "Approved" -> "approved"
    [] status = "Executed" -> "executed" [] status = "Cancelled" -> "cancelled"

GqlProposal(id) == [records[id] EXCEPT !.status = status_str(@)]

Recorded == {id \in ProposalIds : HasRecord(id)}

\* The query for the configuration; guardians are compared as a set.
GqlConfig == config

GqlStats ==
  [ proposals |-> Cardinality(Recorded),
    executed  |-> Cardinality({id \in Recorded : records[id].status = "Executed"}) ]

(***************************************************************************)
(* The two together                                                        *)
(***************************************************************************)
MirrorInit ==
  /\ Init
  /\ config = NoEngine
  /\ records = [id \in ProposalIds |-> NoRecord]
  /\ voters = [id \in ProposalIds |-> {}]
  /\ parted = {}
  /\ forked = FALSE

\* What the program asks of a request besides: its signature, and 32 bytes.
ChainTakesProposal(signer, proposer, text) ==
  signer = proposer /\ text # Malformed /\ MayPropose(proposer, text[1])

ChainTakesVote(signer, id, guardian) == signer = guardian /\ MayApprove(guardian, id)

\* The program takes a second cancel, to no effect.
ChainTakesCancel(signer, id) == MayCancel(signer, id) /\ ~proposals[id].cancelled

\* A transaction that fails changes no account.
Attempt(allowed, Instruction) == IF allowed THEN Instruction ELSE UNCHANGED vars

\* The history of a request about id, and of one about the settings or a new id.
About(id, chain, engine) ==
  /\ parted' = IF chain <=> engine THEN parted ELSE parted \cup {id}
  /\ UNCHANGED forked

AboutAll(chain, engine) ==
  /\ forked' = IF chain <=> engine THEN forked ELSE TRUE
  /\ UNCHANGED parted

Deploy(authority, vec, threshold, timelock) ==
  /\ config = NoEngine
  /\ Attempt(MayInitialize(vec, threshold, timelock),
             initialize(authority, vec, threshold, timelock))
  /\ build_state(authority, vec, threshold, timelock)
  /\ AboutAll(MayInitialize(vec, threshold, timelock), validate_guardians(vec, threshold))

\* The all-zero hash is 32 bytes as well: the program gets it and refuses.
Propose(signer, proposer, program_id, text) ==
  /\ config.proposal_count < U64Max      \* bound: no record without an id
  /\ Attempt(ChainTakesProposal(signer, proposer, text),
             propose_upgrade(proposer, program_id, text[1]))
  /\ propose(program_id, text, proposer)
  /\ AboutAll(ChainTakesProposal(signer, proposer, text), TakesProposal(text, proposer))

Approve(signer, id, guardian) ==
  /\ Attempt(ChainTakesVote(signer, id, guardian), approve_upgrade(guardian, id))
  /\ approve(id, guardian)
  /\ About(id, ChainTakesVote(signer, id, guardian), TakesVote(id, guardian))

\* Either side lets anybody execute.
Execute(id) ==
  /\ Attempt(MayExecute(id), execute_upgrade(id))
  /\ execute(id)
  /\ About(id, MayExecute(id), TakesExecution(id))

Cancel(signer, id) ==
  /\ Attempt(MayCancel(signer, id), cancel_proposal(signer, id))
  /\ cancel(id)
  /\ About(id, ChainTakesCancel(signer, id), TakesCancel(id))

SetPaused(signer, paused) ==
  /\ Attempt(AdminOnly(signer), set_paused(signer, paused))
  /\ engine_set_paused(paused)
  /\ AboutAll(AdminOnly(signer), TRUE)

\* No resolver rotates guardians: who holds the authority's key does it on both.
SetGuardians(vec, threshold) ==
  /\ Attempt(MaySetGuardians(config.authority, vec, threshold),
             set_guardians(config.authority, vec, threshold))
  /\ engine_set_guardians(vec, threshold)
  /\ UNCHANGED history

Serving ==
  \/ \E signer, key \in Keys :
       \/ \E program_id \in Programs, text \in HexTexts :
            Propose(signer, key, program_id, text)
       \/ \E id \in ProposalIds : Approve(signer, id, key)
  \/ \E id \in ProposalIds : Execute(id) \/ \E signer \in Keys : Cancel(signer, id)
  \/ \E signer \in Keys, paused \in BOOLEAN : SetPaused(signer, paused)
  \/ \E vec \in GuardianVecs, threshold \in 0..U8Max : SetGuardians(vec, threshold)

MirrorNext ==
  \/ \E key \in Keys, vec \in GuardianVecs, threshold \in 0..U8Max, timelock \in Timelocks :
       Deploy(key, vec, threshold, timelock)
  \/ config # NoEngine /\ Serving
  \/ Tick /\ UNCHANGED <<mirror, history>>

MirrorSpec == MirrorInit /\ [][MirrorNext]_mirrorVars

(***************************************************************************)
(* Properties                                                              *)
(***************************************************************************)
\* What the service would answer about an account, by the threshold it goes by.
StatusOf(p, threshold) ==
  CASE p.executed -> "executed" [] p.cancelled -> "cancelled"
    [] Unsettled(p) /\ p.approvals >= threshold -> "approved"
    [] OTHER -> "pending"

AnswerFor(p, threshold) ==
  [ id |-> p.id, program_id |-> p.program_id, build_hash |-> to_hex(p.build_hash),
    eta |-> p.eta, approvals |-> p.approvals, threshold |-> threshold,
    status |-> StatusOf(p, threshold) ]

\* As long as both sides took or refused the same requests about the settings and
\* new ids, the service answers what the accounts say: who governs, whether
\* governance is paused, which proposals there are; and, of every proposal of which
\* they took or refused the same, its content, deadline, votes and status, though
\* each side decides by rules and bookkeeping of its own.  Which requests they do
\* not decide alike is what SameVerdicts says.
Mirrors ==
  ~forked =>
    /\ Initialized <=> config # NoEngine
    /\ Initialized =>
         /\ \A field \in DOMAIN GqlConfig : GqlConfig[field] = governance[field]
         /\ Recorded = {id \in ProposalIds : Exists(id)}
         /\ \A id \in Recorded \ parted :
              GqlProposal(id) = AnswerFor(proposals[id], records[id].threshold)
         /\ GqlStats.proposals = governance.proposal_count
         /\ parted = {} =>
              GqlStats.executed = Cardinality({id \in Recorded : proposals[id].executed})

\* Engine and program decide every request alike, but for these differences, each
\* stated exactly.  The program refuses a timelock below zero.  It wants the signature
\* of the key that is named, and the authority's to cancel or pause, where the service
\* asks nobody (engine.rs:235 has the API ask).  It stops when a u8 of votes is full,
\* where the engine's count wraps.  It executes by the threshold in force, the engine
\* by the one at creation.  It takes a second cancel, to no effect, which the engine
\* refuses.
SameVerdicts ==
  ~forked =>
    /\ config = NoEngine =>
         \A vec \in GuardianVecs, threshold \in 0..U8Max, timelock \in Timelocks :
           MayInitialize(vec, threshold, timelock) <=>
             timelock >= 0 /\ validate_guardians(vec, threshold)
    /\ config # NoEngine =>
         \A signer, key \in Keys :
           /\ AdminOnly(signer) <=> signer = config.authority
           /\ config.proposal_count < U64Max => \A text \in HexTexts :
                ChainTakesProposal(signer, key, text) <=>
                  signer = key /\ TakesProposal(text, key)
           /\ \A id \in ProposalIds \ parted :
                /\ ChainTakesVote(signer, id, key) <=>
                     /\ signer = key /\ TakesVote(id, key)
                     /\ Cardinality(voters[id]) < U8Max
                /\ ChainTakesCancel(signer, id) <=> AdminOnly(signer) /\ TakesCancel(id)
                /\ MayExecute(id) <=> TakesExecutionBy(config.threshold, id)
===============================================================================
