------------------------ MODULE GovernanceMirrorProofs ------------------------
(***************************************************************************)
(* The off-chain engine decides requests as the program does, but for the  *)
(* cases SameVerdicts names, and answers what the accounts say of whatever *)
(* both decided alike: for every set of keys, programs and build hashes    *)
(* and every integer width.                                                *)
(*                                                                         *)
(* Whatever the two do together is a step of the program or none, so what  *)
(* UpgradeGovernanceProofs shows of the program holds here too.            *)
(***************************************************************************)
EXTENDS GovernanceMirror, UpgradeGovernanceProofs

(***************************************************************************)
(* The program inside the pair                                             *)
(***************************************************************************)
MirrorTypeOK ==
  /\ config \in GovernanceConfig \cup {NoEngine}
  /\ records \in [ProposalIds -> Record \cup {NoRecord}]
  /\ voters \in [ProposalIds -> SUBSET Keys]

\* A text the program is given starts with a hash.
LEMMA HexHash ==
  ASSUME NEW text \in HexTexts, text # Malformed
  PROVE  text[1] \in BuildHashes
BY DEF HexTexts

\* A request put to both is an instruction of the program, or leaves it alone.
LEMMA PairStepsProgram == MirrorTypeOK /\ [MirrorNext]_mirrorVars => [Next]_vars
<1>. SUFFICES ASSUME MirrorTypeOK, [MirrorNext]_mirrorVars PROVE [Next]_vars
  OBVIOUS
<1>. USE DEF Attempt, Next
<1>1. ASSUME NEW key \in Keys, NEW vec \in GuardianVecs, NEW threshold \in 0..U8Max,
             NEW timelock \in Timelocks, Deploy(key, vec, threshold, timelock)
      PROVE  [Next]_vars
  BY <1>1 DEF Deploy, Administer
<1>2. ASSUME config # NoEngine, Serving
      PROVE  [Next]_vars
  <2>1. config.authority \in Keys
    BY <1>2 DEF MirrorTypeOK, GovernanceConfig
  <2>2. ASSUME NEW signer \in Keys, NEW key \in Keys, NEW program_id \in Programs,
               NEW text \in HexTexts, Propose(signer, key, program_id, text)
        PROVE  [Next]_vars
    BY <2>2, HexHash DEF Propose, ChainTakesProposal, Upgrade
  <2>3. ASSUME NEW signer \in Keys, NEW key \in Keys, NEW id \in ProposalIds,
               Approve(signer, id, key)
        PROVE  [Next]_vars
    BY <2>3 DEF Approve, Upgrade
  <2>4. ASSUME NEW id \in ProposalIds, Execute(id) \/ \E signer \in Keys : Cancel(signer, id)
        PROVE  [Next]_vars
    BY <2>1, <2>4 DEF Execute, Cancel, Upgrade
  <2>5. ASSUME NEW signer \in Keys, NEW paused \in BOOLEAN, SetPaused(signer, paused)
        PROVE  [Next]_vars
    BY <2>5 DEF SetPaused, Administer
  <2>6. ASSUME NEW vec \in GuardianVecs, NEW threshold \in 0..U8Max,
               SetGuardians(vec, threshold)
        PROVE  [Next]_vars
    BY <2>1, <2>6 DEF SetGuardians, Administer
  <2>. QED  BY <1>2, <2>2, <2>3, <2>4, <2>5, <2>6 DEF Serving
<1>3. CASE Tick \/ UNCHANGED mirrorVars
  BY <1>3 DEF mirrorVars
<1>. QED  BY <1>1, <1>2, <1>3 DEF MirrorNext

\* A u8 that counts a set is the number of its members, while that fits.
LEMMA CountAsU8 ==
  ASSUME NEW S \in SUBSET Keys
  PROVE  /\ len_as_u8(S) \in 0..U8Max
         /\ Cardinality(S) \in Nat
         /\ Cardinality(S) <= U8Max => len_as_u8(S) = Cardinality(S)
<1>1. Cardinality(S) \in Nat
  BY KeysAssumption, FS_Subset, FS_CardinalityType
<1>2. \A n \in Nat : n % (U8Max + 1) \in 0..U8Max
  BY WidthAssumption
<1>3. \A n \in 0..U8Max : n % (U8Max + 1) = n
  BY WidthAssumption
<1>. QED  BY <1>1, <1>2, <1>3, WidthAssumption DEF len_as_u8

\* An engine that runs has settings, and a record that is there has its fields.
LEMMA MirrorFields ==
  ASSUME MirrorTypeOK
  PROVE  /\ config # NoEngine => config \in GovernanceConfig
         /\ \A id \in ProposalIds : records[id] # NoRecord => records[id] \in Record
BY DEF MirrorTypeOK

\* The record that `propose` stores.
NewRecord(program_id, text) ==
  [ id |-> config.proposal_count, program_id |-> program_id,
    build_hash |-> to_hex(text[1]), eta |-> now + config.timelock_seconds,
    approvals |-> 0, threshold |-> config.threshold, status |-> "Pending" ]

\* The record with one more vote.
WithVote(id, key) ==
  LET count == len_as_u8(voters[id] \cup {key})
  IN  [records[id] EXCEPT
         !.approvals = count,
         !.status = IF Reached(count, records[id].threshold) THEN "Approved" ELSE @]

\* What a proposal that is taken adds to the engine.
LEMMA ProposeEffect ==
  ASSUME TypeOK, MirrorTypeOK, config # NoEngine,
         NEW signer \in Keys, NEW key \in Keys, NEW program_id \in Programs, NEW text \in HexTexts,
         Propose(signer, key, program_id, text), TakesProposal(text, key)
  PROVE  /\ config.proposal_count \in ProposalIds
         /\ NewRecord(program_id, text) \in Record
         /\ records' = [records EXCEPT ![config.proposal_count] = NewRecord(program_id, text)]
         /\ config' = [config EXCEPT !.proposal_count = config.proposal_count + 1]
         /\ config' \in GovernanceConfig
         /\ voters' = voters
<1>. DEFINE n == config.proposal_count
<1>1. /\ n < U64Max /\ HashAccepted(text)
      /\ records' = [records EXCEPT ![n] = NewRecord(program_id, text)]
      /\ config' = [config EXCEPT !.proposal_count = n + 1]
      /\ voters' = voters
  BY DEF Propose, propose, TakesProposal, NewRecord
<1>2. to_hex(text[1]) \in BuildHashes \X {"lower"}
  BY <1>1, HexHash DEF to_hex, HashAccepted
<1>3. config \in GovernanceConfig
  BY MirrorFields
<1>4. n \in ProposalIds /\ now + config.timelock_seconds \in Int
  BY <1>1, <1>3, WidthAssumption DEF GovernanceConfig, TypeOK, Times, ProposalIds
<1>5. NewRecord(program_id, text) \in Record
  BY <1>2, <1>3, <1>4, WidthAssumption DEF GovernanceConfig, Record, NewRecord
<1>6. config' \in GovernanceConfig
  BY <1>1, <1>3, <1>4, WidthAssumption DEF GovernanceConfig, ProposalIds
<1>. QED  BY <1>1, <1>4, <1>5, <1>6

\* What an approval that is taken does to the engine.
LEMMA ApproveEffect ==
  ASSUME MirrorTypeOK, NEW signer \in Keys, NEW key \in Keys, NEW id \in ProposalIds,
         Approve(signer, id, key), TakesVote(id, key)
  PROVE  /\ records[id] \in Record /\ WithVote(id, key) \in Record
         /\ records' = [records EXCEPT ![id] = WithVote(id, key)]
         /\ voters' = [voters EXCEPT ![id] = voters[id] \cup {key}]
         /\ config' = config
<1>. DEFINE count == len_as_u8(voters[id] \cup {key})
<1>1. voters[id] \cup {key} \in SUBSET Keys
  BY DEF MirrorTypeOK
<1>2. count \in 0..U8Max
  BY <1>1, CountAsU8
<1>3. /\ records' = [records EXCEPT ![id].approvals = count,
                                    ![id].status = IF Reached(count, records[id].threshold)
                                                   THEN "Approved" ELSE @]
      /\ voters' = [voters EXCEPT ![id] = voters[id] \cup {key}]
      /\ config' = config /\ HasRecord(id)
  BY DEF Approve, approve, TakesVote
<1>4. records[id] \in Record
  BY <1>3, MirrorFields DEF HasRecord
<1>. HIDE DEF count
<1>5. WithVote(id, key) = [records[id] EXCEPT
                             !.approvals = count,
                             !.status = IF Reached(count, records[id].threshold)
                                        THEN "Approved" ELSE @]
  BY DEF WithVote, count
<1>6. WithVote(id, key) \in Record
  BY <1>2, <1>4, <1>5 DEF Record
<1>7. records' = [records EXCEPT ![id] = WithVote(id, key)]
  BY <1>3, <1>5 DEF MirrorTypeOK
<1>. QED  BY <1>3, <1>4, <1>6, <1>7

\* The engine's own state keeps its types.
LEMMA MirrorTypeStep ==
  TypeOK /\ MirrorTypeOK /\ [MirrorNext]_mirrorVars => MirrorTypeOK'
<1>. SUFFICES ASSUME TypeOK, MirrorTypeOK, [MirrorNext]_mirrorVars
              PROVE  MirrorTypeOK'
  OBVIOUS
<1>1. ASSUME UNCHANGED mirror PROVE MirrorTypeOK'
  BY <1>1 DEF MirrorTypeOK, mirror
<1>2. ASSUME NEW key \in Keys, NEW vec \in GuardianVecs, NEW threshold \in 0..U8Max,
             NEW timelock \in Timelocks, Deploy(key, vec, threshold, timelock)
      PROVE  MirrorTypeOK'
  <2>1. CASE ~validate_guardians(vec, threshold)
    BY <1>1, <1>2, <2>1 DEF Deploy, build_state, Keep
  <2>2. CASE validate_guardians(vec, threshold)
    <3>1. Range(vec) \in SUBSET Keys /\ threshold \in 1..U8Max /\ timelock \in Int
      BY <2>2, ValidGuardians, WidthAssumption
    <3>2. config' = [ authority |-> key, guardians |-> Range(vec),
                      threshold |-> threshold, timelock_seconds |-> timelock,
                      paused |-> FALSE, proposal_count |-> 0 ]
      BY <1>2, <2>2 DEF Deploy, build_state
    <3>3. config' \in GovernanceConfig
      BY <3>1, <3>2, WidthAssumption DEF GovernanceConfig
    <3>. QED  BY <1>2, <2>2, <3>3 DEF Deploy, build_state, MirrorTypeOK
  <2>. QED  BY <2>1, <2>2
<1>3. ASSUME config # NoEngine, Serving
      PROVE  MirrorTypeOK'
  <2>1. config \in GovernanceConfig
    BY <1>3, MirrorFields
  <2>2. ASSUME NEW signer \in Keys, NEW key \in Keys, NEW program_id \in Programs,
               NEW text \in HexTexts, Propose(signer, key, program_id, text),
               ~UNCHANGED mirror
        PROVE  MirrorTypeOK'
    <3>1. TakesProposal(text, key)
      BY <2>2 DEF Propose, propose, Keep
    <3>. QED  BY <1>3, <2>2, <3>1, ProposeEffect DEF MirrorTypeOK
  <2>3. ASSUME NEW signer \in Keys, NEW key \in Keys, NEW id \in ProposalIds,
               Approve(signer, id, key), ~UNCHANGED mirror
        PROVE  MirrorTypeOK'
    <3>1. TakesVote(id, key)
      BY <2>3 DEF Approve, approve, Keep
    <3>. QED  BY <2>3, <3>1, ApproveEffect DEF MirrorTypeOK
  <2>4. ASSUME NEW id \in ProposalIds, ~UNCHANGED mirror,
               Execute(id) \/ \E signer \in Keys : Cancel(signer, id)
        PROVE  MirrorTypeOK'
    <3>1. /\ records[id] # NoRecord
          /\ UNCHANGED <<config, voters>>
          /\ \E status \in {"Executed", "Cancelled"} :
               records' = [records EXCEPT ![id].status = status]
      BY <2>4 DEF Execute, execute, TakesExecution, Cancel, cancel, TakesCancel, Keep,
                  HasRecord
    <3>. QED  BY <3>1, MirrorFields DEF MirrorTypeOK, Record
  <2>5. ASSUME NEW signer \in Keys, NEW paused \in BOOLEAN, SetPaused(signer, paused)
        PROVE  MirrorTypeOK'
    BY <2>1, <2>5 DEF SetPaused, engine_set_paused, MirrorTypeOK, GovernanceConfig
  <2>6. ASSUME NEW vec \in GuardianVecs, NEW threshold \in 0..U8Max,
               SetGuardians(vec, threshold), ~UNCHANGED mirror
        PROVE  MirrorTypeOK'
    <3>1. Range(vec) \in SUBSET Keys /\ threshold \in 1..U8Max
      BY <2>6, ValidGuardians DEF SetGuardians, engine_set_guardians, Keep
    <3>. QED
      BY <2>1, <2>6, <3>1
         DEF SetGuardians, engine_set_guardians, Keep, MirrorTypeOK, GovernanceConfig
  <2>. QED  BY <1>1, <1>3, <2>2, <2>3, <2>4, <2>5, <2>6 DEF Serving
<1>4. CASE UNCHANGED mirrorVars \/ UNCHANGED mirror
  BY <1>1, <1>4 DEF mirrorVars
<1>. QED  BY <1>2, <1>3, <1>4 DEF MirrorNext

LEMMA AlwaysMirrorTypes == MirrorSpec => [](TypeOK /\ MirrorTypeOK)
<1>1. MirrorInit => TypeOK /\ MirrorTypeOK
  BY WidthAssumption DEF MirrorInit, MirrorTypeOK, Init, TypeOK, Times
<1>2. TypeOK /\ MirrorTypeOK /\ [MirrorNext]_mirrorVars => (TypeOK /\ MirrorTypeOK)'
  BY PairStepsProgram, TypeStep, MirrorTypeStep
<1>. QED  BY <1>1, <1>2, PTL DEF MirrorSpec

\* The pair runs the program, and only the program, on chain.
LEMMA PairImplementsProgram == MirrorSpec => Spec
<1>1. MirrorInit => Init
  BY DEF MirrorInit
<1>. QED  BY <1>1, AlwaysMirrorTypes, PairStepsProgram, PTL DEF MirrorSpec, Spec

(***************************************************************************)
(* The inductive invariant                                                 *)
(***************************************************************************)
\* The engine runs with the program's settings, once both are set up.
SameSettings ==
  /\ Initialized <=> config # NoEngine
  /\ ~Initialized => \A id \in ProposalIds : records[id] = NoRecord
  /\ Initialized => /\ config.authority = governance.authority
                    /\ config.guardians = governance.guardians
                    /\ config.threshold = governance.threshold
                    /\ config.timelock_seconds = governance.timelock_seconds
                    /\ config.paused = governance.paused
                    /\ config.proposal_count = governance.proposal_count

\* The record's status, worked out from the account.
StatusFor(p, threshold) ==
  IF p.executed THEN "Executed"
  ELSE IF p.cancelled THEN "Cancelled"
  ELSE IF p.approvals >= threshold THEN "Approved" ELSE "Pending"

\* Record and account agree, vote for vote.
Agree(id) ==
  /\ voters[id] = VotersOf(id)
  /\ records[id].id = proposals[id].id
  /\ records[id].program_id = proposals[id].program_id
  /\ records[id].build_hash = to_hex(proposals[id].build_hash)
  /\ records[id].eta = proposals[id].eta
  /\ records[id].approvals = proposals[id].approvals
  /\ records[id].status = StatusFor(proposals[id], records[id].threshold)

\* A record has an account, and agrees with it unless they parted; no record, then
\* no account and no vote.
Twins(id) ==
  IF records[id] = NoRecord THEN ~Exists(id) /\ voters[id] = {}
  ELSE Exists(id) /\ (id \notin parted => Agree(id))

Agreement == ~forked => SameSettings /\ \A id \in ProposalIds : Twins(id)

\* A pair that nothing touches stays a pair.
LEMMA TwinsKept ==
  ASSUME NEW id \in ProposalIds, Twins(id),
         records'[id] = records[id], proposals'[id] = proposals[id],
         voters'[id] = voters[id], VotersOf(id)' = VotersOf(id),
         id \in parted => id \in parted'
  PROVE  Twins(id)'
BY DEF Twins, Agree, Exists, StatusFor

\* So does one that parts, as long as both sides are there.
LEMMA TwinsParted ==
  ASSUME NEW id \in ProposalIds, records'[id] # NoRecord, Exists(id)', id \in parted'
  PROVE  Twins(id)'
BY DEF Twins

\* What the cases below start from.
Together ==
  TypeOK /\ MirrorTypeOK /\ IdsDense /\ VoteCountExact /\ SettledOnce /\ Agreement

\* What holds of a record and an account that have not parted.
LEMMA Unparted ==
  ASSUME Together, ~forked, NEW id \in ProposalIds, records[id] # NoRecord,
         id \notin parted
  PROVE  /\ Agree(id) /\ Exists(id)
         /\ records[id] \in Record /\ proposals[id] \in Proposal
         /\ proposals[id].approvals = Cardinality(voters[id])
         /\ Final(records[id]) <=> ~Unsettled(proposals[id])
<1>1. /\ Agree(id) /\ Exists(id)
      /\ records[id] \in Record /\ proposals[id] \in Proposal
  BY MirrorFields, AccountTypes DEF Together, Agreement, Twins
<1>2. proposals[id].approvals = Cardinality(voters[id])
  BY <1>1 DEF Agree, Together, VoteCountExact
<1>3. Final(records[id]) <=> ~Unsettled(proposals[id])
  BY <1>1 DEF Final, Unsettled, Agree, StatusFor
<1>. QED  BY <1>1, <1>2, <1>3

\* What holds of the settings and the ids while nothing forked.
LEMMA Unforked ==
  ASSUME Together, ~forked, config # NoEngine
  PROVE  /\ SameSettings /\ Initialized
         /\ config \in GovernanceConfig /\ governance \in Governance
         /\ \A id \in ProposalIds : Twins(id) /\ (HasRecord(id) <=> Exists(id))
BY MirrorFields, AccountTypes DEF Together, Agreement, SameSettings, Twins, HasRecord

(***************************************************************************)
(* Verdicts                                                                *)
(***************************************************************************)
\* Both take a proposal or both refuse it, if its proposer signed.
LEMMA ProposalVerdict ==
  ASSUME Together, ~forked, config # NoEngine, config.proposal_count < U64Max,
         NEW signer, NEW key, NEW text
  PROVE  ChainTakesProposal(signer, key, text) <=> signer = key /\ TakesProposal(text, key)
<1>1. /\ SameSettings /\ Initialized
      /\ governance \in Governance /\ config \in GovernanceConfig
  BY Unforked
<1>2. governance.proposal_count \in ProposalIds /\ Fits(governance.proposal_count + 1, U64Max)
  BY <1>1, WidthAssumption DEF SameSettings, Governance, ProposalIds, Fits
<1>3. ~Exists(governance.proposal_count)
  BY <1>1, <1>2 DEF Together, IdsDense, Governance
<1>. QED
  BY <1>1, <1>2, <1>3
     DEF ChainTakesProposal, TakesProposal, HashAccepted, MayPropose, Active, Eta,
         is_guardian, SameSettings

\* Both count a vote or both refuse it, if its guardian signed and it fits a u8.
LEMMA VoteVerdict ==
  ASSUME Together, ~forked, config # NoEngine, NEW id \in ProposalIds \ parted,
         NEW signer, NEW key \in Keys
  PROVE  ChainTakesVote(signer, id, key) <=>
           signer = key /\ TakesVote(id, key) /\ Cardinality(voters[id]) < U8Max
<1>1. SameSettings /\ Initialized /\ (HasRecord(id) <=> Exists(id))
  BY Unforked
<1>2. CASE ~HasRecord(id)
  BY <1>1, <1>2 DEF ChainTakesVote, MayApprove, TakesVote
<1>3. CASE HasRecord(id)
  <2>1. /\ Agree(id) /\ proposals[id].approvals = Cardinality(voters[id])
        /\ Final(records[id]) <=> ~Unsettled(proposals[id])
    BY <1>3, Unparted DEF HasRecord
  <2>2. Cardinality(voters[id]) \in Nat
    BY CountAsU8 DEF Together, MirrorTypeOK
  <2>3. Fits(proposals[id].approvals + 1, U8Max) <=> Cardinality(voters[id]) < U8Max
    BY <2>1, <2>2, WidthAssumption DEF Fits
  <2>4. ApprovalVacant(id, key) <=> key \notin voters[id]
    BY <2>1 DEF ApprovalVacant, Agree, VotersOf
  <2>. QED
    BY <1>1, <1>3, <2>1, <2>3, <2>4
       DEF ChainTakesVote, MayApprove, TakesVote, Active, is_guardian, SameSettings
<1>. QED  BY <1>2, <1>3

\* Both would execute or both refuse, if they went by one threshold.
LEMMA ExecutionVerdict ==
  ASSUME Together, ~forked, config # NoEngine, NEW id \in ProposalIds \ parted
  PROVE  MayExecute(id) <=> TakesExecutionBy(config.threshold, id)
<1>1. SameSettings /\ Initialized /\ (HasRecord(id) <=> Exists(id))
  BY Unforked
<1>2. CASE ~HasRecord(id)
  BY <1>1, <1>2 DEF MayExecute, TakesExecutionBy
<1>3. CASE HasRecord(id)
  <2>1. /\ Agree(id) /\ Exists(id)
        /\ Final(records[id]) <=> ~Unsettled(proposals[id])
    BY <1>3, Unparted DEF HasRecord
  <2>. QED
    BY <1>1, <1>3, <2>1
       DEF MayExecute, TakesExecutionBy, Active, can_execute, Reached, QuorumMet,
           TimelockServedFor, SameSettings, Agree
<1>. QED  BY <1>2, <1>3

\* Both cancel or both refuse, if the authority signed.
LEMMA CancelVerdict ==
  ASSUME Together, ~forked, config # NoEngine, NEW id \in ProposalIds \ parted,
         NEW signer
  PROVE  ChainTakesCancel(signer, id) <=> AdminOnly(signer) /\ TakesCancel(id)
<1>1. HasRecord(id) <=> Exists(id)
  BY Unforked
<1>2. HasRecord(id) => (Final(records[id]) <=> ~Unsettled(proposals[id]))
  BY Unparted DEF HasRecord
<1>. QED
  BY <1>1, <1>2 DEF ChainTakesCancel, MayCancel, TakesCancel, Unsettled

\* Both start or both refuse to, if the timelock is not below zero.
LEMMA StartVerdict ==
  ASSUME Together, ~forked, config = NoEngine, NEW vec, NEW threshold, NEW timelock
  PROVE  MayInitialize(vec, threshold, timelock) <=>
           timelock >= 0 /\ validate_guardians(vec, threshold)
<1>1. ~Initialized
  BY DEF Together, Agreement, SameSettings
<1>. QED  BY <1>1 DEF MayInitialize, GovernanceVacant, Initialized

LEMMA TogetherVerdicts == Together => SameVerdicts
<1>. SUFFICES ASSUME Together, ~forked PROVE SameVerdicts
  BY DEF SameVerdicts
<1>1. config # NoEngine =>
        \A signer \in Keys : AdminOnly(signer) <=> signer = config.authority
  BY Unforked DEF AdminOnly, SameSettings
<1>. QED
  BY <1>1, StartVerdict, ProposalVerdict, VoteVerdict, ExecutionVerdict, CancelVerdict
     DEF SameVerdicts

(***************************************************************************)
(* Steps                                                                   *)
(***************************************************************************)
LEMMA DeployAgrees ==
  ASSUME Together,
         NEW key \in Keys, NEW vec \in GuardianVecs, NEW threshold \in 0..U8Max,
         NEW timelock \in Timelocks, Deploy(key, vec, threshold, timelock)
  PROVE  Agreement'
<1>. DEFINE account == [ authority |-> key, pending_authority |-> DefaultKey,
                         guardians |-> Range(vec), threshold |-> threshold,
                         timelock_seconds |-> timelock, paused |-> FALSE,
                         proposal_count |-> 0 ]
            settings == [ authority |-> key, guardians |-> Range(vec),
                          threshold |-> threshold, timelock_seconds |-> timelock,
                          paused |-> FALSE, proposal_count |-> 0 ]
<1>. SUFFICES ASSUME ~forked' PROVE SameSettings' /\ \A id \in ProposalIds : Twins(id)'
  BY DEF Agreement
<1>1. /\ ~forked /\ config = NoEngine
      /\ MayInitialize(vec, threshold, timelock) <=> validate_guardians(vec, threshold)
  BY DEF Deploy, AboutAll
<1>2. /\ ~Initialized /\ SameSettings
      /\ \A id \in ProposalIds : Twins(id) /\ records[id] = NoRecord
  BY <1>1 DEF Together, Agreement, SameSettings
<1>3. UNCHANGED <<records, voters, proposals>>
  BY DEF Deploy, build_state, Keep, mirror, Attempt, initialize, vars
<1>4. \A id \in ProposalIds : Twins(id)'
  BY <1>2, <1>3 DEF Twins, Exists
<1>5. CASE ~validate_guardians(vec, threshold)
  <2>1. UNCHANGED <<governance, config>>
    BY <1>1, <1>5 DEF Deploy, build_state, Keep, mirror, Attempt, vars
  <2>. QED  BY <1>2, <1>3, <1>4, <2>1 DEF SameSettings, Initialized
<1>6. CASE validate_guardians(vec, threshold)
  <2>1. config' = settings /\ config' # NoEngine
    <3>1. config' = settings
      BY <1>6 DEF Deploy, build_state
    <3>2. Range(vec) \in SUBSET Keys /\ threshold \in 1..U8Max /\ timelock \in Int
      BY <1>6, ValidGuardians, WidthAssumption
    <3>3. settings \in GovernanceConfig
      BY <3>2, WidthAssumption DEF GovernanceConfig
    <3>. QED  BY <3>1, <3>3, NothingAssumption
  <2>2. initialize(key, vec, threshold, timelock)
    BY <1>1, <1>6 DEF Deploy, Attempt
  <2>3. governance' = account
    BY <2>2 DEF initialize
  <2>4. Initialized'
    BY <2>2, AdministerFrame DEF Administer, Together
  <2>. QED  BY <1>4, <2>1, <2>3, <2>4 DEF SameSettings
<1>. QED  BY <1>5, <1>6

\* A proposal that both take gets the same id.
LEMMA ProposeAgrees ==
  ASSUME Together, config # NoEngine,
         NEW signer \in Keys, NEW key \in Keys, NEW program_id \in Programs,
         NEW text \in HexTexts, Propose(signer, key, program_id, text)
  PROVE  Agreement'
<1>. SUFFICES ASSUME ~forked' PROVE SameSettings' /\ \A id \in ProposalIds : Twins(id)'
  BY DEF Agreement
<1>1. /\ ~forked /\ UNCHANGED parted
      /\ ChainTakesProposal(signer, key, text) <=> TakesProposal(text, key)
  BY DEF Propose, AboutAll
<1>2. /\ SameSettings /\ Initialized /\ \A id \in ProposalIds : Twins(id)
      /\ config \in GovernanceConfig /\ governance \in Governance
  BY <1>1, Unforked
<1>3. CASE ~TakesProposal(text, key)
  <2>1. UNCHANGED vars /\ UNCHANGED mirror
    BY <1>1, <1>3 DEF Propose, propose, Attempt, Keep
  <2>. QED
    BY <1>1, <1>2, <2>1, TwinsKept DEF vars, mirror, SameSettings, VotersOf, Initialized
<1>4. CASE TakesProposal(text, key)
  <2>. PICK n, rec : n = config.proposal_count /\ rec = NewRecord(program_id, text)
    OBVIOUS
  <2>1. /\ n \in ProposalIds /\ rec \in Record
        /\ records' = [records EXCEPT ![n] = rec]
        /\ config' = [config EXCEPT !.proposal_count = n + 1]
        /\ config' \in GovernanceConfig
        /\ voters' = voters
    BY <1>4, ProposeEffect DEF Together
  <2>2. propose_upgrade(key, program_id, text[1]) /\ text[1] \in BuildHashes
    BY <1>1, <1>4, HexHash DEF Propose, Attempt, ChainTakesProposal
  <2>3. /\ Initialized' /\ ~Exists(n) /\ proposals'[n] # NoAccount
        /\ governance' = [governance EXCEPT !.proposal_count = n + 1]
        /\ \A i \in ProposalIds \ {n} : proposals'[i] = proposals[i]
        /\ proposals'[n] =
             [ id |-> n, program_id |-> program_id, build_hash |-> text[1],
               eta |-> now + config.timelock_seconds, approvals |-> 0,
               executed |-> FALSE, cancelled |-> FALSE ]
    BY <1>2, <2>1, <2>2, ProposeFrame DEF Together, SameSettings, Eta
  <2>4. SameSettings'
    BY <1>2, <2>1, <2>3, NothingAssumption DEF SameSettings, GovernanceConfig, Governance
  <2>5. \A id : VotersOf(id)' = VotersOf(id)
    BY <2>2 DEF propose_upgrade, VotersOf
  <2>6. Twins(n)'
    <3>1. voters[n] = {} /\ VotersOf(n) = {}
      BY <1>2, <2>1, <2>3 DEF Twins, Together, VoteCountExact
    <3>2. records'[n] = rec /\ rec # NoRecord
      BY <2>1, NothingAssumption DEF Together, MirrorTypeOK
    <3>3. StatusFor(proposals'[n], rec.threshold) = "Pending"
      BY <2>1, <2>3, WidthAssumption DEF StatusFor, Record
    <3>4. Agree(n)'
      BY <2>1, <2>3, <2>5, <3>1, <3>2, <3>3 DEF Agree, StatusFor, NewRecord
    <3>. QED  BY <2>3, <3>2, <3>4 DEF Twins, Exists
  <2>7. ASSUME NEW id \in ProposalIds, id # n PROVE Twins(id)'
    <3>1. records'[id] = records[id] /\ proposals'[id] = proposals[id]
      BY <2>1, <2>3, <2>7 DEF Together, MirrorTypeOK
    <3>. QED  BY <1>1, <1>2, <2>1, <2>5, <3>1, TwinsKept
  <2>. QED  BY <2>4, <2>6, <2>7
<1>. QED  BY <1>3, <1>4

\* What a request about one proposal leaves alone, on either side.
LEMMA OthersAgree ==
  ASSUME Together, ~forked, config # NoEngine, NEW id \in ProposalIds,
         UNCHANGED <<governance, config>>,
         \A i \in ProposalIds \ {id} :
           /\ records'[i] = records[i] /\ voters'[i] = voters[i]
           /\ proposals'[i] = proposals[i] /\ VotersOf(i)' = VotersOf(i)
           /\ i \in parted => i \in parted',
         Twins(id)'
  PROVE  Agreement'
<1>1. SameSettings /\ Initialized /\ \A i \in ProposalIds : Twins(i)
  BY Unforked
<1>2. SameSettings'
  BY <1>1 DEF SameSettings, Initialized
<1>3. ASSUME NEW i \in ProposalIds \ {id} PROVE Twins(i)'
  BY <1>1, TwinsKept
<1>. QED  BY <1>2, <1>3 DEF Agreement

\* An approval that both take counts on both sides.
LEMMA ApproveAgrees ==
  ASSUME Together, VoteCountExact', config # NoEngine,
         NEW signer \in Keys, NEW key \in Keys, NEW id \in ProposalIds,
         Approve(signer, id, key)
  PROVE  Agreement'
<1>. SUFFICES ASSUME ~forked' PROVE Agreement'
  BY DEF Agreement
<1>1. /\ ~forked /\ UNCHANGED <<governance, config>>
      /\ parted' = IF ChainTakesVote(signer, id, key) <=> TakesVote(id, key)
                   THEN parted ELSE parted \cup {id}
  BY DEF Approve, About, Attempt, approve_upgrade, vars, approve, Keep, mirror
<1>2. Twins(id) /\ (HasRecord(id) <=> Exists(id)) /\ SameSettings /\ Initialized
  BY <1>1, Unforked
<1>3. ASSUME NEW i \in ProposalIds \ {id}
      PROVE  /\ records'[i] = records[i] /\ voters'[i] = voters[i]
             /\ proposals'[i] = proposals[i] /\ VotersOf(i)' = VotersOf(i)
             /\ i \in parted => i \in parted'
  <2>1. proposals'[i] = proposals[i] /\ VotersOf(i)' = VotersOf(i)
    BY DEF Approve, Attempt, approve_upgrade, vars, VotersOf, Together, TypeOK
  <2>2. records'[i] = records[i] /\ voters'[i] = voters[i]
    BY DEF Approve, approve, Keep, mirror, Together, MirrorTypeOK
  <2>. QED  BY <1>1, <2>1, <2>2
<1>. SUFFICES Twins(id)'
  BY <1>1, <1>3, OthersAgree
<1>4. CASE ~TakesVote(id, key) /\ ~ChainTakesVote(signer, id, key)
  <2>1. UNCHANGED vars /\ UNCHANGED mirror
    BY <1>4 DEF Approve, Attempt, approve, Keep
  <2>. QED  BY <1>1, <1>2, <2>1, TwinsKept DEF vars, mirror, VotersOf
<1>5. CASE TakesVote(id, key) \/ ChainTakesVote(signer, id, key)
  <2>1. records[id] # NoRecord /\ Exists(id)
    BY <1>2, <1>5 DEF TakesVote, ChainTakesVote, MayApprove, HasRecord
  <2>2. records'[id] # NoRecord
    <3>1. CASE TakesVote(id, key)
      BY <3>1, ApproveEffect, NothingAssumption DEF Together, MirrorTypeOK
    <3>2. CASE ~TakesVote(id, key)
      BY <2>1, <3>2 DEF Approve, approve, Keep, mirror
    <3>. QED  BY <3>1, <3>2
  <2>3. Exists(id)'
    <3>1. CASE UNCHANGED vars
      BY <2>1, <3>1 DEF vars, Exists
    <3>2. CASE approve_upgrade(key, id)
      BY <2>1, <3>2, ExistsFrame DEF Together
    <3>. QED  BY <3>1, <3>2 DEF Approve, Attempt
  <2>4. CASE id \in parted'
    BY <2>2, <2>3, <2>4, TwinsParted
  <2>5. CASE id \notin parted'
    <3>1. id \notin parted /\ TakesVote(id, key) /\ ChainTakesVote(signer, id, key)
      BY <1>1, <1>5, <2>5
    <3>2. /\ Agree(id) /\ proposals[id] \in Proposal /\ records[id] \in Record
          /\ proposals[id].approvals = Cardinality(voters[id])
          /\ Final(records[id]) <=> ~Unsettled(proposals[id])
      BY <1>1, <2>1, <3>1, Unparted
    <3>3. /\ records'[id] = WithVote(id, key)
          /\ voters'[id] = voters[id] \cup {key}
          /\ key \notin voters[id] /\ ~Final(records[id])
      BY <3>1, ApproveEffect DEF TakesVote, Together, MirrorTypeOK
    <3>4. /\ approve_upgrade(key, id) /\ Fits(proposals[id].approvals + 1, U8Max)
      BY <3>1 DEF Approve, Attempt, ChainTakesVote, MayApprove
    <3>5. /\ VotersOf(id)' = voters'[id]
          /\ proposals'[id] = [proposals[id] EXCEPT !.approvals = @ + 1]
      BY <3>2, <3>3, <3>4, ApproveVotes DEF Together, TypeOK, Agree
    <3>6. len_as_u8(voters[id] \cup {key}) = proposals[id].approvals + 1
      <4>1. Cardinality(voters'[id]) = Cardinality(voters[id]) + 1
        <5>1. IsFiniteSet(voters[id])
          BY KeysAssumption, FS_Subset DEF Together, MirrorTypeOK
        <5>. QED  BY <3>3, <5>1, FS_AddElement
      <4>2. voters[id] \cup {key} \in SUBSET Keys
        BY DEF Together, MirrorTypeOK
      <4>. QED
        BY <3>2, <3>3, <3>4, <4>1, <4>2, CountAsU8 DEF Fits
    <3>7. records'[id].status = StatusFor(proposals'[id], records'[id].threshold)
      <4>1. /\ ~proposals[id].executed /\ ~proposals[id].cancelled
            /\ records[id].status = IF proposals[id].approvals >= records[id].threshold
                                    THEN "Approved" ELSE "Pending"
        BY <3>2, <3>3 DEF Unsettled, Agree, StatusFor
      <4>2. /\ records'[id].threshold = records[id].threshold
            /\ records'[id].status =
                 IF proposals[id].approvals + 1 >= records[id].threshold
                 THEN "Approved" ELSE records[id].status
        BY <3>2, <3>3, <3>6 DEF WithVote, Reached, Record
      <4>3. /\ proposals'[id].approvals = proposals[id].approvals + 1
            /\ ~proposals'[id].executed /\ ~proposals'[id].cancelled
        BY <3>2, <3>5, <4>1 DEF Proposal
      <4>4. records[id].threshold \in Int /\ proposals[id].approvals \in Int
        BY <3>2, WidthAssumption DEF Record, Proposal
      <4>. QED  BY <4>1, <4>2, <4>3, <4>4 DEF StatusFor
    <3>8. /\ records'[id].id = proposals'[id].id
          /\ records'[id].program_id = proposals'[id].program_id
          /\ records'[id].build_hash = to_hex(proposals'[id].build_hash)
          /\ records'[id].eta = proposals'[id].eta
          /\ records'[id].approvals = proposals'[id].approvals
      BY <3>2, <3>3, <3>5, <3>6 DEF WithVote, Agree, Record, Proposal
    <3>9. Agree(id)'
      BY <3>5, <3>7, <3>8 DEF Agree, StatusFor
    <3>. QED  BY <2>2, <2>3, <3>9 DEF Twins
  <2>. QED  BY <2>4, <2>5
<1>. QED  BY <1>4, <1>5

\* What both execute is executed on both sides, and what both cancel cancelled.
LEMMA SettleAgrees ==
  ASSUME Together, config # NoEngine, NEW id \in ProposalIds,
         Execute(id) \/ \E signer \in Keys : Cancel(signer, id)
  PROVE  Agreement'
<1>. SUFFICES ASSUME ~forked' PROVE Agreement'
  BY DEF Agreement
<1>1. /\ ~forked /\ UNCHANGED <<governance, approvals, config, voters>>
      /\ UNCHANGED records \/ \E status \in {"Executed", "Cancelled"} :
                                records' = [records EXCEPT ![id].status = status]
      /\ parted \subseteq parted'
  BY DEF Execute, Cancel, Attempt, execute_upgrade, cancel_proposal, vars,
         execute, cancel, Keep, mirror, About
<1>2. /\ Twins(id) /\ (HasRecord(id) <=> Exists(id))
      /\ config.authority \in Keys
  BY <1>1, Unforked DEF GovernanceConfig
<1>3. \A i : VotersOf(i)' = VotersOf(i)
  BY <1>1 DEF VotersOf
<1>4. ASSUME NEW i \in ProposalIds \ {id}
      PROVE  proposals'[i] = proposals[i] /\ records'[i] = records[i]
  BY <1>1 DEF Execute, Cancel, Attempt, execute_upgrade, cancel_proposal, vars,
              Together, TypeOK, MirrorTypeOK
<1>. SUFFICES Twins(id)'
  BY <1>1, <1>3, <1>4, OthersAgree
<1>5. CASE ~HasRecord(id)
  <2>1. UNCHANGED vars /\ UNCHANGED mirror
    BY <1>2, <1>5
       DEF Execute, Cancel, Attempt, MayExecute, MayCancel, execute, TakesExecution,
           cancel, TakesCancel, Keep
  <2>. QED  BY <1>1, <1>2, <1>3, <2>1, TwinsKept DEF vars, mirror
<1>6. CASE HasRecord(id)
  <2>1. records[id] \in Record /\ records[id] # NoRecord /\ Exists(id)
        /\ proposals[id] \in Proposal
    BY <1>2, <1>6, MirrorFields, AccountTypes DEF HasRecord, Together
  <2>2. records'[id] # NoRecord
    <3>1. \A status \in {"Executed", "Cancelled"} :
            [records[id] EXCEPT !.status = status] \in Record
      BY <2>1 DEF Record
    <3>2. records'[id] = records[id] \/ \E status \in {"Executed", "Cancelled"} :
            records'[id] = [records[id] EXCEPT !.status = status]
      BY <1>1 DEF Together, MirrorTypeOK
    <3>. QED  BY <2>1, <3>1, <3>2, NothingAssumption
  <2>3. Exists(id)'
    <3>1. CASE UNCHANGED vars
      BY <2>1, <3>1 DEF vars, Exists
    <3>2. CASE execute_upgrade(id) \/ \E signer \in Keys : cancel_proposal(signer, id)
      BY <1>2, <2>1, <3>2, ExistsFrame DEF Together
    <3>. QED  BY <3>1, <3>2 DEF Execute, Cancel, Attempt
  <2>4. CASE id \in parted'
    BY <2>2, <2>3, <2>4, TwinsParted
  <2>5. CASE id \notin parted'
    <3>1. /\ Agree(id)
          /\ Final(records[id]) <=> ~Unsettled(proposals[id])
      BY <1>1, <2>1, <2>5, Unparted
    <3>2. ASSUME Execute(id) PROVE Twins(id)'
      <4>1. MayExecute(id) <=> TakesExecution(id)
        BY <2>5, <3>2 DEF Execute, About
      <4>2. CASE ~TakesExecution(id)
        BY <1>1, <1>2, <1>3, <3>2, <4>1, <4>2, TwinsKept
           DEF Execute, Attempt, execute, Keep, vars, mirror
      <4>3. CASE TakesExecution(id)
        <5>1. /\ proposals'[id] = [proposals[id] EXCEPT !.executed = TRUE]
              /\ records'[id] = [records[id] EXCEPT !.status = "Executed"]
          BY <3>2, <4>1, <4>3
             DEF Execute, Attempt, execute_upgrade, execute, Together, TypeOK, MirrorTypeOK
        <5>2. Agree(id)'
          BY <1>1, <1>3, <2>1, <3>1, <5>1 DEF Agree, StatusFor, Record, Proposal
        <5>. QED  BY <2>2, <2>3, <5>2 DEF Twins
      <4>. QED  BY <4>2, <4>3
    <3>3. ASSUME NEW signer \in Keys, Cancel(signer, id) PROVE Twins(id)'
      <4>1. ChainTakesCancel(signer, id) <=> TakesCancel(id)
        BY <2>5, <3>3 DEF Cancel, About
      <4>2. CASE ~TakesCancel(id)
        <5>1. Final(records[id]) /\ UNCHANGED records
          BY <1>6, <3>3, <4>2 DEF TakesCancel, Cancel, cancel, Keep, mirror
        <5>2. proposals'[id] = proposals[id]
          <6>1. CASE MayCancel(signer, id)
            <7>1. proposals[id].cancelled
              BY <4>1, <4>2, <6>1 DEF ChainTakesCancel
            <7>2. proposals'[id] = [proposals[id] EXCEPT !.cancelled = TRUE]
              BY <3>3, <6>1 DEF Cancel, Attempt, cancel_proposal, Together, TypeOK
            <7>. QED  BY <2>1, <7>1, <7>2 DEF Proposal
          <6>2. CASE ~MayCancel(signer, id)
            BY <3>3, <6>2 DEF Cancel, Attempt, vars
          <6>. QED  BY <6>1, <6>2
        <5>. QED  BY <1>1, <1>2, <1>3, <5>1, <5>2, TwinsKept
      <4>3. CASE TakesCancel(id)
        <5>1. /\ proposals'[id] = [proposals[id] EXCEPT !.cancelled = TRUE]
              /\ records'[id] = [records[id] EXCEPT !.status = "Cancelled"]
          BY <3>3, <4>1, <4>3
             DEF Cancel, Attempt, ChainTakesCancel, cancel_proposal, cancel,
                 Together, TypeOK, MirrorTypeOK
        <5>2. Unsettled(proposals[id])
          BY <3>1, <4>3 DEF TakesCancel
        <5>3. Agree(id)'
          BY <1>1, <1>3, <2>1, <3>1, <5>1, <5>2
             DEF Agree, StatusFor, Unsettled, Record, Proposal
        <5>. QED  BY <2>2, <2>3, <5>3 DEF Twins
      <4>. QED  BY <4>2, <4>3
    <3>. QED  BY <3>2, <3>3
  <2>. QED  BY <2>4, <2>5
<1>. QED  BY <1>5, <1>6

\* Both are paused, and both take the same guardians.
LEMMA SettingsAgree ==
  ASSUME Together, config # NoEngine,
         \/ \E signer \in Keys, paused \in BOOLEAN : SetPaused(signer, paused)
         \/ \E vec \in GuardianVecs, threshold \in 0..U8Max : SetGuardians(vec, threshold)
  PROVE  Agreement'
<1>. SUFFICES ASSUME ~forked' PROVE SameSettings' /\ \A id \in ProposalIds : Twins(id)'
  BY DEF Agreement
<1>1. /\ ~forked
      /\ UNCHANGED <<records, voters, proposals, approvals, parted>>
  <2>1. ~forked /\ UNCHANGED parted
    <3>1. ASSUME NEW signer \in Keys, NEW paused \in BOOLEAN, SetPaused(signer, paused)
          PROVE  ~forked /\ UNCHANGED parted
      BY <3>1 DEF SetPaused, AboutAll
    <3>2. ASSUME NEW vec \in GuardianVecs, NEW threshold \in 0..U8Max,
                 SetGuardians(vec, threshold)
          PROVE  ~forked /\ UNCHANGED parted
      BY <3>2 DEF SetGuardians, history
    <3>. QED  BY <3>1, <3>2
  <2>2. UNCHANGED <<records, voters, proposals, approvals>>
    BY DEF SetPaused, SetGuardians, Attempt, set_paused, set_guardians, vars,
           engine_set_paused, engine_set_guardians, Keep, mirror
  <2>. QED  BY <2>1, <2>2
<1>2. /\ config \in GovernanceConfig /\ governance \in Governance
      /\ SameSettings /\ Initialized /\ \A id \in ProposalIds : Twins(id)
  BY <1>1, Unforked
<1>3. \A id \in ProposalIds : Twins(id)'
  BY <1>1, <1>2, TwinsKept DEF VotersOf
<1>4. AdminOnly(config.authority) /\ config.authority \in Keys
  BY <1>2 DEF AdminOnly, SameSettings, GovernanceConfig
<1>5. Initialized'
  <2>1. CASE UNCHANGED vars
    BY <1>2, <2>1 DEF vars, Initialized
  <2>2. CASE \E signer \in Keys : Administer(signer) /\ Initialized
    BY <2>2, AdministerFrame DEF Together
  <2>. QED
    BY <1>2, <1>4, <2>1, <2>2 DEF SetPaused, SetGuardians, Attempt, Administer
<1>6. CASE \E signer \in Keys, paused \in BOOLEAN : SetPaused(signer, paused)
  <2>1. PICK signer \in Keys, paused \in BOOLEAN : SetPaused(signer, paused)
    BY <1>6
  <2>2. config' = [config EXCEPT !.paused = paused]
    BY <2>1 DEF SetPaused, engine_set_paused
  <2>3. governance' = [governance EXCEPT !.paused = paused]
    BY <2>1 DEF SetPaused, AboutAll, Attempt, set_paused
  <2>4. config' \in GovernanceConfig
    BY <1>2, <2>2 DEF GovernanceConfig
  <2>. QED
    BY <1>2, <1>3, <1>5, <2>2, <2>3, <2>4, NothingAssumption
       DEF SameSettings, GovernanceConfig, Governance
<1>7. CASE \E vec \in GuardianVecs, threshold \in 0..U8Max : SetGuardians(vec, threshold)
  <2>1. PICK vec \in GuardianVecs, threshold \in 0..U8Max : SetGuardians(vec, threshold)
    BY <1>7
  <2>2. CASE ~validate_guardians(vec, threshold)
    <3>1. UNCHANGED <<config, governance>>
      BY <2>1, <2>2 DEF SetGuardians, Attempt, MaySetGuardians, vars,
                        engine_set_guardians, Keep, mirror
    <3>. QED  BY <1>2, <1>3, <1>5, <3>1 DEF SameSettings
  <2>3. CASE validate_guardians(vec, threshold)
    <3>1. config' = [config EXCEPT !.guardians = Range(vec), !.threshold = threshold]
      BY <2>1, <2>3 DEF SetGuardians, engine_set_guardians
    <3>2. config' \in GovernanceConfig
      BY <1>2, <2>3, <3>1, ValidGuardians DEF GovernanceConfig
    <3>3. governance' = [governance EXCEPT !.guardians = Range(vec),
                                           !.threshold = threshold]
      BY <1>4, <2>1, <2>3 DEF SetGuardians, Attempt, MaySetGuardians, set_guardians
    <3>. QED
      BY <1>2, <1>3, <1>5, <3>1, <3>2, <3>3, NothingAssumption
         DEF SameSettings, GovernanceConfig, Governance
  <2>. QED  BY <2>2, <2>3
<1>. QED  BY <1>6, <1>7

LEMMA AgreementStep ==
  Together /\ [MirrorNext]_mirrorVars /\ VoteCountExact' => Agreement'
<1>. SUFFICES ASSUME Together, [MirrorNext]_mirrorVars, VoteCountExact'
              PROVE  Agreement'
  OBVIOUS
<1>1. CASE (Tick /\ UNCHANGED <<mirror, history>>) \/ UNCHANGED mirrorVars
  <2>1. UNCHANGED <<governance, proposals, approvals, config, records, voters, parted, forked>>
    BY <1>1 DEF Tick, mirrorVars, vars, mirror, history
  <2>. QED
    BY <2>1, TwinsKept DEF Together, Agreement, SameSettings, Initialized, VotersOf
<1>2. CASE config # NoEngine /\ Serving
  BY <1>2, ProposeAgrees, ApproveAgrees, SettleAgrees, SettingsAgree DEF Serving
<1>. QED  BY <1>1, <1>2, DeployAgrees DEF MirrorNext

(***************************************************************************)
(* The theorems                                                            *)
(***************************************************************************)
\* A record whose account it matches is queried as the account says.
LEMMA AnswersMatch ==
  ASSUME NEW id \in ProposalIds, Agree(id), records[id] \in Record,
         ~(proposals[id].executed /\ proposals[id].cancelled)
  PROVE  /\ GqlProposal(id) = AnswerFor(proposals[id], records[id].threshold)
         /\ records[id].status = "Executed" <=> proposals[id].executed
<1>1. status_str(records[id].status) = StatusOf(proposals[id], records[id].threshold)
  <2>1. records[id].status = StatusFor(proposals[id], records[id].threshold)
    BY DEF Agree
  <2>. QED  BY <2>1 DEF StatusFor, StatusOf, status_str, Unsettled
<1>2. GqlProposal(id) =
        [ id |-> records[id].id, program_id |-> records[id].program_id,
          build_hash |-> records[id].build_hash, eta |-> records[id].eta,
          approvals |-> records[id].approvals, threshold |-> records[id].threshold,
          status |-> status_str(records[id].status) ]
  BY DEF GqlProposal, Record
<1>3. GqlProposal(id) = AnswerFor(proposals[id], records[id].threshold)
  BY <1>1, <1>2 DEF Agree, AnswerFor
<1>4. records[id].status = "Executed" <=> proposals[id].executed
  BY DEF Agree, StatusFor
<1>. QED  BY <1>3, <1>4

LEMMA TogetherMirrors == Together => Mirrors
<1>. SUFFICES ASSUME Together, ~forked
     PROVE  /\ Initialized <=> config # NoEngine
            /\ Initialized =>
                 /\ \A field \in DOMAIN GqlConfig : GqlConfig[field] = governance[field]
                 /\ Recorded = {id \in ProposalIds : Exists(id)}
                 /\ \A id \in Recorded \ parted :
                      GqlProposal(id) = AnswerFor(proposals[id], records[id].threshold)
                 /\ GqlStats.proposals = governance.proposal_count
                 /\ parted = {} =>
                      GqlStats.executed =
                        Cardinality({id \in Recorded : proposals[id].executed})
  BY DEF Mirrors
<1>1. SameSettings
  BY DEF Together, Agreement
<1>. SUFFICES ASSUME Initialized
     PROVE  /\ \A field \in DOMAIN GqlConfig : GqlConfig[field] = governance[field]
            /\ Recorded = {id \in ProposalIds : Exists(id)}
            /\ \A id \in Recorded \ parted :
                 GqlProposal(id) = AnswerFor(proposals[id], records[id].threshold)
            /\ GqlStats.proposals = governance.proposal_count
            /\ parted = {} =>
                 GqlStats.executed = Cardinality({id \in Recorded : proposals[id].executed})
  BY <1>1 DEF SameSettings
<1>2. /\ config # NoEngine /\ config \in GovernanceConfig /\ governance \in Governance
      /\ \A id \in ProposalIds : HasRecord(id) <=> Exists(id)
  BY <1>1, Unforked DEF SameSettings
<1>3. \A field \in DOMAIN GqlConfig : GqlConfig[field] = governance[field]
  <2>1. DOMAIN config = {"authority", "guardians", "threshold",
                         "timelock_seconds", "paused", "proposal_count"}
    BY <1>2 DEF GovernanceConfig
  <2>. QED  BY <1>1, <2>1 DEF GqlConfig, SameSettings
<1>4. Recorded = {id \in ProposalIds : Exists(id)}
  BY <1>2 DEF Recorded
<1>5. ASSUME NEW id \in Recorded \ parted
      PROVE  /\ GqlProposal(id) = AnswerFor(proposals[id], records[id].threshold)
             /\ records[id].status = "Executed" <=> proposals[id].executed
  <2>1. id \in ProposalIds /\ Agree(id) /\ Exists(id) /\ records[id] \in Record
    BY Unparted DEF Recorded, HasRecord
  <2>2. ~(proposals[id].executed /\ proposals[id].cancelled)
    BY <2>1 DEF Together, SettledOnce
  <2>. QED  BY <2>1, <2>2, AnswersMatch
<1>6. GqlStats.proposals = governance.proposal_count
  <2>1. Recorded = 0..(governance.proposal_count - 1)
    BY <1>4 DEF Together, IdsDense
  <2>2. governance.proposal_count \in Nat
    BY <1>2, WidthAssumption DEF Governance
  <2>3. Cardinality(0..(governance.proposal_count - 1)) = governance.proposal_count
    BY <2>2, FS_Interval
  <2>. QED  BY <2>1, <2>3 DEF GqlStats
<1>7. ASSUME parted = {}
      PROVE  GqlStats.executed = Cardinality({id \in Recorded : proposals[id].executed})
  <2>1. {id \in Recorded : records[id].status = "Executed"}
          = {id \in Recorded : proposals[id].executed}
    BY <1>5, <1>7
  <2>. QED  BY <2>1 DEF GqlStats
<1>. QED  BY <1>3, <1>4, <1>5, <1>6, <1>7

LEMMA AlwaysTogether == MirrorSpec => []Together
<1>1. MirrorInit => Agreement
  BY DEF MirrorInit, Init, Agreement, SameSettings, Twins, Initialized, Exists
<1>2. /\ TypeOK /\ MirrorTypeOK /\ IdsDense /\ VoteCountExact /\ SettledOnce
      /\ Agreement /\ [MirrorNext]_mirrorVars /\ VoteCountExact'
      => Agreement'
  BY AgreementStep DEF Together
<1>3. /\ TypeOK /\ MirrorTypeOK /\ IdsDense /\ VoteCountExact /\ SettledOnce /\ Agreement
      => Together
  BY DEF Together
<1>. QED
  BY <1>1, <1>2, <1>3, AlwaysMirrorTypes, PairImplementsProgram, IdsNeverReused,
     VotesCountedOnce, SettledForGood, PTL DEF MirrorSpec

\* Whoever asks for what and signs as whom, in any order, among rotations, pauses
\* and ticks: the service answers what the accounts say of every proposal of which
\* the two sides took or refused the same requests.
THEOREM ServiceMirrorsProgram == MirrorSpec => []Mirrors
BY AlwaysTogether, TogetherMirrors, PTL

\* And the two sides differ in these points only: a timelock below zero, whose
\* signature a request has, the threshold an execution goes by, a vote past a full
\* u8, a second cancel.
THEOREM SidesDecideAlike == MirrorSpec => []SameVerdicts
BY AlwaysTogether, TogetherVerdicts, PTL
===============================================================================
