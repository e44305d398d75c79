----------------------- MODULE UpgradeGovernanceProofs -----------------------
(***************************************************************************)
(* Theorems about UpgradeGovernance, for every set of keys, programs and   *)
(* build hashes and every integer width.                                   *)
(***************************************************************************)
EXTENDS UpgradeGovernance, FiniteSetTheorems, TLAPS

\* A vector that passes validate_guardians has as many members as entries, so
\* the threshold is within reach of the registered guardians.
LEMMA ValidGuardians ==
  ASSUME NEW vec \in GuardianVecs, NEW threshold,
         validate_guardians(vec, threshold)
  PROVE  /\ Range(vec) \in SUBSET Keys
         /\ threshold \in 1..U8Max
         /\ threshold <= Cardinality(Range(vec))
<1>1. vec \in Seq(Keys) /\ DOMAIN vec = 1..Len(vec) /\ Len(vec) \in Nat
  BY KeysAssumption
<1>2. Range(vec) \in SUBSET Keys
  BY <1>1 DEF Range
<1>3. threshold \in 1..U8Max /\ threshold <= Len(vec)
  BY <1>1, WidthAssumption DEF validate_guardians
<1>4. vec \in Bijection(1..Len(vec), Range(vec))
  BY <1>1 DEF validate_guardians, Range, Bijection, Injection, Surjection, IsInjective
<1>5. Cardinality(Range(vec)) = Len(vec)
  <2>1. IsFiniteSet(1..Len(vec)) /\ Cardinality(1..Len(vec)) = Len(vec)
    BY <1>1, FS_Interval
  <2>2. ExistsBijection(1..Len(vec), Range(vec))
    BY <1>4 DEF ExistsBijection
  <2>. QED  BY <2>1, <2>2, FS_Bijection
<1>. QED  BY <1>2, <1>3, <1>5

\* An account that exists has the fields of its type.
LEMMA AccountTypes ==
  ASSUME TypeOK
  PROVE  /\ Initialized => governance \in Governance
         /\ \A id \in ProposalIds : Exists(id) => proposals[id] \in Proposal
BY DEF TypeOK, Initialized, Exists

\* Administration leaves a well-typed governance account and no other trace.
LEMMA AdministerType ==
  ASSUME TypeOK, NEW signer \in Keys, Administer(signer)
  PROVE  /\ governance' \in Governance
         /\ nominator' \in Keys \cup {DefaultKey}
         /\ UNCHANGED <<proposals, approvals, events, now>>
<1>. USE DEF Initialized
<1>1. ASSUME NEW vec \in GuardianVecs, NEW threshold, NEW timelock \in Timelocks,
             initialize(signer, vec, threshold, timelock)
      PROVE  governance' \in Governance
  <2>1. Range(vec) \in SUBSET Keys /\ threshold \in 1..U8Max
    BY <1>1, ValidGuardians DEF initialize, MayInitialize
  <2>2. timelock \in Times
    BY <1>1, WidthAssumption DEF initialize, MayInitialize, Times
  <2>. QED
    BY <1>1, <2>1, <2>2, WidthAssumption DEF initialize, Governance
<1>2. ASSUME NEW vec \in GuardianVecs, NEW threshold,
             set_guardians(signer, vec, threshold)
      PROVE  governance' \in Governance
  <2>1. Range(vec) \in SUBSET Keys /\ threshold \in 1..U8Max
    BY <1>2, ValidGuardians DEF set_guardians, MaySetGuardians
  <2>. QED
    BY <1>2, <2>1, AccountTypes DEF set_guardians, MaySetGuardians, AdminOnly, Governance
<1>3. ASSUME NEW paused \in BOOLEAN, set_paused(signer, paused)
      PROVE  governance' \in Governance
  BY <1>3, AccountTypes DEF set_paused, AdminOnly, Governance
<1>4. ASSUME NEW key \in Keys \cup {DefaultKey}, transfer_authority(signer, key)
      PROVE  governance' \in Governance
  BY <1>4, AccountTypes DEF transfer_authority, AdminOnly, Governance
<1>5. ASSUME accept_authority(signer)
      PROVE  governance' \in Governance
  BY <1>5, AccountTypes DEF accept_authority, Handover, Governance
<1>6. governance' \in Governance
  BY <1>1, <1>2, <1>3, <1>4, <1>5 DEF Administer
<1>7. /\ nominator' \in Keys \cup {DefaultKey}
      /\ UNCHANGED <<proposals, approvals, events, now>>
  BY DEF Administer, initialize, set_guardians, set_paused, transfer_authority,
         accept_authority, TypeOK
<1>. QED  BY <1>6, <1>7

LEMMA TypeStep == TypeOK /\ [Next]_vars => TypeOK'
<1>. SUFFICES ASSUME TypeOK, [Next]_vars PROVE TypeOK'
  OBVIOUS
<1>. USE DEF Initialized, Exists
<1>1. ASSUME NEW signer \in Keys, Administer(signer)
      PROVE  TypeOK'
  BY <1>1, AdministerType DEF TypeOK
<1>2. ASSUME NEW signer \in Keys, NEW program_id \in Programs,
             NEW build_hash \in BuildHashes,
             propose_upgrade(signer, program_id, build_hash)
      PROVE  TypeOK'
  <2> DEFINE id == governance.proposal_count
  <2>1. governance \in Governance /\ id + 1 <= U64Max /\ Eta <= I64Max
    BY <1>2, AccountTypes DEF propose_upgrade, MayPropose, Active, Fits
  <2>2. id \in ProposalIds /\ id + 1 \in 0..U64Max
    BY <2>1, WidthAssumption DEF Governance, ProposalIds
  <2>3. Eta \in Times
    BY <2>1, WidthAssumption DEF Governance, Eta, Times, TypeOK
  <2>4. governance' \in Governance
    BY <1>2, <2>1, <2>2 DEF propose_upgrade, Governance
  <2>5. proposals'[id] \in Proposal
    BY <1>2, <2>2, <2>3, WidthAssumption DEF propose_upgrade, MayPropose, Proposal, TypeOK
  <2>6. proposals' \in [ProposalIds -> Proposal \cup {NoAccount}]
    BY <1>2, <2>2, <2>5 DEF propose_upgrade, TypeOK
  <2>. QED  BY <1>2, <2>4, <2>6 DEF propose_upgrade, TypeOK
<1>3. ASSUME NEW signer \in Keys, NEW id \in ProposalIds, approve_upgrade(signer, id)
      PROVE  TypeOK'
  <2>1. proposals[id] \in Proposal
    BY <1>3, AccountTypes DEF approve_upgrade, MayApprove
  <2>2. proposals[id].approvals + 1 \in 0..U8Max
    BY <1>3, <2>1, WidthAssumption DEF approve_upgrade, MayApprove, Fits, Proposal
  <2>3. proposals'[id] \in Proposal
    BY <1>3, <2>1, <2>2 DEF approve_upgrade, Proposal, TypeOK
  <2>4. proposals' \in [ProposalIds -> Proposal \cup {NoAccount}]
    BY <1>3, <2>3 DEF approve_upgrade, TypeOK
  <2>. QED  BY <1>3, <2>4 DEF approve_upgrade, TypeOK
<1>4. ASSUME NEW id \in ProposalIds, execute_upgrade(id)
      PROVE  TypeOK'
  <2>1. proposals[id] \in Proposal
    BY <1>4, AccountTypes DEF execute_upgrade, MayExecute
  <2>2. proposals'[id] \in Proposal
    BY <1>4, <2>1 DEF execute_upgrade, Proposal, TypeOK
  <2>3. proposals' \in [ProposalIds -> Proposal \cup {NoAccount}]
    BY <1>4, <2>2 DEF execute_upgrade, TypeOK
  <2>. QED  BY <1>4, <2>3 DEF execute_upgrade, TypeOK
<1>5. ASSUME NEW signer \in Keys, NEW id \in ProposalIds, cancel_proposal(signer, id)
      PROVE  TypeOK'
  <2>1. proposals[id] \in Proposal
    BY <1>5, AccountTypes DEF cancel_proposal, MayCancel
  <2>2. proposals'[id] \in Proposal
    BY <1>5, <2>1 DEF cancel_proposal, Proposal, TypeOK
  <2>3. proposals' \in [ProposalIds -> Proposal \cup {NoAccount}]
    BY <1>5, <2>2 DEF cancel_proposal, TypeOK
  <2>. QED  BY <1>5, <2>3 DEF cancel_proposal, TypeOK
<1>6. CASE Tick
  BY <1>6, WidthAssumption DEF Tick, TypeOK, Times
<1>7. CASE UNCHANGED vars
  BY <1>7 DEF vars, TypeOK
<1>. QED
  BY <1>1, <1>2, <1>3, <1>4, <1>5, <1>6, <1>7 DEF Next, Upgrade

\* Type correctness of every account, in every reachable state.
THEOREM TypeCorrect == Spec => []TypeOK
<1>1. Init => TypeOK
  BY WidthAssumption DEF Init, TypeOK, Times
<1>. QED  BY <1>1, TypeStep, PTL DEF Spec

\* Administration changes neither the counter nor the delay once they are set,
\* and keeps the threshold within reach of the guardians.
LEMMA AdministerFrame ==
  ASSUME TypeOK, NEW signer \in Keys, Administer(signer)
  PROVE  /\ Initialized'
         /\ Initialized => /\ governance'.proposal_count = governance.proposal_count
                           /\ governance'.timelock_seconds = governance.timelock_seconds
         /\ ~Initialized => governance'.proposal_count = 0
<1>1. Initialized'
  BY AdministerType, NoAccountAssumption DEF Initialized
<1>2. ASSUME Initialized
      PROVE  /\ governance'.proposal_count = governance.proposal_count
             /\ governance'.timelock_seconds = governance.timelock_seconds
  <2>1. governance \in Governance
    BY <1>2, AccountTypes
  <2>. QED
    BY <1>2, <2>1
    DEF Administer, initialize, MayInitialize, set_guardians, set_paused,
        transfer_authority, accept_authority, Handover, GovernanceVacant, Governance
<1>3. ASSUME ~Initialized
      PROVE  governance'.proposal_count = 0
  <2>1. PICK vec \in GuardianVecs, threshold \in 0..U8Max, timelock \in Timelocks :
          initialize(signer, vec, threshold, timelock)
    BY <1>3 DEF Administer, set_guardians, MaySetGuardians, set_paused, transfer_authority,
                accept_authority, AdminOnly
  <2>. QED  BY <2>1 DEF initialize
<1>. QED  BY <1>1, <1>2, <1>3

(***************************************************************************)
(* Ids                                                                     *)
(***************************************************************************)
\* Voting, executing and cancelling create no account and remove none.
LEMMA ExistsFrame ==
  ASSUME TypeOK, NEW signer \in Keys, NEW id \in ProposalIds,
         \/ approve_upgrade(signer, id)
         \/ execute_upgrade(id)
         \/ cancel_proposal(signer, id)
  PROVE  /\ \A i \in ProposalIds : Exists(i)' <=> Exists(i)
         /\ Exists(id)
         /\ UNCHANGED <<governance, now>>
         /\ Initialized
<1>1. /\ Exists(id) /\ Initialized
      /\ UNCHANGED <<governance, now>>
      /\ \A i \in ProposalIds \ {id} : proposals'[i] = proposals[i]
  BY DEF approve_upgrade, MayApprove, execute_upgrade, MayExecute, cancel_proposal,
         MayCancel, Active, AdminOnly, TypeOK
<1>2. proposals[id] \in Proposal
  BY <1>1, AccountTypes
<1>3. proposals'[id] \in Proposal
  <2>1. CASE approve_upgrade(signer, id)
    BY <1>2, <2>1, WidthAssumption DEF approve_upgrade, MayApprove, TypeOK, Proposal, Fits
  <2>2. CASE execute_upgrade(id)
    BY <1>2, <2>2 DEF execute_upgrade, TypeOK, Proposal
  <2>3. CASE cancel_proposal(signer, id)
    BY <1>2, <2>3 DEF cancel_proposal, TypeOK, Proposal
  <2>. QED  BY <2>1, <2>2, <2>3
<1>4. \A i \in ProposalIds : Exists(i)' <=> Exists(i)
  BY <1>1, <1>3, NoAccountAssumption DEF Exists
<1>. QED  BY <1>1, <1>4

\* A proposal is created at the address of the counter, and the counter moves on.
LEMMA ProposeFrame ==
  ASSUME TypeOK, NEW signer \in Keys, NEW program_id \in Programs,
         NEW build_hash \in BuildHashes,
         propose_upgrade(signer, program_id, build_hash)
  PROVE  LET id == governance.proposal_count
         IN  /\ Initialized /\ Initialized'
             /\ id \in ProposalIds
             /\ governance' = [governance EXCEPT !.proposal_count = id + 1]
             /\ ~Exists(id) /\ proposals'[id] # NoAccount
             /\ \A i \in ProposalIds \ {id} : proposals'[i] = proposals[i]
             /\ proposals'[id] =
                  [ id |-> id, program_id |-> program_id, build_hash |-> build_hash,
                    eta |-> Eta, approvals |-> 0,
                    executed |-> FALSE, cancelled |-> FALSE ]
             /\ proposals'[id] \in Proposal
<1> DEFINE id == governance.proposal_count
<1>1. governance \in Governance /\ Initialized
  BY AccountTypes DEF propose_upgrade, MayPropose, Active
<1>2. id \in ProposalIds /\ id + 1 \in 0..U64Max
  BY <1>1, WidthAssumption DEF propose_upgrade, MayPropose, Fits, Governance, ProposalIds
<1>3. governance' = [governance EXCEPT !.proposal_count = id + 1]
  BY DEF propose_upgrade
<1>4. governance' \in Governance
  BY <1>1, <1>2, <1>3 DEF Governance
<1>5. Eta \in Times
  BY <1>1, WidthAssumption
     DEF propose_upgrade, MayPropose, Fits, Governance, Eta, Times, TypeOK
<1>6. proposals'[id] =
        [ id |-> id, program_id |-> program_id, build_hash |-> build_hash,
          eta |-> Eta, approvals |-> 0, executed |-> FALSE, cancelled |-> FALSE ]
  BY <1>2 DEF propose_upgrade, TypeOK
<1>7. proposals'[id] \in Proposal
  <2>1. build_hash \in BuildHashes \ {ZeroHash}
    BY DEF propose_upgrade, MayPropose
  <2>. QED  BY <1>2, <1>5, <1>6, <2>1, WidthAssumption DEF Proposal
<1>8. \A i \in ProposalIds \ {id} : proposals'[i] = proposals[i]
  BY DEF propose_upgrade, TypeOK
<1>9. Initialized' /\ proposals'[id] # NoAccount /\ ~Exists(id)
  <2>1. Initialized'
    BY <1>4, NoAccountAssumption DEF Initialized
  <2>2. proposals'[id] # NoAccount
    BY <1>7, NoAccountAssumption
  <2>3. ~Exists(id)
    BY DEF propose_upgrade, MayPropose
  <2>. QED  BY <2>1, <2>2, <2>3
<1>. QED  BY <1>1, <1>2, <1>3, <1>6, <1>7, <1>8, <1>9

LEMMA IdsDenseStep == TypeOK /\ IdsDense /\ [Next]_vars => IdsDense'
<1>. SUFFICES ASSUME TypeOK, IdsDense, [Next]_vars PROVE IdsDense'
  OBVIOUS
<1>1. ASSUME NEW signer \in Keys, Administer(signer)
      PROVE  IdsDense'
  <2>1. {id \in ProposalIds : Exists(id)}' = {id \in ProposalIds : Exists(id)}
    BY <1>1, AdministerType DEF Exists
  <2>2. CASE Initialized
    BY <1>1, <2>1, <2>2, AdministerFrame DEF IdsDense
  <2>3. CASE ~Initialized
    <3>1. 0..(governance'.proposal_count - 1) = {}
      BY <1>1, <2>3, AdministerFrame
    <3>. QED  BY <1>1, <2>1, <2>3, <3>1, AdministerFrame DEF IdsDense
  <2>. QED  BY <2>2, <2>3
<1>2. ASSUME NEW signer \in Keys, NEW program_id \in Programs,
             NEW build_hash \in BuildHashes,
             propose_upgrade(signer, program_id, build_hash)
      PROVE  IdsDense'
  <2> DEFINE n == governance.proposal_count
  <2>1. n \in Nat /\ governance'.proposal_count = n + 1
    <3>1. governance \in Governance
      BY <1>2, ProposeFrame, AccountTypes
    <3>2. governance' = [governance EXCEPT !.proposal_count = n + 1]
      BY <1>2, ProposeFrame
    <3>. QED  BY <3>1, <3>2 DEF Governance
  <2>2. {id \in ProposalIds : Exists(id)}' = {id \in ProposalIds : Exists(id)} \cup {n}
    <3>1. /\ n \in ProposalIds
          /\ proposals'[n] # NoAccount
          /\ \A i \in ProposalIds \ {n} : proposals'[i] = proposals[i]
      BY <1>2, ProposeFrame
    <3>2. \A i \in ProposalIds :
            proposals'[i] # NoAccount <=> proposals[i] # NoAccount \/ i = n
      BY <3>1
    <3>. QED  BY <3>1, <3>2 DEF Exists
  <2>3. {id \in ProposalIds : Exists(id)} = 0..(n - 1)
    BY <1>2, ProposeFrame DEF IdsDense
  <2>4. 0..(n - 1) \cup {n} = 0..((n + 1) - 1)
    BY <2>1
  <2>. QED  BY <1>2, <2>1, <2>2, <2>3, <2>4, ProposeFrame DEF IdsDense
<1>3. ASSUME NEW signer \in Keys, NEW id \in ProposalIds,
             \/ approve_upgrade(signer, id)
             \/ execute_upgrade(id)
             \/ cancel_proposal(signer, id)
      PROVE  IdsDense'
  <2>1. {i \in ProposalIds : Exists(i)}' = {i \in ProposalIds : Exists(i)}
    BY <1>3, ExistsFrame
  <2>2. governance' = governance
    BY <1>3, ExistsFrame
  <2>. QED  BY <2>1, <2>2 DEF IdsDense, Initialized
<1>4. CASE Tick
  BY <1>4 DEF Tick, IdsDense, Exists, Initialized
<1>5. CASE UNCHANGED vars
  BY <1>5 DEF vars, IdsDense, Exists, Initialized
<1>. QED
  BY <1>1, <1>2, <1>3, <1>4, <1>5 DEF Next, Upgrade

\* Proposal ids are dense and never reused, for any number of proposals: the
\* accounts that exist are exactly those below proposal_count.
THEOREM IdsNeverReused == Spec => []IdsDense
<1>1. Init => IdsDense
  BY DEF Init, IdsDense, Exists, Initialized
<1>. QED  BY <1>1, IdsDenseStep, TypeCorrect, PTL DEF Spec

(***************************************************************************)
(* Votes                                                                   *)
(***************************************************************************)
LEMMA VotersFinite ==
  \A id : IsFiniteSet(VotersOf(id)) /\ Cardinality(VotersOf(id)) \in Nat
<1>. SUFFICES ASSUME NEW id
              PROVE  IsFiniteSet(VotersOf(id)) /\ Cardinality(VotersOf(id)) \in Nat
  OBVIOUS
<1>1. VotersOf(id) \in SUBSET Keys
  BY DEF VotersOf
<1>2. IsFiniteSet(VotersOf(id))
  BY <1>1, KeysAssumption, FS_Subset
<1>. QED  BY <1>2, FS_CardinalityType

\* An approval adds one voter that was not there, to one proposal, and counts it.
LEMMA ApproveVotes ==
  ASSUME TypeOK, NEW guardian \in Keys, NEW id \in ProposalIds,
         approve_upgrade(guardian, id)
  PROVE  /\ guardian \notin VotersOf(id)
         /\ VotersOf(id)' = VotersOf(id) \cup {guardian}
         /\ Cardinality(VotersOf(id)') = Cardinality(VotersOf(id)) + 1
         /\ \A i \in ProposalIds \ {id} : VotersOf(i)' = VotersOf(i)
         /\ proposals' = [proposals EXCEPT ![id].approvals = proposals[id].approvals + 1]
         /\ proposals[id] \in Proposal
<1>1. approvals' = approvals \cup {<<id, guardian>>} /\ <<id, guardian>> \notin approvals
  BY DEF approve_upgrade, MayApprove, ApprovalVacant
<1>2. guardian \notin VotersOf(id) /\ VotersOf(id)' = VotersOf(id) \cup {guardian}
  BY <1>1 DEF VotersOf
<1>3. \A i \in ProposalIds \ {id} : VotersOf(i)' = VotersOf(i)
  BY <1>1 DEF VotersOf
<1>4. Cardinality(VotersOf(id) \cup {guardian}) = Cardinality(VotersOf(id)) + 1
  BY <1>2, VotersFinite, FS_AddElement
<1>5. proposals' = [proposals EXCEPT ![id].approvals = proposals[id].approvals + 1]
  BY DEF approve_upgrade
<1>6. proposals[id] \in Proposal
  BY AccountTypes DEF approve_upgrade, MayApprove
<1>. QED  BY <1>2, <1>3, <1>4, <1>5, <1>6

LEMMA VoteCountStep == TypeOK /\ VoteCountExact /\ [Next]_vars => VoteCountExact'
<1>. SUFFICES ASSUME TypeOK, VoteCountExact, [Next]_vars PROVE VoteCountExact'
  OBVIOUS
<1>1. ASSUME UNCHANGED <<proposals, approvals>>
      PROVE  VoteCountExact'
  BY <1>1 DEF VoteCountExact, Exists, VotersOf
<1>2. ASSUME NEW signer \in Keys, NEW program_id \in Programs,
             NEW build_hash \in BuildHashes,
             propose_upgrade(signer, program_id, build_hash)
      PROVE  VoteCountExact'
  <2> DEFINE n == governance.proposal_count
  <2>1. /\ n \in ProposalIds /\ ~Exists(n)
        /\ proposals'[n] # NoAccount /\ proposals'[n].approvals = 0
        /\ \A i \in ProposalIds \ {n} : proposals'[i] = proposals[i]
    <3>1. proposals'[n] =
            [ id |-> n, program_id |-> program_id, build_hash |-> build_hash,
              eta |-> Eta, approvals |-> 0, executed |-> FALSE, cancelled |-> FALSE ]
      BY <1>2, ProposeFrame
    <3>2. proposals'[n].approvals = 0
      BY <3>1
    <3>. QED  BY <1>2, <3>2, ProposeFrame
  <2>2. \A i : VotersOf(i)' = VotersOf(i)
    BY <1>2 DEF propose_upgrade, VotersOf
  <2>3. Cardinality(VotersOf(n)) = 0
    BY <2>1, FS_EmptySet DEF VoteCountExact
  <2>. QED  BY <2>1, <2>2, <2>3 DEF VoteCountExact, Exists
<1>3. ASSUME NEW guardian \in Keys, NEW id \in ProposalIds, approve_upgrade(guardian, id)
      PROVE  VoteCountExact'
  <2>1. Exists(id) /\ \A i \in ProposalIds : Exists(i)' <=> Exists(i)
    BY <1>3, ExistsFrame
  <2>2. /\ proposals'[id].approvals = proposals[id].approvals + 1
        /\ \A i \in ProposalIds \ {id} : proposals'[i] = proposals[i]
    BY <1>3, ApproveVotes DEF TypeOK, Proposal
  <2>3. proposals'[id].approvals = Cardinality(VotersOf(id)')
    BY <1>3, <2>1, <2>2, ApproveVotes DEF VoteCountExact
  <2>. QED  BY <1>3, <2>1, <2>2, <2>3, ApproveVotes DEF VoteCountExact
<1>4. ASSUME NEW signer \in Keys, NEW id \in ProposalIds,
             execute_upgrade(id) \/ cancel_proposal(signer, id)
      PROVE  VoteCountExact'
  <2>1. \A i \in ProposalIds : Exists(i)' <=> Exists(i)
    BY <1>4, ExistsFrame
  <2>2. Exists(id)
    BY <1>4, ExistsFrame
  <2>3. proposals[id] \in Proposal
    BY <2>2, AccountTypes
  <2>4. \A i \in ProposalIds : Exists(i) => proposals'[i].approvals = proposals[i].approvals
    BY <1>4, <2>3 DEF execute_upgrade, cancel_proposal, TypeOK, Proposal
  <2>5. \A i : VotersOf(i)' = VotersOf(i)
    BY <1>4 DEF execute_upgrade, cancel_proposal, VotersOf
  <2>. QED  BY <2>1, <2>4, <2>5 DEF VoteCountExact
<1>5. CASE Tick
  BY <1>1, <1>5 DEF Tick
<1>6. CASE UNCHANGED vars
  BY <1>1, <1>6 DEF vars
<1>7. ASSUME NEW signer \in Keys, Administer(signer)
      PROVE  VoteCountExact'
  BY <1>1, <1>7, AdministerType
<1>. QED
  BY <1>2, <1>3, <1>4, <1>5, <1>6, <1>7 DEF Next, Upgrade

\* The double-vote guard: the counter that execute_upgrade compares with the
\* threshold is the number of distinct keys that approved, for any number of
\* guardians and any sequence of rotations.
THEOREM VotesCountedOnce == Spec => []VoteCountExact
<1>1. Init => VoteCountExact
  BY DEF Init, VoteCountExact, Exists, VotersOf
<1>. QED  BY <1>1, VoteCountStep, TypeCorrect, PTL DEF Spec

\* The threshold never exceeds the number of registered guardians.
ElectorateSound ==
  Initialized => governance.threshold <= Cardinality(governance.guardians)

LEMMA ElectorateStep == TypeOK /\ ElectorateSound /\ [Next]_vars => ElectorateSound'
<1>. SUFFICES ASSUME TypeOK, ElectorateSound, [Next]_vars PROVE ElectorateSound'
  OBVIOUS
<1>1. ASSUME governance'.threshold = governance.threshold,
             governance'.guardians = governance.guardians, Initialized
      PROVE  ElectorateSound'
  BY <1>1 DEF ElectorateSound
<1>2. ASSUME NEW signer \in Keys, Administer(signer)
      PROVE  ElectorateSound'
  <2>1. ASSUME NEW vec \in GuardianVecs, NEW threshold \in 0..U8Max,
               NEW timelock \in Timelocks, initialize(signer, vec, threshold, timelock)
        PROVE  ElectorateSound'
    <3>1. governance'.threshold = threshold /\ governance'.guardians = Range(vec)
      BY <2>1 DEF initialize
    <3>2. threshold <= Cardinality(Range(vec))
      BY <2>1, ValidGuardians DEF initialize, MayInitialize
    <3>. QED  BY <3>1, <3>2 DEF ElectorateSound
  <2>2. ASSUME NEW vec \in GuardianVecs, NEW threshold \in 0..U8Max,
               set_guardians(signer, vec, threshold)
        PROVE  ElectorateSound'
    <3>1. governance \in Governance
      BY <2>2, AccountTypes DEF set_guardians, MaySetGuardians, AdminOnly
    <3>2. governance'.threshold = threshold /\ governance'.guardians = Range(vec)
      BY <2>2, <3>1 DEF set_guardians, Governance
    <3>3. threshold <= Cardinality(Range(vec))
      BY <2>2, ValidGuardians DEF set_guardians, MaySetGuardians
    <3>. QED  BY <3>2, <3>3 DEF ElectorateSound
  <2>3. ASSUME \/ \E paused \in BOOLEAN : set_paused(signer, paused)
               \/ \E key \in Keys \cup {DefaultKey} : transfer_authority(signer, key)
               \/ accept_authority(signer)
        PROVE  ElectorateSound'
    <3>1. Initialized
      BY <2>3 DEF set_paused, transfer_authority, accept_authority, AdminOnly
    <3>2. governance \in Governance
      BY <3>1, AccountTypes
    <3>3. /\ governance'.threshold = governance.threshold
          /\ governance'.guardians = governance.guardians
      BY <2>3, <3>2 DEF set_paused, transfer_authority, accept_authority, Handover,
                        Governance
    <3>. QED  BY <1>1, <3>1, <3>3
  <2>. QED  BY <1>2, <2>1, <2>2, <2>3 DEF Administer
<1>3. ASSUME NEW signer \in Keys, NEW program_id \in Programs,
             NEW build_hash \in BuildHashes,
             propose_upgrade(signer, program_id, build_hash)
      PROVE  ElectorateSound'
  <2>1. /\ Initialized
        /\ governance' = [governance EXCEPT !.proposal_count = governance.proposal_count + 1]
    BY <1>3, ProposeFrame
  <2>2. governance \in Governance
    BY <2>1, AccountTypes
  <2>3. /\ governance'.threshold = governance.threshold
        /\ governance'.guardians = governance.guardians
    BY <2>1, <2>2 DEF Governance
  <2>. QED  BY <1>1, <2>1, <2>3
<1>4. ASSUME governance' = governance
      PROVE  ElectorateSound'
  BY <1>4 DEF ElectorateSound, Initialized
<1>5. ASSUME NEW signer \in Keys, NEW id \in ProposalIds,
             \/ approve_upgrade(signer, id)
             \/ execute_upgrade(id)
             \/ cancel_proposal(signer, id)
      PROVE  ElectorateSound'
  BY <1>4, <1>5, ExistsFrame
<1>. QED
  BY <1>2, <1>3, <1>4, <1>5 DEF Next, Upgrade, Tick, vars

LEMMA ElectorateAlwaysSound == Spec => []ElectorateSound
<1>1. Init => ElectorateSound
  BY DEF Init, ElectorateSound, Initialized
<1>. QED  BY <1>1, ElectorateStep, TypeCorrect, PTL DEF Spec

\* Whatever set of guardians is installed, every proposal can still reach the
\* threshold with the votes it has and those of the guardians in office.
THEOREM QuorumAlwaysReachable == Spec => []QuorumReachable
<1>1. TypeOK /\ ElectorateSound => QuorumReachable
  <2>. SUFFICES ASSUME TypeOK, ElectorateSound, Initialized, NEW id \in ProposalIds
                PROVE  Cardinality(VotersOf(id) \cup governance.guardians)
                         >= governance.threshold
    BY DEF QuorumReachable
  <2> DEFINE G == governance.guardians
             U == VotersOf(id) \cup G
  <2>1. governance \in Governance
    BY AccountTypes
  <2>2. G \in SUBSET Keys /\ governance.threshold \in Nat
    BY <2>1, WidthAssumption DEF Governance
  <2>3. IsFiniteSet(U)
    BY <2>2, KeysAssumption, FS_Subset DEF VotersOf
  <2>4. Cardinality(G) <= Cardinality(U) /\ IsFiniteSet(G)
    BY <2>3, FS_Subset
  <2>5. Cardinality(U) \in Nat /\ Cardinality(G) \in Nat
    BY <2>3, <2>4, FS_CardinalityType
  <2>. QED  BY <2>2, <2>4, <2>5 DEF ElectorateSound
<1>. QED  BY <1>1, ElectorateAlwaysSound, TypeCorrect, PTL

(***************************************************************************)
(* Settlement, succession and delay                                        *)
(***************************************************************************)
LEMMA SettledStep == TypeOK /\ SettledOnce /\ [Next]_vars => SettledOnce'
<1>. SUFFICES ASSUME TypeOK, SettledOnce, [Next]_vars PROVE SettledOnce'
  OBVIOUS
<1>1. ASSUME UNCHANGED proposals
      PROVE  SettledOnce'
  BY <1>1 DEF SettledOnce, Exists
<1>2. ASSUME NEW signer \in Keys, NEW program_id \in Programs,
             NEW build_hash \in BuildHashes,
             propose_upgrade(signer, program_id, build_hash)
      PROVE  SettledOnce'
  <2> DEFINE n == governance.proposal_count
  <2>1. proposals'[n] =
          [ id |-> n, program_id |-> program_id, build_hash |-> build_hash,
            eta |-> Eta, approvals |-> 0, executed |-> FALSE, cancelled |-> FALSE ]
    BY <1>2, ProposeFrame
  <2>2. ~proposals'[n].executed
    BY <2>1
  <2>3. \A i \in ProposalIds \ {n} : proposals'[i] = proposals[i]
    BY <1>2, ProposeFrame
  <2>. QED  BY <2>2, <2>3 DEF SettledOnce, Exists
<1>3. ASSUME NEW id \in ProposalIds, Exists(id),
             \A i \in ProposalIds \ {id} : proposals'[i] = proposals[i],
             proposals'[id].executed =>
               ~proposals'[id].cancelled /\ proposals'[id].approvals >= 1
      PROVE  SettledOnce'
  BY <1>3 DEF SettledOnce, Exists
<1>4. ASSUME NEW guardian \in Keys, NEW id \in ProposalIds, approve_upgrade(guardian, id)
      PROVE  SettledOnce'
  <2>1. proposals[id] \in Proposal /\ Exists(id)
    BY <1>4, ApproveVotes, ExistsFrame
  <2>2. ~proposals'[id].executed /\ \A i \in ProposalIds \ {id} : proposals'[i] = proposals[i]
    BY <1>4, <2>1 DEF approve_upgrade, MayApprove, Unsettled, TypeOK, Proposal
  <2>. QED  BY <1>3, <2>1, <2>2
<1>5. ASSUME NEW id \in ProposalIds, execute_upgrade(id)
      PROVE  SettledOnce'
  <2>1. Exists(id) /\ Initialized
    BY <1>5 DEF execute_upgrade, MayExecute, Active
  <2>2. proposals[id] \in Proposal /\ governance \in Governance
    BY <2>1, AccountTypes
  <2>3. proposals[id].approvals >= 1
    BY <1>5, <2>2, WidthAssumption
       DEF execute_upgrade, MayExecute, QuorumMet, Proposal, Governance
  <2>4. /\ ~proposals'[id].cancelled
        /\ proposals'[id].approvals = proposals[id].approvals
        /\ \A i \in ProposalIds \ {id} : proposals'[i] = proposals[i]
    BY <1>5, <2>2 DEF execute_upgrade, MayExecute, Unsettled, TypeOK, Proposal
  <2>. QED  BY <1>3, <2>1, <2>3, <2>4
<1>6. ASSUME NEW signer \in Keys, NEW id \in ProposalIds, cancel_proposal(signer, id)
      PROVE  SettledOnce'
  <2>1. Exists(id)
    BY <1>6 DEF cancel_proposal, MayCancel
  <2>2. proposals[id] \in Proposal
    BY <2>1, AccountTypes
  <2>3. ~proposals'[id].executed /\ \A i \in ProposalIds \ {id} : proposals'[i] = proposals[i]
    BY <1>6, <2>2 DEF cancel_proposal, MayCancel, TypeOK, Proposal
  <2>. QED  BY <1>3, <2>1, <2>3
<1>7. ASSUME NEW signer \in Keys, Administer(signer)
      PROVE  SettledOnce'
  BY <1>1, <1>7, AdministerType
<1>. QED
  BY <1>1, <1>2, <1>4, <1>5, <1>6, <1>7 DEF Next, Upgrade, Tick, vars

\* No proposal is both executed and cancelled, and none is executed without a
\* vote, whatever thresholds the authority sets on the way.
THEOREM SettledForGood == Spec => []SettledOnce
<1>1. Init => SettledOnce
  BY DEF Init, SettledOnce, Exists
<1>. QED  BY <1>1, SettledStep, TypeCorrect, PTL DEF Spec

LEMMA NominationStep == TypeOK /\ NoStaleNomination /\ [Next]_vars => NoStaleNomination'
<1>. SUFFICES ASSUME TypeOK, NoStaleNomination, [Next]_vars PROVE NoStaleNomination'
  OBVIOUS
<1>1. ASSUME governance'.authority = governance.authority,
             governance'.pending_authority = governance.pending_authority,
             Initialized, UNCHANGED nominator
      PROVE  NoStaleNomination'
  BY <1>1 DEF NoStaleNomination
<1>2. ASSUME governance'.pending_authority = DefaultKey
      PROVE  NoStaleNomination'
  BY <1>2 DEF NoStaleNomination
<1>3. ASSUME NEW signer \in Keys, Administer(signer)
      PROVE  NoStaleNomination'
  <2>1. CASE \E vec \in GuardianVecs, threshold \in 0..U8Max, timelock \in Timelocks :
               initialize(signer, vec, threshold, timelock)
    BY <1>2, <2>1 DEF initialize
  <2>2. CASE Initialized /\ ~(\E vec \in GuardianVecs, threshold \in 0..U8Max,
                                timelock \in Timelocks :
                              initialize(signer, vec, threshold, timelock))
    <3>1. governance \in Governance
      BY <2>2, AccountTypes
    <3>2. CASE \/ \E vec \in GuardianVecs, threshold \in 0..U8Max :
                    set_guardians(signer, vec, threshold)
               \/ \E paused \in BOOLEAN : set_paused(signer, paused)
      BY <1>1, <2>2, <3>1, <3>2 DEF set_guardians, set_paused, Governance
    <3>3. CASE \E key \in Keys \cup {DefaultKey} : transfer_authority(signer, key)
      BY <3>1, <3>3 DEF transfer_authority, AdminOnly, Governance, NoStaleNomination
    <3>4. CASE accept_authority(signer)
      BY <1>2, <3>1, <3>4 DEF accept_authority, Handover, Governance
    <3>. QED  BY <1>3, <2>2, <3>2, <3>3, <3>4 DEF Administer
  <2>. QED
    BY <1>3, <2>1, <2>2
    DEF Administer, set_guardians, MaySetGuardians, set_paused, transfer_authority,
        accept_authority, AdminOnly
<1>4. ASSUME NEW signer \in Keys, NEW program_id \in Programs,
             NEW build_hash \in BuildHashes,
             propose_upgrade(signer, program_id, build_hash)
      PROVE  NoStaleNomination'
  <2>1. /\ Initialized
        /\ governance' = [governance EXCEPT !.proposal_count = governance.proposal_count + 1]
    BY <1>4, ProposeFrame
  <2>2. governance \in Governance
    BY <2>1, AccountTypes
  <2>3. UNCHANGED nominator
    BY <1>4 DEF propose_upgrade
  <2>. QED  BY <1>1, <2>1, <2>2, <2>3 DEF Governance
<1>5. ASSUME UNCHANGED <<governance, nominator>>
      PROVE  NoStaleNomination'
  BY <1>5 DEF NoStaleNomination, Initialized
<1>. QED
  BY <1>3, <1>4, <1>5
  DEF Next, Upgrade, approve_upgrade, execute_upgrade, cancel_proposal, Tick, vars

\* The two-step transfer leaves no nomination behind: whoever may accept was
\* named by the authority now in office.
THEOREM NominationsAreCurrent == Spec => []NoStaleNomination
<1>1. Init => NoStaleNomination
  BY DEF Init, NoStaleNomination, Initialized
<1>. QED  BY <1>1, NominationStep, TypeCorrect, PTL DEF Spec

\* What the log says of deadlines: each proposal's is its own block time plus
\* the delay, and each execution's block time is past it.
DeadlinesLogged ==
  /\ \A id \in ProposalIds : Exists(id) => proposals[id].id = id
  /\ \A e \in events :
       e.name \in {"UpgradeProposed", "UpgradeExecuted"} =>
         /\ e.id \in ProposalIds /\ Exists(e.id) /\ e.at \in Times
         /\ e.name = "UpgradeProposed" =>
              proposals[e.id].eta = e.at + governance.timelock_seconds
         /\ e.name = "UpgradeExecuted" => e.at >= proposals[e.id].eta

LEMMA DeadlinesStep ==
  TypeOK /\ IdsDense /\ DeadlinesLogged /\ [Next]_vars => DeadlinesLogged'
<1>. SUFFICES ASSUME TypeOK, IdsDense, DeadlinesLogged, [Next]_vars PROVE DeadlinesLogged'
  OBVIOUS
<1>1. ASSUME UNCHANGED <<proposals, events>>,
             Initialized => governance'.timelock_seconds = governance.timelock_seconds
      PROVE  DeadlinesLogged'
  <2>1. ASSUME NEW id \in ProposalIds, Exists(id)
        PROVE  Initialized
    BY <2>1 DEF IdsDense
  <2>. QED  BY <1>1, <2>1 DEF DeadlinesLogged, Exists
<1>2. ASSUME NEW signer \in Keys, NEW program_id \in Programs,
             NEW build_hash \in BuildHashes,
             propose_upgrade(signer, program_id, build_hash)
      PROVE  DeadlinesLogged'
  <2> DEFINE n == governance.proposal_count
             new == UpgradeProposed(n, program_id, build_hash, Eta)
  <2>1. proposals'[n] =
          [ id |-> n, program_id |-> program_id, build_hash |-> build_hash,
            eta |-> Eta, approvals |-> 0, executed |-> FALSE, cancelled |-> FALSE ]
    BY <1>2, ProposeFrame
  <2>2. /\ n \in ProposalIds /\ ~Exists(n) /\ proposals'[n] # NoAccount
        /\ \A i \in ProposalIds \ {n} : proposals'[i] = proposals[i]
    BY <1>2, ProposeFrame
  <2>3. governance'.timelock_seconds = governance.timelock_seconds
    <3>1. governance \in Governance
      BY <1>2, ProposeFrame, AccountTypes
    <3>2. governance' = [governance EXCEPT !.proposal_count = n + 1]
      BY <1>2, ProposeFrame
    <3>. QED  BY <3>1, <3>2 DEF Governance
  <2>4. events' = events \cup {new}
    BY <1>2 DEF propose_upgrade
  <2>5. /\ new.name = "UpgradeProposed" /\ new.id = n /\ new.at = now
        /\ proposals'[n].eta = now + governance.timelock_seconds
        /\ proposals'[n].id = n
    BY <2>1 DEF UpgradeProposed, Eta
  <2>6. now \in Times
    BY DEF TypeOK
  <2>7. \A id \in ProposalIds : Exists(id)' => proposals'[id].id = id
    BY <2>2, <2>5 DEF DeadlinesLogged, Exists
  <2>8. ASSUME NEW e \in events', e.name \in {"UpgradeProposed", "UpgradeExecuted"}
        PROVE  /\ e.id \in ProposalIds /\ proposals'[e.id] # NoAccount /\ e.at \in Times
               /\ e.name = "UpgradeProposed" =>
                    proposals'[e.id].eta = e.at + governance'.timelock_seconds
               /\ e.name = "UpgradeExecuted" => e.at >= proposals'[e.id].eta
    <3>1. CASE e = new
      BY <2>2, <2>3, <2>5, <2>6, <3>1
    <3>2. CASE e \in events
      <4>1. e.id \in ProposalIds \ {n}
        BY <2>2, <2>8, <3>2 DEF DeadlinesLogged
      <4>2. proposals'[e.id] = proposals[e.id]
        BY <2>2, <4>1
      <4>. QED  BY <2>3, <2>8, <3>2, <4>1, <4>2 DEF DeadlinesLogged, Exists
    <3>. QED  BY <2>4, <3>1, <3>2
  <2>. QED  BY <2>7, <2>8 DEF DeadlinesLogged, Exists
<1>3. ASSUME NEW guardian \in Keys, NEW id \in ProposalIds,
             \/ approve_upgrade(guardian, id)
             \/ execute_upgrade(id)
             \/ cancel_proposal(guardian, id)
      PROVE  DeadlinesLogged'
  <2>1. /\ Exists(id) /\ governance' = governance /\ now' = now
        /\ \A i \in ProposalIds : Exists(i)' <=> Exists(i)
    BY <1>3, ExistsFrame
  <2>2. proposals[id] \in Proposal
    BY <2>1, AccountTypes
  <2>3. \A i \in ProposalIds :
          Exists(i) => /\ proposals'[i].eta = proposals[i].eta
                      /\ proposals'[i].id = proposals[i].id
    BY <1>3, <2>2 DEF approve_upgrade, execute_upgrade, cancel_proposal, TypeOK, Proposal
  <2>4. ASSUME NEW e \in events', e \notin events,
               e.name \in {"UpgradeProposed", "UpgradeExecuted"}
        PROVE  e.name = "UpgradeExecuted" /\ e.id = id /\ e.at = now /\ now >= proposals[id].eta
    BY <1>3, <2>1, <2>4
    DEF approve_upgrade, execute_upgrade, MayExecute, cancel_proposal,
        UpgradeApproved, UpgradeExecuted, TimelockServedFor, DeadlinesLogged
  <2>5. events \subseteq events' /\ now \in Times
    BY <1>3 DEF approve_upgrade, execute_upgrade, cancel_proposal, TypeOK
  <2>. QED  BY <2>1, <2>3, <2>4, <2>5 DEF DeadlinesLogged
<1>4. ASSUME NEW signer \in Keys, Administer(signer)
      PROVE  DeadlinesLogged'
  BY <1>1, <1>4, AdministerType, AdministerFrame
<1>. QED
  BY <1>1, <1>2, <1>3, <1>4 DEF Next, Upgrade, Tick, vars

LEMMA AlwaysDeadlines == Spec => []DeadlinesLogged
<1>1. Init => DeadlinesLogged
  BY DEF Init, DeadlinesLogged, Exists
<1>. QED  BY <1>1, DeadlinesStep, TypeCorrect, IdsNeverReused, PTL DEF Spec

\* No upgrade is executed sooner than timelock_seconds after it was proposed,
\* for every delay, clock and interleaving.
THEOREM TimelockHolds == Spec => []TimelockServed
<1>1. TypeOK /\ IdsDense /\ DeadlinesLogged => TimelockServed
  <2>. SUFFICES ASSUME TypeOK, IdsDense, DeadlinesLogged, NEW id \in ProposalIds,
                       NEW e \in EventsOf("UpgradeProposed", id),
                       NEW x \in EventsOf("UpgradeExecuted", id)
                PROVE  x.at - e.at >= governance.timelock_seconds
    BY DEF TimelockServed
  <2>1. /\ Exists(id) /\ e.at \in Times /\ x.at \in Times
        /\ proposals[id].eta = e.at + governance.timelock_seconds
        /\ x.at >= proposals[id].eta
    BY DEF DeadlinesLogged, EventsOf
  <2>2. governance \in Governance
    BY <2>1, AccountTypes DEF IdsDense
  <2>3. governance.timelock_seconds \in Int /\ e.at \in Int /\ x.at \in Int
    BY <2>1, <2>2, WidthAssumption DEF Governance, Times
  <2>. QED  BY <2>1, <2>3
<1>. QED  BY <1>1, AlwaysDeadlines, TypeCorrect, IdsNeverReused, PTL

(***************************************************************************)
(* The event log                                                           *)
(***************************************************************************)
\* What the log says of one proposal.
FaithfulTo(id) ==
  IF ~Exists(id)
  THEN \A name \in {"UpgradeProposed", "UpgradeApproved", "UpgradeExecuted"} :
         EventsOf(name, id) = {}
  ELSE /\ Cardinality(EventsOf("UpgradeProposed", id)) = 1
       /\ {e.guardian : e \in EventsOf("UpgradeApproved", id)} = VotersOf(id)
       /\ {e.approvals : e \in EventsOf("UpgradeApproved", id)} = 1..proposals[id].approvals
       /\ Cardinality(EventsOf("UpgradeApproved", id)) = proposals[id].approvals
       /\ Cardinality(EventsOf("UpgradeExecuted", id)) = IF proposals[id].executed THEN 1 ELSE 0
       /\ \A e \in EventsOf("UpgradeProposed", id) \cup EventsOf("UpgradeExecuted", id) :
            e.program_id = proposals[id].program_id /\ e.build_hash = proposals[id].build_hash

\* The inductive invariant: that, of a log that can be counted.
LogInv ==
  /\ IsFiniteSet(events)
  /\ \A id \in ProposalIds : FaithfulTo(id)

\* A new event belongs to one name and one proposal.
LEMMA LogGrows ==
  ASSUME NEW new, events' = events \cup {new}, IsFiniteSet(events)
  PROVE  /\ IsFiniteSet(events')
         /\ EventsOf(new.name, new.id)' = EventsOf(new.name, new.id) \cup {new}
         /\ \A name, id : name # new.name \/ id # new.id =>
              EventsOf(name, id)' = EventsOf(name, id)
<1>1. IsFiniteSet(events')
  BY FS_AddElement
<1>2. EventsOf(new.name, new.id)' = EventsOf(new.name, new.id) \cup {new}
  BY DEF EventsOf
<1>3. ASSUME NEW name, NEW id, name # new.name \/ id # new.id
      PROVE  EventsOf(name, id)' = EventsOf(name, id)
  BY <1>3 DEF EventsOf
<1>. QED  BY <1>1, <1>2, <1>3

LEMMA EventsFinite ==
  ASSUME IsFiniteSet(events), NEW name, NEW id
  PROVE  IsFiniteSet(EventsOf(name, id)) /\ Cardinality(EventsOf(name, id)) \in Nat
<1>1. IsFiniteSet(EventsOf(name, id))
  BY FS_Subset DEF EventsOf
<1>. QED  BY <1>1, FS_CardinalityType

\* The log stays faithful to a proposal that nothing happens to.
LEMMA FaithfulKept ==
  ASSUME NEW id \in ProposalIds, FaithfulTo(id),
         Exists(id)' <=> Exists(id),
         Exists(id) => /\ proposals'[id].approvals = proposals[id].approvals
                       /\ proposals'[id].executed = proposals[id].executed
                       /\ proposals'[id].program_id = proposals[id].program_id
                       /\ proposals'[id].build_hash = proposals[id].build_hash,
         VotersOf(id)' = VotersOf(id),
         \A name \in {"UpgradeProposed", "UpgradeApproved", "UpgradeExecuted"} :
           EventsOf(name, id)' = EventsOf(name, id)
  PROVE  FaithfulTo(id)'
BY DEF FaithfulTo

LEMMA LogStep ==
  TypeOK /\ VoteCountExact /\ DeadlinesLogged /\ LogInv /\ [Next]_vars => LogInv'
<1>. SUFFICES ASSUME TypeOK, VoteCountExact, DeadlinesLogged, LogInv, [Next]_vars
              PROVE  LogInv'
  OBVIOUS
<1>1. ASSUME UNCHANGED <<proposals, approvals, events>>
      PROVE  LogInv'
  BY <1>1 DEF LogInv, FaithfulTo, Exists, VotersOf, EventsOf
<1>2. ASSUME NEW signer \in Keys, NEW program_id \in Programs,
             NEW build_hash \in BuildHashes,
             propose_upgrade(signer, program_id, build_hash)
      PROVE  LogInv'
  <2>0. PICK n \in ProposalIds : n = governance.proposal_count
    BY <1>2, ProposeFrame
  <2> DEFINE new == UpgradeProposed(n, program_id, build_hash, Eta)
  <2>1. proposals'[n] =
          [ id |-> n, program_id |-> program_id, build_hash |-> build_hash,
            eta |-> Eta, approvals |-> 0, executed |-> FALSE, cancelled |-> FALSE ]
    BY <1>2, <2>0, ProposeFrame
  <2>2. /\ n \in ProposalIds /\ ~Exists(n) /\ Exists(n)'
        /\ \A i \in ProposalIds \ {n} : proposals'[i] = proposals[i]
    BY <1>2, <2>0, ProposeFrame DEF Exists
  <2>3. /\ new.name = "UpgradeProposed" /\ new.id = n
        /\ new.program_id = program_id /\ new.build_hash = build_hash
    BY DEF UpgradeProposed
  <2>4. events' = events \cup {new} /\ \A i : VotersOf(i)' = VotersOf(i)
    BY <1>2, <2>0 DEF propose_upgrade, VotersOf
  <2> HIDE DEF new
  <2>5. /\ IsFiniteSet(events')
        /\ EventsOf("UpgradeProposed", n)' = EventsOf("UpgradeProposed", n) \cup {new}
        /\ \A name, id : name # "UpgradeProposed" \/ id # n =>
             EventsOf(name, id)' = EventsOf(name, id)
    BY <2>3, <2>4, LogGrows DEF LogInv
  <2>6. /\ EventsOf("UpgradeProposed", n)' = {new}
        /\ EventsOf("UpgradeApproved", n)' = {} /\ EventsOf("UpgradeExecuted", n)' = {}
        /\ VotersOf(n)' = {}
    BY <2>2, <2>4, <2>5 DEF LogInv, FaithfulTo, VoteCountExact
  <2>7. /\ proposals'[n].approvals = 0 /\ ~proposals'[n].executed
        /\ proposals'[n].program_id = new.program_id
        /\ proposals'[n].build_hash = new.build_hash
    BY <2>1, <2>3
  <2>8. FaithfulTo(n)'
    <3>1. Cardinality({}) = 0 /\ Cardinality({new}) = 1
      BY FS_EmptySet, FS_Singleton
    <3>. QED  BY <2>2, <2>6, <2>7, <3>1 DEF FaithfulTo
  <2>9. \A id \in ProposalIds \ {n} : FaithfulTo(id)'
    BY <2>2, <2>4, <2>5, FaithfulKept DEF LogInv, Exists
  <2>. QED  BY <2>5, <2>8, <2>9 DEF LogInv
<1>3. ASSUME NEW guardian \in Keys, NEW id \in ProposalIds, approve_upgrade(guardian, id)
      PROVE  LogInv'
  <2> DEFINE p == proposals[id]
             count == p.approvals + 1
             new == UpgradeApproved(id, guardian, count)
             log == EventsOf("UpgradeApproved", id)
  <2>1. /\ Exists(id) /\ \A i \in ProposalIds : Exists(i)' <=> Exists(i)
        /\ p \in Proposal /\ guardian \notin VotersOf(id)
        /\ VotersOf(id)' = VotersOf(id) \cup {guardian}
        /\ \A i \in ProposalIds \ {id} : VotersOf(i)' = VotersOf(i)
        /\ proposals' = [proposals EXCEPT ![id].approvals = count]
    BY <1>3, ExistsFrame, ApproveVotes
  <2>2. /\ proposals'[id].approvals = count /\ count \in Nat /\ p.approvals \in Nat
        /\ proposals'[id].executed = p.executed
        /\ proposals'[id].program_id = p.program_id
        /\ proposals'[id].build_hash = p.build_hash
        /\ \A i \in ProposalIds \ {id} : proposals'[i] = proposals[i]
    BY <2>1, WidthAssumption DEF TypeOK, Proposal
  <2>3. /\ new.name = "UpgradeApproved" /\ new.id = id
        /\ new.guardian = guardian /\ new.approvals = count
    BY DEF UpgradeApproved
  <2>4. events' = events \cup {new}
    BY <1>3 DEF approve_upgrade
  <2> HIDE DEF new
  <2>5. /\ IsFiniteSet(events') /\ log' = log \cup {new}
        /\ \A name, i : name # "UpgradeApproved" \/ i # id =>
             EventsOf(name, i)' = EventsOf(name, i)
    BY <2>3, <2>4, LogGrows DEF LogInv
  <2>6. /\ {e.guardian : e \in log} = VotersOf(id)
        /\ {e.approvals : e \in log} = 1..p.approvals
        /\ Cardinality(log) = p.approvals
        /\ IsFiniteSet(log)
    BY <2>1, EventsFinite DEF LogInv, FaithfulTo
  <2>7. {e.guardian : e \in log'} = VotersOf(id)'
    BY <2>1, <2>3, <2>5, <2>6
  <2>8. {e.approvals : e \in log'} = 1..count
    <3>1. {e.approvals : e \in log'} = 1..p.approvals \cup {count}
      BY <2>3, <2>5, <2>6
    <3>. QED  BY <2>2, <3>1
  <2>9. Cardinality(log') = count
    <3>1. new \notin log
      BY <2>1, <2>3, <2>6
    <3>. QED  BY <2>5, <2>6, <3>1, FS_AddElement
  <2>10. FaithfulTo(id)'
    <3>1. /\ EventsOf("UpgradeProposed", id)' = EventsOf("UpgradeProposed", id)
          /\ EventsOf("UpgradeExecuted", id)' = EventsOf("UpgradeExecuted", id)
      BY <2>5
    <3>2. FaithfulTo(id)
      BY DEF LogInv
    <3>. QED  BY <2>1, <2>2, <2>7, <2>8, <2>9, <3>1, <3>2 DEF FaithfulTo
  <2>11. \A i \in ProposalIds \ {id} : FaithfulTo(i)'
    BY <2>1, <2>2, <2>5, FaithfulKept DEF LogInv
  <2>. QED  BY <2>5, <2>10, <2>11 DEF LogInv
<1>4. ASSUME NEW id \in ProposalIds, execute_upgrade(id)
      PROVE  LogInv'
  <2> DEFINE p == proposals[id]
             new == UpgradeExecuted(p)
  <2>1. /\ Exists(id) /\ ~p.executed /\ events' = events \cup {new}
        /\ proposals' = [proposals EXCEPT ![id].executed = TRUE]
        /\ \A i : VotersOf(i)' = VotersOf(i)
    BY <1>4 DEF execute_upgrade, MayExecute, Unsettled, VotersOf
  <2>2. p \in Proposal /\ p.id = id
    BY <2>1, AccountTypes DEF DeadlinesLogged
  <2>3. /\ proposals'[id] = [p EXCEPT !.executed = TRUE]
        /\ \A i \in ProposalIds \ {id} : proposals'[i] = proposals[i]
    BY <2>1 DEF TypeOK
  <2>4. /\ proposals'[id].executed /\ proposals'[id] \in Proposal
        /\ proposals'[id].approvals = p.approvals
        /\ proposals'[id].program_id = p.program_id
        /\ proposals'[id].build_hash = p.build_hash
    BY <2>2, <2>3 DEF Proposal
  <2>5. \A i \in ProposalIds : Exists(i)' <=> Exists(i)
    BY <2>1, <2>3, <2>4, NoAccountAssumption DEF Exists
  <2>6. /\ new.name = "UpgradeExecuted" /\ new.id = id
        /\ new.program_id = p.program_id /\ new.build_hash = p.build_hash
    BY <2>2 DEF UpgradeExecuted
  <2> HIDE DEF new
  <2>7. /\ IsFiniteSet(events')
        /\ EventsOf("UpgradeExecuted", id)' = EventsOf("UpgradeExecuted", id) \cup {new}
        /\ \A name, i : name # "UpgradeExecuted" \/ i # id =>
             EventsOf(name, i)' = EventsOf(name, i)
    BY <2>1, <2>6, LogGrows DEF LogInv
  <2>8. EventsOf("UpgradeExecuted", id)' = {new} /\ Cardinality({new}) = 1
    <3>1. Cardinality(EventsOf("UpgradeExecuted", id)) = 0
      BY <2>1 DEF LogInv, FaithfulTo
    <3>2. EventsOf("UpgradeExecuted", id) = {}
      BY <3>1, EventsFinite, FS_EmptySet DEF LogInv
    <3>. QED  BY <2>7, <3>2, FS_Singleton
  <2>9. FaithfulTo(id)'
    <3>1. /\ EventsOf("UpgradeProposed", id)' = EventsOf("UpgradeProposed", id)
          /\ EventsOf("UpgradeApproved", id)' = EventsOf("UpgradeApproved", id)
      BY <2>7
    <3>2. FaithfulTo(id)
      BY DEF LogInv
    <3>. QED  BY <2>1, <2>4, <2>5, <2>6, <2>8, <3>1, <3>2 DEF FaithfulTo
  <2>10. \A i \in ProposalIds \ {id} : FaithfulTo(i)'
    BY <2>1, <2>3, <2>5, <2>7, FaithfulKept DEF LogInv
  <2>. QED  BY <2>7, <2>9, <2>10 DEF LogInv
<1>5. ASSUME NEW signer \in Keys, NEW id \in ProposalIds, cancel_proposal(signer, id)
      PROVE  LogInv'
  <2>1. /\ Exists(id) /\ UNCHANGED <<approvals, events>>
        /\ proposals' = [proposals EXCEPT ![id].cancelled = TRUE]
        /\ \A i \in ProposalIds : Exists(i)' <=> Exists(i)
    BY <1>5, ExistsFrame DEF cancel_proposal
  <2>2. proposals[id] \in Proposal
    BY <2>1, AccountTypes
  <2>3. \A i \in ProposalIds :
          Exists(i) => /\ proposals'[i].approvals = proposals[i].approvals
                       /\ proposals'[i].executed = proposals[i].executed
                       /\ proposals'[i].program_id = proposals[i].program_id
                       /\ proposals'[i].build_hash = proposals[i].build_hash
    BY <2>1, <2>2 DEF TypeOK, Proposal
  <2>4. /\ \A i : VotersOf(i)' = VotersOf(i)
        /\ \A name, i : EventsOf(name, i)' = EventsOf(name, i)
    BY <2>1 DEF VotersOf, EventsOf
  <2>. QED  BY <2>1, <2>3, <2>4, FaithfulKept DEF LogInv
<1>6. ASSUME NEW signer \in Keys, Administer(signer)
      PROVE  LogInv'
  BY <1>1, <1>6, AdministerType
<1>. QED
  BY <1>1, <1>2, <1>3, <1>4, <1>5, <1>6 DEF Next, Upgrade, Tick, vars

\* Somebody who only reads the emitted events has every account right: that it
\* exists, who voted on it and in which order, and whether which build ran.
THEOREM LogTellsAccounts == Spec => []EventLogFaithful
<1>1. Init => LogInv
  BY FS_EmptySet DEF Init, LogInv, FaithfulTo, Exists, EventsOf
<1>2. LogInv => EventLogFaithful
  BY DEF LogInv, FaithfulTo, EventLogFaithful
<1>. QED
  BY <1>1, <1>2, LogStep, AlwaysDeadlines, TypeCorrect, VotesCountedOnce, PTL DEF Spec
===============================================================================
