----------------------- MODULE UpgradeRefinementProofs -----------------------
(***************************************************************************)
(* UpgradeGovernance implements UpgradeLifecycle, for every value of the   *)
(* constants.                                                              *)
(***************************************************************************)
EXTENDS UpgradeGovernanceProofs

StageMap == [id \in ProposalIds |-> StageOf(id)]
PayloadMap == [id \in ProposalIds |-> PayloadOf(id)]
VotesMap == [id \in ProposalIds |-> VotersOf(id)]

\* What the abstract specification sees of the electorate, and of one upgrade.
ElectorateView == <<Council, VotesNeeded, Halted>>
UpgradesView == <<StageMap, PayloadMap, VotesMap, Ripe>>

\* The two specifications count alike.
LEMMA SameCardinality == \A S : Lifecycle!Cardinality(S) = Cardinality(S)
BY DEF Lifecycle!Cardinality, Cardinality, Lifecycle!IsFiniteSet, IsFiniteSet

LEMMA InitRefines == Init => Lifecycle!Init
<1>. SUFFICES ASSUME Init PROVE Lifecycle!Init
  OBVIOUS
<1>1. ~Initialized /\ \A id \in ProposalIds : ~Exists(id)
  BY DEF Init, Initialized, Exists
<1>2. \A id : VotersOf(id) = {}
  BY DEF Init, VotersOf
<1>. QED
  BY <1>1, <1>2
  DEF Lifecycle!Init, Council, VotesNeeded, Halted, StageOf, PayloadOf, Ripe

\* Administration replaces the council, moves the emergency stop, or is invisible.
LEMMA AdministerRefines ==
  ASSUME TypeOK, TypeOK', ElectorateSound', NEW signer \in Keys, Administer(signer)
  PROVE  Lifecycle!Reconstitute \/ Lifecycle!Halt \/ UNCHANGED Lifecycle!abstractVars
<1>1. UNCHANGED UpgradesView
  BY AdministerType
  DEF UpgradesView, StageMap, PayloadMap, VotesMap, Ripe, StageOf, PayloadOf, Exists, VotersOf
<1>2. Initialized' /\ governance' \in Governance
  BY AdministerType, AdministerFrame
<1>3. /\ Council' \in SUBSET Keys /\ VotesNeeded' \in 1..Cardinality(Council')
      /\ Halted' \in BOOLEAN
  <2>1. Council' = governance'.guardians /\ VotesNeeded' = governance'.threshold
        /\ Halted' = governance'.paused
    BY <1>2 DEF Council, VotesNeeded, Halted
  <2>2. governance'.guardians \in SUBSET Keys /\ governance'.threshold \in 1..U8Max
        /\ governance'.paused \in BOOLEAN
    BY <1>2 DEF Governance
  <2>3. governance'.threshold <= Cardinality(governance'.guardians)
    BY <1>2 DEF ElectorateSound
  <2>4. Cardinality(governance'.guardians) \in Nat
    BY <2>2, KeysAssumption, FS_Subset, FS_CardinalityType
  <2>. QED  BY <2>1, <2>2, <2>3, <2>4, WidthAssumption
<1>4. CASE Halted' = Halted
  <2>1. UNCHANGED <<Halted, StageMap, PayloadMap, VotesMap, Ripe>>
    BY <1>1, <1>4 DEF UpgradesView
  <2>. QED
    BY <1>3, <2>1, SameCardinality DEF Lifecycle!Reconstitute, StageMap, PayloadMap, VotesMap
<1>5. CASE Council' = Council /\ VotesNeeded' = VotesNeeded
  BY <1>1, <1>3, <1>5
  DEF Lifecycle!Halt, UpgradesView, StageMap, PayloadMap, VotesMap
<1>6. Halted' = Halted \/ (Council' = Council /\ VotesNeeded' = VotesNeeded)
  <2>1. CASE ~Initialized
    <3>1. PICK vec \in GuardianVecs, threshold \in 0..U8Max, timelock \in Timelocks :
            initialize(signer, vec, threshold, timelock)
      BY <2>1 DEF Administer, set_guardians, MaySetGuardians, set_paused, transfer_authority,
                  accept_authority, AdminOnly
    <3>2. governance'.paused = FALSE
      BY <3>1 DEF initialize
    <3>. QED  BY <1>2, <2>1, <3>2 DEF Halted
  <2>2. CASE Initialized
    <3>1. governance \in Governance
      BY <2>2, AccountTypes
    <3>2. \/ governance'.paused = governance.paused
          \/ /\ governance'.guardians = governance.guardians
             /\ governance'.threshold = governance.threshold
      BY <2>2, <3>1
      DEF Administer, initialize, MayInitialize, set_guardians, set_paused,
          transfer_authority, accept_authority, Handover, GovernanceVacant, Governance
    <3>. QED  BY <1>2, <2>2, <3>2 DEF Halted, Council, VotesNeeded
  <2>. QED  BY <2>1, <2>2
<1>. QED  BY <1>4, <1>5, <1>6

LEMMA ProposeRefines ==
  ASSUME TypeOK, ElectorateSound, NEW signer \in Keys, NEW program_id \in Programs,
         NEW build_hash \in BuildHashes,
         propose_upgrade(signer, program_id, build_hash)
  PROVE  \E i \in ProposalIds : Lifecycle!Open(i)
<1> DEFINE n == governance.proposal_count
           p == <<program_id, build_hash>>
<1>1. /\ n \in ProposalIds /\ ~Exists(n)
      /\ \A i \in ProposalIds \ {n} : proposals'[i] = proposals[i]
      /\ Initialized /\ Initialized'
      /\ governance' = [governance EXCEPT !.proposal_count = n + 1]
  BY ProposeFrame
<1>2. proposals'[n] =
        [ id |-> n, program_id |-> program_id, build_hash |-> build_hash,
          eta |-> Eta, approvals |-> 0, executed |-> FALSE, cancelled |-> FALSE ]
      /\ proposals'[n] # NoAccount
  BY ProposeFrame
<1>3. governance \in Governance
  BY <1>1, AccountTypes
<1>4. UNCHANGED <<Council, VotesNeeded, Halted>>
  BY <1>1, <1>3 DEF Council, VotesNeeded, Halted, Governance
<1>5. ~Halted
  BY DEF propose_upgrade, MayPropose, Active, Halted
<1>6. Council # {}
  <2>1. Council = governance.guardians /\ governance.threshold >= 1
        /\ governance.threshold <= Cardinality(governance.guardians)
    BY <1>1, <1>3, WidthAssumption DEF Council, ElectorateSound, Governance
  <2>2. Cardinality({}) = 0
    BY FS_EmptySet
  <2>3. governance.threshold \in Int
    BY <1>3, WidthAssumption DEF Governance
  <2>. QED  BY <2>1, <2>2, <2>3
<1>7. StageMap[n] = "absent" /\ StageMap' = [StageMap EXCEPT ![n] = "open"]
  <2>1. StageOf(n) = "absent"
    BY <1>1 DEF StageOf
  <2>2. \A i \in ProposalIds : StageOf(i)' = IF i = n THEN "open" ELSE StageOf(i)
    BY <1>1, <1>2 DEF StageOf, Exists
  <2>. QED  BY <1>1, <2>1, <2>2 DEF StageMap
<1>8. PayloadMap' = [PayloadMap EXCEPT ![n] = p]
  <2>1. \A i \in ProposalIds : PayloadOf(i)' = IF i = n THEN p ELSE PayloadOf(i)
    BY <1>1, <1>2 DEF PayloadOf, Exists
  <2>. QED  BY <1>1, <2>1 DEF PayloadMap
<1>9. p \in Programs \X (BuildHashes \ {ZeroHash})
  BY DEF propose_upgrade, MayPropose
<1>10. VotesMap' = VotesMap
  BY DEF propose_upgrade, VotesMap, VotersOf
<1>11. Ripe' \in {Ripe, Ripe \cup {n}}
  <2>1. now' = now
    BY DEF propose_upgrade
  <2>2. \A i \in ProposalIds \ {n} : i \in Ripe' <=> i \in Ripe
    BY <1>1, <2>1 DEF Ripe, Exists
  <2>3. n \notin Ripe
    BY <1>1 DEF Ripe
  <2>. QED  BY <2>2, <2>3 DEF Ripe
<1>12. Lifecycle!Open(n)
  <2>1. \E q \in Programs \X (BuildHashes \ {ZeroHash}) :
          PayloadMap' = [PayloadMap EXCEPT ![n] = q]
    BY <1>8, <1>9
  <2>. QED
    BY <1>4, <1>5, <1>6, <1>7, <1>10, <1>11, <2>1
    DEF Lifecycle!Open, StageMap, PayloadMap, VotesMap
<1>. QED  BY <1>1, <1>12

LEMMA ApproveRefines ==
  ASSUME TypeOK, NEW guardian \in Keys, NEW id \in ProposalIds,
         approve_upgrade(guardian, id)
  PROVE  Lifecycle!Vote(id, guardian)
<1>1. /\ Exists(id) /\ Initialized
      /\ UNCHANGED <<governance, now>>
      /\ \A i \in ProposalIds : Exists(i)' <=> Exists(i)
  BY ExistsFrame
<1>2. proposals[id] \in Proposal
  BY <1>1, AccountTypes
<1>3. \A i \in ProposalIds :
        Exists(i) => /\ proposals'[i].executed = proposals[i].executed
                    /\ proposals'[i].cancelled = proposals[i].cancelled
                    /\ proposals'[i].program_id = proposals[i].program_id
                    /\ proposals'[i].build_hash = proposals[i].build_hash
                    /\ proposals'[i].eta = proposals[i].eta
  BY <1>2 DEF approve_upgrade, TypeOK, Proposal
<1>4. UNCHANGED <<Council, VotesNeeded, Halted, Ripe>>
  BY <1>1, <1>3 DEF Council, VotesNeeded, Halted, Ripe, Initialized
<1>5. UNCHANGED <<StageMap, PayloadMap>>
  BY <1>1, <1>3 DEF StageMap, PayloadMap, StageOf, PayloadOf
<1>6. ~Halted /\ StageMap[id] = "open" /\ guardian \in Council
  BY <1>1 DEF approve_upgrade, MayApprove, Active, Halted, StageMap, StageOf,
              Unsettled, is_guardian, Council
<1>7. guardian \notin VotesMap[id] /\ VotesMap' = [VotesMap EXCEPT ![id] = @ \cup {guardian}]
  <2>1. guardian \notin VotersOf(id)
        /\ \A i \in ProposalIds :
             VotersOf(i)' = IF i = id THEN VotersOf(id) \cup {guardian} ELSE VotersOf(i)
    BY ApproveVotes
  <2>. QED  BY <2>1 DEF VotesMap
<1>. QED
  BY <1>4, <1>5, <1>6, <1>7 DEF Lifecycle!Vote, StageMap, PayloadMap, VotesMap

LEMMA ExecuteRefines ==
  ASSUME TypeOK, VoteCountExact, NEW id \in ProposalIds, execute_upgrade(id)
  PROVE  Lifecycle!Release(id)
<1>1. Exists(id) /\ Initialized /\ UNCHANGED <<governance, approvals, now>>
  BY DEF execute_upgrade, MayExecute, Active
<1>2. proposals[id] \in Proposal
  BY <1>1, AccountTypes
<1>3. proposals' = [proposals EXCEPT ![id].executed = TRUE]
  BY DEF execute_upgrade
<1>4. /\ proposals'[id] = [proposals[id] EXCEPT !.executed = TRUE]
      /\ proposals'[id] \in Proposal
      /\ \A i \in ProposalIds \ {id} : proposals'[i] = proposals[i]
  BY <1>2, <1>3 DEF TypeOK, Proposal
<1>5. /\ \A i \in ProposalIds : Exists(i)' <=> Exists(i)
      /\ proposals'[id].eta = proposals[id].eta
      /\ PayloadOf(id)' = PayloadOf(id)
      /\ proposals'[id].executed
  BY <1>1, <1>2, <1>4, NoAccountAssumption DEF Exists, PayloadOf, Proposal
<1>6. UNCHANGED <<Council, VotesNeeded, Halted, Ripe>>
  BY <1>1, <1>4, <1>5 DEF Council, VotesNeeded, Halted, Ripe, Initialized
<1>7. UNCHANGED <<PayloadMap, VotesMap>>
  <2>1. \A i \in ProposalIds : PayloadOf(i)' = PayloadOf(i) /\ VotersOf(i)' = VotersOf(i)
    BY <1>1, <1>4, <1>5 DEF PayloadOf, VotersOf, Exists
  <2>. QED  BY <2>1 DEF PayloadMap, VotesMap
<1>8. ~Halted /\ StageMap[id] = "open" /\ id \in Ripe
  BY <1>1 DEF execute_upgrade, MayExecute, Active, Halted, StageMap, StageOf, Unsettled, Ripe,
              TimelockServedFor
<1>9. Cardinality(VotesMap[id]) >= VotesNeeded
  BY <1>1 DEF execute_upgrade, MayExecute, QuorumMet, VotesMap, VotesNeeded, VoteCountExact
<1>10. StageMap' = [StageMap EXCEPT ![id] = "released"]
  <2>1. \A i \in ProposalIds : StageOf(i)' = IF i = id THEN "released" ELSE StageOf(i)
    BY <1>1, <1>4, <1>5 DEF StageOf, Exists
  <2>. QED  BY <2>1 DEF StageMap
<1>. QED
  BY <1>6, <1>7, <1>8, <1>9, <1>10, SameCardinality
  DEF Lifecycle!Release, StageMap, PayloadMap, VotesMap

\* Cancelling withdraws an open proposal; cancelling again is invisible.
LEMMA CancelRefines ==
  ASSUME TypeOK, NEW signer \in Keys, NEW id \in ProposalIds, cancel_proposal(signer, id)
  PROVE  Lifecycle!Withdraw(id) \/ UNCHANGED Lifecycle!abstractVars
<1>1. Exists(id) /\ UNCHANGED <<governance, approvals, now>> /\ ~proposals[id].executed
  BY DEF cancel_proposal, MayCancel
<1>2. proposals[id] \in Proposal
  BY <1>1, AccountTypes
<1>3. /\ proposals'[id] = [proposals[id] EXCEPT !.cancelled = TRUE]
      /\ proposals'[id] \in Proposal
      /\ \A i \in ProposalIds \ {id} : proposals'[i] = proposals[i]
  BY <1>2 DEF cancel_proposal, TypeOK, Proposal
<1>4. /\ \A i \in ProposalIds : Exists(i)' <=> Exists(i)
      /\ proposals'[id].eta = proposals[id].eta
      /\ PayloadOf(id)' = PayloadOf(id)
      /\ proposals'[id].cancelled /\ ~proposals'[id].executed
  BY <1>1, <1>2, <1>3, NoAccountAssumption DEF Exists, PayloadOf, Proposal
<1>5. UNCHANGED <<Council, VotesNeeded, Halted, Ripe>>
  BY <1>1, <1>3, <1>4 DEF Council, VotesNeeded, Halted, Ripe, Initialized
<1>6. UNCHANGED <<PayloadMap, VotesMap>>
  <2>1. \A i \in ProposalIds : PayloadOf(i)' = PayloadOf(i) /\ VotersOf(i)' = VotersOf(i)
    BY <1>1, <1>3, <1>4 DEF PayloadOf, VotersOf, Exists
  <2>. QED  BY <2>1 DEF PayloadMap, VotesMap
<1>7. \A i \in ProposalIds : StageOf(i)' = IF i = id THEN "withdrawn" ELSE StageOf(i)
  BY <1>1, <1>3, <1>4 DEF StageOf, Exists
<1>8. CASE StageOf(id) = "open"
  BY <1>5, <1>6, <1>7, <1>8 DEF Lifecycle!Withdraw, StageMap, PayloadMap, VotesMap
<1>9. CASE StageOf(id) # "open"
  <2>1. StageOf(id) = "withdrawn"
    BY <1>1, <1>9 DEF StageOf
  <2>2. StageMap' = StageMap
    BY <1>7, <2>1 DEF StageMap
  <2>. QED
    BY <1>5, <1>6, <2>2 DEF Lifecycle!abstractVars, StageMap, PayloadMap, VotesMap
<1>. QED  BY <1>8, <1>9

LEMMA TickRefines ==
  ASSUME TypeOK, Tick
  PROVE  Lifecycle!Ripen
<1>1. UNCHANGED <<governance, proposals, approvals>> /\ now' >= now /\ now \in Int /\ now' \in Int
  BY WidthAssumption DEF Tick, TypeOK, Times
<1>2. UNCHANGED <<Council, VotesNeeded, Halted, StageMap, PayloadMap, VotesMap>>
  BY <1>1 DEF Council, VotesNeeded, Halted, StageMap, PayloadMap, VotesMap, StageOf,
              PayloadOf, VotersOf, Exists, Initialized
<1>3. Ripe \subseteq Ripe'
  <2>. SUFFICES ASSUME NEW id \in ProposalIds, Exists(id), now >= proposals[id].eta
                PROVE  now' >= proposals'[id].eta /\ Exists(id)'
    BY DEF Ripe
  <2>1. proposals[id].eta \in Int
    BY AccountTypes, WidthAssumption DEF Proposal, Times
  <2>. QED  BY <1>1, <2>1 DEF Exists
<1>4. Ripe' \subseteq {i \in ProposalIds : StageMap[i] # "absent"}
  BY <1>1 DEF Ripe, StageMap, StageOf, Exists
<1>. QED
  BY <1>2, <1>3, <1>4 DEF Lifecycle!Ripen, StageMap, PayloadMap, VotesMap

LEMMA StepRefines ==
  ASSUME TypeOK, TypeOK', VoteCountExact, ElectorateSound, ElectorateSound', [Next]_vars
  PROVE  [Lifecycle!Next]_(Lifecycle!abstractVars)
<1>1. ASSUME NEW signer \in Keys, Administer(signer)
      PROVE  [Lifecycle!Next]_(Lifecycle!abstractVars)
  BY <1>1, AdministerRefines DEF Lifecycle!Next
<1>2. ASSUME NEW signer \in Keys, NEW program_id \in Programs,
             NEW build_hash \in BuildHashes,
             propose_upgrade(signer, program_id, build_hash)
      PROVE  [Lifecycle!Next]_(Lifecycle!abstractVars)
  BY <1>2, ProposeRefines DEF Lifecycle!Next
<1>3. ASSUME NEW signer \in Keys, NEW id \in ProposalIds, approve_upgrade(signer, id)
      PROVE  [Lifecycle!Next]_(Lifecycle!abstractVars)
  BY <1>3, ApproveRefines DEF Lifecycle!Next
<1>4. ASSUME NEW id \in ProposalIds, execute_upgrade(id)
      PROVE  [Lifecycle!Next]_(Lifecycle!abstractVars)
  BY <1>4, ExecuteRefines DEF Lifecycle!Next
<1>5. ASSUME NEW signer \in Keys, NEW id \in ProposalIds, cancel_proposal(signer, id)
      PROVE  [Lifecycle!Next]_(Lifecycle!abstractVars)
  BY <1>5, CancelRefines DEF Lifecycle!Next
<1>6. CASE Tick
  BY <1>6, TickRefines DEF Lifecycle!Next
<1>7. CASE UNCHANGED vars
  BY <1>7
  DEF vars, Lifecycle!abstractVars, Council, VotesNeeded, Halted, StageOf, PayloadOf,
      VotersOf, Ripe, Exists, Initialized
<1>. QED
  BY <1>1, <1>2, <1>3, <1>4, <1>5, <1>6, <1>7 DEF Next, Upgrade

\* The on-chain program implements the abstract life of an upgrade, for every
\* set of keys, every guardian configuration and every delay.
THEOREM GovernanceRefinesLifecycle == Spec => ImplementsLifecycle
<1>1. Init => Lifecycle!Init
  BY InitRefines
<1>2. TypeOK /\ TypeOK' /\ VoteCountExact /\ ElectorateSound /\ ElectorateSound' /\ [Next]_vars
        => [Lifecycle!Next]_(Lifecycle!abstractVars)
  BY StepRefines
<1>. QED
  BY <1>1, <1>2, TypeCorrect, VotesCountedOnce, ElectorateAlwaysSound, PTL
  DEF Spec, ImplementsLifecycle, Lifecycle!Spec
===============================================================================
