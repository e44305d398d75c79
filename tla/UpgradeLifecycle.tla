--------------------------- MODULE UpgradeLifecycle ---------------------------
(***************************************************************************)
(* What the governance program promises to somebody who only watches       *)
(* upgrades: every upgrade goes through one life, absent -> open ->        *)
(* released or withdrawn, and is released only with the votes of a quorum  *)
(* of distinct keys, each a member of the council when it voted, and only  *)
(* after its delay has run out.  Accounts, signers, counters, seeds and    *)
(* clock readings do not appear here; UpgradeGovernance implements this    *)
(* specification under the mapping given there.                            *)
(***************************************************************************)
EXTENDS Naturals, FiniteSets

CONSTANTS
  Ids,        \* the upgrades that can ever be opened
  Voters,     \* every key that could sit on the council
  Payloads,   \* what an upgrade deploys
  None        \* the payload of an upgrade that was never opened

VARIABLES
  council,    \* the current members of the council
  quorum,     \* how many votes a release takes now
  halted,     \* the emergency stop
  stage,      \* stage of each upgrade
  payload,    \* what each upgrade deploys, fixed when it is opened
  votes,      \* who voted for each upgrade
  ripe        \* the opened upgrades whose delay has run out

Stages == {"absent", "open", "released", "withdrawn"}

abstractVars == <<council, quorum, halted, stage, payload, votes, ripe>>

Init ==
  /\ council = {}
  /\ quorum = 0
  /\ halted = FALSE
  /\ stage = [i \in Ids |-> "absent"]
  /\ payload = [i \in Ids |-> None]
  /\ votes = [i \in Ids |-> {}]
  /\ ripe = {}

\* The council is replaced; votes already cast stay cast.
Reconstitute ==
  /\ council' \in SUBSET Voters
  /\ quorum' \in 1..Cardinality(council')
  /\ UNCHANGED <<halted, stage, payload, votes, ripe>>

Halt ==
  /\ halted' \in BOOLEAN
  /\ UNCHANGED <<council, quorum, stage, payload, votes, ripe>>

Open(i) ==
  /\ ~halted
  /\ council # {}
  /\ stage[i] = "absent"
  /\ \E p \in Payloads : payload' = [payload EXCEPT ![i] = p]
  /\ stage' = [stage EXCEPT ![i] = "open"]
  /\ ripe' \in {ripe, ripe \cup {i}}
  /\ UNCHANGED <<council, quorum, halted, votes>>

Vote(i, v) ==
  /\ ~halted
  /\ stage[i] = "open"
  /\ v \in council
  /\ v \notin votes[i]
  /\ votes' = [votes EXCEPT ![i] = @ \cup {v}]
  /\ UNCHANGED <<council, quorum, halted, stage, payload, ripe>>

\* Time passes: some opened upgrades become ripe, none stops being ripe.
Ripen ==
  /\ ripe \subseteq ripe'
  /\ ripe' \subseteq {i \in Ids : stage[i] # "absent"}
  /\ UNCHANGED <<council, quorum, halted, stage, payload, votes>>

Release(i) ==
  /\ ~halted
  /\ stage[i] = "open"
  /\ i \in ripe
  /\ Cardinality(votes[i]) >= quorum
  /\ stage' = [stage EXCEPT ![i] = "released"]
  /\ UNCHANGED <<council, quorum, halted, payload, votes, ripe>>

Withdraw(i) ==
  /\ stage[i] = "open"
  /\ stage' = [stage EXCEPT ![i] = "withdrawn"]
  /\ UNCHANGED <<council, quorum, halted, payload, votes, ripe>>

Next ==
  \/ Reconstitute
  \/ Halt
  \/ Ripen
  \/ \E i \in Ids : Open(i) \/ Release(i) \/ Withdraw(i)
  \/ \E i \in Ids, v \in Voters : Vote(i, v)

Spec == Init /\ [][Next]_abstractVars
===============================================================================
