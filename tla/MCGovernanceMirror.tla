-------------------------- MODULE MCGovernanceMirror --------------------------
(* Values of the constants of GovernanceMirror for TLC. *)
EXTENDS GovernanceMirror

CONSTANTS g1, g2, g3

\* Three guardians may approve one proposal over a rotation, one more than U8Max;
\* the third vector is one both sides refuse.
Rotation == {<<g1, g2>>, <<g2, g3>>, <<g1, g1>>}

SomeTimelocks == {-1, 1}

\* What is known of a proposal on the two sides.
Sides(id) == <<records[id], voters[id], proposals[id], VotersOf(id)>>

\* The program's event log decides nothing, here or on chain.  Once the two sides
\* disagree on a proposal nothing is claimed of it, nor does another's course depend
\* on it, so how they disagree is not told apart; nor is anything once they fork.
Compared ==
  IF forked THEN <<>>
  ELSE <<governance, config, now, nominator, parted,
         [id \in ProposalIds \ parted |-> Sides(id)]>>
===============================================================================
