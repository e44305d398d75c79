---------------------------- MODULE MCFindingFeed ----------------------------
(* Values of the constants of FindingFeed for TLC. *)
EXTENDS FindingFeed

\* One event with an id and one without.
SomeEvents ==
  {[name |-> "ProposalExecuted", id |-> 0], [name |-> "PauseChanged", paused |-> TRUE]}
===============================================================================
