----------------------------- MODULE FindingFeed -----------------------------
(***************************************************************************)
(* Findings from the mutation that raises them to the client that sees     *)
(* them: FindingStore, whose handlers publish to EventBus while other      *)
(* handlers of the engine publish there too.                               *)
(***************************************************************************)
EXTENDS FindingStore, EventBus

CONSTANTS
  OtherEvents,   \* domain events other than findings
  MaxLog         \* bound: no other event is sent beyond this length of the log

\* The other variants of DomainEvent.
ASSUME FeedAssumption ==
  \A e \in OtherEvents :
    e.name \in {"ProposalCreated", "ProposalApproved", "ProposalExecuted",
               "ProposalCancelled", "PauseChanged"}

feedVars == <<vars, busVars>>

FindingRaised(c) == [name |-> "FindingRaised", id |-> c.id, severity |-> c.severity]

\* The query for one finding.
finding(id) == records[id]

FeedInit == Init /\ BusInit

Report(w) ==
  \/ \E id \in FindingIds, severity \in Severities :
       raise_finding(w, id, severity) /\ UNCHANGED busVars
  \/ (ContainsKey(w) \/ Insert(w)) /\ UNCHANGED busVars
  \/ Publish(w) /\ publish(FindingRaised(call[w]))

Others ==
  /\ Len(log) < MaxLog
  /\ \E e \in OtherEvents : publish(e)
  /\ UNCHANGED vars

Client(s) == (subscribe(s) \/ unsubscribe(s) \/ poll(s)) /\ UNCHANGED vars

FeedNext ==
  \/ \E w \in Workers : Report(w)
  \/ Others
  \/ \E s \in Subscribers : Client(s)

FeedSpec == FeedInit /\ [][FeedNext]_feedVars

\* The runtime polls the stream of a client that is there, and a handler that
\* runs gets on with it.
FairFeedSpec ==
  /\ FeedSpec
  /\ \A w \in Workers : WF_feedVars(Report(w) /\ pc[w] # "idle")
  /\ \A s \in Subscribers : WF_feedVars(poll(s) /\ UNCHANGED vars)

\* A client is shown findings that were accepted, with the severity of their
\* report, and whatever finding it is told of can be queried at once, though
\* reports of one id overlap and overwrite each other.
FeedTruthful ==
  \A s \in Subscribers :
    \A shown \in {g \in Shown(s) : g.kind = "FINDING_RAISED"} :
      /\ finding(shown.id) # NoFinding
      /\ \E r \in ReportsOf(shown.id) : r.severity = shown.detail
===============================================================================
