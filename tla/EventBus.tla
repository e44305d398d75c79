------------------------------- MODULE EventBus -------------------------------
(***************************************************************************)
(* The channel between the engine and GraphQL subscriptions: the tokio     *)
(* broadcast channel inside BroadcastEventSink, and the stream that the    *)
(* `events` subscription makes of a receiver.                              *)
(*                                                                         *)
(* The channel keeps the last Capacity events.  A sender never waits: it   *)
(* overwrites the oldest, and a receiver that has not read it yet is moved *)
(* on to the oldest that is left and told how many it missed.  The         *)
(* subscription drops that notice, so its client sees a gap as nothing.    *)
(*                                                                         *)
(* The log keeps every event that was sent, of which the channel holds the *)
(* end.  Its positions are tokio's 64-bit ones, which do not come to their *)
(* end, and every capacity the code asks for is a power of two, so that    *)
(* tokio's rounding up to one changes nothing.                             *)
(***************************************************************************)
EXTENDS Naturals, Sequences

CONSTANTS
  Subscribers,   \* clients of the subscription
  Capacity,
  Off            \* the position of a client that is not subscribed

ASSUME BusAssumption == Capacity \in Nat \ {0} /\ Off \notin Nat

VARIABLES
  log,       \* the events sent so far
  next,      \* how many events of the log lie behind each receiver
  since,     \* history: its position when it subscribed
  got        \* history: the positions it delivered since then

busVars == <<log, next, since, got>>

Connected(s) == next[s] # Off

BusInit ==
  /\ log = <<>>
  /\ next = [s \in Subscribers |-> Off]
  /\ since = [s \in Subscribers |-> 0]
  /\ got = [s \in Subscribers |-> {}]

\* A receiver starts behind the last event: it gets future ones only.
subscribe(s) ==
  /\ ~Connected(s)
  /\ next' = [next EXCEPT ![s] = Len(log)]
  /\ since' = [since EXCEPT ![s] = Len(log)]
  /\ got' = [got EXCEPT ![s] = {}]
  /\ UNCHANGED log

\* The client goes away and its stream is dropped.
unsubscribe(s) ==
  /\ Connected(s)
  /\ next' = [next EXCEPT ![s] = Off]
  /\ UNCHANGED <<log, since, got>>

\* Sending to nobody fails, and publish ignores the failure.
publish(event) ==
  /\ log' = IF \E s \in Subscribers : Connected(s) THEN Append(log, event) ELSE log
  /\ UNCHANGED <<next, since, got>>

\* The capacity is forgotten.
FaultySlots == 1

\* `broadcast::channel(capacity)`
Slots == Capacity

\* The oldest position the channel still holds.
Oldest == IF Len(log) > Slots THEN Len(log) - Slots ELSE 0

\* `map_while` for `filter_map`: the stream ends, and its client waits.
FaultyAfterLag(s) == next[s]

\* The notice of a lag is filtered out, and the stream reads on.
AfterLag(s) == Oldest

\* The stream is polled: it delivers the next event, or skips what is gone.
poll(s) ==
  /\ Connected(s)
  /\ next[s] < Len(log)
  /\ IF next[s] < Oldest
     THEN /\ next' = [next EXCEPT ![s] = AfterLag(s)]
          /\ UNCHANGED got
     ELSE /\ next' = [next EXCEPT ![s] = @ + 1]
          /\ got' = [got EXCEPT ![s] = @ \cup {next[s]}]
  /\ UNCHANGED <<log, since>>

\* GqlEvent of a DomainEvent.
GqlEvent(e) ==
  CASE e.name = "ProposalCreated" ->
         [kind |-> "PROPOSAL_CREATED", id |-> e.id, detail |-> e.program_id]
    [] e.name = "ProposalApproved" ->
         [kind |-> "PROPOSAL_APPROVED", id |-> e.id, detail |-> e.approvals]
    [] e.name = "ProposalExecuted" -> [kind |-> "PROPOSAL_EXECUTED", id |-> e.id]
    [] e.name = "ProposalCancelled" -> [kind |-> "PROPOSAL_CANCELLED", id |-> e.id]
    [] e.name = "FindingRaised" ->
         [kind |-> "FINDING_RAISED", id |-> e.id, detail |-> e.severity]
    [] e.name = "PauseChanged" -> [kind |-> "PAUSE_CHANGED", detail |-> e.paused]

\* What a client was shown since it subscribed.
Shown(s) == {GqlEvent(log[p + 1]) : p \in got[s]}

\* A client misses an event it was subscribed for only by letting a whole
\* channel of later events pass before it polls again.
GapsOnlyFromLag ==
  \A s \in Subscribers :
    Connected(s) =>
      \A p \in since[s]..(next[s] - 1) : p \notin got[s] => Len(log) - p > Capacity

\* A client that stays comes to the end of what was sent, lagging or not.
CatchesUp ==
  \A s \in Subscribers :
    \A n \in 1..(Capacity + 1) :
      (Connected(s) /\ Len(log) = since[s] + n) ~>
        (~Connected(s) \/ next[s] >= since[s] + n)
===============================================================================
