---------------------------- MODULE EngineOverlap ----------------------------
(***************************************************************************)
(* What the engine promises of the proposals that requests did not contend *)
(* for, with any number of requests in flight over the in-memory store.    *)
(*                                                                         *)
(* A handler holds an id from the step that settles its record until the   *)
(* record is stored and counted.  A proposal is contended once two         *)
(* handlers held its id together.  It may then lose a vote, its finality   *)
(* or its record, or be executed twice; EngineLostFinality and             *)
(* EngineReusedId are such behaviours.  The properties here say that       *)
(* nothing else breaks it, however requests about other proposals, pauses  *)
(* and rotations come between.                                             *)
(***************************************************************************)
EXTENDS AuditEngine

VARIABLE contended   \* history: the ids that two handlers held together

Contention(id) == \E v, w \in Workers : v # w /\ Holds(v, id) /\ Holds(w, id)

overlapVars == <<vars, contended>>

OverlapInit == Init /\ contended = {}

OverlapNext ==
  /\ Next
  /\ contended' = contended \cup {id \in Ids : Contention(id)'}

OverlapSpec == OverlapInit /\ [][OverlapNext]_overlapVars

\* A record that no handler holds counts every key that approved its proposal, and
\* is Approved as soon as they are enough.
VotesCountedApart ==
  \A id \in Ids \ contended :
    Exists(id) /\ ~Held(id) =>
      LET rec == proposals[id]
      IN  /\ rec.approvals = Cardinality(approvals[id])
          /\ rec.status = "Pending" => rec.approvals < rec.threshold

\* A proposal is written to an id that nobody had, unless another handler held the
\* id at the time, though the id is read in one section and counted in another.
FreshApart ==
  [][\A w \in Workers :
       pc[w] = "create" /\ pc'[w] = "count" /\ call[w].id \notin contended =>
         ~Exists(call[w].id)]_overlapVars

\* An execution is announced once, though its refusal looks at a record that was
\* read two steps before Executed is stored.
ExecutedOnceApart ==
  [][\A w \in Workers :
       Publishes(w, "execute") /\ call[w].id \notin contended =>
         EventOf(call[w]) \notin events]_overlapVars
===============================================================================
