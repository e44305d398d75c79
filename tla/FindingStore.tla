----------------------------- MODULE FindingStore -----------------------------
(***************************************************************************)
(* Security findings: the engine's raise_finding over the in-memory        *)
(* finding store and the event sink.                                       *)
(*                                                                         *)
(* insert asks the DashMap whether the id is taken and then inserts, two   *)
(* operations on the map, with nothing held in between.  As in AuditEngine *)
(* a request is a worker, each access to shared state an action, and a     *)
(* handler in flight is never cut short.                                   *)
(*                                                                         *)
(* Of a record only the severity is kept, standing for whatever tells one  *)
(* report of an id from another: program, threat, title and time are       *)
(* stored beside it and never looked at.  No operation sets `resolved`,    *)
(* and the queries (finding, findings, stats) only read.                   *)
(***************************************************************************)
EXTENDS Naturals

CONSTANTS
  Workers,       \* requests that can be in flight together
  FindingIds,    \* the ids callers choose
  Severities,    \* the severities they report
  MaxRaises,     \* bound: requests begun in a behaviour
  NoFinding

ASSUME FindingAssumption == NoFinding \notin Severities /\ MaxRaises \in Nat

VARIABLES
  records,     \* InMemoryFindingStore.records: the severity stored under an id
  pc,          \* the next step of each worker's request
  call,        \* its number and the finding it reports
  raises,      \* requests begun
  announced    \* history: the requests whose event is out and whose answer is Ok

vars == <<records, pc, call, raises, announced>>

Labels == {"idle", "contains_key", "insert", "publish"}
Raise == [raise : 1..MaxRaises, id : FindingIds, severity : Severities]
NoRaise == [raise |-> 0]

Exists(id) == records[id] # NoFinding

(***************************************************************************)
(* Steps of raise_finding.  A Faulty... operator is the definition below   *)
(* it with a slip; no specification uses it.                               *)
(***************************************************************************)
Init ==
  /\ records = [id \in FindingIds |-> NoFinding]
  /\ pc = [w \in Workers |-> "idle"]
  /\ call = [w \in Workers |-> NoRaise]
  /\ raises = 0
  /\ announced = {}

raise_finding(w, id, severity) ==
  /\ pc[w] = "idle" /\ raises < MaxRaises
  /\ raises' = raises + 1
  /\ call' = [call EXCEPT ![w] = [raise |-> raises + 1, id |-> id, severity |-> severity]]
  /\ pc' = [pc EXCEPT ![w] = "contains_key"]
  /\ UNCHANGED <<records, announced>>

\* The event goes out first and the map is left for later.
FaultyIfVacant == "publish"

\* Where a handler goes on if the id is free.
IfVacant == "insert"

ContainsKey(w) ==
  /\ pc[w] = "contains_key"
  /\ IF Exists(call[w].id)
     THEN /\ pc' = [pc EXCEPT ![w] = "idle"]
          /\ call' = [call EXCEPT ![w] = NoRaise]
     ELSE /\ pc' = [pc EXCEPT ![w] = IfVacant]
          /\ UNCHANGED call
  /\ UNCHANGED <<records, raises, announced>>

\* The handler answers with the record and does not reach the sink.
FaultyAfterInsert == "idle"

AfterInsert == "publish"

\* `DashMap::insert` replaces what is there.
Insert(w) ==
  /\ pc[w] = "insert"
  /\ records' = [records EXCEPT ![call[w].id] = call[w].severity]
  /\ pc' = [pc EXCEPT ![w] = AfterInsert]
  /\ UNCHANGED <<call, raises, announced>>

\* The event goes out and the caller gets the record it sent.
Publish(w) ==
  /\ pc[w] = "publish"
  /\ announced' = announced \cup {call[w]}
  /\ pc' = [pc EXCEPT ![w] = "idle"]
  /\ call' = [call EXCEPT ![w] = NoRaise]
  /\ UNCHANGED <<records, raises>>

Step(w) == ContainsKey(w) \/ Insert(w) \/ Publish(w)

\* Every request begun has been answered, and no more will come.
Done ==
  /\ raises = MaxRaises /\ \A w \in Workers : pc[w] = "idle"
  /\ UNCHANGED vars

Next ==
  \/ \E w \in Workers :
       \/ Step(w)
       \/ \E id \in FindingIds, severity \in Severities : raise_finding(w, id, severity)
  \/ Done

Spec == Init /\ [][Next]_vars

(***************************************************************************)
(* Properties that hold however requests interleave                        *)
(***************************************************************************)
\* The fields hold values of their types; a request past its first step knows
\* what it reports.
TypeOK ==
  /\ records \in [FindingIds -> Severities \cup {NoFinding}]
  /\ pc \in [Workers -> Labels]
  /\ call \in [Workers -> Raise \cup {NoRaise}]
  /\ \A w \in Workers : pc[w] # "idle" => call[w] \in Raise
  /\ raises \in 0..MaxRaises
  /\ announced \in SUBSET Raise

Quiet == \A w \in Workers : pc[w] = "idle"

ReportsOf(id) == {r \in announced : r.id = id}

\* Between requests the findings stored are those announced to subscribers, and
\* each is stored as one of its announcements said, even when reports of an id
\* overwrote one another.
StoredAsAnnounced ==
  Quiet =>
    \A id \in FindingIds :
      /\ Exists(id) <=> ReportsOf(id) # {}
      /\ Exists(id) => \E r \in ReportsOf(id) : r.severity = records[id]

(***************************************************************************)
(* Properties of one request at a time, which concurrent requests break    *)
(***************************************************************************)
\* A second finding under an id is refused ("duplicate finding"): of all reports
\* of an id one is accepted.
DuplicatesRefused == \A r, s \in announced : r.id = s.id => r = s
===============================================================================
