----------------------------- MODULE AgentProofs -----------------------------
(***************************************************************************)
(* Proofs about Agent for any entities, sessions, processes, rules and     *)
(* answers: every variable keeps its type, a hard decline is charged again *)
(* only after a new payment method, a failure is decided once, and the     *)
(* attempts that pass the gates stay within the limits of the rules.       *)
(***************************************************************************)
EXTENDS Agent, FiniteSetTheorems, TLAPS

-----------------------------------------------------------------------------
(* The rows *)

FailureIds == {x.n : x \in Failures}
QueuedIds == {q.decision : q \in queue}

EventInv ==
  /\ IsFiniteSet(log)
  /\ \A x \in log :
       /\ x.n \in 1..commits /\ x.entity \in Entity /\ x.at \in 0..now
       /\ x.decision \in Commits /\ x.detail \in Details
       /\ x.type = "PaymentFailed" => x.detail \in Cause /\ x.decision = 0
       /\ x.decision # 0 => \E r \in decisions : r.id = x.decision /\ r.entity = x.entity
  /\ \A x, y \in Failures : x.n = y.n => x = y

\* A decision is about a failure, and no other decision is.
DecisionInv ==
  /\ decisions \subseteq AllDecisions
  /\ \A r \in decisions :
       /\ r.id # 0
       /\ \E x \in Failures : r.trigger = x.n /\ r.entity = x.entity /\ r.cause = x.detail
  /\ \A r, s \in decisions : r.id = s.id \/ r.trigger = s.trigger => r = s

QueueInv ==
  /\ queue \subseteq [decision : Commits, due : Nat, executed : BOOLEAN]
  /\ \A q \in queue : \E r \in decisions : r.id = q.decision /\ r.action = "RETRY_SCHEDULED"

Receipts == {"ActionCompleted", "ActionFailed"}

\* A decision goes one way: to a human, or to the queue, or to an intent.
RouteInv(d) ==
  /\ Logged(d, {"EscalatedToHuman"}) => d \notin QueuedIds /\ ~Intended(d)
  /\ Logged(d, {"EscalatedToHuman"}) \/ d \in QueuedIds \/ Intended(d)
  /\ Logged(d, {"RetryScheduled"}) <=> d \in QueuedIds
  /\ Settled(d) => Intended(d)
  /\ \A x, y \in log : /\ x.decision = d /\ x.type = "ActionIntended"
                       /\ y.decision = d /\ y.type = "ActionIntended"
                       => x = y
  /\ \A x, y \in log : /\ x.decision = d /\ x.type \in Receipts
                       /\ y.decision = d /\ y.type \in Receipts
                       => x = y

RowsInv ==
  /\ now \in 0..MaxTime /\ commits \in Nat
  /\ EventInv /\ DecisionInv /\ QueueInv
  /\ \A r \in decisions : RouteInv(r.id)

LEMMA FailureIs == RowsInv => \A x \in Failures : Failure(x.n) = x
  BY DEF RowsInv, EventInv, Failure

LEMMA DecisionIs == RowsInv => \A r \in decisions : Decision(r.id) = r
  BY DEF RowsInv, DecisionInv, Decision

\* Commits of some events, which have the number of the commit.
Batch(E, types, e, at, d) ==
  /\ IsFiniteSet(types)
  /\ \A x \in E : /\ x.n = commits + 1 /\ x.entity = e /\ x.at = at /\ x.decision = d
                  /\ x.detail \in Details /\ x.type \in types
  /\ \A type \in types : \E x \in E : x.type = type
  /\ \A x, y \in E : x.type = y.type => x = y

LEMMA BatchFinite ==
  ASSUME NEW E, NEW types, NEW e, NEW at, NEW d, Batch(E, types, e, at, d)
  PROVE  IsFiniteSet(E)
  <1>1. PICK f : f = [x \in E |-> x.type]
    OBVIOUS
  <1>2. f \in Injection(E, types)
    BY <1>1 DEF Batch, Injection, IsInjective
  <1>3. QED
    BY <1>2, FS_Injection DEF Batch

LEMMA LoggedMore ==
  ASSUME NEW E, log' = log \cup E
  PROVE  \A d, types : Logged(d, types)' <=> Logged(d, types) \/ \E x \in E : x.decision = d /\ x.type \in types
  BY DEF Logged

\* The rows that are there stay; new events may be of the decisions there were,
\* or of one that is new.
EventsKept(E) ==
  /\ log' = log \cup E /\ commits' = commits + 1 /\ now' = now
  /\ decisions \subseteq decisions'

LEMMA EventsKeep ==
  ASSUME RowsInv, NEW E, NEW types, NEW e \in Entity, NEW at \in 0..now, NEW d, Batch(E, types, e, at, d),
         EventsKept(E), d \in 0..commits + 1,
         "PaymentFailed" \in types => d = 0 /\ \A x \in E : x.detail \in Cause,
         d # 0 => \E r \in decisions' : r.id = d /\ r.entity = e
  PROVE  EventInv'
  <1> USE DEF EventsKept
  <1>1. IsFiniteSet(log')
    BY BatchFinite, FS_Union DEF RowsInv, EventInv
  <1>2. ASSUME NEW x \in log'
        PROVE  /\ x.n \in 1..commits' /\ x.entity \in Entity /\ x.at \in 0..now'
               /\ x.decision \in 0..commits' /\ x.detail \in Details
               /\ x.type = "PaymentFailed" => x.detail \in Cause /\ x.decision = 0
               /\ x.decision # 0 => \E r \in decisions' : r.id = x.decision /\ r.entity = x.entity
    <2>1. CASE x \in log
      BY <2>1 DEF RowsInv, EventInv, Commits
    <2>2. CASE x \in E
      BY <2>2 DEF RowsInv, Batch
    <2>3. QED
      BY <2>1, <2>2
  <1>3. ASSUME NEW x \in log', NEW y \in log', x.type = "PaymentFailed", y.type = "PaymentFailed", x.n = y.n
        PROVE  x = y
    <2>1. \A z \in log : z.n \in 1..commits /\ z.n # commits + 1
      BY DEF RowsInv, EventInv
    <2>2. \A z \in E : z.n = commits + 1
      BY DEF Batch
    <2>3. CASE x \in log
      BY <1>3, <2>1, <2>2, <2>3 DEF RowsInv, EventInv, Failures
    <2>4. CASE x \in E
      BY <1>3, <2>1, <2>2, <2>4 DEF Batch
    <2>5. QED
      BY <2>3, <2>4
  <1>4. QED
    BY <1>1, <1>2, <1>3 DEF EventInv, Commits, Failures

\* What a batch does to what is logged of a decision.
LEMMA LoggedBatch ==
  ASSUME NEW E, NEW types, NEW e, NEW at, NEW d, Batch(E, types, e, at, d), log' = log \cup E
  PROVE  /\ \A r, some : r # d => (Logged(r, some)' <=> Logged(r, some))
         /\ \A some : Logged(d, some)' <=> Logged(d, some) \/ types \cap some # {}
  BY DEF Batch, Logged

\* Of a decision the batch is not about, all is as it was.
LEMMA RouteStays ==
  ASSUME NEW E, NEW types, NEW e, NEW at, NEW d, Batch(E, types, e, at, d), log' = log \cup E,
         NEW r, r # d, RouteInv(r), r \in QueuedIds' <=> r \in QueuedIds
  PROVE  RouteInv(r)'
  <1>1. \A some : Logged(r, some)' <=> Logged(r, some)
    BY LoggedBatch
  <1>2. \A x \in log' : x.decision = r => x \in log
    BY DEF Batch
  <1>3. QED
    BY <1>1, <1>2 DEF RouteInv, Intended, Settled

\* Nobody logs anything of a decision before it is made.
LEMMA NotYet ==
  RowsInv => \A some : ~Logged(commits + 1, some)
  BY DEF RowsInv, EventInv, Logged, Commits

\* An event from outside.
LEMMA WorldKeeps ==
  ASSUME RowsInv, NEW type, NEW e \in Entity, NEW detail \in Details,
         type = "PaymentFailed" => detail \in Cause,
         Commit({Event(type, e, now, 0, detail)}), UNCHANGED <<now, decisions, queue>>
  PROVE  RowsInv'
  <1>1. PICK E, types : E = {Event(type, e, now, 0, detail)} /\ types = {type}
    OBVIOUS
  <1>2. Batch(E, types, e, now, 0)
    BY <1>1, FS_Singleton DEF Batch, Event
  <1>3. log' = log \cup E /\ commits' = commits + 1
    BY <1>1 DEF Commit
  <1>4. EventInv'
    <2>1. now \in 0..now /\ 0 \in 0..commits + 1
      BY DEF RowsInv
    <2>2. EventsKept(E)
      BY <1>3 DEF EventsKept
    <2>3. "PaymentFailed" \in types => \A x \in E : x.detail \in Cause
      BY <1>1 DEF Event
    <2>4. QED
      BY <1>2, <2>1, <2>2, <2>3, EventsKeep
  <1>5. DecisionInv'
    BY <1>3 DEF RowsInv, DecisionInv, AllDecisions, Commits, Failures
  <1>6. QueueInv'
    BY <1>3 DEF RowsInv, QueueInv, Commits
  <1>7. \A r \in decisions' : RouteInv(r.id)'
    <2>1. ASSUME NEW r \in decisions PROVE RouteInv(r.id)'
      <3>1. r.id # 0 /\ RouteInv(r.id)
        BY DEF RowsInv, DecisionInv
      <3>2. PICK i : i = r.id
        OBVIOUS
      <3>3. RouteInv(i)'
        BY <1>2, <1>3, <3>1, <3>2, RouteStays DEF QueuedIds
      <3>4. QED
        BY <3>2, <3>3
    <2>2. QED
      BY <2>1
  <1>8. QED
    BY <1>3, <1>4, <1>5, <1>6, <1>7 DEF RowsInv

\* A decision about a failure that had none, and what it starts with.
LEMMA DecisionKeeps ==
  ASSUME RowsInv, NEW w \in Worker, NEW x \in Failures, ~Handled(x.n), clock[w] \in 0..now,
         NEW action \in LEGAL_ACTIONS, NEW detail \in Details,
         NEW type \in {"EscalatedToHuman", "ActionIntended", "RetryScheduled"},
         Decide(w, x.n, action, {type}, detail), now' = now,
         IF type = "RetryScheduled"
         THEN action = "RETRY_SCHEDULED" /\ \E delay \in Nat :
                queue' = queue \cup {[decision |-> commits + 1, due |-> clock[w] + delay, executed |-> FALSE]}
         ELSE queue' = queue
  PROVE  RowsInv'
  <1>1. PICK d, at, e : d = commits + 1 /\ at = clock[w] /\ e = x.entity
    OBVIOUS
  <1>2. Failure(x.n) = x
    BY FailureIs
  <1>3. PICK E, types : /\ E = {Event("FailureDiagnosed", e, at, d, "none"), Event(type, e, at, d, detail)}
                        /\ types = {"FailureDiagnosed", type}
    OBVIOUS
  <1>4. PICK r : r = [id |-> d, trigger |-> x.n, entity |-> e, cause |-> x.detail, action |-> action]
    OBVIOUS
  <1>5. decisions' = decisions \cup {r} /\ log' = log \cup E /\ commits' = commits + 1
    BY <1>1, <1>2, <1>3, <1>4 DEF Decide, Commit
  <1>6. Batch(E, types, e, at, d)
    <2>1. IsFiniteSet(types)
      <3>1. IsFiniteSet({type}) /\ types = {type} \cup {"FailureDiagnosed"}
        BY <1>3, FS_Singleton
      <3>2. QED
        BY <3>1, FS_AddElement
    <2>2. QED
      BY <1>1, <1>3, <2>1 DEF Batch, Event, Details
  <1>7. commits \in Nat /\ at \in 0..now /\ x.n \in 1..commits /\ e \in Entity /\ x.detail \in Cause /\ d # 0
    BY <1>1 DEF RowsInv, EventInv, Failures
  <1>8. EventInv'
    <2>1. EventsKept(E)
      BY <1>5 DEF EventsKept
    <2>2. \E s \in decisions' : s.id = d /\ s.entity = e
      BY <1>4, <1>5
    <2>3. "PaymentFailed" \notin types
      BY <1>3
    <2>4. d \in 0..commits + 1
      BY <1>1, <1>7
    <2>5. QED
      BY <1>6, <1>7, <2>1, <2>2, <2>3, <2>4, EventsKeep
  <1>9. DecisionInv'
    <2>1. r \in [id : 0..commits', trigger : 0..commits', entity : Entity, cause : Cause, action : LEGAL_ACTIONS]
      BY <1>1, <1>4, <1>5, <1>7
    <2>2. decisions \subseteq [id : 0..commits', trigger : 0..commits', entity : Entity, cause : Cause,
                               action : LEGAL_ACTIONS]
      BY <1>5, <1>7 DEF RowsInv, DecisionInv, AllDecisions, Commits
    <2>3. \A s \in decisions : s.id # d /\ s.trigger # x.n
      BY <1>1 DEF RowsInv, DecisionInv, AllDecisions, Commits, Handled
    <2>4. \A s \in decisions' : s.id # 0 /\ \E y \in Failures' : s.trigger = y.n /\ s.entity = y.entity /\ s.cause = y.detail
      <3>1. \A y \in Failures : y \in Failures'
        BY <1>5 DEF Failures
      <3>2. \A s \in decisions :
              s.id # 0 /\ \E y \in Failures : s.trigger = y.n /\ s.entity = y.entity /\ s.cause = y.detail
        BY DEF RowsInv, DecisionInv
      <3>3. r.id # 0 /\ r.trigger = x.n /\ r.entity = x.entity /\ r.cause = x.detail
        BY <1>1, <1>4, <1>7
      <3>4. QED
        BY <1>5, <3>1, <3>2, <3>3
    <2>5. \A s, q \in decisions' : s.id = q.id \/ s.trigger = q.trigger => s = q
      BY <1>4, <1>5, <2>3 DEF RowsInv, DecisionInv
    <2>6. QED
      BY <1>5, <2>1, <2>2, <2>4, <2>5 DEF DecisionInv, AllDecisions, Commits
  <1>10. /\ QueueInv'
         /\ \A i : i # d => (i \in QueuedIds' <=> i \in QueuedIds)
         /\ d \in QueuedIds' <=> type = "RetryScheduled"
    <2>1. queue \subseteq [decision : 0..commits', due : Nat, executed : BOOLEAN]
      BY <1>5, <1>7 DEF RowsInv, QueueInv, Commits
    <2>2. d \notin QueuedIds
      BY <1>1, <1>7 DEF RowsInv, QueueInv, QueuedIds, Commits
    <2>3. CASE type = "RetryScheduled"
      <3>1. PICK delay \in Nat :
              queue' = queue \cup {[decision |-> d, due |-> at + delay, executed |-> FALSE]}
        BY <1>1, <2>3
      <3>2. PICK q : q = [decision |-> d, due |-> at + delay, executed |-> FALSE]
        OBVIOUS
      <3>3. q \in [decision : 0..commits', due : Nat, executed : BOOLEAN] /\ q.decision = d
        BY <1>1, <1>5, <1>7, <3>2
      <3>4. queue' = queue \cup {q}
        BY <3>1, <3>2
      <3>5. \A p \in queue' : \E s \in decisions' : s.id = p.decision /\ s.action = "RETRY_SCHEDULED"
        BY <1>4, <1>5, <2>3, <3>3, <3>4 DEF RowsInv, QueueInv
      <3>6. QED
        BY <2>1, <2>2, <2>3, <3>3, <3>4, <3>5 DEF QueueInv, QueuedIds, Commits
    <2>4. CASE type # "RetryScheduled"
      <3>1. queue' = queue
        BY <2>4
      <3>2. \A p \in queue' : \E s \in decisions' : s.id = p.decision /\ s.action = "RETRY_SCHEDULED"
        BY <1>5, <3>1 DEF RowsInv, QueueInv
      <3>3. QED
        BY <2>1, <2>2, <2>4, <3>1, <3>2 DEF QueueInv, QueuedIds, Commits
    <2>5. QED
      BY <2>3, <2>4
  <1>11. RouteInv(d)'
    <2>1. \A some : Logged(d, some)' <=> types \cap some # {}
      BY <1>1, <1>5, <1>6, LoggedBatch, NotYet
    <2>2. \A y \in log : y.decision # d
      BY <1>1, <1>7 DEF RowsInv, EventInv, Commits
    <2>3. \A y, z \in log' : y.decision = d /\ z.decision = d /\ y.type = z.type => y = z
      BY <1>5, <1>6, <2>2 DEF Batch
    <2>4. \A y \in log' : y.decision = d => y.type \in types
      BY <1>5, <1>6, <2>2 DEF Batch
    <2>5. QED
      BY <1>3, <1>10, <2>1, <2>3, <2>4 DEF RouteInv, Intended, Settled, Receipts
  <1>12. \A s \in decisions' : RouteInv(s.id)'
    <2>1. ASSUME NEW s \in decisions PROVE RouteInv(s.id)'
      <3>1. s.id # d /\ RouteInv(s.id)
        BY <1>1 DEF RowsInv, DecisionInv, AllDecisions, Commits
      <3>2. PICK i : i = s.id
        OBVIOUS
      <3>3. RouteInv(i)'
        BY <1>5, <1>6, <1>10, <3>1, <3>2, RouteStays
      <3>4. QED
        BY <3>2, <3>3
    <2>2. PICK i : i = r.id
      OBVIOUS
    <2>3. RouteInv(i)'
      BY <1>4, <1>11, <2>2
    <2>4. QED
      BY <1>5, <2>1, <2>2, <2>3
  <1>13. QED
    BY <1>5, <1>7, <1>8, <1>9, <1>10, <1>12 DEF RowsInv

\* What follows when no event is of a new decision, and the decisions stay.
LEMMA OldDecisionsKeep ==
  ASSUME RowsInv, NEW E, NEW types, NEW r \in decisions, NEW at \in 0..now,
         Batch(E, types, r.entity, at, r.id), "PaymentFailed" \notin types,
         log' = log \cup E, commits' = commits + 1, UNCHANGED <<now, decisions, queue>>, RouteInv(r.id)'
  PROVE  RowsInv'
  <1>1. PICK d, e : d = r.id /\ e = r.entity
    OBVIOUS
  <1>2. commits \in Nat /\ d \in 0..commits /\ e \in Entity
    BY <1>1 DEF RowsInv, DecisionInv, AllDecisions, Commits
  <1>3. EventInv'
    <2>1. EventsKept(E)
      BY DEF EventsKept
    <2>2. d \in 0..commits + 1
      BY <1>2
    <2>3. QED
      BY <1>1, <1>2, <2>1, <2>2, EventsKeep
  <1>4. DecisionInv'
    <2>1. \A y \in Failures : y \in Failures'
      BY DEF Failures
    <2>2. decisions \subseteq AllDecisions'
      BY <1>2 DEF RowsInv, DecisionInv, AllDecisions, Commits
    <2>3. QED
      BY <2>1, <2>2 DEF RowsInv, DecisionInv
  <1>5. QueueInv'
    BY <1>2 DEF RowsInv, QueueInv, Commits
  <1>6. ASSUME NEW s \in decisions PROVE RouteInv(s.id)'
    <2>1. PICK i : i = s.id
      OBVIOUS
    <2>2. RouteInv(i)
      BY <2>1 DEF RowsInv
    <2>3. CASE i = d
      <3>1. PICK q : q = s /\ q = r
        BY <1>1, <2>1, <2>3 DEF RowsInv, DecisionInv
      <3>2. QED
        BY <3>1
    <2>4. CASE i # d
      <3>1. RouteInv(i)'
        BY <1>1, <2>2, <2>4, RouteStays DEF QueuedIds
      <3>2. QED
        BY <2>1, <3>1
    <2>5. QED
      BY <2>3, <2>4
  <1>7. QED
    BY <1>2, <1>3, <1>4, <1>5, <1>6 DEF RowsInv

\* The intent of a queued retry.
LEMMA IntentKeeps ==
  ASSUME RowsInv, NEW r \in decisions, NEW at \in 0..now, r.id \in QueuedIds, ~Intended(r.id),
         Commit({Event("ActionIntended", r.entity, at, r.id, "none")}), UNCHANGED <<now, decisions, queue>>
  PROVE  RowsInv'
  <1>1. PICK d, e : d = r.id /\ e = r.entity
    OBVIOUS
  <1>2. PICK E, types : E = {Event("ActionIntended", e, at, d, "none")} /\ types = {"ActionIntended"}
    OBVIOUS
  <1>3. log' = log \cup E /\ commits' = commits + 1
    BY <1>1, <1>2 DEF Commit
  <1>4. Batch(E, types, e, at, d)
    <2>1. IsFiniteSet(types) /\ "none" \in Details
      BY <1>2, FS_Singleton DEF Details
    <2>2. QED
      BY <1>2, <2>1 DEF Batch, Event
  <1>5. RouteInv(d)'
    <2>1. RouteInv(d)
      BY <1>1 DEF RowsInv
    <2>2. \A some : Logged(d, some)' <=> Logged(d, some) \/ types \cap some # {}
      BY <1>3, <1>4, LoggedBatch
    <2>3. d \in QueuedIds' /\ d \in QueuedIds
      BY <1>1 DEF QueuedIds
    <2>4. \A x \in log : x.decision = d => x.type # "ActionIntended"
      BY <1>1 DEF Intended, Logged
    <2>5. \A x, y \in log' : /\ x.decision = d /\ x.type = "ActionIntended"
                             /\ y.decision = d /\ y.type = "ActionIntended"
                             => x = y
      BY <1>3, <1>4, <2>4 DEF Batch
    <2>6. \A x \in log' : x.type \in Receipts => x \in log
      BY <1>2, <1>3, <1>4 DEF Batch, Receipts
    <2>7. \A some : "ActionIntended" \notin some => (Logged(d, some)' <=> Logged(d, some))
      BY <1>2, <2>2
    <2>8. Logged(d, {"ActionIntended"})'
      BY <1>2, <2>2
    <2>9. QED
      BY <2>1, <2>3, <2>5, <2>6, <2>7, <2>8 DEF RouteInv, Intended, Settled
  <1>6. RouteInv(r.id)'
    BY <1>1, <1>5
  <1>7. QED
    BY <1>1, <1>2, <1>3, <1>4, <1>6, OldDecisionsKeep

\* The receipt of an intent.  What else the commit says is none of the types the
\* route of a decision depends on.
LEMMA ReceiptKeeps ==
  ASSUME RowsInv, NEW r \in decisions, NEW at \in 0..now, Intended(r.id), ~Settled(r.id),
         NEW E, NEW types, Batch(E, types, r.entity, at, r.id), log' = log \cup E, commits' = commits + 1,
         types \cap {"PaymentFailed", "EscalatedToHuman", "RetryScheduled", "ActionIntended"} = {},
         \A t, u \in types : t \in Receipts /\ u \in Receipts => t = u,
         UNCHANGED <<now, decisions, queue>>
  PROVE  RowsInv'
  <1>1. PICK d : d = r.id
    OBVIOUS
  <1>2. RouteInv(d)'
    <2>1. RouteInv(d)
      BY <1>1 DEF RowsInv
    <2>2. \A some : Logged(d, some)' <=> Logged(d, some) \/ types \cap some # {}
      BY <1>1, LoggedBatch
    <2>3. d \in QueuedIds' <=> d \in QueuedIds
      BY DEF QueuedIds
    <2>4. \A x \in log : x.decision = d => x.type \notin Receipts
      BY <1>1 DEF Settled, Logged, Receipts
    <2>5. \A x, y \in log' : /\ x.decision = d /\ x.type \in Receipts
                             /\ y.decision = d /\ y.type \in Receipts
                             => x = y
      BY <2>4 DEF Batch
    <2>6. \A x \in log' : x.type = "ActionIntended" => x \in log
      BY DEF Batch
    <2>7. /\ Logged(d, {"EscalatedToHuman"})' <=> Logged(d, {"EscalatedToHuman"})
          /\ Logged(d, {"RetryScheduled"})' <=> Logged(d, {"RetryScheduled"})
          /\ Logged(d, {"ActionIntended"})' <=> Logged(d, {"ActionIntended"})
      <3>1. \A t \in {"EscalatedToHuman", "RetryScheduled", "ActionIntended"} : types \cap {t} = {}
        OBVIOUS
      <3>2. QED
        BY <2>2, <3>1
    <2>8. QED
      BY <1>1, <2>1, <2>3, <2>5, <2>6, <2>7 DEF RouteInv, Intended
  <1>3. QED
    BY <1>1, <1>2, OldDecisionsKeep

\* The decisions stay, and nothing is logged of them; executed rows stay rows.
LEMMA RowsKeep ==
  ASSUME RowsInv, UNCHANGED <<log, commits, decisions>>, now' \in now..MaxTime,
         queue' \subseteq [decision : Commits, due : Nat, executed : BOOLEAN], QueuedIds' = QueuedIds
  PROVE  RowsInv'
  <1>1. now' \in 0..MaxTime /\ commits \in Nat /\ \A n \in 0..now : n \in 0..now'
    BY AgentAssumption DEF RowsInv
  <1>2. EventInv'
    BY <1>1 DEF RowsInv, EventInv, Failures, Commits
  <1>3. DecisionInv'
    BY DEF RowsInv, DecisionInv, Failures, AllDecisions, Commits
  <1>4. QueueInv'
    <2>1. \A q \in queue' : \E p \in queue : p.decision = q.decision
      BY DEF QueuedIds
    <2>2. QED
      BY <2>1 DEF RowsInv, QueueInv, Commits
  <1>5. \A r \in decisions : RouteInv(r.id)'
    BY DEF RowsInv, RouteInv, Logged, Intended, Settled
  <1>6. QED
    BY <1>1, <1>2, <1>3, <1>4, <1>5 DEF RowsInv

\* The events that record an outcome.
LEMMA OutcomeIs ==
  ASSUME NEW action, NEW answer, NEW detailed, NEW contacted, action # "RETRY_SCHEDULED"
  PROVE  LET types == OutcomeTypes(action, answer, detailed, contacted) IN
         /\ IsFiniteSet(types)
         /\ types \subseteq Receipts \cup {"RetryAttempted", "PaymentLinkSent", "RecoveryActionSent",
              "MethodCheckCompleted", "RetrySucceeded", "PaymentMethodChanged", "CustomerContacted"}
         /\ \A t, u \in types : t \in Receipts /\ u \in Receipts => t = u
         /\ types \cap Receipts # {}
         /\ action \in CHARGING_ACTIONS => "RetryAttempted" \in types
  <1> DEFINE some == OUTCOME_EVENT(action)
             a == {IF answer = "completed" THEN "ActionCompleted" ELSE "ActionFailed"}
             b == {t \in {"RetrySucceeded"} : answer = "completed" /\ detailed /\ action \in CHARGING_ACTIONS}
             c == {t \in {"PaymentMethodChanged"} :
                     answer = "completed" /\ detailed /\ action = "CHECK_METHOD_UPDATED"}
             k == {t \in {"CustomerContacted"} : contacted}
  <1>1. OutcomeTypes(action, answer, detailed, contacted) = a \cup some \cup b \cup c \cup k
    BY DEF OutcomeTypes
  <1>2. /\ some = {} \/ \E t : some = {t}
        /\ some \subseteq {"RetryAttempted", "PaymentLinkSent", "RecoveryActionSent", "MethodCheckCompleted"}
        /\ action \in CHARGING_ACTIONS => some = {"RetryAttempted"}
    BY DEF OUTCOME_EVENT, CHARGING_ACTIONS
  <1>3. IsFiniteSet(a) /\ IsFiniteSet(some) /\ IsFiniteSet(b) /\ IsFiniteSet(c) /\ IsFiniteSet(k)
    <2>1. \A t : IsFiniteSet({t})
      BY FS_Singleton
    <2>2. IsFiniteSet({})
      BY FS_EmptySet
    <2>3. /\ b = {} \/ b = {"RetrySucceeded"}
          /\ c = {} \/ c = {"PaymentMethodChanged"}
          /\ k = {} \/ k = {"CustomerContacted"}
      OBVIOUS
    <2>4. QED
      BY <1>2, <2>1, <2>2, <2>3
  <1>4. IsFiniteSet(a \cup some \cup b \cup c \cup k)
    <2> HIDE DEF a, some, b, c, k
    <2>1. IsFiniteSet(a \cup some)
      BY <1>3, FS_Union
    <2>2. IsFiniteSet((a \cup some) \cup b)
      BY <1>3, <2>1, FS_Union
    <2>3. IsFiniteSet((a \cup some \cup b) \cup c)
      BY <1>3, <2>2, FS_Union
    <2>4. QED
      BY <1>3, <2>3, FS_Union
  <1>5. a \subseteq Receipts /\ \A t, u \in a : t = u
    BY DEF Receipts
  <1>6. b \cup c \cup k \subseteq {"RetrySucceeded", "PaymentMethodChanged", "CustomerContacted"}
    OBVIOUS
  <1>7. a # {}
    OBVIOUS
  <1> HIDE DEF a, some, b, c, k
  <1>8. QED
    BY <1>1, <1>2, <1>4, <1>5, <1>6, <1>7 DEF Receipts

LEMMA OutcomeCommitted ==
  ASSUME RowsInv, NEW r \in decisions, NEW at, NEW answer, NEW proposed \in Details \cup {"none"},
         CommitOutcome(r.id, at, answer, proposed)
  PROVE  \E E, types :
           /\ Batch(E, types, r.entity, at, r.id)
           /\ log' = log \cup E /\ commits' = commits + 1
           /\ types \cap {"PaymentFailed", "EscalatedToHuman", "RetryScheduled", "ActionIntended"} = {}
           /\ \A t, u \in types : t \in Receipts /\ u \in Receipts => t = u
           /\ types \cap Receipts # {}
           /\ ActionOf(r.id) \in CHARGING_ACTIONS => "RetryAttempted" \in types
  <1>1. PICK d, e, action : d = r.id /\ e = r.entity /\ action = ActionOf(d)
    OBVIOUS
  <1>2. action # "RETRY_SCHEDULED"
    BY <1>1 DEF ActionOf
  <1>3. PICK channel \in Details : channel = ChannelOf(action, proposed)
    BY DEF ChannelOf, Details
  <1>4. Decision(d).entity = e
    BY <1>1, DecisionIs
  <1>5. PICK detailed \in BOOLEAN :
          Commit({Event(type, e, at, d,
                        IF type \in {"PaymentLinkSent", "CustomerContacted"} THEN channel ELSE "none") :
                    type \in OutcomeTypes(action, answer, detailed, channel # "none")})
    BY <1>1, <1>3, <1>4 DEF CommitOutcome
  <1>6. PICK types : types = OutcomeTypes(action, answer, detailed, channel # "none")
    OBVIOUS
  <1>7. /\ IsFiniteSet(types)
        /\ types \subseteq Receipts \cup {"RetryAttempted", "PaymentLinkSent", "RecoveryActionSent",
             "MethodCheckCompleted", "RetrySucceeded", "PaymentMethodChanged", "CustomerContacted"}
        /\ \A t, u \in types : t \in Receipts /\ u \in Receipts => t = u
        /\ types \cap Receipts # {}
        /\ action \in CHARGING_ACTIONS => "RetryAttempted" \in types
    BY <1>2, <1>6, OutcomeIs
  <1>8. PICK E : E = {Event(type, e, at, d,
                            IF type \in {"PaymentLinkSent", "CustomerContacted"} THEN channel ELSE "none") :
                        type \in types}
    OBVIOUS
  <1>9. log' = log \cup E /\ commits' = commits + 1
    BY <1>5, <1>6, <1>8 DEF Commit
  <1>10. Batch(E, types, e, at, d)
    <2>1. "none" \in Details
      BY DEF Details
    <2>2. ASSUME NEW x \in E
          PROVE  /\ x.n = commits + 1 /\ x.entity = e /\ x.at = at /\ x.decision = d
                 /\ x.detail \in Details /\ x.type \in types
                 /\ x = Event(x.type, e, at, d,
                              IF x.type \in {"PaymentLinkSent", "CustomerContacted"} THEN channel ELSE "none")
      <3>1. PICK type \in types :
              x = Event(type, e, at, d,
                        IF type \in {"PaymentLinkSent", "CustomerContacted"} THEN channel ELSE "none")
        BY <1>8
      <3>2. QED
        BY <2>1, <3>1 DEF Event
    <2>3. ASSUME NEW type \in types PROVE \E x \in E : x.type = type
      <3>1. PICK x : x = Event(type, e, at, d,
                               IF type \in {"PaymentLinkSent", "CustomerContacted"} THEN channel ELSE "none")
        OBVIOUS
      <3>2. x \in E /\ x.type = type
        BY <1>8, <3>1 DEF Event
      <3>3. QED
        BY <3>2
    <2>4. \A x, y \in E : x.type = y.type => x = y
      BY <2>2
    <2>5. QED
      BY <1>7, <2>2, <2>3, <2>4 DEF Batch
  <1>11. types \cap {"PaymentFailed", "EscalatedToHuman", "RetryScheduled", "ActionIntended"} = {}
    BY <1>7 DEF Receipts
  <1>12. QED
    BY <1>1, <1>7, <1>9, <1>10, <1>11


-----------------------------------------------------------------------------
(* The sessions *)

Steps == {"idle", "drain", "reason", "gateway", "fold", "due", "charge", "mark"}

SessionTypes ==
  /\ status \in [Entity -> VALID_STATUSES]
  /\ pc \in [Worker -> Steps]
  /\ clock \in [Worker -> 0..now]
  /\ todo \in [Worker -> SUBSET Commits]
  /\ due \in [Worker -> SUBSET Commits]
  /\ fired \in [Worker -> BOOLEAN]
  /\ on \in [Worker -> Entity \cup {NoEntity}]
  /\ cur \in [Worker -> Commits]
  /\ aborts \in 0..MaxAborts

\* What a session that is at p, with its lists t and u, knows of the rows: the
\* failure it reasons about is undecided, the intent it carries out is there.
Placed(p, t, u, e, id) ==
  /\ e # NoEntity <=> p \in {"reason", "gateway", "fold", "charge", "mark"}
  /\ p \in {"due", "charge", "mark"} => t = {}
  /\ u # {} => p \in {"due", "charge", "mark"}
  /\ p = "reason" => \E x \in Failures : id = x.n /\ e = x.entity /\ ~Handled(id)
  /\ p \in {"gateway", "charge"} =>
       \E r \in decisions : id = r.id /\ e = r.entity /\ Intended(id)
  /\ p = "charge" => \E r \in decisions : id = r.id /\ r.action = "RETRY_SCHEDULED"

\* Two sessions never reason about one entity.
Alone ==
  \A w, o \in Worker : w # o /\ pc[w] = "reason" /\ pc[o] = "reason" => on[w] # on[o]

\* Two sessions of a process never hold the lock of one entity.
Exclusive ==
  \A w, o \in Worker : w # o /\ ProcessOf[w] = ProcessOf[o] /\ on[w] # NoEntity => on[w] # on[o]

SessionInv ==
  /\ SessionTypes
  /\ \A w \in Worker : Placed(pc[w], todo[w], due[w], on[w], cur[w])
  /\ Alone /\ Exclusive

IInv == RowsInv /\ SessionInv

\* Rows only come, so that what a session knows stays true unless somebody
\* decides the failure it reasons about.
LEMMA PlacedStays ==
  ASSUME NEW p, NEW t, NEW u, NEW e, NEW id, Placed(p, t, u, e, id),
         log \subseteq log', decisions \subseteq decisions',
         p = "reason" => \A r \in decisions' \ decisions : r.trigger # id
  PROVE  Placed(p, t, u, e, id)'
  <1>1. ASSUME p = "reason"
        PROVE  \E x \in Failures' : id = x.n /\ e = x.entity /\ ~Handled(id)'
    <2>1. PICK x \in Failures : id = x.n /\ e = x.entity /\ ~Handled(id)
      BY <1>1 DEF Placed
    <2>2. x \in Failures'
      BY DEF Failures
    <2>3. ~Handled(id)'
      BY <1>1, <2>1 DEF Handled
    <2>4. QED
      BY <2>1, <2>2, <2>3
  <1>2. ASSUME p \in {"gateway", "charge"}
        PROVE  \E r \in decisions' : id = r.id /\ e = r.entity /\ Intended(id)'
    <2>1. PICK r \in decisions : id = r.id /\ e = r.entity /\ Intended(id)
      BY <1>2 DEF Placed
    <2>2. Intended(id)'
      BY <2>1 DEF Intended, Logged
    <2>3. QED
      BY <2>1, <2>2
  <1>3. QED
    BY <1>1, <1>2 DEF Placed

\* The tick of one session after a step of it.
Moves(w, p, c, t, u, g, e, id) ==
  /\ pc' = [pc EXCEPT ![w] = p] /\ clock' = [clock EXCEPT ![w] = c]
  /\ todo' = [todo EXCEPT ![w] = t] /\ due' = [due EXCEPT ![w] = u]
  /\ fired' = [fired EXCEPT ![w] = g]
  /\ on' = [on EXCEPT ![w] = e] /\ cur' = [cur EXCEPT ![w] = id]
  /\ p \in Steps /\ c \in 0..now' /\ g \in BOOLEAN /\ e \in Entity \cup {NoEntity}
  /\ id \in Commits' /\ t \subseteq Commits' /\ u \subseteq Commits'
  /\ now \in 0..now' /\ commits \in 0..commits'
  /\ e = NoEntity \/ e = on[w] \/ LockFree(w, e)

\* One session goes on, the others stay where they are.
LEMMA Moved ==
  ASSUME RowsInv, RowsInv', SessionInv, NEW w \in Worker,
         NEW p, NEW c, NEW t, NEW u, NEW g, NEW e, NEW id, Moves(w, p, c, t, u, g, e, id),
         status' \in [Entity -> VALID_STATUSES], aborts' \in 0..MaxAborts,
         Placed(p, t, u, e, id)',
         log \subseteq log', decisions \subseteq decisions',
         \A o \in Worker \ {w} : pc[o] = "reason" =>
           /\ \A r \in decisions' \ decisions : r.trigger # cur[o]
           /\ p = "reason" => on[o] # e
  PROVE  SessionInv'
  <1> USE DEF Moves
  <1>1. SessionTypes'
    <2>1. 0..now \subseteq 0..now' /\ Commits \subseteq Commits'
      BY DEF RowsInv, Commits
    <2>2. pc' \in [Worker -> Steps] /\ fired' \in [Worker -> BOOLEAN] /\ on' \in [Worker -> Entity \cup {NoEntity}]
      BY DEF SessionInv, SessionTypes
    <2>3. clock' \in [Worker -> 0..now'] /\ cur' \in [Worker -> Commits']
      BY <2>1 DEF SessionInv, SessionTypes
    <2>4. todo' \in [Worker -> SUBSET Commits'] /\ due' \in [Worker -> SUBSET Commits']
      BY <2>1 DEF SessionInv, SessionTypes
    <2>5. QED
      BY <2>2, <2>3, <2>4 DEF SessionTypes
  <1>2. /\ pc'[w] = p /\ todo'[w] = t /\ due'[w] = u /\ on'[w] = e /\ cur'[w] = id
        /\ \A o \in Worker \ {w} : /\ pc'[o] = pc[o] /\ todo'[o] = todo[o] /\ due'[o] = due[o]
                                   /\ on'[o] = on[o] /\ cur'[o] = cur[o]
    BY DEF SessionInv, SessionTypes
  <1>3. ASSUME NEW o \in Worker
        PROVE  Placed(pc[o], todo[o], due[o], on[o], cur[o])'
    <2>1. CASE o = w
      BY <1>2, <2>1 DEF Placed
    <2>2. CASE o # w
      <3>1. PICK p0, t0, u0, e0, i0 : p0 = pc[o] /\ t0 = todo[o] /\ u0 = due[o] /\ e0 = on[o] /\ i0 = cur[o]
        OBVIOUS
      <3>2. Placed(p0, t0, u0, e0, i0)
        BY <3>1 DEF SessionInv
      <3>3. p0 = "reason" => \A r \in decisions' \ decisions : r.trigger # i0
        BY <2>2, <3>1
      <3>4. Placed(p0, t0, u0, e0, i0)'
        BY <3>2, <3>3, PlacedStays
      <3>5. p0 = pc'[o] /\ t0 = todo'[o] /\ u0 = due'[o] /\ e0 = on'[o] /\ i0 = cur'[o]
        BY <1>2, <2>2, <3>1
      <3>6. QED
        BY <3>4, <3>5 DEF Placed
    <2>3. QED
      BY <2>1, <2>2
  <1>4. Alone'
    <2>1. \A a, b \in Worker \ {w} : a # b /\ pc'[a] = "reason" /\ pc'[b] = "reason" => on'[a] # on'[b]
      BY <1>2 DEF SessionInv, Alone
    <2>2. \A o \in Worker \ {w} : pc'[w] = "reason" /\ pc'[o] = "reason" => on'[w] # on'[o]
      BY <1>2
    <2>3. QED
      BY <2>1, <2>2 DEF Alone
  <1>5. Exclusive'
    <2>1. ASSUME NEW a \in Worker, NEW b \in Worker, a # b, ProcessOf[a] = ProcessOf[b], on'[a] # NoEntity
          PROVE  on'[a] # on'[b]
      <3>1. CASE a # w /\ b # w
        BY <1>2, <2>1, <3>1 DEF SessionInv, Exclusive
      <3>2. CASE a = w /\ e = on[w]
        BY <1>2, <2>1, <3>2 DEF SessionInv, Exclusive
      <3>3. CASE b = w /\ e = on[w]
        BY <1>2, <2>1, <3>3 DEF SessionInv, Exclusive
      <3>4. CASE a = w /\ LockFree(w, e)
        BY <1>2, <2>1, <3>4 DEF LockFree
      <3>5. CASE b = w /\ LockFree(w, e)
        BY <1>2, <2>1, <3>5 DEF LockFree
      <3>6. CASE e = NoEntity
        BY <1>2, <2>1, <3>1, <3>6
      <3>7. QED
        BY <3>1, <3>2, <3>3, <3>4, <3>5, <3>6
    <2>2. QED
      BY <2>1 DEF Exclusive
  <1>6. QED
    BY <1>1, <1>3, <1>4, <1>5 DEF SessionInv

\* A session leaves its tick.
LEMMA Dropped ==
  ASSUME RowsInv, RowsInv', SessionInv, NEW w \in Worker, Drop(w), UNCHANGED <<now, commits, log, decisions>>,
         status' \in [Entity -> VALID_STATUSES], aborts' \in 0..MaxAborts
  PROVE  SessionInv'
  <1>1. now \in Nat /\ commits \in Nat /\ NoEntity \notin Entity
    BY AgentAssumption DEF RowsInv
  <1>2. PICK c, t, u, g, id : c = 0 /\ t = {} /\ u = {} /\ g = FALSE /\ id = 0
    OBVIOUS
  <1>3. Placed("idle", t, u, NoEntity, id)'
    BY <1>2 DEF Placed
  <1>4. /\ pc' = [pc EXCEPT ![w] = "idle"] /\ clock' = [clock EXCEPT ![w] = c]
        /\ todo' = [todo EXCEPT ![w] = t] /\ due' = [due EXCEPT ![w] = u]
        /\ fired' = [fired EXCEPT ![w] = g]
        /\ on' = [on EXCEPT ![w] = NoEntity] /\ cur' = [cur EXCEPT ![w] = id]
    BY <1>2 DEF Drop, Goto, Unlock, Lock
  <1>5. "idle" \in Steps /\ c \in 0..now' /\ id \in Commits' /\ now \in 0..now' /\ commits \in 0..commits'
    BY <1>1, <1>2 DEF Steps, Commits
  <1>6. Moves(w, "idle", c, t, u, g, NoEntity, id)
    BY <1>2, <1>4, <1>5 DEF Moves
  <1>7. log \subseteq log' /\ decisions \subseteq decisions' /\ decisions' \ decisions = {}
    OBVIOUS
  <1>8. QED
    BY <1>3, <1>6, <1>7, Moved

LEMMA SameSession ==
  ASSUME SessionInv, NEW w \in Worker
  PROVE  /\ pc = [pc EXCEPT ![w] = pc[w]] /\ clock = [clock EXCEPT ![w] = clock[w]]
         /\ todo = [todo EXCEPT ![w] = todo[w]] /\ due = [due EXCEPT ![w] = due[w]]
         /\ fired = [fired EXCEPT ![w] = fired[w]]
         /\ on = [on EXCEPT ![w] = on[w]] /\ cur = [cur EXCEPT ![w] = cur[w]]
         /\ pc[w] \in Steps /\ clock[w] \in 0..now /\ todo[w] \subseteq Commits /\ due[w] \subseteq Commits
         /\ fired[w] \in BOOLEAN /\ on[w] \in Entity \cup {NoEntity} /\ cur[w] \in Commits
         /\ Placed(pc[w], todo[w], due[w], on[w], cur[w])
  BY DEF SessionInv, SessionTypes

\* Nothing of a session changes.
LEMMA AllStay ==
  ASSUME RowsInv, RowsInv', SessionInv, UNCHANGED <<tickVars, aborts>>,
         now \in 0..now', commits \in 0..commits', status' \in [Entity -> VALID_STATUSES],
         log \subseteq log', decisions' = decisions
  PROVE  SessionInv'
  <1>1. 0..now \subseteq 0..now' /\ Commits \subseteq Commits'
    BY DEF RowsInv, Commits
  <1>2. SessionTypes'
    BY <1>1 DEF SessionInv, SessionTypes, tickVars
  <1>3. ASSUME NEW o \in Worker
        PROVE  Placed(pc[o], todo[o], due[o], on[o], cur[o])'
    <2>1. PICK p0, t0, u0, e0, i0 : p0 = pc[o] /\ t0 = todo[o] /\ u0 = due[o] /\ e0 = on[o] /\ i0 = cur[o]
      OBVIOUS
    <2>2. Placed(p0, t0, u0, e0, i0)
      BY <2>1 DEF SessionInv
    <2>3. Placed(p0, t0, u0, e0, i0)'
      BY <2>2, PlacedStays
    <2>4. QED
      BY <2>1, <2>3 DEF Placed, tickVars
  <1>4. QED
    BY <1>2, <1>3 DEF SessionInv, Alone, Exclusive, tickVars

\* A fold gives every entity one of the statuses.
LEMMA FoldsToAStatus ==
  \A e \in Entity : FoldedStatus(e) \in VALID_STATUSES
  <1>1. \A type : TRANSITIONS("ACTIVE", type) \in VALID_STATUSES
    BY DEF TRANSITIONS, VALID_STATUSES
  <1>2. "ACTIVE" \in VALID_STATUSES
    BY DEF VALID_STATUSES
  <1>3. QED
    BY <1>1, <1>2 DEF FoldedStatus

-----------------------------------------------------------------------------
(* Each action keeps the invariant *)

LEMMA IInvBasics ==
  IInv => /\ now \in Nat /\ now \in 0..now /\ commits \in Nat /\ commits \in 0..commits /\ commits + 1 \in Nat
          /\ status \in [Entity -> VALID_STATUSES] /\ aborts \in 0..MaxAborts /\ NoEntity \notin Entity
          /\ \A x \in Failures : x.n \in Commits /\ x.entity \in Entity /\ x.detail \in Cause /\ Failure(x.n) = x
          /\ \A r \in decisions : r.id \in Commits /\ r.entity \in Entity /\ Decision(r.id) = r
                                  /\ r.action \in LEGAL_ACTIONS
          /\ \A q \in queue : \E r \in decisions : r.id = q.decision /\ r.action = "RETRY_SCHEDULED"
  <1> SUFFICES ASSUME IInv PROVE IInvBasics!2
    OBVIOUS
  <1>1. now \in Nat /\ now \in 0..now /\ commits \in Nat /\ commits \in 0..commits /\ commits + 1 \in Nat
    BY DEF IInv, RowsInv
  <1>2. status \in [Entity -> VALID_STATUSES] /\ aborts \in 0..MaxAborts /\ NoEntity \notin Entity
    BY AgentAssumption DEF IInv, SessionInv, SessionTypes
  <1>3. \A x \in Failures : x.n \in Commits /\ x.entity \in Entity /\ x.detail \in Cause /\ Failure(x.n) = x
    BY <1>1, FailureIs DEF IInv, RowsInv, EventInv, Failures, Commits
  <1>4. \A r \in decisions : r.id \in Commits /\ r.entity \in Entity /\ Decision(r.id) = r /\ r.action \in LEGAL_ACTIONS
    BY DecisionIs DEF IInv, RowsInv, DecisionInv, AllDecisions
  <1>5. QED
    BY <1>1, <1>2, <1>3, <1>4 DEF IInv, RowsInv, QueueInv

\* Steps that leave the rows alone.
LEMMA RowsUntouched ==
  IInv /\ UNCHANGED <<now, dbVars>> => RowsInv'
  BY RowsKeep, AgentAssumption DEF IInv, RowsInv, QueueInv, dbVars, QueuedIds

LEMMA TickKeeps == IInv /\ Tick => IInv'
  <1> SUFFICES ASSUME IInv, Tick PROVE IInv'
    OBVIOUS
  <1>1. now' \in now..MaxTime /\ now \in 0..now'
    BY AgentAssumption DEF Tick, IInv, RowsInv
  <1>2. RowsInv'
    BY <1>1, RowsKeep DEF Tick, IInv, RowsInv, QueueInv, dbVars, QueuedIds
  <1>3. SessionInv'
    BY <1>1, <1>2, AllStay, IInvBasics DEF Tick, IInv, dbVars
  <1>4. QED
    BY <1>2, <1>3 DEF IInv

LEMMA WorldStays ==
  ASSUME IInv, NEW type, NEW e \in Entity, NEW detail \in Details,
         type = "PaymentFailed" => detail \in Cause,
         Commit({Event(type, e, now, 0, detail)}),
         UNCHANGED <<now, decisions, queue, status, tickVars, aborts>>
  PROVE  IInv'
  <1>1. RowsInv'
    BY WorldKeeps DEF IInv
  <1>2. log \subseteq log' /\ commits \in 0..commits'
    BY IInvBasics DEF Commit
  <1>3. SessionInv'
    BY <1>1, <1>2, AllStay, IInvBasics DEF IInv
  <1>4. QED
    BY <1>1, <1>3 DEF IInv

LEMMA FailureArrivesKeeps ==
  ASSUME IInv, NEW e \in Entity, NEW cause \in Cause, FailureArrives(e, cause)
  PROVE  IInv'
  <1>1. cause \in Details
    BY DEF Details
  <1>2. QED
    BY <1>1, WorldStays DEF FailureArrives

LEMMA ObserveKeeps ==
  ASSUME IInv, NEW e \in Entity, NEW type \in Observed, Observe(e, type)
  PROVE  IInv'
  <1>1. "none" \in Details /\ type # "PaymentFailed"
    BY AgentAssumption DEF Details
  <1>2. QED
    BY <1>1, WorldStays DEF Observe

LEMMA StartTickKeeps ==
  ASSUME IInv, NEW w \in Worker, StartTick(w)
  PROVE  IInv'
  <1>1. RowsInv'
    BY RowsUntouched DEF StartTick
  <1>2. Unhandled \subseteq Commits
    BY IInvBasics DEF Unhandled
  <1>3. Placed("drain", Unhandled, due[w], on[w], cur[w])
    BY SameSession DEF IInv, StartTick, Placed
  <1>4. PICK t, u, e, i, g : t = Unhandled /\ u = due[w] /\ e = on[w] /\ i = cur[w] /\ g = fired[w]
    OBVIOUS
  <1>5. Placed("drain", t, u, e, i)'
    BY <1>3, <1>4, PlacedStays DEF StartTick, dbVars
  <1>6. "drain" \in Steps
    BY DEF Steps
  <1>7. SessionInv'
    <2>1. /\ pc' = [pc EXCEPT ![w] = "drain"] /\ clock' = [clock EXCEPT ![w] = now]
          /\ todo' = [todo EXCEPT ![w] = t] /\ due' = [due EXCEPT ![w] = u]
          /\ fired' = [fired EXCEPT ![w] = g]
          /\ on' = [on EXCEPT ![w] = e] /\ cur' = [cur EXCEPT ![w] = i]
      BY <1>4, SameSession DEF IInv, StartTick, Goto
    <2>2. /\ g \in BOOLEAN /\ e \in Entity \cup {NoEntity} /\ i \in Commits' /\ t \subseteq Commits' /\ u \subseteq Commits'
          /\ now \in 0..now' /\ commits \in 0..commits'
      BY <1>2, <1>4, SameSession, IInvBasics DEF IInv, StartTick, dbVars, Commits
    <2>3. /\ log \subseteq log' /\ decisions' = decisions
          /\ status' \in [Entity -> VALID_STATUSES] /\ aborts' \in 0..MaxAborts
      BY IInvBasics DEF StartTick, dbVars
    <2>4. Moves(w, "drain", now, t, u, g, e, i)
      BY <1>4, <1>6, <2>1, <2>2 DEF Moves
    <2>5. QED
      BY <1>1, <1>5, <2>3, <2>4, Moved DEF IInv
  <1>8. QED
    BY <1>1, <1>7 DEF IInv

\* The commit of a decision, from Gate-1 or after the model.
LEMMA DecidedKeeps ==
  ASSUME IInv, NEW w \in Worker, NEW x \in Failures, ~Handled(x.n), pc[w] \in {"drain", "reason"},
         \A o \in Worker \ {w} : pc[o] = "reason" => cur[o] # x.n,
         on[w] = x.entity \/ LockFree(w, x.entity),
         NEW t, t \subseteq todo[w], todo' = [todo EXCEPT ![w] = t],
         UNCHANGED <<now, status, clock, due, fired, aborts>>,
         NEW action \in LEGAL_ACTIONS, NEW detail \in Details,
         NEW type \in {"EscalatedToHuman", "ActionIntended", "RetryScheduled"},
         NEW p, NEW id, \/ p = "gateway" /\ id = commits + 1 /\ type = "ActionIntended"
                        \/ p = "fold" /\ id = 0,
         Decide(w, x.n, action, {type}, detail), Lock(w, x.entity, id), Goto(w, p),
         IF type = "RetryScheduled"
         THEN action = "RETRY_SCHEDULED" /\ \E delay \in Nat :
                queue' = queue \cup {[decision |-> commits + 1, due |-> clock[w] + delay, executed |-> FALSE]}
         ELSE queue' = queue
  PROVE  IInv'
  <1>1. RowsInv'
    BY SameSession, DecisionKeeps DEF IInv
  <1>2. PICK r : /\ r = [id |-> commits + 1, trigger |-> x.n, entity |-> x.entity, cause |-> x.detail,
                         action |-> action]
                 /\ decisions' = decisions \cup {r}
    BY IInvBasics DEF Decide
  <1>3. commits' = commits + 1 /\ log \subseteq log'
    BY DEF Decide, Commit
  <1>4. \E y \in log' : y.decision = commits + 1 /\ y.type = type
    <2>1. PICK y : y = Event(type, Failure(x.n).entity, clock[w], commits + 1, detail)
      OBVIOUS
    <2>2. y \in log'
      BY <2>1 DEF Decide, Commit
    <2>3. y.decision = commits + 1 /\ y.type = type
      BY <2>1 DEF Event
    <2>4. QED
      BY <2>2, <2>3
  <1>5. PICK u, e, c, g : u = due[w] /\ e = x.entity /\ c = clock[w] /\ g = fired[w]
    OBVIOUS
  <1>6. Placed(p, t, u, e, id)'
    <2>1. e # NoEntity /\ u = {}
      BY <1>5, SameSession, IInvBasics DEF IInv, Placed
    <2>2. ASSUME p = "gateway"
          PROVE  \E s \in decisions' : id = s.id /\ e = s.entity /\ Intended(id)'
      <3>1. Intended(id)'
        BY <1>4, <2>2 DEF Intended, Logged
      <3>2. QED
        BY <1>2, <1>5, <2>2, <3>1
    <2>3. QED
      BY <2>1, <2>2 DEF Placed
  <1>7. SessionInv'
    <2>1. /\ pc' = [pc EXCEPT ![w] = p] /\ clock' = [clock EXCEPT ![w] = c]
          /\ todo' = [todo EXCEPT ![w] = t] /\ due' = [due EXCEPT ![w] = u]
          /\ fired' = [fired EXCEPT ![w] = g]
          /\ on' = [on EXCEPT ![w] = e] /\ cur' = [cur EXCEPT ![w] = id]
      BY <1>5, SameSession DEF IInv, Goto, Lock
    <2>2. /\ p \in Steps /\ c \in 0..now' /\ g \in BOOLEAN /\ e \in Entity \cup {NoEntity}
          /\ now \in 0..now'
      BY <1>5, SameSession, IInvBasics DEF IInv, Steps
    <2>3. commits \in 0..commits' /\ id \in Commits' /\ t \subseteq Commits' /\ u \subseteq Commits'
      <3>1. todo[w] \subseteq 0..commits /\ due[w] \subseteq 0..commits /\ commits \in Nat
        BY SameSession, IInvBasics DEF IInv, Commits
      <3>2. QED
        BY <1>3, <1>5, <3>1 DEF Commits
    <2>4. /\ status' \in [Entity -> VALID_STATUSES] /\ aborts' \in 0..MaxAborts
          /\ decisions \subseteq decisions' /\ \A s \in decisions' \ decisions : s.trigger = x.n
      BY <1>2, IInvBasics
    <2>5. \A o \in Worker \ {w} : pc[o] = "reason" =>
            /\ \A s \in decisions' \ decisions : s.trigger # cur[o]
            /\ p = "reason" => on[o] # e
      BY <2>4
    <2>6. Moves(w, p, c, t, u, g, e, id)
      <3>1. e = on[w] \/ LockFree(w, e)
        BY <1>5
      <3>2. QED
        BY <2>1, <2>2, <2>3, <3>1 DEF Moves
    <2>7. QED
      BY <1>1, <1>3, <1>6, <2>4, <2>5, <2>6, Moved DEF IInv
  <1>8. QED
    BY <1>1, <1>7 DEF IInv

\* A session that decides a failure does so alone.
LEMMA NobodyElse ==
  ASSUME IInv, NEW w \in Worker, NEW x \in Failures, MayDecide(w, x.entity)
  PROVE  \A o \in Worker \ {w} : pc[o] = "reason" => cur[o] # x.n /\ on[o] # x.entity
  <1>1. ASSUME NEW o \in Worker \ {w}, pc[o] = "reason"
        PROVE  cur[o] # x.n /\ on[o] # x.entity
    <2>1. on[o] # x.entity
      BY <1>1 DEF MayDecide
    <2>2. PICK y \in Failures : cur[o] = y.n /\ on[o] = y.entity
      BY <1>1, SameSession DEF IInv, Placed
    <2>3. QED
      BY <2>1, <2>2 DEF IInv, RowsInv, EventInv
  <1>2. QED
    BY <1>1

LEMMA Gate1Keeps ==
  ASSUME IInv, NEW w \in Worker, NEW x \in Failures, Gate1(w, x.n)
  PROVE  IInv'
  <1>1. /\ Failure(x.n) = x /\ x.entity \in Entity /\ x.detail \in Cause
        /\ pc[w] = "drain" /\ ~Handled(x.n) /\ MayDecide(w, x.entity) /\ LockFree(w, x.entity)
        /\ todo' = [todo EXCEPT ![w] = @ \ {x.n}]
        /\ UNCHANGED <<now, status, clock, due, fired, aborts>>
    BY IInvBasics DEF Gate1, IsNext
  <1>2. PICK t : t = todo[w] \ {x.n}
    OBVIOUS
  <1>3. t \subseteq todo[w] /\ todo' = [todo EXCEPT ![w] = t]
    BY <1>1, <1>2
  <1>4. \A o \in Worker \ {w} : pc[o] = "reason" => cur[o] # x.n /\ on[o] # x.entity
    BY <1>1, NobodyElse
  <1>5. "none" \in Details /\ "ESCALATE_HUMAN" \in LEGAL_ACTIONS
    BY DEF Details, LEGAL_ACTIONS
  <1>6. CASE Escalate(w, x.n)
    BY <1>1, <1>3, <1>4, <1>5, <1>6, DecidedKeeps DEF Escalate
  <1>7. CASE Intend(w, x.n, Default(x.detail))
    <2>1. Default(x.detail).action \in LEGAL_ACTIONS /\ Default(x.detail).channel = "none"
      BY <1>1, AgentAssumption DEF Default
    <2>2. PICK action, id : action = Default(x.detail).action /\ id = commits + 1
      OBVIOUS
    <2>3. /\ Decide(w, x.n, action, {"ActionIntended"}, "none") /\ Lock(w, x.entity, id)
          /\ Goto(w, "gateway") /\ queue' = queue
      BY <1>1, <1>7, <2>1, <2>2 DEF Intend
    <2>4. QED
      BY <1>1, <1>3, <1>4, <1>5, <2>1, <2>2, <2>3, DecidedKeeps
  <1>8. CASE Lock(w, x.entity, x.n) /\ Goto(w, "reason") /\ UNCHANGED dbVars
    <2>1. RowsInv'
      BY <1>1, <1>8, RowsUntouched
    <2>2. PICK u, e, i, c, g : u = due[w] /\ e = x.entity /\ i = x.n /\ c = clock[w] /\ g = fired[w]
      OBVIOUS
    <2>3. Placed("reason", t, u, e, i)
      <3>1. e # NoEntity /\ u = {}
        BY <1>1, <2>2, SameSession, IInvBasics DEF IInv, Placed
      <3>2. QED
        BY <1>1, <2>2, <3>1 DEF Placed
    <2>4. log' = log /\ decisions' = decisions /\ commits' = commits
      BY <1>8 DEF dbVars
    <2>5. Placed("reason", t, u, e, i)'
      BY <2>3, <2>4, PlacedStays
    <2>6. /\ pc' = [pc EXCEPT ![w] = "reason"] /\ clock' = [clock EXCEPT ![w] = c]
          /\ todo' = [todo EXCEPT ![w] = t] /\ due' = [due EXCEPT ![w] = u]
          /\ fired' = [fired EXCEPT ![w] = g]
          /\ on' = [on EXCEPT ![w] = e] /\ cur' = [cur EXCEPT ![w] = i]
      BY <1>1, <1>3, <1>8, <2>2, SameSession DEF IInv, Goto, Lock
    <2>7. /\ "reason" \in Steps /\ c \in 0..now' /\ g \in BOOLEAN /\ e \in Entity \cup {NoEntity}
          /\ now \in 0..now' /\ commits \in 0..commits' /\ i \in Commits'
          /\ t \subseteq Commits' /\ u \subseteq Commits'
      BY <1>1, <1>3, <2>2, <2>4, SameSession, IInvBasics DEF IInv, Steps, Commits
    <2>8. status' \in [Entity -> VALID_STATUSES] /\ aborts' \in 0..MaxAborts
      BY <1>1, IInvBasics
    <2>9. \A o \in Worker \ {w} : pc[o] = "reason" =>
            /\ \A s \in decisions' \ decisions : s.trigger # cur[o]
            /\ on[o] # e
      BY <1>4, <2>2, <2>4
    <2>10. Moves(w, "reason", c, t, u, g, e, i)
      BY <1>1, <2>2, <2>6, <2>7 DEF Moves
    <2>11. SessionInv'
      BY <2>1, <2>4, <2>5, <2>8, <2>9, <2>10, Moved DEF IInv
    <2>12. QED
      BY <2>1, <2>11 DEF IInv
  <1>9. QED
    BY <1>1, <1>6, <1>7, <1>8 DEF Gate1

LEMMA DropKeeps ==
  ASSUME IInv, NEW w \in Worker, Drop(w), UNCHANGED <<now, dbVars>>,
         status' \in [Entity -> VALID_STATUSES], aborts' \in 0..MaxAborts
  PROVE  IInv'
  BY Dropped, RowsUntouched DEF IInv, dbVars

\* A session leaves a failure, and with it the tick unless it was the last.
LEMMA LeaveKeeps ==
  ASSUME IInv, NEW w \in Worker, NEW f, NEW rest, rest \subseteq todo[w], LeaveFailure(w, f, rest),
         pc[w] \in {"drain", "gateway"}, UNCHANGED <<now, dbVars, status, aborts>>
  PROVE  IInv'
  <1>1. RowsInv' /\ log' = log /\ decisions' = decisions /\ commits' = commits /\ now' = now
    BY RowsUntouched DEF dbVars
  <1>2. status' \in [Entity -> VALID_STATUSES] /\ aborts' \in 0..MaxAborts
    BY IInvBasics
  <1>3. CASE Drop(w)
    BY <1>2, <1>3, DropKeeps
  <1>4. CASE /\ rest = {}
             /\ todo' = [todo EXCEPT ![w] = rest]
             /\ Unlock(w)
             /\ Goto(w, "drain")
             /\ UNCHANGED <<clock, due, fired>>
    <2>1. PICK p, t, u, e, i, c, g : /\ t = {} /\ u = due[w] /\ e = NoEntity /\ i = 0
                                     /\ p = "drain" /\ c = clock[w] /\ g = fired[w]
      OBVIOUS
    <2>2. Placed(pc[w], todo[w], u, on[w], cur[w]) /\ u \subseteq Commits /\ c \in 0..now /\ g \in BOOLEAN
      BY <2>1, SameSession DEF IInv
    <2>3. Placed(p, t, u, e, i)'
      BY <2>1, <2>2 DEF Placed
    <2>4. /\ pc' = [pc EXCEPT ![w] = p] /\ clock' = [clock EXCEPT ![w] = c]
          /\ todo' = [todo EXCEPT ![w] = t] /\ due' = [due EXCEPT ![w] = u]
          /\ fired' = [fired EXCEPT ![w] = g]
          /\ on' = [on EXCEPT ![w] = e] /\ cur' = [cur EXCEPT ![w] = i]
      BY <1>4, <2>1, SameSession DEF IInv, Goto, Unlock, Lock
    <2>5. /\ p \in Steps /\ c \in 0..now' /\ g \in BOOLEAN /\ e \in Entity \cup {NoEntity}
          /\ now \in 0..now' /\ commits \in 0..commits' /\ i \in Commits'
          /\ t \subseteq Commits' /\ u \subseteq Commits'
      BY <1>1, <2>1, <2>2, IInvBasics DEF IInv, Commits, Steps
    <2>6. Moves(w, p, c, t, u, g, e, i)
      BY <2>1, <2>4, <2>5 DEF Moves
    <2>7. SessionInv'
      BY <1>1, <1>2, <2>1, <2>3, <2>6, Moved DEF IInv
    <2>8. QED
      BY <1>1, <2>7 DEF IInv
  <1>5. QED
    BY <1>3, <1>4 DEF LeaveFailure

LEMMA SkipKeeps ==
  ASSUME IInv, NEW w \in Worker, NEW x \in Failures, Skip(w, x.n)
  PROVE  IInv'
  <1>1. PICK rest : rest = todo[w] \ {x.n}
    OBVIOUS
  <1>2. rest \subseteq todo[w] /\ LeaveFailure(w, x.n, rest) /\ pc[w] \in {"drain", "gateway"}
    BY <1>1 DEF Skip, IsNext
  <1>3. QED
    BY <1>2, LeaveKeeps DEF Skip

LEMMA ProposeKeeps ==
  ASSUME IInv, NEW w \in Worker, Propose(w)
  PROVE  IInv'
  <1>1. PICK x \in Failures : cur[w] = x.n /\ on[w] = x.entity /\ ~Handled(x.n)
    BY SameSession DEF IInv, Placed, Propose
  <1>2. pc[w] = "reason" /\ Failure(x.n) = x /\ x.detail \in Cause
    BY IInvBasics DEF Propose
  <1>3. \A o \in Worker \ {w} : pc[o] = "reason" => cur[o] # x.n
    <2>1. ASSUME NEW o \in Worker \ {w}, pc[o] = "reason" PROVE cur[o] # x.n
      <3>1. PICK y \in Failures : cur[o] = y.n /\ on[o] = y.entity
        BY <2>1, SameSession DEF IInv, Placed
      <3>2. on[w] # on[o]
        BY <1>2, <2>1 DEF IInv, SessionInv, Alone
      <3>3. QED
        BY <1>1, <3>1, <3>2 DEF IInv, RowsInv, EventInv
    <2>2. QED
      BY <2>1
  <1>4. PICK t : t = todo[w]
    OBVIOUS
  <1>5. t \subseteq todo[w] /\ todo' = [todo EXCEPT ![w] = t] /\ UNCHANGED <<now, status, clock, due, fired, aborts>>
    BY <1>4, SameSession DEF IInv, Propose
  <1>6. "none" \in Details /\ "ESCALATE_HUMAN" \in LEGAL_ACTIONS /\ "RETRY_SCHEDULED" \in LEGAL_ACTIONS
    BY DEF Details, LEGAL_ACTIONS
  <1>7. CASE Escalate(w, x.n)
    BY <1>2, <1>1, <1>3, <1>5, <1>6, <1>7, DecidedKeeps DEF Escalate
  <1>8. ASSUME NEW delay \in Delays, Schedule(w, x.n, delay) PROVE IInv'
    <2>1. delay \in Nat
      BY AgentAssumption
    <2>2. QED
      BY <1>2, <1>1, <1>3, <1>5, <1>6, <1>8, <2>1, DecidedKeeps DEF Schedule
  <1>9. ASSUME NEW p \in ProposalsFor(x.detail), Intend(w, x.n, p) PROVE IInv'
    <2>1. PICK action, detail, id : action = p.action /\ detail = p.channel /\ id = commits + 1
      OBVIOUS
    <2>2. action \in LEGAL_ACTIONS /\ detail \in Details
      BY <1>2, <2>1, AgentAssumption DEF ProposalsFor, Default, Proposal, ActionEnum, Details
    <2>3. /\ Decide(w, x.n, action, {"ActionIntended"}, detail) /\ Lock(w, x.entity, id)
          /\ Goto(w, "gateway") /\ queue' = queue
      BY <1>2, <1>9, <2>1 DEF Intend
    <2>4. QED
      BY <1>1, <1>2, <1>3, <1>5, <2>1, <2>2, <2>3, DecidedKeeps
  <1>10. QED
    BY <1>1, <1>2, <1>7, <1>8, <1>9 DEF Propose

\* The intent of a decision that has one.
LEMMA IntentIs ==
  ASSUME IInv, NEW d, Intended(d)
  PROVE  /\ IntentOf(d) \in log /\ IntentOf(d).decision = d /\ IntentOf(d).type = "ActionIntended"
         /\ IntentOf(d).detail \in Details /\ IntentOf(d).at \in 0..now
  BY DEF Intended, Logged, IntentOf, IInv, RowsInv, EventInv

\* The one receipt of a decision.
LEMMA ReceiptCommitted ==
  ASSUME IInv, NEW r \in decisions, Intended(r.id), ~Settled(r.id), NEW at \in 0..now, NEW answer,
         NEW proposed \in Details, CommitOutcome(r.id, at, answer, proposed), UNCHANGED <<now, decisions, queue>>
  PROVE  RowsInv' /\ log \subseteq log' /\ commits' = commits + 1
  <1>1. PICK E, types :
          /\ Batch(E, types, r.entity, at, r.id)
          /\ log' = log \cup E /\ commits' = commits + 1
          /\ types \cap {"PaymentFailed", "EscalatedToHuman", "RetryScheduled", "ActionIntended"} = {}
          /\ \A t, u \in types : t \in Receipts /\ u \in Receipts => t = u
    BY OutcomeCommitted DEF IInv
  <1>2. QED
    BY <1>1, ReceiptKeeps DEF IInv

\* A session goes to another step, and leaves what it has listed.
LEMMA GoesOn ==
  ASSUME IInv, RowsInv', NEW w \in Worker, NEW p \in Steps, Goto(w, p), UNCHANGED <<clock, todo, due, fired, aborts>>,
         NEW e \in Entity \cup {NoEntity}, NEW id, id \in Commits', Lock(w, e, id),
         now' = now, commits \in 0..commits', status' \in [Entity -> VALID_STATUSES],
         log \subseteq log', decisions' = decisions,
         p \notin {"reason", "gateway"},
         p = "charge" => \E r \in decisions :
                           id = r.id /\ e = r.entity /\ Intended(id)' /\ r.action = "RETRY_SCHEDULED",
         e = NoEntity \/ e = on[w] \/ LockFree(w, e),
         p \in {"fold", "charge", "mark"} <=> e # NoEntity,
         p \in {"due", "charge", "mark"} <=> pc[w] \in {"due", "charge", "mark"}
  PROVE  IInv'
  <1>1. PICK t, u, c, g : t = todo[w] /\ u = due[w] /\ c = clock[w] /\ g = fired[w]
    OBVIOUS
  <1>2. Placed(pc[w], t, u, on[w], cur[w]) /\ t \subseteq Commits /\ u \subseteq Commits /\ c \in 0..now /\ g \in BOOLEAN
    BY <1>1, SameSession DEF IInv
  <1>4. Placed(p, t, u, e, id)'
    BY <1>2 DEF Placed
  <1>5. Moves(w, p, c, t, u, g, e, id)
    <2>1. /\ pc' = [pc EXCEPT ![w] = p] /\ clock' = [clock EXCEPT ![w] = c]
          /\ todo' = [todo EXCEPT ![w] = t] /\ due' = [due EXCEPT ![w] = u]
          /\ fired' = [fired EXCEPT ![w] = g]
          /\ on' = [on EXCEPT ![w] = e] /\ cur' = [cur EXCEPT ![w] = id]
      BY <1>1, SameSession DEF IInv, Goto, Lock
    <2>2. now \in 0..now' /\ c \in 0..now' /\ t \subseteq Commits' /\ u \subseteq Commits'
      BY <1>2, IInvBasics DEF Commits, RowsInv
    <2>3. QED
      BY <1>2, <2>1, <2>2 DEF Moves
  <1>6. decisions \subseteq decisions' /\ decisions' \ decisions = {} /\ aborts' \in 0..MaxAborts
    BY IInvBasics
  <1>7. SessionInv'
    BY <1>4, <1>5, <1>6, Moved DEF IInv
  <1>8. QED
    BY <1>7 DEF IInv

LEMMA GatewayReturnsKeeps ==
  ASSUME IInv, NEW w \in Worker, GatewayReturns(w)
  PROVE  IInv'
  <1>1. pc[w] = "gateway" /\ UNCHANGED <<now, status, aborts>>
    BY DEF GatewayReturns
  <1>2. PICK r \in decisions : cur[w] = r.id /\ on[w] = r.entity /\ Intended(r.id)
    BY <1>1, SameSession DEF IInv, Placed
  <1>3. /\ "fold" \in Steps /\ "drain" \in Steps /\ on[w] # NoEntity
        /\ status' \in [Entity -> VALID_STATUSES] /\ 0 \in Commits /\ cur[w] \in Commits
    BY <1>1, <1>2, IInvBasics DEF Steps, Commits
  <1>4. PICK answer \in Answers :
          IF answer # "unknown" /\ Settled(cur[w])
          THEN LeaveFailure(w, Decision(cur[w]).trigger, todo[w]) /\ UNCHANGED dbVars
          ELSE /\ Goto(w, "fold")
               /\ UNCHANGED <<on, cur, clock, todo, due, fired, decisions, queue>>
               /\ IF answer = "unknown" THEN UNCHANGED <<log, commits>>
                  ELSE CommitOutcome(cur[w], clock[w], answer, IntentOf(cur[w]).detail)
    BY DEF GatewayReturns
  <1>5. CASE answer # "unknown" /\ Settled(cur[w])
    <2>1. PICK f, rest : f = Decision(cur[w]).trigger /\ rest = todo[w]
      OBVIOUS
    <2>2. LeaveFailure(w, f, rest) /\ UNCHANGED dbVars /\ rest \subseteq todo[w]
      BY <1>4, <1>5, <2>1
    <2>3. QED
      BY <1>1, <2>2, LeaveKeeps
  <1>6. CASE ~(answer # "unknown" /\ Settled(cur[w]))
    <2>1. Goto(w, "fold") /\ UNCHANGED <<on, cur, clock, todo, due, fired, decisions, queue>>
      BY <1>4, <1>6
    <2>2. RowsInv' /\ log \subseteq log' /\ commits' \in {commits, commits + 1}
      <3>1. CASE answer = "unknown"
        BY <1>1, <1>4, <2>1, <3>1, RowsUntouched DEF dbVars
      <3>2. CASE answer # "unknown"
        <4>1. CommitOutcome(r.id, clock[w], answer, IntentOf(r.id).detail) /\ ~Settled(r.id)
          BY <1>2, <1>4, <1>6, <3>2
        <4>2. IntentOf(r.id).detail \in Details /\ clock[w] \in 0..now
          BY <1>2, IntentIs, SameSession DEF IInv
        <4>3. QED
          BY <1>1, <1>2, <2>1, <4>1, <4>2, ReceiptCommitted
      <3>3. QED
        BY <3>1, <3>2
    <2>3. PICK e, id : e = on[w] /\ id = cur[w]
      OBVIOUS
    <2>4. Lock(w, e, id) /\ e \in Entity \cup {NoEntity}
      BY <2>1, <2>3, SameSession DEF IInv, Lock
    <2>5. commits \in 0..commits' /\ id \in Commits'
      BY <1>3, <2>2, <2>3, IInvBasics DEF Commits
    <2>6. QED
      BY <1>1, <1>3, <2>1, <2>2, <2>3, <2>4, <2>5, GoesOn
  <1>7. QED
    BY <1>5, <1>6

LEMMA FoldAllStatuses ==
  FoldAll => status' \in [Entity -> VALID_STATUSES]
  BY FoldsToAStatus DEF FoldAll

LEMMA FoldKeeps ==
  ASSUME IInv, NEW w \in Worker, Fold(w)
  PROVE  IInv'
  <1>1. /\ pc[w] = "fold" /\ UNCHANGED <<now, dbVars, clock, todo, due, fired, aborts>>
        /\ Goto(w, "drain") /\ Lock(w, NoEntity, 0)
    BY DEF Fold, Unlock
  <1>2. RowsInv' /\ commits' = commits /\ log' = log /\ decisions' = decisions /\ commits \in 0..commits' /\ 0 \in Commits'
    BY <1>1, RowsUntouched, IInvBasics DEF dbVars, Commits
  <1>3. status' \in [Entity -> VALID_STATUSES] /\ "drain" \in Steps
    BY FoldAllStatuses DEF Fold, Steps
  <1>4. QED
    BY <1>1, <1>2, <1>3, GoesOn

LEMMA StartDueKeeps ==
  ASSUME IInv, NEW w \in Worker, StartDue(w)
  PROVE  IInv'
  <1>1. RowsInv'
    BY RowsUntouched DEF StartDue
  <1>2. PICK t, u, c, g, e, id : /\ t = todo[w] /\ u = {r.decision : r \in {q \in Pending : q.due <= now}}
                                 /\ c = now /\ g = fired[w] /\ e = on[w] /\ id = cur[w]
    OBVIOUS
  <1>3. t = {} /\ u \subseteq Commits /\ e = NoEntity
    BY <1>2, SameSession DEF IInv, StartDue, RowsInv, QueueInv, Pending, Placed
  <1>4. Placed("due", t, u, e, id)'
    BY <1>3 DEF Placed
  <1>5. Moves(w, "due", c, t, u, g, e, id)
    <2>1. /\ pc' = [pc EXCEPT ![w] = "due"] /\ clock' = [clock EXCEPT ![w] = c]
          /\ todo' = [todo EXCEPT ![w] = t] /\ due' = [due EXCEPT ![w] = u]
          /\ fired' = [fired EXCEPT ![w] = g]
          /\ on' = [on EXCEPT ![w] = e] /\ cur' = [cur EXCEPT ![w] = id]
      BY <1>2, SameSession DEF IInv, StartDue, Goto
    <2>2. /\ "due" \in Steps /\ c \in 0..now' /\ g \in BOOLEAN /\ e \in Entity \cup {NoEntity}
          /\ now \in 0..now' /\ commits \in 0..commits' /\ id \in Commits'
          /\ t \subseteq Commits' /\ u \subseteq Commits'
      BY <1>2, <1>3, SameSession, IInvBasics DEF IInv, StartDue, dbVars, Steps, Commits
    <2>3. QED
      BY <1>2, <2>1, <2>2 DEF Moves
  <1>6. /\ log \subseteq log' /\ decisions \subseteq decisions' /\ decisions' \ decisions = {}
        /\ status' \in [Entity -> VALID_STATUSES] /\ aborts' \in 0..MaxAborts
    BY IInvBasics DEF StartDue, dbVars
  <1>7. SessionInv'
    BY <1>1, <1>4, <1>5, <1>6, Moved DEF IInv
  <1>8. QED
    BY <1>1, <1>7 DEF IInv

LEMMA DeferKeeps ==
  ASSUME IInv, NEW w \in Worker, NEW d, Defer(w, d)
  PROVE  IInv'
  <1>1. RowsInv'
    BY RowsUntouched DEF Defer
  <1>2. PICK t, u, c, g, e, id : /\ t = todo[w] /\ u = due[w] \ {d} /\ c = clock[w]
                                 /\ g = fired[w] /\ e = on[w] /\ id = cur[w]
    OBVIOUS
  <1>3. pc[w] = "due" /\ Placed("due", t, u, e, id)
    BY <1>2, SameSession DEF IInv, Defer, Placed
  <1>4. Placed("due", t, u, e, id)'
    BY <1>3 DEF Placed
  <1>5. Moves(w, "due", c, t, u, g, e, id)
    <2>1. /\ pc' = [pc EXCEPT ![w] = "due"] /\ clock' = [clock EXCEPT ![w] = c]
          /\ todo' = [todo EXCEPT ![w] = t] /\ due' = [due EXCEPT ![w] = u]
          /\ fired' = [fired EXCEPT ![w] = g]
          /\ on' = [on EXCEPT ![w] = e] /\ cur' = [cur EXCEPT ![w] = id]
      BY <1>2, <1>3, SameSession DEF IInv, Defer
    <2>2. /\ "due" \in Steps /\ c \in 0..now' /\ g \in BOOLEAN /\ e \in Entity \cup {NoEntity}
          /\ now \in 0..now' /\ commits \in 0..commits' /\ id \in Commits'
          /\ t \subseteq Commits' /\ u \subseteq Commits'
      BY <1>2, <1>3, SameSession, IInvBasics DEF IInv, Defer, dbVars, Steps, Commits
    <2>3. QED
      BY <1>2, <2>1, <2>2 DEF Moves
  <1>6. /\ log \subseteq log' /\ decisions \subseteq decisions' /\ decisions' \ decisions = {}
        /\ status' \in [Entity -> VALID_STATUSES] /\ aborts' \in 0..MaxAborts
    BY IInvBasics DEF Defer, dbVars
  <1>7. SessionInv'
    BY <1>1, <1>4, <1>5, <1>6, Moved DEF IInv
  <1>8. QED
    BY <1>1, <1>7 DEF IInv

LEMMA RunDueKeeps ==
  ASSUME IInv, NEW w \in Worker, NEW q \in queue, RunDue(w, q.decision)
  PROVE  IInv'
  <1>1. PICK r \in decisions : /\ r.id = q.decision /\ Decision(r.id) = r /\ r.action = "RETRY_SCHEDULED"
                               /\ r.id \in Commits /\ r.entity \in Entity
    BY IInvBasics
  <1>2. /\ pc[w] = "due" /\ ~Intended(r.id) /\ r.id \in QueuedIds
        /\ Commit({Event("ActionIntended", r.entity, clock[w], r.id, "none")})
        /\ Lock(w, r.entity, r.id) /\ Goto(w, "charge") /\ LockFree(w, r.entity)
        /\ UNCHANGED <<now, decisions, queue, status, clock, todo, due, fired, aborts>>
    BY <1>1 DEF RunDue, QueuedIds
  <1>3. RowsInv'
    BY <1>2, IntentKeeps, SameSession DEF IInv
  <1>4. Intended(r.id)' /\ log \subseteq log' /\ commits \in 0..commits' /\ r.id \in Commits'
    <2>1. log \subseteq log' /\ commits' = commits + 1
      BY <1>2 DEF Commit
    <2>2. PICK y : y = Event("ActionIntended", r.entity, clock[w], r.id, "none")
      OBVIOUS
    <2>3. y \in log' /\ y.decision = r.id /\ y.type = "ActionIntended"
      BY <1>2, <2>2 DEF Commit, Event
    <2>4. QED
      BY <1>1, <2>1, <2>3, IInvBasics DEF Intended, Logged, Commits
  <1>5. PICK e, id : e = r.entity /\ id = r.id
    OBVIOUS
  <1>6. \E s \in decisions : id = s.id /\ e = s.entity /\ Intended(id)' /\ s.action = "RETRY_SCHEDULED"
    BY <1>1, <1>4, <1>5
  <1>7. "charge" \in Steps /\ status' \in [Entity -> VALID_STATUSES] /\ e # NoEntity
    BY <1>1, <1>2, <1>5, IInvBasics DEF Steps
  <1>8. QED
    BY <1>1, <1>2, <1>3, <1>4, <1>5, <1>6, <1>7, GoesOn

LEMMA DueRaisesKeeps ==
  ASSUME IInv, NEW w \in Worker, NEW d, DueRaises(w, d)
  PROVE  IInv'
  BY DropKeeps, IInvBasics DEF DueRaises

LEMMA DueReturnsKeeps ==
  ASSUME IInv, NEW w \in Worker, DueReturns(w)
  PROVE  IInv'
  <1>1. pc[w] = "charge" /\ UNCHANGED <<now, status, aborts>>
    BY DEF DueReturns
  <1>2. PICK r \in decisions : cur[w] = r.id /\ on[w] = r.entity /\ Intended(r.id)
    BY <1>1, SameSession DEF IInv, Placed
  <1>3. PICK answer \in Answers :
          IF answer # "unknown" /\ Settled(cur[w])
          THEN Drop(w) /\ UNCHANGED dbVars
          ELSE /\ Goto(w, "mark")
               /\ UNCHANGED <<on, cur, clock, todo, due, fired, decisions, queue>>
               /\ IF answer = "unknown" THEN UNCHANGED <<log, commits>>
                  ELSE CommitOutcome(cur[w], clock[w], answer, "none")
    BY DEF DueReturns
  <1>4. CASE answer # "unknown" /\ Settled(cur[w])
    BY <1>1, <1>3, <1>4, DropKeeps, IInvBasics
  <1>5. CASE ~(answer # "unknown" /\ Settled(cur[w]))
    <2>1. Goto(w, "mark") /\ UNCHANGED <<on, cur, clock, todo, due, fired, decisions, queue>>
      BY <1>3, <1>5
    <2>2. RowsInv' /\ log \subseteq log' /\ commits' \in {commits, commits + 1}
      <3>1. CASE answer = "unknown"
        BY <1>1, <1>3, <2>1, <3>1, RowsUntouched DEF dbVars
      <3>2. CASE answer # "unknown"
        <4>1. CommitOutcome(r.id, clock[w], answer, "none") /\ ~Settled(r.id)
          BY <1>2, <1>3, <1>5, <3>2
        <4>2. "none" \in Details /\ clock[w] \in 0..now
          BY SameSession DEF IInv, Details
        <4>3. QED
          BY <1>1, <1>2, <2>1, <4>1, <4>2, ReceiptCommitted
      <3>3. QED
        BY <3>1, <3>2
    <2>3. PICK e, id : e = on[w] /\ id = cur[w]
      OBVIOUS
    <2>4. Lock(w, e, id) /\ e \in Entity \cup {NoEntity} /\ e # NoEntity
      BY <1>1, <2>1, <2>3, SameSession DEF IInv, Lock, Placed
    <2>5. commits \in 0..commits' /\ id \in Commits' /\ "mark" \in Steps /\ status' \in [Entity -> VALID_STATUSES]
      BY <1>1, <2>2, <2>3, IInvBasics, SameSession DEF IInv, Commits, Steps
    <2>6. QED
      BY <1>1, <2>1, <2>2, <2>3, <2>4, <2>5, GoesOn
  <1>6. QED
    BY <1>4, <1>5

LEMMA MarkExecutedKeeps ==
  ASSUME IInv, NEW w \in Worker, MarkExecuted(w)
  PROVE  IInv'
  <1>1. RowsInv'
    <2>1. now' = now /\ now' \in now..MaxTime /\ UNCHANGED <<log, commits, decisions>>
      BY AgentAssumption DEF MarkExecuted, IInv, RowsInv
    <2>2. \A r \in queue : [r EXCEPT !.executed = TRUE] \in [decision : Commits, due : Nat, executed : BOOLEAN]
                            /\ [r EXCEPT !.executed = TRUE].decision = r.decision
      BY DEF IInv, RowsInv, QueueInv
    <2>3. queue' \subseteq [decision : Commits, due : Nat, executed : BOOLEAN]
      BY <2>2 DEF MarkExecuted, IInv, RowsInv, QueueInv
    <2>4. QueuedIds' = QueuedIds
      <3>1. \A r \in queue : (IF r.decision = cur[w] THEN [r EXCEPT !.executed = TRUE] ELSE r).decision = r.decision
        BY <2>2
      <3>2. QED
        BY <3>1 DEF MarkExecuted, QueuedIds
    <2>5. QED
      BY <2>1, <2>3, <2>4, RowsKeep DEF IInv
  <1>2. PICK t, u, c, g, e, id : /\ t = todo[w] /\ u = due[w] \ {cur[w]} /\ c = clock[w]
                                 /\ g = TRUE /\ e = NoEntity /\ id = 0
    OBVIOUS
  <1>3. t = {}
    BY <1>2, SameSession DEF IInv, MarkExecuted, Placed
  <1>4. Placed("due", t, u, e, id)'
    BY <1>2, <1>3 DEF Placed
  <1>5. Moves(w, "due", c, t, u, g, e, id)
    <2>1. /\ pc' = [pc EXCEPT ![w] = "due"] /\ clock' = [clock EXCEPT ![w] = c]
          /\ todo' = [todo EXCEPT ![w] = t] /\ due' = [due EXCEPT ![w] = u]
          /\ fired' = [fired EXCEPT ![w] = g]
          /\ on' = [on EXCEPT ![w] = e] /\ cur' = [cur EXCEPT ![w] = id]
      BY <1>2, SameSession DEF IInv, MarkExecuted, Goto, Unlock, Lock
    <2>2. /\ "due" \in Steps /\ c \in 0..now' /\ g \in BOOLEAN /\ e \in Entity \cup {NoEntity}
          /\ now \in 0..now' /\ commits \in 0..commits' /\ id \in Commits'
          /\ t \subseteq Commits' /\ u \subseteq Commits'
      BY <1>2, <1>3, SameSession, IInvBasics DEF IInv, MarkExecuted, Steps, Commits
    <2>3. QED
      BY <1>2, <2>1, <2>2 DEF Moves
  <1>6. /\ log \subseteq log' /\ decisions \subseteq decisions' /\ decisions' \ decisions = {}
        /\ status' \in [Entity -> VALID_STATUSES] /\ aborts' \in 0..MaxAborts
    BY IInvBasics DEF MarkExecuted
  <1>7. SessionInv'
    BY <1>1, <1>4, <1>5, <1>6, Moved DEF IInv
  <1>8. QED
    BY <1>1, <1>7 DEF IInv

LEMMA FinishTickKeeps ==
  ASSUME IInv, NEW w \in Worker, FinishTick(w)
  PROVE  IInv'
  <1>1. status' \in [Entity -> VALID_STATUSES]
    BY FoldAllStatuses, IInvBasics DEF FinishTick
  <1>2. QED
    BY <1>1, DropKeeps, IInvBasics DEF FinishTick

LEMMA ReconcileKeeps ==
  ASSUME IInv, NEW r \in decisions, Reconcile(r.id)
  PROVE  IInv'
  <1>1. PICK answer \in Answers : CommitOutcome(r.id, IntentOf(r.id).at, answer, "none")
    BY DEF Reconcile
  <1>2. /\ Intended(r.id) /\ ~Settled(r.id) /\ "none" \in Details
        /\ UNCHANGED <<now, decisions, queue, tickVars, aborts>>
    BY DEF Reconcile, Details
  <1>3. RowsInv' /\ log \subseteq log' /\ commits' = commits + 1
    BY <1>1, <1>2, IntentIs, ReceiptCommitted
  <1>4. status' \in [Entity -> VALID_STATUSES]
    <2>1. (\A e \in Entity : FoldedStatus(e) \in VALID_STATUSES)'
      BY FoldsToAStatus, PTL
    <2>2. QED
      BY <2>1 DEF Reconcile
  <1>5. SessionInv'
    BY <1>2, <1>3, <1>4, AllStay, IInvBasics DEF IInv
  <1>6. QED
    BY <1>3, <1>5 DEF IInv

LEMMA AbortKeeps ==
  ASSUME IInv, NEW w \in Worker, Abort(w)
  PROVE  IInv'
  <1>1. aborts' \in 0..MaxAborts
    BY IInvBasics, AgentAssumption DEF Abort
  <1>2. QED
    BY <1>1, DropKeeps, IInvBasics DEF Abort

-----------------------------------------------------------------------------
(* The invariant *)

LEMMA InitHolds == Init => IInv
  <1> SUFFICES ASSUME Init PROVE IInv
    OBVIOUS
  <1>1. IsFiniteSet(log)
    BY FS_EmptySet DEF Init
  <1>2. RowsInv
    BY <1>1, AgentAssumption
    DEF Init, RowsInv, EventInv, DecisionInv, QueueInv, Failures
  <1>3. SessionTypes
    BY AgentAssumption DEF Init, SessionTypes, Steps, Commits, VALID_STATUSES
  <1>4. \A w \in Worker : Placed(pc[w], todo[w], due[w], on[w], cur[w])
    BY AgentAssumption DEF Init, Placed
  <1>5. Alone /\ Exclusive
    BY DEF Init, Alone, Exclusive
  <1>6. QED
    BY <1>2, <1>3, <1>4, <1>5 DEF IInv, SessionInv

LEMMA StutterKeeps == IInv /\ UNCHANGED vars => IInv'
  <1> SUFFICES ASSUME IInv, UNCHANGED vars PROVE IInv'
    OBVIOUS
  <1>1. RowsInv'
    BY RowsUntouched DEF vars
  <1>2. SessionInv'
    BY <1>1, AllStay, IInvBasics DEF IInv, vars, dbVars
  <1>3. QED
    BY <1>1, <1>2 DEF IInv

LEMMA StepKeeps ==
  ASSUME IInv, NEW w \in Worker, Step(w)
  PROVE  IInv'
  BY StartTickKeeps, StartDueKeeps, FinishTickKeeps, Gate1Keeps, SkipKeeps, ProposeKeeps, GatewayReturnsKeeps,
     FoldKeeps, DeferKeeps, RunDueKeeps, DueRaisesKeeps, DueReturnsKeeps, MarkExecutedKeeps DEF Step

LEMMA NextKeeps == IInv /\ [Next]_vars => IInv'
  BY TickKeeps, FailureArrivesKeeps, ObserveKeeps, StepKeeps, AbortKeeps, ReconcileKeeps, StutterKeeps DEF Next

LEMMA Invariance == Spec => []IInv
  BY InitHolds, NextKeeps, PTL DEF Spec

\* Events, decision rows, queue rows and what each tick has in hand keep their
\* types, whatever agent/decide.py and agent/execute.py commit.
THEOREM Typing == Spec => []TypeInvariant
  <1>1. IInv => TypeInvariant
    BY DEF IInv, RowsInv, EventInv, DecisionInv, QueueInv, SessionInv, SessionTypes, Placed, TypeInvariant, Steps
  <1>2. QED
    BY <1>1, Invariance, PTL

-----------------------------------------------------------------------------
(* What a step does to the rows *)

\* No deterministic row of the taxonomy charges a card that was declined for
\* good: those of the shipped taxonomy all hand the case to a human.
HardDeclinesAsked ==
  \A c \in Cause \cap HARD_DECLINE_ROOT_CAUSES : Taxonomy[c].deterministic => Taxonomy[c].action # "RETRY_NOW"

\* What the gates have seen to when an action passes them.
Cleared(e, cause, action, at) ==
  /\ action \in MONEY_ATTEMPT_ACTIONS =>
       \A r \in RetryCaps : ~(Count(e, RETRY_EVENT_TYPES, "none", at - r.window) >= r.limit)
  /\ HardDeclinesAsked /\ action \in {"RETRY_NOW", "RETRY_SCHEDULED"} /\ cause \in HARD_DECLINE_ROOT_CAUSES =>
       NewMethod(e)

Quiet == UNCHANGED <<log, decisions>> /\ QueuedIds' = QueuedIds

Reports(type, e, detail) ==
  /\ log' = log \cup {Event(type, e, now, 0, detail)}
  /\ UNCHANGED <<decisions, queue>>

\* No session of the process waits for the gateway about the entity.
NoneUnderWay(w, e) == \A o \in Worker : ProcessOf[o] = ProcessOf[w] /\ pc[o] = "gateway" => on[o] # e

Decides(w, x, action, type, E) ==
  /\ ~Handled(x.n) /\ NoneUnderWay(w, x.entity)
  /\ decisions' = decisions \cup
       {[id |-> commits + 1, trigger |-> x.n, entity |-> x.entity, cause |-> x.detail, action |-> action]}
  /\ Batch(E, {"FailureDiagnosed", type}, x.entity, clock[w], commits + 1)
  /\ log' = log \cup E
  /\ QueuedIds' = QueuedIds \cup {i \in {commits + 1} : type = "RetryScheduled"}
  /\ type # "EscalatedToHuman" => Cleared(x.entity, x.detail, action, clock[w])
  /\ type = "ActionIntended" => action # "RETRY_SCHEDULED"
  /\ type = "RetryScheduled" => action = "RETRY_SCHEDULED"
  /\ type = "ActionIntended" => pc'[w] = "gateway" /\ cur'[w] = commits + 1 /\ clock' = clock

Runs(w, r) ==
  /\ r.id \in QueuedIds /\ ~Intended(r.id)
  /\ r.cause \in HARD_DECLINE_ROOT_CAUSES => NewMethod(r.entity)
  /\ log' = log \cup {Event("ActionIntended", r.entity, clock[w], r.id, "none")}
  /\ UNCHANGED <<decisions, queue>>

\* An outcome carries the time of its tick, which is that of the intent unless
\* the intent was queued.
Timely(r, at) ==
  \/ \E w \in Worker : pc[w] = "gateway" /\ cur[w] = r.id /\ at = clock[w]
  \/ r.action = "RETRY_SCHEDULED"
  \/ at = IntentOf(r.id).at

Settles(r, at, E, types) ==
  /\ Intended(r.id) /\ ~Settled(r.id) /\ Timely(r, at)
  /\ Batch(E, types, r.entity, at, r.id)
  /\ types \cap {"PaymentFailed", "EscalatedToHuman", "RetryScheduled", "ActionIntended"} = {}
  /\ types \cap Receipts # {}
  /\ ActionOf(r.id) \in CHARGING_ACTIONS => "RetryAttempted" \in types
  /\ log' = log \cup E
  /\ UNCHANGED <<decisions, queue>>

Effect ==
  \/ Quiet
  \/ \E type, detail : \E e \in Entity : Reports(type, e, detail)
  \/ \E w \in Worker, x \in Failures, action \in LEGAL_ACTIONS,
        type \in {"EscalatedToHuman", "ActionIntended", "RetryScheduled"} :
          \E E : Decides(w, x, action, type, E)
  \/ \E w \in Worker, r \in decisions : Runs(w, r)
  \/ \E r \in decisions : \E at, E, types : Settles(r, at, E, types)

LEMMA RulesClear ==
  ASSUME NEW e, NEW cause \in Cause, NEW action \in MONEY_ATTEMPT_ACTIONS, NEW channel, NEW at,
         "DENY" \notin RuleVerdicts(e, cause, action, channel, at)
  PROVE  \A r \in RetryCaps : ~(Count(e, RETRY_EVENT_TYPES, "none", at - r.window) >= r.limit)
  <1>1. ASSUME NEW r \in RetryCaps, Count(e, RETRY_EVENT_TYPES, "none", at - r.window) >= r.limit PROVE FALSE
    <2>1. r \in Rules /\ r.metric = "retry" /\ r.verdict = "DENY" /\ cause \in r.causes
      BY <1>1 DEF RetryCaps
    <2>2. Relevant(r, action) /\ Counted(r, e, channel, at) >= r.limit
      BY <1>1, <2>1 DEF Relevant, Counted
    <2>3. QED
      BY <2>1, <2>2 DEF RuleVerdicts
  <1>2. QED
    BY <1>1

\* Gate-1 and the taxonomy let an action through without asking the model.
LEMMA DefaultIsCleared ==
  ASSUME NEW e, NEW cause \in Cause, NEW at, evaluate(e, cause, at) = "ALLOW", Taxonomy[cause].deterministic
  PROVE  Cleared(e, cause, Taxonomy[cause].action, at)
  <1>1. PICK action : action = Taxonomy[cause].action
    OBVIOUS
  <1>2. "DENY" \notin RuleVerdicts(e, cause, action, "none", at)
    BY <1>1 DEF evaluate, aggregate_verdict
  <1>3. action # "RETRY_SCHEDULED"
    BY <1>1, AgentAssumption
  <1>4. action \in MONEY_ATTEMPT_ACTIONS =>
          \A r \in RetryCaps : ~(Count(e, RETRY_EVENT_TYPES, "none", at - r.window) >= r.limit)
    BY <1>2, RulesClear
  <1>5. HardDeclinesAsked /\ cause \in HARD_DECLINE_ROOT_CAUSES => action # "RETRY_NOW"
    BY <1>1 DEF HardDeclinesAsked
  <1>6. QED
    BY <1>1, <1>3, <1>4, <1>5 DEF Cleared

\* Gate-2 lets a proposal through.
LEMMA ProposalIsCleared ==
  ASSUME NEW e, NEW cause \in Cause, NEW at, NEW p, check_proposal(e, cause, p, at) = "ALLOW"
  PROVE  Cleared(e, cause, p.action, at)
  <1>1. PICK action : action = p.action
    OBVIOUS
  <1>2. /\ "DENY" \notin RuleVerdicts(e, cause, action, p.channel, at)
        /\ ~(/\ action \in MONEY_ATTEMPT_ACTIONS \ {"RETRY_BACKUP_METHOD"}
             /\ cause \in HARD_DECLINE_ROOT_CAUSES
             /\ ~NewMethod(e))
    BY <1>1 DEF check_proposal, aggregate_verdict
  <1>3. action \in MONEY_ATTEMPT_ACTIONS =>
          \A r \in RetryCaps : ~(Count(e, RETRY_EVENT_TYPES, "none", at - r.window) >= r.limit)
    BY <1>2, RulesClear
  <1>4. action \in {"RETRY_NOW", "RETRY_SCHEDULED"} => action \in MONEY_ATTEMPT_ACTIONS \ {"RETRY_BACKUP_METHOD"}
    BY DEF MONEY_ATTEMPT_ACTIONS
  <1>5. QED
    BY <1>1, <1>2, <1>3, <1>4 DEF Cleared

\* The commit of a decision, as the effect it has.
LEMMA DecideDecides ==
  ASSUME IInv, NEW w \in Worker, NEW x \in Failures, ~Handled(x.n), NEW action, NEW detail \in Details,
         NEW type \in {"EscalatedToHuman", "ActionIntended", "RetryScheduled"},
         Decide(w, x.n, action, {type}, detail),
         QueuedIds' = QueuedIds \cup {i \in {commits + 1} : type = "RetryScheduled"},
         type # "EscalatedToHuman" => Cleared(x.entity, x.detail, action, clock[w]),
         type = "ActionIntended" => action # "RETRY_SCHEDULED",
         type = "RetryScheduled" => action = "RETRY_SCHEDULED",
         type = "ActionIntended" => pc'[w] = "gateway" /\ cur'[w] = commits + 1 /\ clock' = clock,
         NoneUnderWay(w, x.entity)
  PROVE  \E E : Decides(w, x, action, type, E)
  <1>1. PICK d, at, e : d = commits + 1 /\ at = clock[w] /\ e = x.entity
    OBVIOUS
  <1>2. Failure(x.n) = x
    BY IInvBasics
  <1>3. PICK E : E = {Event("FailureDiagnosed", e, at, d, "none"), Event(type, e, at, d, detail)}
    OBVIOUS
  <1>4. Batch(E, {"FailureDiagnosed", type}, e, at, d)
    <2>1. IsFiniteSet({"FailureDiagnosed", type})
      <3>1. IsFiniteSet({type}) /\ {"FailureDiagnosed", type} = {type} \cup {"FailureDiagnosed"}
        BY FS_Singleton
      <3>2. QED
        BY <3>1, FS_AddElement
    <2>2. QED
      BY <1>1, <1>3, <2>1 DEF Batch, Event, Details
  <1>5. log' = log \cup E /\ decisions' = decisions \cup
          {[id |-> commits + 1, trigger |-> x.n, entity |-> x.entity, cause |-> x.detail, action |-> action]}
    BY <1>1, <1>2, <1>3 DEF Decide, Commit
  <1>6. QED
    BY <1>1, <1>4, <1>5 DEF Decides

LEMMA EscalateDecides ==
  ASSUME IInv, NEW w \in Worker, NEW x \in Failures, ~Handled(x.n), Escalate(w, x.n),
         NoneUnderWay(w, x.entity)
  PROVE  \E E : Decides(w, x, "ESCALATE_HUMAN", "EscalatedToHuman", E)
  <1>1. "none" \in Details /\ QueuedIds' = QueuedIds \cup {i \in {commits + 1} : "EscalatedToHuman" = "RetryScheduled"}
    BY DEF Details, Escalate, QueuedIds
  <1>2. QED
    BY <1>1, DecideDecides DEF Escalate

LEMMA IntendDecides ==
  ASSUME IInv, NEW w \in Worker, NEW x \in Failures, ~Handled(x.n), NEW p, p.channel \in Details,
         Intend(w, x.n, p), Cleared(x.entity, x.detail, p.action, clock[w]), p.action # "RETRY_SCHEDULED",
         NoneUnderWay(w, x.entity), clock' = clock
  PROVE  \E E : Decides(w, x, p.action, "ActionIntended", E)
  <1>1. QueuedIds' = QueuedIds \cup {i \in {commits + 1} : "ActionIntended" = "RetryScheduled"}
    BY DEF Intend, QueuedIds
  <1>2. PICK action, detail : action = p.action /\ detail = p.channel
    OBVIOUS
  <1>3. pc'[w] = "gateway" /\ cur'[w] = commits + 1
    BY DEF Intend, Goto, Lock, IInv, SessionInv, SessionTypes
  <1>4. \E E : Decides(w, x, action, "ActionIntended", E)
    BY <1>1, <1>2, <1>3, DecideDecides DEF Intend
  <1>5. QED
    BY <1>2, <1>4

LEMMA ScheduleDecides ==
  ASSUME IInv, NEW w \in Worker, NEW x \in Failures, ~Handled(x.n), NEW delay,
         Schedule(w, x.n, delay), Cleared(x.entity, x.detail, "RETRY_SCHEDULED", clock[w]),
         NoneUnderWay(w, x.entity)
  PROVE  \E E : Decides(w, x, "RETRY_SCHEDULED", "RetryScheduled", E)
  <1>1. QueuedIds' = QueuedIds \cup {i \in {commits + 1} : "RetryScheduled" = "RetryScheduled"}
    <2>1. PICK q : q = [decision |-> commits + 1, due |-> clock[w] + delay, executed |-> FALSE]
      OBVIOUS
    <2>2. queue' = queue \cup {q} /\ q.decision = commits + 1
      BY <2>1 DEF Schedule
    <2>3. QED
      BY <2>2 DEF QueuedIds
  <1>2. "none" \in Details
    BY DEF Details
  <1>3. QED
    BY <1>1, <1>2, DecideDecides DEF Schedule

LEMMA Gate1Effect ==
  ASSUME IInv, NEW w \in Worker, NEW x \in Failures, Gate1(w, x.n)
  PROVE  Effect
  <1>1. Failure(x.n) = x /\ x.detail \in Cause /\ ~Handled(x.n) /\ NoneUnderWay(w, x.entity) /\ clock' = clock
    BY IInvBasics DEF Gate1, IsNext, LockFree, NoneUnderWay
  <1>2. CASE Escalate(w, x.n)
    <2>1. PICK E : Decides(w, x, "ESCALATE_HUMAN", "EscalatedToHuman", E)
      BY <1>1, <1>2, EscalateDecides
    <2>2. "ESCALATE_HUMAN" \in LEGAL_ACTIONS
      BY DEF LEGAL_ACTIONS
    <2>3. QED
      BY <2>1, <2>2 DEF Effect
  <1>3. CASE /\ evaluate(x.entity, x.detail, clock[w]) = "ALLOW" /\ Taxonomy[x.detail].deterministic
             /\ Intend(w, x.n, Default(x.detail))
    <2>1. PICK p : p = Default(x.detail)
      OBVIOUS
    <2>2. p.channel \in Details /\ p.action = Taxonomy[x.detail].action
      BY <2>1 DEF Default, Details
    <2>3. p.action # "RETRY_SCHEDULED" /\ p.action \in LEGAL_ACTIONS
      BY <1>1, <1>3, <2>2, AgentAssumption
    <2>4. Cleared(x.entity, x.detail, p.action, clock[w])
      BY <1>1, <1>3, <2>2, DefaultIsCleared
    <2>5. PICK E : Decides(w, x, p.action, "ActionIntended", E)
      BY <1>1, <1>3, <2>1, <2>2, <2>3, <2>4, IntendDecides
    <2>6. QED
      BY <2>3, <2>5 DEF Effect
  <1>4. CASE UNCHANGED dbVars
    BY <1>4 DEF dbVars, Effect, Quiet, QueuedIds
  <1>5. QED
    BY <1>1, <1>2, <1>3, <1>4 DEF Gate1

LEMMA ProposeEffect ==
  ASSUME IInv, NEW w \in Worker, Propose(w)
  PROVE  Effect
  <1>1. PICK x \in Failures : cur[w] = x.n /\ on[w] = x.entity /\ ~Handled(x.n)
    BY SameSession DEF IInv, Placed, Propose
  <1>2. Failure(x.n) = x /\ x.detail \in Cause /\ NoneUnderWay(w, x.entity) /\ clock' = clock
    <2>1. \A o \in Worker : ProcessOf[o] = ProcessOf[w] /\ pc[o] = "gateway" => on[o] # on[w]
      <3>1. on[w] # NoEntity
        BY <1>1, IInvBasics
      <3>2. QED
        BY <3>1 DEF IInv, SessionInv, Exclusive, Propose
    <2>2. QED
      BY <1>1, <2>1, IInvBasics DEF Propose, NoneUnderWay
  <1>3. PICK p \in ProposalsFor(x.detail) :
          LET verdict == check_proposal(x.entity, x.detail, p, clock[w]) IN
          \/ verdict # "ALLOW" /\ Escalate(w, x.n)
          \/ /\ verdict = "ALLOW" /\ p.action = "RETRY_SCHEDULED"
             /\ \E delay \in Delays : Schedule(w, x.n, delay)
          \/ verdict = "ALLOW" /\ p.action # "RETRY_SCHEDULED" /\ Intend(w, x.n, p)
    BY <1>1, <1>2 DEF Propose
  <1>4. p.action \in LEGAL_ACTIONS /\ p.channel \in Details
    BY <1>2, AgentAssumption DEF ProposalsFor, Default, Proposal, ActionEnum, Details
  <1>5. CASE Escalate(w, x.n)
    <2>1. PICK E : Decides(w, x, "ESCALATE_HUMAN", "EscalatedToHuman", E)
      BY <1>1, <1>2, <1>5, EscalateDecides
    <2>2. "ESCALATE_HUMAN" \in LEGAL_ACTIONS
      BY DEF LEGAL_ACTIONS
    <2>3. QED
      BY <2>1, <2>2 DEF Effect
  <1>6. ASSUME check_proposal(x.entity, x.detail, p, clock[w]) = "ALLOW", p.action = "RETRY_SCHEDULED",
               NEW delay, Schedule(w, x.n, delay)
        PROVE  Effect
    <2>1. Cleared(x.entity, x.detail, p.action, clock[w])
      BY <1>2, <1>6, ProposalIsCleared
    <2>2. PICK E : Decides(w, x, "RETRY_SCHEDULED", "RetryScheduled", E)
      BY <1>1, <1>2, <1>6, <2>1, ScheduleDecides
    <2>3. "RETRY_SCHEDULED" \in LEGAL_ACTIONS
      BY DEF LEGAL_ACTIONS
    <2>4. QED
      BY <2>2, <2>3 DEF Effect
  <1>7. ASSUME check_proposal(x.entity, x.detail, p, clock[w]) = "ALLOW", p.action # "RETRY_SCHEDULED",
               Intend(w, x.n, p)
        PROVE  Effect
    <2>1. Cleared(x.entity, x.detail, p.action, clock[w])
      BY <1>2, <1>7, ProposalIsCleared
    <2>2. PICK E : Decides(w, x, p.action, "ActionIntended", E)
      BY <1>1, <1>2, <1>4, <1>7, <2>1, IntendDecides
    <2>3. QED
      BY <1>4, <2>2 DEF Effect
  <1>8. QED
    BY <1>3, <1>5, <1>6, <1>7

LEMMA CommitSettles ==
  ASSUME IInv, NEW r \in decisions, Intended(r.id), ~Settled(r.id), NEW at, NEW answer, NEW proposed \in Details,
         CommitOutcome(r.id, at, answer, proposed), UNCHANGED <<decisions, queue>>, Timely(r, at)
  PROVE  \E E, types : Settles(r, at, E, types)
  BY OutcomeCommitted DEF IInv, Settles

LEMMA GatewayEffect ==
  ASSUME IInv, NEW w \in Worker, GatewayReturns(w) \/ DueReturns(w)
  PROVE  Effect
  <1>1. PICK r \in decisions : cur[w] = r.id /\ Intended(r.id) /\ Timely(r, clock[w])
    <2>1. CASE GatewayReturns(w)
      BY <2>1, SameSession DEF IInv, Placed, GatewayReturns, Timely
    <2>2. CASE DueReturns(w)
      <3>1. PICK r \in decisions : cur[w] = r.id /\ Intended(r.id)
        BY <2>2, SameSession DEF IInv, Placed, DueReturns
      <3>2. PICK s \in decisions : cur[w] = s.id /\ s.action = "RETRY_SCHEDULED"
        BY <2>2, SameSession DEF IInv, Placed, DueReturns
      <3>3. r = s
        BY <3>1, <3>2 DEF IInv, RowsInv, DecisionInv
      <3>4. QED
        BY <3>1, <3>2, <3>3 DEF Timely
    <2>3. QED
      BY <2>1, <2>2
  <1>2. PICK answer \in Answers, proposed \in Details :
          \/ UNCHANGED dbVars
          \/ UNCHANGED <<log, commits, decisions, queue>>
          \/ ~Settled(r.id) /\ CommitOutcome(r.id, clock[w], answer, proposed) /\ UNCHANGED <<decisions, queue>>
    <2>1. CASE GatewayReturns(w)
      BY <1>1, <2>1, IntentIs DEF GatewayReturns
    <2>2. CASE DueReturns(w)
      BY <1>1, <2>2 DEF DueReturns, Details
    <2>3. QED
      BY <2>1, <2>2
  <1>3. CASE ~Settled(r.id) /\ CommitOutcome(r.id, clock[w], answer, proposed) /\ UNCHANGED <<decisions, queue>>
    <2>1. \E E, types : Settles(r, clock[w], E, types)
      BY <1>1, <1>3, CommitSettles
    <2>2. QED
      BY <2>1 DEF Effect
  <1>4. QED
    BY <1>2, <1>3 DEF dbVars, Effect, Quiet, QueuedIds

LEMMA ReconcileEffect ==
  ASSUME IInv, NEW r \in decisions, Reconcile(r.id)
  PROVE  Effect
  <1>1. "none" \in Details /\ Timely(r, IntentOf(r.id).at)
    BY DEF Details, Timely
  <1>2. \E E, types : Settles(r, IntentOf(r.id).at, E, types)
    BY <1>1, CommitSettles DEF Reconcile
  <1>3. QED
    BY <1>2 DEF Effect

LEMMA RunDueEffect ==
  ASSUME IInv, NEW w \in Worker, NEW q \in queue, RunDue(w, q.decision)
  PROVE  Effect
  <1>1. PICK r \in decisions : r.id = q.decision /\ Decision(r.id) = r
    BY IInvBasics
  <1>2. /\ log' = log \cup {Event("ActionIntended", r.entity, clock[w], r.id, "none")}
        /\ UNCHANGED <<decisions, queue>> /\ ~Intended(r.id) /\ r.id \in QueuedIds
    BY <1>1 DEF RunDue, Commit, QueuedIds
  <1>3. r.cause \in HARD_DECLINE_ROOT_CAUSES => NewMethod(r.entity)
    BY <1>1 DEF RunDue, StillDeclined
  <1>4. QED
    BY <1>2, <1>3 DEF Effect, Runs

LEMMA MarkEffect ==
  ASSUME IInv, NEW w \in Worker, MarkExecuted(w)
  PROVE  Effect
  <1>1. \A r \in queue : (IF r.decision = cur[w] THEN [r EXCEPT !.executed = TRUE] ELSE r).decision = r.decision
    BY DEF IInv, RowsInv, QueueInv
  <1>2. QED
    BY <1>1 DEF MarkExecuted, QueuedIds, Effect, Quiet

LEMMA WorldEffect ==
  ASSUME NEW e \in Entity, NEW type, NEW detail,
         Commit({Event(type, e, now, 0, detail)}), UNCHANGED <<decisions, queue>>
  PROVE  Effect
  <1>1. Reports(type, e, detail)
    BY DEF Reports, Commit
  <1>2. QED
    BY <1>1 DEF Effect

LEMMA NextEffect == IInv /\ [Next]_vars => Effect
  <1> SUFFICES ASSUME IInv, [Next]_vars PROVE Effect
    OBVIOUS
  <1>1. UNCHANGED dbVars => Effect
    BY DEF dbVars, Effect, Quiet, QueuedIds
  <1>2. CASE Tick \/ UNCHANGED vars
    BY <1>1, <1>2 DEF Tick, vars
  <1>3. ASSUME NEW e \in Entity, NEW cause, FailureArrives(e, cause) PROVE Effect
    BY <1>3, WorldEffect DEF FailureArrives
  <1>4. ASSUME NEW e \in Entity, NEW type, Observe(e, type) PROVE Effect
    BY <1>4, WorldEffect DEF Observe
  <1>5. ASSUME NEW w \in Worker, Abort(w) PROVE Effect
    BY <1>1, <1>5 DEF Abort
  <1>6. ASSUME NEW w \in Worker, Step(w) PROVE Effect
    <2>1. CASE StartTick(w) \/ StartDue(w) \/ FinishTick(w) \/ Fold(w)
      BY <1>1, <2>1 DEF StartTick, StartDue, FinishTick, Fold
    <2>2. ASSUME NEW x \in Failures, Skip(w, x.n) PROVE Effect
      BY <1>1, <2>2 DEF Skip
    <2>3. ASSUME NEW d, Defer(w, d) \/ DueRaises(w, d) PROVE Effect
      BY <1>1, <2>3 DEF Defer, DueRaises
    <2>4. QED
      BY <1>6, <2>1, <2>2, <2>3, Gate1Effect, ProposeEffect, GatewayEffect, RunDueEffect, MarkEffect DEF Step
  <1>7. ASSUME NEW r \in decisions, Reconcile(r.id) PROVE Effect
    BY <1>7, ReconcileEffect
  <1>8. QED
    BY <1>2, <1>3, <1>4, <1>5, <1>6, <1>7 DEF Next

-----------------------------------------------------------------------------
(* A new payment method before a hard decline is charged *)

Retries(r) == r.action \in {"RETRY_NOW", "RETRY_SCHEDULED"} /\ r.cause \in HARD_DECLINE_ROOT_CAUSES

\* A method that came in before commit n, and after the failures there were,
\* among them the one r is about.
MethodBefore(r, n) ==
  \E c \in log, y \in Failures :
    /\ c.type = "PaymentMethodChanged" /\ c.entity = r.entity /\ c.n < n
    /\ y.n = r.trigger /\ c.at > y.at
    /\ \A f \in Failures : f.entity = r.entity /\ f.n < n => c.at > f.at

MethodInv ==
  \A x \in log, r \in decisions :
    x.type = "ActionIntended" /\ x.decision = r.id /\ Retries(r) => MethodBefore(r, x.n)

LEMMA MethodFound ==
  ASSUME IInv, NEW r, NEW y \in Failures, y.n = r.trigger, y.entity = r.entity, NewMethod(r.entity)
  PROVE  MethodBefore(r, commits + 1)
  <1>1. PICK c \in log : /\ c.type = "PaymentMethodChanged" /\ c.entity = r.entity
                         /\ \A x \in EventsOf(r.entity, {"PaymentFailed"}) : c.at > x.at
    BY DEF NewMethod, EventsOf
  <1>2. y \in EventsOf(r.entity, {"PaymentFailed"})
    BY DEF EventsOf, Failures
  <1>3. c.n < commits + 1
    BY DEF IInv, RowsInv, EventInv
  <1>4. \A f \in Failures : f.entity = r.entity => c.at > f.at
    BY <1>1 DEF EventsOf, Failures
  <1>5. QED
    BY <1>1, <1>2, <1>3, <1>4 DEF MethodBefore

\* Whatever a step writes has the next commit.
Appended == log \subseteq log' /\ \A z \in log' : z \notin log => z.n = commits + 1

LEMMA MethodStays ==
  ASSUME NEW r, NEW n \in Nat, commits \in Nat, n <= commits + 1, MethodBefore(r, n), Appended
  PROVE  MethodBefore(r, n)'
  <1>1. PICK c \in log, y \in Failures :
          /\ c.type = "PaymentMethodChanged" /\ c.entity = r.entity /\ c.n < n
          /\ y.n = r.trigger /\ c.at > y.at
          /\ \A f \in Failures : f.entity = r.entity /\ f.n < n => c.at > f.at
    BY DEF MethodBefore
  <1>2. c \in log' /\ y \in Failures'
    BY DEF Appended, Failures
  <1>3. \A f \in Failures' : f.n < n => f \in Failures
    BY DEF Appended, Failures
  <1>4. QED
    BY <1>1, <1>2, <1>3 DEF MethodBefore

\* The intents there were are about the decisions there were.
LEMMA OldIntents ==
  ASSUME IInv, IInv', MethodInv, Appended, decisions \subseteq decisions',
         \A x \in log', r \in decisions' :
           x \notin log /\ x.type = "ActionIntended" /\ x.decision = r.id /\ Retries(r) => MethodBefore(r, x.n)
  PROVE  MethodInv'
  <1>1. ASSUME NEW x \in log', NEW r \in decisions', x.type = "ActionIntended", x.decision = r.id, Retries(r)
        PROVE  MethodBefore(r, x.n)'
    <2>1. CASE x \in log
      <3>1. r.id # 0
        BY DEF IInv, RowsInv, DecisionInv
      <3>2. PICK s \in decisions : s.id = x.decision
        BY <1>1, <2>1, <3>1 DEF IInv, RowsInv, EventInv
      <3>3. s = r
        BY <1>1, <3>2 DEF IInv, RowsInv, DecisionInv
      <3>4. MethodBefore(r, x.n)
        BY <1>1, <2>1, <3>2, <3>3 DEF MethodInv
      <3>5. commits \in Nat /\ x.n \in Nat /\ x.n <= commits + 1
        BY <2>1 DEF IInv, RowsInv, EventInv
      <3>6. QED
        BY <3>4, <3>5, MethodStays
    <2>2. CASE x \notin log
      <3>1. MethodBefore(r, x.n)
        BY <1>1, <2>2
      <3>2. commits \in Nat /\ x.n = commits + 1
        BY <2>2 DEF Appended, IInv, RowsInv
      <3>3. QED
        BY <3>1, <3>2, MethodStays
    <2>3. QED
      BY <2>1, <2>2
  <1>2. QED
    BY <1>1 DEF MethodInv, Retries

LEMMA MethodKept ==
  ASSUME HardDeclinesAsked, IInv, IInv', MethodInv, Effect
  PROVE  MethodInv'
  <1>1. CASE Quiet
    <2>1. log = log' /\ decisions = decisions'
      BY <1>1 DEF Quiet
    <2>2. QED
      BY <2>1, OldIntents DEF Appended
  <1>2. ASSUME NEW type, NEW e, NEW detail, Reports(type, e, detail) PROVE MethodInv'
    <2>1. PICK y : y = Event(type, e, now, 0, detail)
      OBVIOUS
    <2>2. log' = log \cup {y} /\ y.n = commits + 1 /\ y.decision = 0 /\ decisions' = decisions
      BY <1>2, <2>1 DEF Reports, Event
    <2>3. \A r \in decisions' : r.id # 0
      BY DEF IInv, RowsInv, DecisionInv
    <2>4. QED
      BY <2>2, <2>3, OldIntents DEF Appended
  <1>3. ASSUME NEW w \in Worker, NEW x \in Failures, NEW action, NEW type, NEW E, Decides(w, x, action, type, E)
        PROVE  MethodInv'
    <2>1. PICK r : r = [id |-> commits + 1, trigger |-> x.n, entity |-> x.entity, cause |-> x.detail,
                        action |-> action]
      OBVIOUS
    <2>2. decisions' = decisions \cup {r} /\ log' = log \cup E
      BY <1>3, <2>1 DEF Decides
    <2>3. \A y \in E : y.n = commits + 1 /\ y.decision = commits + 1 /\ y.type \in {"FailureDiagnosed", type}
      BY <1>3 DEF Decides, Batch
    <2>4. ASSUME NEW y \in E, NEW s \in decisions', y.type = "ActionIntended", y.decision = s.id, Retries(s)
          PROVE  MethodBefore(s, y.n)
      <3>1. s = r
        BY <2>1, <2>2, <2>3, <2>4 DEF IInv, RowsInv, DecisionInv
      <3>2. type = "ActionIntended"
        BY <2>3, <2>4
      <3>3. NewMethod(r.entity)
        BY <1>3, <2>1, <2>4, <3>1, <3>2 DEF Decides, Cleared, Retries
      <3>4. MethodBefore(r, commits + 1)
        BY <2>1, <3>3, MethodFound
      <3>5. QED
        BY <2>3, <3>1, <3>4
    <2>5. log \subseteq log' /\ decisions \subseteq decisions' /\ \A y \in log' : y \notin log => y \in E
      BY <2>2
    <2>6. QED
      BY <2>3, <2>4, <2>5, OldIntents DEF Appended
  <1>4. ASSUME NEW w, NEW r \in decisions, Runs(w, r) PROVE MethodInv'
    <2>1. PICK y : y = Event("ActionIntended", r.entity, clock[w], r.id, "none")
      OBVIOUS
    <2>2. log' = log \cup {y} /\ decisions' = decisions /\ y.n = commits + 1 /\ y.decision = r.id
      BY <1>4, <2>1 DEF Runs, Event
    <2>3. ASSUME NEW s \in decisions, s.id = r.id, Retries(s) PROVE MethodBefore(s, y.n)
      <3>1. s = r
        BY <2>3 DEF IInv, RowsInv, DecisionInv
      <3>2. PICK f \in Failures : f.n = r.trigger /\ f.entity = r.entity
        BY DEF IInv, RowsInv, DecisionInv
      <3>3. NewMethod(r.entity)
        BY <1>4, <2>3, <3>1 DEF Runs, Retries
      <3>4. MethodBefore(r, commits + 1)
        BY <3>2, <3>3, MethodFound
      <3>5. QED
        BY <2>2, <3>1, <3>4
    <2>4. log \subseteq log' /\ decisions \subseteq decisions' /\ \A z \in log' : z \notin log => z = y
      BY <2>2
    <2>5. QED
      BY <2>2, <2>3, <2>4, OldIntents DEF Appended
  <1>5. ASSUME NEW r \in decisions, NEW at, NEW E, NEW types, Settles(r, at, E, types) PROVE MethodInv'
    <2>1. log' = log \cup E /\ decisions' = decisions /\ \A y \in E : y.type # "ActionIntended" /\ y.n = commits + 1
      BY <1>5 DEF Settles, Batch
    <2>2. log \subseteq log' /\ decisions \subseteq decisions' /\ \A y \in log' : y \notin log => y \in E
      BY <2>1
    <2>3. QED
      BY <2>1, <2>2, OldIntents DEF Appended
  <1>6. QED
    BY <1>1, <1>2, <1>3, <1>4, <1>5 DEF Effect

LEMMA MethodInvHolds ==
  ASSUME HardDeclinesAsked
  PROVE  Spec => []MethodInv
  <1>1. Init => MethodInv
    BY DEF Init, MethodInv
  <1>2. IInv /\ IInv' /\ MethodInv /\ [Next]_vars => MethodInv'
    BY NextEffect, MethodKept
  <1>3. QED
    BY <1>1, <1>2, Invariance, PTL DEF Spec

LEMMA MethodMeans == IInv /\ MethodInv => NewMethodFirst
  <1> SUFFICES ASSUME IInv, MethodInv, NEW x \in log, x.type = "ActionIntended", x.decision # 0,
                      ActionOf(Decision(x.decision).id) = "RETRY_NOW",
                      Decision(x.decision).cause \in HARD_DECLINE_ROOT_CAUSES
               PROVE  \E c \in EventsOf(Decision(x.decision).entity, {"PaymentMethodChanged"}) :
                        /\ c.n < x.n
                        /\ \A f \in EventsOf(Decision(x.decision).entity, {"PaymentFailed"}) :
                             f.n = Decision(x.decision).trigger \/ (f.n < x.n /\ f.at < x.at) => c.at > f.at
    BY DEF NewMethodFirst
  <1>1. PICK r \in decisions : r.id = x.decision
    BY DEF IInv, RowsInv, EventInv
  <1>2. Decision(x.decision) = r
    BY <1>1, IInvBasics
  <1>3. Retries(r)
    BY <1>1, <1>2 DEF Retries, ActionOf
  <1>4. PICK c \in log, y \in Failures :
          /\ c.type = "PaymentMethodChanged" /\ c.entity = r.entity /\ c.n < x.n
          /\ y.n = r.trigger /\ c.at > y.at
          /\ \A f \in Failures : f.entity = r.entity /\ f.n < x.n => c.at > f.at
    BY <1>1, <1>3 DEF MethodInv, MethodBefore
  <1>5. \A f \in EventsOf(r.entity, {"PaymentFailed"}) : f \in Failures /\ f.entity = r.entity
    BY DEF EventsOf, Failures
  <1>6. \A f \in Failures : f.n = r.trigger => f = y
    BY <1>4 DEF IInv, RowsInv, EventInv
  <1>7. c \in EventsOf(r.entity, {"PaymentMethodChanged"})
    BY <1>4 DEF EventsOf
  <1>8. QED
    BY <1>2, <1>4, <1>5, <1>6, <1>7

\* After a decline that no repetition of the charge can cure, the agent intends
\* another one only once the customer has given a payment method that has not
\* failed as well: Gate-2 (core/gate.py) refuses until then, the due scan
\* (agent/execute.py) looks again when it takes a retry from the queue, and the
\* deterministic rows do not get around either.
THEOREM MethodFirst ==
  ASSUME HardDeclinesAsked
  PROVE  Spec => []NewMethodFirst
  BY Invariance, MethodInvHolds, MethodMeans, PTL

-----------------------------------------------------------------------------
(* One decision about each failure, as Recovery has it *)

Standing(d) ==
  IF Logged(d, {"EscalatedToHuman"}) THEN "escalated"
  ELSE IF Settled(d) THEN "settled"
  ELSE IF Intended(d) THEN "intended" ELSE "scheduled"

ReportedPhases == \A f : ~Handled(f) => PhaseOf(f) = "reported"
DecidedPhases == \A r \in decisions : PhaseOf(r.trigger) = Standing(r.id)

LEMMA PhaseReported == ReportedPhases
  <1> SUFFICES ASSUME NEW f, ~Handled(f) PROVE PhaseOf(f) = "reported"
    BY DEF ReportedPhases
  <1>1. {d.id : d \in {r \in decisions : r.trigger = f}} = {}
    BY DEF Handled
  <1>2. QED
    BY <1>1 DEF PhaseOf

LEMMA PhaseDecided == RowsInv => DecidedPhases
  <1> SUFFICES ASSUME RowsInv, NEW r \in decisions PROVE PhaseOf(r.trigger) = Standing(r.id)
    BY DEF DecidedPhases
  <1>1. PICK ds : ds = {d.id : d \in {s \in decisions : s.trigger = r.trigger}}
    OBVIOUS
  <1>2. ds = {r.id}
    BY <1>1 DEF RowsInv, DecisionInv
  <1>3. PICK d : d = CHOOSE n \in ds : TRUE
    OBVIOUS
  <1>4. d = r.id
    BY <1>2, <1>3
  <1>5. PICK receipts : receipts = {x \in log : x.decision = d /\ x.type \in {"ActionCompleted", "ActionFailed"}}
    OBVIOUS
  <1>6. RouteInv(d)
    BY <1>4 DEF RowsInv
  <1>7. ~(Cardinality(receipts) > 1)
    <2>1. \A x, y \in receipts : x = y
      BY <1>5, <1>6 DEF RouteInv, Receipts
    <2>2. CASE receipts = {}
      BY <2>2, FS_EmptySet
    <2>3. CASE receipts # {}
      <3>1. PICK x : receipts = {x}
        BY <2>1, <2>3
      <3>2. Cardinality(receipts) = 1
        BY <3>1, FS_Singleton
      <3>3. QED
        BY <3>2
    <2>4. QED
      BY <2>2, <2>3
  <1>8. (\E q \in queue : q.decision = d) <=> d \in QueuedIds
    BY DEF QueuedIds
  <1>9. PhaseOf(r.trigger) =
          IF ds = {} THEN "reported"
          ELSE IF \/ ds # {d} \/ Cardinality(receipts) > 1
                  \/ Logged(d, {"EscalatedToHuman"}) /\ (d \in QueuedIds \/ Intended(d))
                  \/ Settled(d) /\ ~Intended(d)
                  \/ ~(d \in QueuedIds <=> Logged(d, {"RetryScheduled"}))
               THEN "contradicted"
          ELSE IF Logged(d, {"EscalatedToHuman"}) THEN "escalated"
          ELSE IF Settled(d) THEN "settled"
          ELSE IF Intended(d) THEN "intended"
          ELSE IF d \in QueuedIds THEN "scheduled" ELSE "undecided"
    BY <1>1, <1>3, <1>5, <1>8 DEF PhaseOf
  <1>10. QED
    BY <1>2, <1>4, <1>6, <1>7, <1>9 DEF Standing, RouteInv

\* Of a failure that no new decision is about, and of whose decision nothing
\* is logged, the phase stays.
LEMMA PhaseStays ==
  ASSUME RowsInv, RowsInv', NEW f,
         decisions \subseteq decisions', \A r \in decisions' : r \notin decisions => r.trigger # f,
         \A r \in decisions : r.trigger = f => \A some : Logged(r.id, some)' <=> Logged(r.id, some)
  PROVE  PhaseOf(f)' = PhaseOf(f)
  <1>1. CASE Handled(f)
    <2>1. PICK r \in decisions : r.trigger = f
      BY <1>1 DEF Handled
    <2>2. PhaseOf(r.trigger) = Standing(r.id)
      BY PhaseDecided DEF DecidedPhases
    <2>3. DecidedPhases'
      BY PhaseDecided, PTL
    <2>4. PICK d, g : d = r.id /\ g = r.trigger
      OBVIOUS
    <2>5. PhaseOf(g)' = Standing(d)'
      BY <2>1, <2>3, <2>4 DEF DecidedPhases
    <2>6. \A some : Logged(d, some)' <=> Logged(d, some)
      BY <2>1, <2>4
    <2>7. Standing(d)' = Standing(d)
      BY <2>6 DEF Standing, Settled, Intended
    <2>8. QED
      BY <2>1, <2>2, <2>4, <2>5, <2>7
  <1>2. CASE ~Handled(f)
    <2>1. ~Handled(f)'
      BY <1>2 DEF Handled
    <2>2. ReportedPhases'
      BY PhaseReported, PTL
    <2>3. PhaseOf(f)' = "reported" /\ PhaseOf(f) = "reported"
      BY <1>2, <2>1, <2>2, PhaseReported DEF ReportedPhases
    <2>4. QED
      BY <2>3
  <1>3. QED
    BY <1>1, <1>2

LEMMA PhaseIs ==
  /\ phase = [f \in FailureIds |-> PhaseOf(f)]
  /\ phase' = [f \in FailureIds' |-> PhaseOf(f)']
  BY DEF phase, FailureIds

\* The phase of one failure changes.
LEMMA PhaseMoves ==
  ASSUME NEW f \in FailureIds, NEW to, FailureIds' = FailureIds,
         PhaseOf(f)' = to, \A g \in FailureIds \ {f} : PhaseOf(g)' = PhaseOf(g)
  PROVE  f \in Promise!Reported /\ phase[f] = PhaseOf(f) /\ phase' = [phase EXCEPT ![f] = to]
  BY PhaseIs DEF Promise!Reported

LEMMA QuietRefines ==
  ASSUME RowsInv, RowsInv', Quiet
  PROVE  UNCHANGED phase
  <1>1. log' = log /\ decisions' = decisions
    BY DEF Quiet
  <1>2. FailureIds' = FailureIds
    BY <1>1 DEF FailureIds, Failures
  <1>3. \A f \in FailureIds : PhaseOf(f)' = PhaseOf(f)
    BY <1>1, PhaseStays DEF Logged
  <1>4. QED
    BY <1>2, <1>3, PhaseIs

LEMMA ReportsRefines ==
  ASSUME RowsInv, RowsInv', NEW type, NEW e, NEW detail, Reports(type, e, detail)
  PROVE  Promise!Next \/ UNCHANGED phase
  <1>1. PICK y : y = Event(type, e, now, 0, detail)
    OBVIOUS
  <1>2. log' = log \cup {y} /\ decisions' = decisions /\ y.n = commits + 1 /\ y.type = type /\ y.decision = 0
    BY <1>1 DEF Reports, Event
  <1>3. \A r \in decisions : \A some : Logged(r.id, some)' <=> Logged(r.id, some)
    BY <1>2 DEF Logged, RowsInv, DecisionInv
  <1>4. \A f : PhaseOf(f)' = PhaseOf(f)
    BY <1>2, <1>3, PhaseStays
  <1>5. CASE type # "PaymentFailed"
    <2>1. FailureIds' = FailureIds
      BY <1>2, <1>5 DEF FailureIds, Failures
    <2>2. QED
      BY <1>4, <2>1, PhaseIs
  <1>6. CASE type = "PaymentFailed"
    <2>1. PICK f : f = commits + 1
      OBVIOUS
    <2>2. FailureIds' = FailureIds \cup {f} /\ f \notin FailureIds
      BY <1>2, <1>6, <2>1 DEF FailureIds, Failures, RowsInv, EventInv
    <2>3. ~Handled(f)
      BY <2>1 DEF Handled, RowsInv, DecisionInv, AllDecisions, Commits
    <2>4. PhaseOf(f) = "reported"
      BY <2>3, PhaseReported DEF ReportedPhases
    <2>5. Promise!Report(f)
      BY <1>4, <2>2, <2>4, PhaseIs DEF Promise!Report, Promise!Reported
    <2>6. f \in DOMAIN phase'
      BY <2>2, PhaseIs
    <2>7. QED
      BY <2>5, <2>6 DEF Promise!Next
  <1>7. QED
    BY <1>5, <1>6

\* What is logged of one decision moves the failure it is about.
LEMMA StandingMoves ==
  ASSUME RowsInv, RowsInv', NEW E, NEW types, NEW e, NEW at, NEW r \in decisions,
         Batch(E, types, e, at, r.id), log' = log \cup E, "PaymentFailed" \notin types, decisions' = decisions
  PROVE  /\ r.trigger \in Promise!Reported
         /\ phase[r.trigger] = Standing(r.id)
         /\ phase' = [phase EXCEPT ![r.trigger] = Standing(r.id)']
  <1>1. FailureIds' = FailureIds
    BY DEF FailureIds, Failures, Batch
  <1>2. PICK d, f : d = r.id /\ f = r.trigger
    OBVIOUS
  <1>3. f \in FailureIds
    BY <1>2 DEF RowsInv, DecisionInv, FailureIds
  <1>4. PhaseOf(f) = Standing(d)
    BY <1>2, PhaseDecided DEF DecidedPhases
  <1>5. PhaseOf(f)' = Standing(d)'
    <2>1. DecidedPhases'
      BY PhaseDecided, PTL
    <2>2. QED
      BY <1>2, <2>1 DEF DecidedPhases
  <1>6. ASSUME NEW g \in FailureIds \ {f} PROVE PhaseOf(g)' = PhaseOf(g)
    <2>1. \A s \in decisions : s.trigger = g => s.id # d
      BY <1>2, <1>6 DEF RowsInv, DecisionInv
    <2>2. \A i, some : i # d => (Logged(i, some)' <=> Logged(i, some))
      BY <1>2, LoggedBatch
    <2>3. QED
      BY <2>1, <2>2, PhaseStays
  <1>7. PICK to : to = Standing(d)'
    OBVIOUS
  <1>8. f \in Promise!Reported /\ phase[f] = PhaseOf(f) /\ phase' = [phase EXCEPT ![f] = to]
    BY <1>1, <1>3, <1>5, <1>6, <1>7, PhaseMoves
  <1>9. QED
    BY <1>2, <1>4, <1>7, <1>8

LEMMA RunsRefines ==
  ASSUME RowsInv, RowsInv', NEW w, NEW r \in decisions, Runs(w, r)
  PROVE  Promise!Next
  <1>1. PICK d, e, at : d = r.id /\ e = r.entity /\ at = clock[w]
    OBVIOUS
  <1>2. PICK E, types : E = {Event("ActionIntended", e, at, d, "none")} /\ types = {"ActionIntended"}
    OBVIOUS
  <1>3. Batch(E, types, e, at, d)
    <2>1. IsFiniteSet(types) /\ "none" \in Details
      BY <1>2, FS_Singleton DEF Details
    <2>2. QED
      BY <1>2, <2>1 DEF Batch, Event
  <1>4. log' = log \cup E /\ decisions' = decisions /\ ~Intended(d) /\ d \in QueuedIds
    BY <1>1, <1>2 DEF Runs
  <1>5. RouteInv(d)
    BY <1>1 DEF RowsInv
  <1>6. Standing(d) = "scheduled"
    BY <1>4, <1>5 DEF Standing, RouteInv
  <1>7. \A some : Logged(d, some)' <=> Logged(d, some) \/ types \cap some # {}
    BY <1>3, <1>4, LoggedBatch
  <1>8. Standing(d)' = "intended"
    <2>1. ~Logged(d, {"EscalatedToHuman"})' /\ ~Settled(d)' /\ Intended(d)'
      BY <1>2, <1>4, <1>5, <1>7 DEF RouteInv, Settled, Intended
    <2>2. QED
      BY <2>1 DEF Standing
  <1>9. Promise!Run(r.trigger)
    <2>1. Batch(E, types, e, at, r.id) /\ "PaymentFailed" \notin types
      BY <1>1, <1>2, <1>3
    <2>2. /\ r.trigger \in Promise!Reported /\ phase[r.trigger] = Standing(r.id)
          /\ phase' = [phase EXCEPT ![r.trigger] = Standing(r.id)']
      BY <1>4, <2>1, StandingMoves
    <2>3. QED
      BY <1>1, <1>6, <1>8, <2>2 DEF Promise!Run, Promise!Move
  <1>10. r.trigger \in Promise!Reported
    BY <1>9 DEF Promise!Run, Promise!Move
  <1>11. QED
    BY <1>9, <1>10 DEF Promise!Next

LEMMA SettlesRefines ==
  ASSUME RowsInv, RowsInv', NEW r \in decisions, NEW at, NEW E, NEW types, Settles(r, at, E, types)
  PROVE  Promise!Next
  <1>1. PICK d, e : d = r.id /\ e = r.entity
    OBVIOUS
  <1>2. /\ Batch(E, types, e, at, d) /\ log' = log \cup E /\ decisions' = decisions /\ Intended(d) /\ ~Settled(d)
        /\ types \cap {"PaymentFailed", "EscalatedToHuman", "RetryScheduled", "ActionIntended"} = {}
        /\ types \cap Receipts # {}
    BY <1>1 DEF Settles
  <1>3. RouteInv(d)
    BY <1>1 DEF RowsInv
  <1>4. Standing(d) = "intended"
    BY <1>2, <1>3 DEF Standing, RouteInv
  <1>5. \A some : Logged(d, some)' <=> Logged(d, some) \/ types \cap some # {}
    BY <1>2, LoggedBatch
  <1>6. Standing(d)' = "settled"
    <2>1. types \cap {"EscalatedToHuman"} = {}
      BY <1>2
    <2>2. ~Logged(d, {"EscalatedToHuman"})' /\ Settled(d)'
      BY <1>2, <1>3, <1>5, <2>1 DEF RouteInv, Settled, Receipts
    <2>3. QED
      BY <2>2 DEF Standing
  <1>7. Promise!Settle(r.trigger)
    <2>1. Batch(E, types, e, at, r.id) /\ "PaymentFailed" \notin types
      BY <1>1, <1>2
    <2>2. /\ r.trigger \in Promise!Reported /\ phase[r.trigger] = Standing(r.id)
          /\ phase' = [phase EXCEPT ![r.trigger] = Standing(r.id)']
      BY <1>2, <2>1, StandingMoves
    <2>3. QED
      BY <1>1, <1>4, <1>6, <2>2 DEF Promise!Settle, Promise!Move
  <1>8. r.trigger \in Promise!Reported
    BY <1>7 DEF Promise!Settle, Promise!Move
  <1>9. QED
    BY <1>7, <1>8 DEF Promise!Next

LEMMA DecidesRefines ==
  ASSUME RowsInv, RowsInv', NEW w, NEW x \in Failures, NEW action,
         NEW type \in {"EscalatedToHuman", "ActionIntended", "RetryScheduled"}, NEW E, Decides(w, x, action, type, E)
  PROVE  Promise!Next
  <1>1. PICK f, d, e, at, types : f = x.n /\ d = commits + 1 /\ e = x.entity /\ at = clock[w] /\ types = {"FailureDiagnosed", type}
    OBVIOUS
  <1>2. PICK r : r = [id |-> d, trigger |-> f, entity |-> e, cause |-> x.detail, action |-> action]
    OBVIOUS
  <1>3. /\ ~Handled(f) /\ decisions' = decisions \cup {r} /\ Batch(E, types, e, at, d) /\ log' = log \cup E
    BY <1>1, <1>2 DEF Decides
  <1>4. FailureIds' = FailureIds /\ f \in FailureIds
    BY <1>1, <1>3 DEF FailureIds, Failures, Batch
  <1>5. PhaseOf(f) = "reported"
    BY <1>3, PhaseReported DEF ReportedPhases
  <1>6. PhaseOf(f)' = Standing(d)'
    <2>1. DecidedPhases'
      BY PhaseDecided, PTL
    <2>2. QED
      BY <1>2, <1>3, <2>1 DEF DecidedPhases
  <1>7. \A g \in FailureIds \ {f} : PhaseOf(g)' = PhaseOf(g)
    <2>1. \A s \in decisions : s.id # d
      BY <1>1 DEF RowsInv, DecisionInv, AllDecisions, Commits
    <2>2. \A i, some : i # d => (Logged(i, some)' <=> Logged(i, some))
      BY <1>3, LoggedBatch
    <2>3. QED
      BY <1>2, <1>3, <2>1, <2>2, PhaseStays
  <1>8. Standing(d)' \in {"escalated", "scheduled", "intended"}
    <2>1. \A some : Logged(d, some)' <=> types \cap some # {}
      BY <1>1, <1>3, LoggedBatch, NotYet
    <2>2. ~Settled(d)'
      BY <1>1, <2>1 DEF Settled
    <2>3. QED
      BY <2>2 DEF Standing
  <1>9. PICK to \in {"escalated", "scheduled", "intended"} : to = Standing(d)'
    BY <1>8
  <1>10. f \in Promise!Reported /\ phase[f] = PhaseOf(f) /\ phase' = [phase EXCEPT ![f] = to]
    BY <1>4, <1>6, <1>7, <1>9, PhaseMoves
  <1>11. Promise!Decide(f)
    BY <1>5, <1>9, <1>10 DEF Promise!Decide, Promise!Move
  <1>12. QED
    BY <1>10, <1>11 DEF Promise!Next

LEMMA InitRefines == Init => Promise!Init
  <1> SUFFICES ASSUME Init PROVE phase = << >>
    BY DEF Promise!Init
  <1>1. FailureIds = {}
    BY DEF Init, FailureIds, Failures
  <1>2. phase = [f \in {} |-> PhaseOf(f)]
    BY <1>1, PhaseIs
  <1>3. QED
    BY <1>2

LEMMA StepRefines == IInv /\ IInv' /\ [Next]_vars => [Promise!Next]_phase
  <1> SUFFICES ASSUME IInv, IInv', Effect PROVE [Promise!Next]_phase
    BY NextEffect
  <1>1. RowsInv /\ RowsInv'
    BY DEF IInv
  <1>2. QED
    BY <1>1, QuietRefines, ReportsRefines, DecidesRefines, RunsRefines, SettlesRefines DEF Effect

\* The loop implements Recovery: a failure is reported, gets one decision, which
\* goes to a human, to the queue or to the gateway, and is settled once, with
\* any number of drains (agent/decide.py), due scans and deaths in between.
THEOREM DecidedOnce == Spec => OneDecisionEach
  BY Invariance, InitRefines, StepRefines, PTL DEF Spec, OneDecisionEach, Promise!Spec

-----------------------------------------------------------------------------
(* No more money attempts pass the gates than the rules allow *)

\* Sessions of one process, a gateway that always answers, and no crash.
Undisturbed ==
  /\ \A w, o \in Worker : ProcessOf[w] = ProcessOf[o]
  /\ "unknown" \notin Answers
  /\ MaxAborts = 0

\* x is the intent of a charge the gates let through at once.
Claims(x, r) == x.type = "ActionIntended" /\ x.decision = r.id /\ r.action \in CHARGING_ACTIONS

\* The attempt is recorded, at the time of the intent; or a session is making it.
Attempted(x) == \E y \in log : y.type = "RetryAttempted" /\ y.decision = x.decision /\ y.at = x.at
UnderWay(x) == \E w \in Worker : pc[w] = "gateway" /\ cur[w] = x.decision /\ clock[w] = x.at

ClaimInv ==
  \A x \in log, r \in decisions : Claims(x, r) =>
    /\ Attempted(x) \/ UnderWay(x)
    /\ Settled(r.id) => Attempted(x)

LEMMA OutcomeSettles ==
  ASSUME IInv, NEW r \in decisions, NEW at, NEW answer, NEW proposed \in Details,
         CommitOutcome(r.id, at, answer, proposed)
  PROVE  Settled(r.id)'
  <1>1. PICK E, types : /\ Batch(E, types, r.entity, at, r.id)
                        /\ log' = log \cup E /\ types \cap Receipts # {}
    BY OutcomeCommitted DEF IInv
  <1>2. QED
    BY <1>1 DEF Batch, Settled, Logged, Receipts

\* A session that waits for the gateway goes on waiting until the outcome of
\* its decision is there.
LEMMA GatewayLasts ==
  ASSUME Undisturbed, IInv, [Next]_vars, NEW o \in Worker, NEW d, pc[o] = "gateway", cur[o] = d
  PROVE  \/ pc'[o] = "gateway" /\ cur'[o] = d /\ clock'[o] = clock[o]
         \/ Settled(d)'
  <1>1. SessionTypes
    BY DEF IInv, SessionInv
  <1> USE <1>1 DEF SessionTypes
  <1>2. CASE \/ Tick \/ UNCHANGED vars
             \/ \E e \in Entity, cause \in Cause : FailureArrives(e, cause)
             \/ \E e \in Entity, type \in Observed : Observe(e, type)
             \/ \E r \in decisions : Reconcile(r.id)
    BY <1>2 DEF Tick, FailureArrives, Observe, Reconcile, vars, tickVars
  <1>3. ASSUME NEW w \in Worker, Abort(w) PROVE FALSE
    BY <1>3 DEF Abort, Undisturbed
  <1>4. ASSUME NEW w \in Worker, Step(w), w # o
        PROVE  pc'[o] = "gateway" /\ cur'[o] = cur[o] /\ clock'[o] = clock[o]
    <2>1. \A p : Goto(w, p) => pc'[o] = pc[o]
      BY <1>4 DEF Goto
    <2>2. \A e, id : Lock(w, e, id) => cur'[o] = cur[o]
      BY <1>4 DEF Lock
    <2>3. \A c : clock' = [clock EXCEPT ![w] = c] => clock'[o] = clock[o]
      BY <1>4
    <2>4. Drop(w) => pc'[o] = pc[o] /\ cur'[o] = cur[o] /\ clock'[o] = clock[o]
      BY <2>1, <2>2, <2>3 DEF Drop, Unlock
    <2>15. \A f, rest : LeaveFailure(w, f, rest) => pc'[o] = pc[o] /\ cur'[o] = cur[o] /\ clock'[o] = clock[o]
      BY <2>1, <2>2, <2>4 DEF LeaveFailure, Unlock
    <2>5. CASE StartTick(w) \/ StartDue(w)
      BY <2>1, <2>3, <2>5 DEF StartTick, StartDue
    <2>6. CASE FinishTick(w) \/ Fold(w)
      BY <2>1, <2>2, <2>4, <2>6 DEF FinishTick, Fold, Unlock
    <2>7. ASSUME NEW f, Escalate(w, f) \/ (\E p : Intend(w, f, p)) \/ (\E delay : Schedule(w, f, delay))
          PROVE  pc'[o] = pc[o] /\ cur'[o] = cur[o]
      BY <2>1, <2>2, <2>7 DEF Escalate, Intend, Schedule
    <2>8. ASSUME NEW f, Gate1(w, f) \/ Skip(w, f)
          PROVE  pc'[o] = pc[o] /\ cur'[o] = cur[o] /\ clock'[o] = clock[o]
      BY <2>1, <2>2, <2>7, <2>8, <2>15 DEF Gate1, Skip
    <2>9. CASE Propose(w)
      BY <2>7, <2>9 DEF Propose
    <2>10. CASE GatewayReturns(w)
      BY <2>1, <2>10, <2>15 DEF GatewayReturns
    <2>11. ASSUME NEW i, Defer(w, i) \/ RunDue(w, i) \/ DueRaises(w, i)
           PROVE  pc'[o] = pc[o] /\ cur'[o] = cur[o] /\ clock'[o] = clock[o]
      BY <2>1, <2>2, <2>4, <2>11 DEF Defer, RunDue, DueRaises
    <2>12. CASE DueReturns(w)
      BY <2>1, <2>4, <2>12 DEF DueReturns
    <2>13. CASE MarkExecuted(w)
      BY <2>1, <2>2, <2>13 DEF MarkExecuted, Unlock
    <2>14. QED
      BY <1>4, <2>5, <2>6, <2>8, <2>9, <2>10, <2>11, <2>12, <2>13 DEF Step
  <1>5. ASSUME Step(o) PROVE Settled(d)'
    <2>1. GatewayReturns(o)
      BY <1>5 DEF Step, StartTick, StartDue, FinishTick, Gate1, Skip, IsNext, Propose, Fold, Defer, RunDue, DueRaises,
                  DueReturns, MarkExecuted
    <2>2. PICK r \in decisions : cur[o] = r.id /\ Intended(r.id)
      BY SameSession DEF IInv, Placed
    <2>3. PICK answer \in Answers :
            IF answer # "unknown" /\ Settled(cur[o])
            THEN LeaveFailure(o, Decision(cur[o]).trigger, todo[o]) /\ UNCHANGED dbVars
            ELSE /\ Goto(o, "fold")
                 /\ UNCHANGED <<on, cur, clock, todo, due, fired, decisions, queue>>
                 /\ IF answer = "unknown" THEN UNCHANGED <<log, commits>>
                    ELSE CommitOutcome(cur[o], clock[o], answer, IntentOf(cur[o]).detail)
      BY <2>1 DEF GatewayReturns
    <2>5. CASE Settled(d)
      <3>1. log' = log
        BY <2>3, <2>5 DEF Undisturbed, dbVars
      <3>2. QED
        BY <2>5, <3>1 DEF Settled, Logged
    <2>6. CASE ~Settled(d)
      <3>1. CommitOutcome(r.id, clock[o], answer, IntentOf(r.id).detail) /\ IntentOf(r.id).detail \in Details
        BY <2>2, <2>3, <2>6, IntentIs DEF Undisturbed
      <3>2. PICK at, proposed : at = clock[o] /\ proposed \in Details /\ CommitOutcome(r.id, at, answer, proposed)
        BY <3>1
      <3>3. Settled(r.id)'
        BY <2>2, <3>2, OutcomeSettles
      <3>4. QED
        BY <2>2, <3>3
    <2>7. QED
      BY <2>5, <2>6
  <1>6. CASE \E w \in Worker : Step(w)
    BY <1>4, <1>5, <1>6
  <1>7. QED
    BY <1>2, <1>3, <1>6 DEF Next

LEMMA AttemptStays ==
  ASSUME NEW x, Attempted(x), log \subseteq log'
  PROVE  Attempted(x)'
  BY DEF Attempted

\* A claim there was is settled by this step, or is as settled as it was.
LEMMA ClaimSettles ==
  ASSUME Undisturbed, IInv, IInv', ClaimInv, Effect, NEW x \in log, NEW r \in decisions, Claims(x, r),
         Settled(r.id)'
  PROVE  Attempted(x)'
  <1>1. log \subseteq log'
    BY DEF Effect, Quiet, Reports, Decides, Runs, Settles
  <1>2. CASE Settled(r.id)
    BY <1>1, <1>2, AttemptStays DEF ClaimInv
  <1>3. ASSUME ~Settled(r.id), NEW s \in decisions, NEW at, NEW E, NEW types, Settles(s, at, E, types)
        PROVE  Attempted(x)'
    <2>1. s = r
      <3>1. \A i, some : i # s.id => (Logged(i, some)' <=> Logged(i, some))
        BY <1>3, LoggedBatch DEF Settles
      <3>2. PICK i : i = r.id
        OBVIOUS
      <3>3. Settled(i)' /\ ~Settled(i)
        BY <1>3, <3>2
      <3>4. i = s.id
        BY <3>1, <3>3 DEF Settled
      <3>5. QED
        BY <3>2, <3>4 DEF IInv, RowsInv, DecisionInv
    <2>2. ActionOf(r.id) \in CHARGING_ACTIONS
      BY IInvBasics DEF ActionOf, Claims, CHARGING_ACTIONS
    <2>3. PICK y \in E : y.type = "RetryAttempted" /\ y.decision = r.id /\ y.at = at
      BY <1>3, <2>1, <2>2 DEF Settles, Batch
    <2>4. y \in log'
      BY <1>3, <2>3 DEF Settles
    <2>5. CASE at = x.at
      BY <2>3, <2>4, <2>5 DEF Attempted, Claims
    <2>6. CASE at = IntentOf(r.id).at
      <3>1. IntentOf(r.id) = x
        BY IntentIs DEF Claims, Intended, Logged, IInv, RowsInv, RouteInv
      <3>2. QED
        BY <2>5, <2>6, <3>1
    <2>7. CASE \E w \in Worker : pc[w] = "gateway" /\ cur[w] = r.id /\ at = clock[w]
      <3>1. PICK w \in Worker : pc[w] = "gateway" /\ cur[w] = r.id /\ at = clock[w]
        BY <2>7
      <3>2. CASE Attempted(x)
        BY <1>1, <3>2, AttemptStays
      <3>3. CASE UnderWay(x)
        <4>1. PICK o \in Worker : pc[o] = "gateway" /\ cur[o] = r.id /\ clock[o] = x.at
          BY <3>3 DEF UnderWay, Claims
        <4>2. /\ \E q \in decisions : cur[w] = q.id /\ on[w] = q.entity
              /\ \E q \in decisions : cur[o] = q.id /\ on[o] = q.entity
          BY <3>1, <4>1, SameSession DEF IInv, Placed
        <4>3. on[w] = r.entity /\ on[o] = r.entity
          <5>1. PICK q1 \in decisions : r.id = q1.id /\ on[w] = q1.entity
            BY <3>1, <4>2
          <5>2. PICK q2 \in decisions : r.id = q2.id /\ on[o] = q2.entity
            BY <4>1, <4>2
          <5>3. q1 = r /\ q2 = r
            BY <5>1, <5>2 DEF IInv, RowsInv, DecisionInv
          <5>4. QED
            BY <5>1, <5>2, <5>3
        <4>4. w = o
          BY <4>3, IInvBasics DEF IInv, SessionInv, Exclusive, Undisturbed
        <4>5. QED
          BY <2>5, <3>1, <4>1, <4>4
      <3>4. QED
        BY <3>2, <3>3 DEF ClaimInv
    <2>8. r.action # "RETRY_SCHEDULED"
      BY DEF Claims, CHARGING_ACTIONS
    <2>9. QED
      BY <1>3, <2>1, <2>5, <2>6, <2>7, <2>8 DEF Settles, Timely
  <1>4. ASSUME ~Settled(r.id), ~ \E s \in decisions : \E at, E, types : Settles(s, at, E, types) PROVE FALSE
    <2>1. PICK i : i = r.id
      OBVIOUS
    <2>2. ~Settled(i) /\ Settled(i)' /\ i # 0 /\ i # commits + 1
      BY <1>4, <2>1 DEF IInv, RowsInv, DecisionInv, AllDecisions, Commits
    <2>3. CASE Quiet
      BY <2>2, <2>3 DEF Quiet, Settled, Logged
    <2>4. ASSUME NEW type, NEW detail, NEW e, Reports(type, e, detail) PROVE FALSE
      BY <2>2, <2>4 DEF Reports, Event, Settled, Logged
    <2>5. ASSUME NEW w, NEW f, NEW action, NEW type, NEW E, Decides(w, f, action, type, E) PROVE FALSE
      <3>1. \A j, some : j # commits + 1 => (Logged(j, some)' <=> Logged(j, some))
        BY <2>5, LoggedBatch DEF Decides
      <3>2. QED
        BY <2>2, <3>1 DEF Settled
    <2>6. ASSUME NEW w, NEW q, Runs(w, q) PROVE FALSE
      BY <2>2, <2>6 DEF Runs, Event, Settled, Logged
    <2>7. QED
      BY <1>4, <2>3, <2>4, <2>5, <2>6 DEF Effect
  <1>5. QED
    BY <1>2, <1>3, <1>4

\* A claim of this step is under way.
LEMMA NewClaim ==
  ASSUME IInv, IInv', Effect, NEW x \in log', x \notin log, NEW r \in decisions', Claims(x, r)
  PROVE  UnderWay(x)' /\ ~Settled(r.id)'
  <1>1. x.type = "ActionIntended" /\ x.decision = r.id /\ r.id # 0
    BY DEF Claims, IInv, RowsInv, DecisionInv
  <1>2. ~Quiet
    BY DEF Quiet
  <1>3. ASSUME NEW type, NEW detail, NEW e, Reports(type, e, detail) PROVE FALSE
    BY <1>1, <1>3 DEF Reports, Event
  <1>4. ASSUME NEW w, NEW q \in decisions, Runs(w, q) PROVE FALSE
    <2>1. x.decision = q.id /\ r \in decisions
      BY <1>4 DEF Runs, Event
    <2>2. q = r
      <3>1. q.id = r.id
        BY <1>1, <2>1
      <3>2. QED
        BY <2>1, <3>1 DEF IInv, RowsInv, DecisionInv
    <2>3. q.action = "RETRY_SCHEDULED"
      <3>1. PICK s \in decisions : s.id = q.id /\ s.action = "RETRY_SCHEDULED"
        BY <1>4 DEF Runs, QueuedIds, IInv, RowsInv, QueueInv
      <3>2. QED
        BY <3>1 DEF IInv, RowsInv, DecisionInv
    <2>4. QED
      BY <2>2, <2>3 DEF Claims, CHARGING_ACTIONS
  <1>5. ASSUME NEW s, NEW at, NEW E, NEW types, Settles(s, at, E, types) PROVE FALSE
    BY <1>1, <1>5 DEF Settles, Batch
  <1>6. ASSUME NEW w \in Worker, NEW f, NEW action,
               NEW type \in {"EscalatedToHuman", "ActionIntended", "RetryScheduled"}, NEW E,
               Decides(w, f, action, type, E)
        PROVE  UnderWay(x)' /\ ~Settled(r.id)'
    <2>1. x \in E /\ x.type \in {"FailureDiagnosed", type} /\ x.decision = commits + 1 /\ x.at = clock[w]
      BY <1>6 DEF Decides, Batch
    <2>2. UnderWay(x)'
      BY <1>1, <1>6, <2>1 DEF Decides, UnderWay
    <2>3. PICK d : d = commits + 1
      OBVIOUS
    <2>4. ~Settled(d)'
      <3>1. \A some : Logged(d, some)' <=> {"FailureDiagnosed", type} \cap some # {}
        BY <1>6, <2>3, LoggedBatch, NotYet DEF Decides, IInv
      <3>2. QED
        BY <3>1 DEF Settled
    <2>5. QED
      BY <1>1, <2>1, <2>2, <2>3, <2>4
  <1>7. QED
    BY <1>2, <1>3, <1>4, <1>5, <1>6 DEF Effect

LEMMA ClaimsKept ==
  ASSUME Undisturbed, IInv, IInv', ClaimInv, [Next]_vars
  PROVE  ClaimInv'
  <1>1. Effect
    BY NextEffect
  <1>2. log \subseteq log' /\ decisions \subseteq decisions'
    BY <1>1 DEF Effect, Quiet, Reports, Decides, Runs, Settles
  <1>3. ASSUME NEW x \in log', NEW r \in decisions', Claims(x, r)
        PROVE  (Attempted(x)' \/ UnderWay(x)') /\ (Settled(r.id)' => Attempted(x)')
    <2>1. CASE x \notin log
      BY <1>1, <1>3, <2>1, NewClaim
    <2>2. CASE x \in log
      <3>1. r \in decisions
        <4>1. PICK s \in decisions : s.id = x.decision
          BY <1>3, <2>2 DEF Claims, IInv, RowsInv, EventInv, DecisionInv
        <4>2. s = r
          BY <1>2, <1>3, <4>1 DEF Claims, IInv, RowsInv, DecisionInv
        <4>3. QED
          BY <4>1, <4>2
      <3>2. Settled(r.id)' => Attempted(x)'
        BY <1>1, <1>3, <2>2, <3>1, ClaimSettles
      <3>3. CASE Attempted(x)
        BY <1>2, <3>2, <3>3, AttemptStays
      <3>4. CASE UnderWay(x)
        <4>1. PICK w \in Worker : pc[w] = "gateway" /\ cur[w] = x.decision /\ clock[w] = x.at
          BY <3>4 DEF UnderWay
        <4>2. CASE pc'[w] = "gateway" /\ cur'[w] = r.id /\ clock'[w] = clock[w]
          BY <1>3, <3>2, <4>1, <4>2 DEF UnderWay, Claims
        <4>3. CASE Settled(r.id)'
          BY <3>2, <4>3
        <4>4. cur[w] = r.id
          BY <1>3, <4>1 DEF Claims
        <4>5. QED
          BY <4>1, <4>2, <4>3, <4>4, GatewayLasts
      <3>5. QED
        BY <1>3, <2>2, <3>1, <3>3, <3>4 DEF ClaimInv
    <2>3. QED
      BY <2>1, <2>2
  <1>4. QED
    BY <1>3 DEF ClaimInv, Claims

\* The intents the gates let through, and the retries they queued.
Money(e) ==
  {x \in log : /\ x.entity = e /\ x.decision # 0
               /\ \/ x.type = "RetryScheduled"
                  \/ \E r \in decisions : Claims(x, r)}

MoneyIsPassed == \A e \in Entity : Passed(e) = Money(e)

LEMMA PassedIs == IInv => MoneyIsPassed
  <1> SUFFICES ASSUME IInv, NEW e \in Entity PROVE Passed(e) = Money(e)
    BY DEF MoneyIsPassed
  <1>1. ASSUME NEW x \in log, x.decision # 0, x.type = "ActionIntended"
        PROVE  (ActionOf(x.decision) \in CHARGING_ACTIONS /\ Decision(x.decision).action \in CHARGING_ACTIONS)
                 <=> \E r \in decisions : Claims(x, r)
    <2>1. PICK r \in decisions : r.id = x.decision
      BY <1>1 DEF IInv, RowsInv, EventInv
    <2>2. Decision(x.decision) = r
      BY <2>1, IInvBasics
    <2>3. \A s \in decisions : s.id = x.decision => s = r
      BY <2>1 DEF IInv, RowsInv, DecisionInv
    <2>4. r.action \in CHARGING_ACTIONS => ActionOf(x.decision) \in CHARGING_ACTIONS
      BY <2>2 DEF ActionOf, CHARGING_ACTIONS
    <2>5. QED
      BY <1>1, <2>1, <2>2, <2>3, <2>4 DEF Claims
  <1>2. \A x : x \in Passed(e) =>
          x \in log /\ x.entity = e /\ x.decision # 0 /\ x.type \in {"ActionIntended", "RetryScheduled"}
    BY DEF Passed, Charges, OwnEvents, EventsOf
  <1>3. \A x : x \in Money(e) =>
          x \in log /\ x.entity = e /\ x.decision # 0 /\ x.type \in {"ActionIntended", "RetryScheduled"}
    BY DEF Money, Claims
  <1>4. ASSUME NEW x \in log, x.entity = e, x.decision # 0, x.type = "ActionIntended"
        PROVE  x \in Passed(e) <=> x \in Money(e)
    BY <1>1, <1>4 DEF Passed, Charges, OwnEvents, EventsOf, Money
  <1>5. ASSUME NEW x \in log, x.entity = e, x.decision # 0, x.type = "RetryScheduled"
        PROVE  x \in Passed(e) <=> x \in Money(e)
    BY <1>5 DEF Passed, Charges, OwnEvents, EventsOf, Money
  <1>6. QED
    BY <1>2, <1>3, <1>4, <1>5

MoneyWithin == \A rule \in RetryCaps, e \in Entity : WithinLimit(rule, Money(e))

\* Every money attempt of an entity with nothing under way is counted.
LEMMA AttemptsAreCounted ==
  ASSUME IInv, ClaimInv, NEW e \in Entity, NEW since \in Int,
         \A x \in Money(e) : ~UnderWay(x)
  PROVE  /\ IsFiniteSet({y \in Money(e) : y.at > since})
         /\ Cardinality({y \in Money(e) : y.at > since}) <= Count(e, RETRY_EVENT_TYPES, "none", since)
         /\ Count(e, RETRY_EVENT_TYPES, "none", since) \in Nat
  <1>1. PICK S : S = {y \in Money(e) : y.at > since}
    OBVIOUS
  <1>2. PICK C : C = {y \in EventsOf(e, RETRY_EVENT_TYPES) : y.at > since /\ "none" \in {"none", y.detail}}
    OBVIOUS
  <1>3. Count(e, RETRY_EVENT_TYPES, "none", since) = Cardinality(C)
    BY <1>2 DEF Count
  <1>4. IsFiniteSet(C)
    <2>1. C \subseteq log /\ IsFiniteSet(log)
      BY <1>2 DEF EventsOf, IInv, RowsInv, EventInv
    <2>2. QED
      BY <2>1, FS_Subset
  <1>5. ASSUME NEW y \in S, y.type # "RetryScheduled"
        PROVE  \E z \in C : z.type = "RetryAttempted" /\ z.decision = y.decision
    <2>1. PICK r \in decisions : Claims(y, r)
      BY <1>1, <1>5 DEF Money
    <2>2. y \in log /\ y.entity = e /\ y.at > since /\ ~UnderWay(y)
      BY <1>1 DEF Money
    <2>3. PICK z \in log : z.type = "RetryAttempted" /\ z.decision = y.decision /\ z.at = y.at
      BY <2>1, <2>2 DEF ClaimInv, Attempted
    <2>4. y.decision # 0
      BY <1>1 DEF Money
    <2>5. PICK p \in decisions : p.id = y.decision /\ p.entity = y.entity
      BY <2>2, <2>4 DEF IInv, RowsInv, EventInv
    <2>6. PICK q \in decisions : q.id = z.decision /\ q.entity = z.entity
      BY <2>3, <2>4 DEF IInv, RowsInv, EventInv
    <2>7. p = q
      BY <2>3, <2>5, <2>6 DEF IInv, RowsInv, DecisionInv
    <2>8. z \in C
      BY <1>2, <2>2, <2>3, <2>5, <2>6, <2>7 DEF EventsOf, RETRY_EVENT_TYPES
    <2>9. QED
      BY <2>3, <2>8
  <1>6. PICK f : f = [y \in S |-> IF y.type = "RetryScheduled" THEN y
                                  ELSE CHOOSE z \in C : z.type = "RetryAttempted" /\ z.decision = y.decision]
    OBVIOUS
  <1>7. ASSUME NEW y \in S, y.type = "RetryScheduled"
        PROVE  f[y] = y /\ y \in C
    BY <1>1, <1>2, <1>6, <1>7 DEF Money, EventsOf, RETRY_EVENT_TYPES
  <1>8. ASSUME NEW y \in S, y.type # "RetryScheduled"
        PROVE  f[y] \in C /\ f[y].type = "RetryAttempted" /\ f[y].decision = y.decision
    BY <1>5, <1>6, <1>8
  <1>9. ASSUME NEW y \in S, NEW z \in S, f[y] = f[z] PROVE y = z
    <2>1. CASE y.type = "RetryScheduled" /\ z.type = "RetryScheduled"
      BY <1>7, <1>9, <2>1
    <2>2. CASE y.type = "RetryScheduled" /\ z.type # "RetryScheduled"
      BY <1>7, <1>8, <1>9, <2>2
    <2>3. CASE y.type # "RetryScheduled" /\ z.type = "RetryScheduled"
      BY <1>7, <1>8, <1>9, <2>3
    <2>4. CASE y.type # "RetryScheduled" /\ z.type # "RetryScheduled"
      <3>1. y.decision = z.decision
        BY <1>8, <1>9, <2>4
      <3>2. PICK r \in decisions : Claims(y, r)
        BY <1>1, <2>4 DEF Money
      <3>3. y \in log /\ z \in log /\ y.type = "ActionIntended" /\ z.type = "ActionIntended" /\ y.decision = r.id
        BY <1>1, <2>4, <3>2 DEF Money, Claims
      <3>4. RouteInv(r.id)
        BY <3>2 DEF IInv, RowsInv
      <3>5. QED
        BY <3>1, <3>3, <3>4 DEF RouteInv
    <2>5. QED
      BY <2>1, <2>2, <2>3, <2>4
  <1>10. f \in Injection(S, C)
    <2>1. \A y \in S : f[y] \in C
      BY <1>7, <1>8
    <2>2. f \in [S -> C]
      BY <1>6, <2>1
    <2>3. QED
      BY <1>9, <2>2 DEF Injection, IsInjective
  <1>11. IsFiniteSet(S) /\ Cardinality(S) <= Cardinality(C)
    BY <1>4, <1>10, FS_Injection
  <1>12. Cardinality(C) \in Nat
    BY <1>4, FS_CardinalityType
  <1>13. QED
    BY <1>1, <1>3, <1>11, <1>12

\* One more attempt, where fewer than the limit were counted.
LEMMA OneMore ==
  ASSUME NEW rule, rule.window \in Nat, rule.limit \in Nat, NEW M, NEW z, z \notin M,
         \A y \in M \cup {z} : y.at \in Int,
         WithinLimit(rule, M),
         IsFiniteSet({y \in M : y.at > z.at - rule.window}),
         Cardinality({y \in M : y.at > z.at - rule.window}) < rule.limit
  PROVE  WithinLimit(rule, M \cup {z})
  <1>1. PICK S : S = {y \in M : y.at > z.at - rule.window}
    OBVIOUS
  <1>2. IsFiniteSet(S \cup {z}) /\ Cardinality(S \cup {z}) <= rule.limit
    <2>1. IsFiniteSet(S) /\ Cardinality(S) < rule.limit /\ z \notin S
      BY <1>1
    <2>2. IsFiniteSet(S \cup {z}) /\ Cardinality(S \cup {z}) = Cardinality(S) + 1 /\ Cardinality(S) \in Nat
      BY <2>1, FS_AddElement, FS_CardinalityType
    <2>3. QED
      BY <2>1, <2>2
  <1>3. ASSUME NEW x \in M \cup {z}
        PROVE  Cardinality({y \in M \cup {z} : y.at > x.at - rule.window /\ y.at <= x.at}) <= rule.limit
    <2>1. PICK W : W = {y \in M \cup {z} : y.at > x.at - rule.window /\ y.at <= x.at}
      OBVIOUS
    <2>2. CASE z \in W
      <3>1. W \subseteq S \cup {z}
        BY <1>1, <2>1, <2>2
      <3>2. Cardinality(W) <= Cardinality(S \cup {z}) /\ Cardinality(W) \in Nat /\ Cardinality(S \cup {z}) \in Nat
        BY <1>2, <3>1, FS_Subset, FS_CardinalityType
      <3>3. QED
        BY <1>2, <2>1, <3>2
    <2>3. CASE z \notin W /\ x \in M
      <3>1. W = {y \in M : y.at > x.at - rule.window /\ y.at <= x.at}
        BY <2>1, <2>3
      <3>2. QED
        BY <2>1, <2>3, <3>1 DEF WithinLimit
    <2>4. CASE z \notin W /\ x = z
      <3>1. rule.window = 0
        BY <2>1, <2>4
      <3>2. W = {}
        BY <2>1, <2>4, <3>1
      <3>3. Cardinality(W) = 0
        BY <3>2, FS_EmptySet
      <3>4. QED
        BY <2>1, <3>3
    <2>5. QED
      BY <2>2, <2>3, <2>4
  <1>4. QED
    BY <1>3 DEF WithinLimit

\* Of an old event, whether the gates let it through stays what it was.
LEMMA OldMoney ==
  ASSUME IInv, IInv', log \subseteq log', decisions \subseteq decisions', NEW e, NEW x \in log
  PROVE  x \in Money(e)' <=> x \in Money(e)
  <1>1. ASSUME x.decision # 0
        PROVE  (\E r \in decisions' : Claims(x, r)) <=> (\E r \in decisions : Claims(x, r))
    <2>1. PICK s \in decisions : s.id = x.decision
      BY <1>1 DEF IInv, RowsInv, EventInv
    <2>2. \A r \in decisions' : Claims(x, r) => r = s
      BY <2>1 DEF Claims, IInv, RowsInv, DecisionInv
    <2>3. QED
      BY <2>1, <2>2
  <1>2. QED
    BY <1>1 DEF Money

\* An event of the step that is in no budget, or the one that is.
LEMMA NewMoney ==
  ASSUME IInv, IInv', Effect
  PROVE  \/ \A e \in Entity : Money(e)' = Money(e)
         \/ \E w \in Worker, x \in Failures, action \in MONEY_ATTEMPT_ACTIONS,
               z \in log' \ log :
              /\ Cleared(x.entity, x.detail, action, clock[w]) /\ NoneUnderWay(w, x.entity)
              /\ z.at = clock[w] /\ z.entity = x.entity
              /\ Money(x.entity)' = Money(x.entity) \cup {z}
              /\ \A e \in Entity \ {x.entity} : Money(e)' = Money(e)
  <1>1. log \subseteq log' /\ decisions \subseteq decisions'
    BY DEF Effect, Quiet, Reports, Decides, Runs, Settles
  <1>2. \A e : \A x \in log : x \in Money(e)' <=> x \in Money(e)
    BY <1>1, OldMoney
  <1>3. \A e : Money(e) \subseteq log /\ Money(e)' \subseteq log'
    BY DEF Money
  <1>4. ASSUME \A x \in log' : x \notin log => \A e \in Entity : x \notin Money(e)'
        PROVE  \A e \in Entity : Money(e)' = Money(e)
    BY <1>1, <1>2, <1>3, <1>4
  <1>5. \A x \in log', r \in decisions' : x \notin log /\ Claims(x, r) => UnderWay(x)' /\ ~Settled(r.id)'
    BY NewClaim
  <1>6. CASE Quiet
    BY <1>4, <1>6 DEF Quiet
  <1>7. ASSUME NEW type, NEW detail, NEW e, Reports(type, e, detail)
        PROVE  \A g \in Entity : Money(g)' = Money(g)
    <2>1. \A x \in log' : x \notin log => x.decision = 0
      BY <1>7 DEF Reports, Event
    <2>2. QED
      BY <1>4, <2>1 DEF Money
  <1>8. ASSUME NEW w, NEW q \in decisions, Runs(w, q)
        PROVE  \A g \in Entity : Money(g)' = Money(g)
    <2>1. PICK s \in decisions : s.id = q.id /\ s.action = "RETRY_SCHEDULED"
      BY <1>8 DEF Runs, QueuedIds, IInv, RowsInv, QueueInv
    <2>2. q.action = "RETRY_SCHEDULED"
      BY <2>1 DEF IInv, RowsInv, DecisionInv
    <2>3. \A x \in log' : x \notin log => x.type = "ActionIntended" /\ x.decision = q.id
      BY <1>8 DEF Runs, Event
    <2>4. \A r \in decisions' : r.id = q.id => r = q
      BY <1>1 DEF IInv, RowsInv, DecisionInv
    <2>5. \A x \in log', r \in decisions' : x \notin log => ~Claims(x, r)
      BY <2>2, <2>3, <2>4 DEF Claims, CHARGING_ACTIONS
    <2>6. QED
      BY <1>4, <2>3, <2>5 DEF Money
  <1>9. ASSUME NEW r \in decisions, NEW at, NEW E, NEW types, Settles(r, at, E, types)
        PROVE  \A g \in Entity : Money(g)' = Money(g)
    <2>1. \A x \in log' : x \notin log => x.type \notin {"ActionIntended", "RetryScheduled"}
      BY <1>9 DEF Settles, Batch
    <2>2. QED
      BY <1>4, <2>1 DEF Money, Claims
  <1>10. ASSUME NEW w \in Worker, NEW x \in Failures, NEW action \in LEGAL_ACTIONS,
                NEW type \in {"EscalatedToHuman", "ActionIntended", "RetryScheduled"}, NEW E,
                Decides(w, x, action, type, E)
         PROVE  \/ \A e \in Entity : Money(e)' = Money(e)
                \/ /\ action \in MONEY_ATTEMPT_ACTIONS /\ type # "EscalatedToHuman"
                   /\ \E z \in log' \ log :
                        /\ z.at = clock[w] /\ z.entity = x.entity
                        /\ Money(x.entity)' = Money(x.entity) \cup {z}
                        /\ \A e \in Entity \ {x.entity} : Money(e)' = Money(e)
    <2>1. PICK r : r = [id |-> commits + 1, trigger |-> x.n, entity |-> x.entity, cause |-> x.detail,
                        action |-> action]
      OBVIOUS
    <2>2. decisions' = decisions \cup {r} /\ log' = log \cup E
      BY <1>10, <2>1 DEF Decides
    <2>3. \A y \in E : /\ y.n = commits + 1 /\ y.entity = x.entity /\ y.at = clock[w]
                       /\ y.decision = commits + 1 /\ y.type \in {"FailureDiagnosed", type}
      BY <1>10 DEF Decides, Batch
    <2>4. PICK z \in E : z.type = type
      BY <1>10 DEF Decides, Batch
    <2>5. \A y \in E : y.type = type => y = z
      BY <1>10, <2>4 DEF Decides, Batch
    <2>6. commits + 1 # 0 /\ \A y \in log : y.n # commits + 1
      BY DEF IInv, RowsInv, EventInv
    <2>7. z \in log' \ log /\ \A y \in log' : y \notin log => y \in E
      BY <2>2, <2>3, <2>4, <2>6
    <2>8. \A y \in E, s \in decisions' : Claims(y, s) => s = r
      <3>1. \A s \in decisions' : s.id = r.id => s = r
        BY <2>2 DEF IInv, RowsInv, DecisionInv
      <3>2. r.id = commits + 1
        BY <2>1
      <3>3. QED
        BY <2>3, <3>1, <3>2 DEF Claims
    <2>9. \A e : \A y \in E : y \in Money(e)' =>
            /\ e = x.entity /\ y = z
            /\ type = "RetryScheduled" \/ (type = "ActionIntended" /\ action \in CHARGING_ACTIONS)
      <3>1. \A e : \A y \in E : y \in Money(e)' =>
              /\ e = x.entity
              /\ y.type = "RetryScheduled" \/ (y.type = "ActionIntended" /\ action \in CHARGING_ACTIONS)
        BY <2>1, <2>3, <2>8 DEF Money, Claims
      <3>2. QED
        BY <2>3, <2>5, <3>1
    <2>10. CASE z \notin Money(x.entity)'
      <3>1. \A y \in log' : y \notin log => \A e \in Entity : y \notin Money(e)'
        BY <2>7, <2>9, <2>10
      <3>2. QED
        BY <1>4, <3>1
    <2>11. CASE z \in Money(x.entity)'
      <3>1. type = "RetryScheduled" \/ (type = "ActionIntended" /\ action \in CHARGING_ACTIONS)
        BY <2>4, <2>9, <2>11
      <3>2. action \in MONEY_ATTEMPT_ACTIONS /\ type # "EscalatedToHuman"
        BY <1>10, <3>1 DEF Decides, MONEY_ATTEMPT_ACTIONS, CHARGING_ACTIONS
      <3>3. Money(x.entity)' = Money(x.entity) \cup {z}
        BY <1>1, <1>2, <1>3, <2>7, <2>9, <2>11
      <3>4. \A e \in Entity \ {x.entity} : Money(e)' = Money(e)
        BY <1>1, <1>2, <1>3, <2>7, <2>9
      <3>5. z.at = clock[w] /\ z.entity = x.entity
        BY <2>3, <2>4
      <3>6. QED
        BY <2>7, <3>2, <3>3, <3>4, <3>5
    <2>12. QED
      BY <2>10, <2>11
  <1>11. ASSUME NEW w \in Worker, NEW x \in Failures, NEW action \in LEGAL_ACTIONS,
                NEW type \in {"EscalatedToHuman", "ActionIntended", "RetryScheduled"}, NEW E,
                Decides(w, x, action, type, E), type # "EscalatedToHuman"
         PROVE  Cleared(x.entity, x.detail, action, clock[w]) /\ NoneUnderWay(w, x.entity)
    BY <1>11 DEF Decides
  <1>12. QED
    BY <1>6, <1>4, <1>7, <1>8, <1>9, <1>10, <1>11 DEF Effect

LEMMA MoneyKept ==
  ASSUME Undisturbed, IInv, IInv', ClaimInv, MoneyWithin, Effect
  PROVE  MoneyWithin'
  <1>1. CASE \A e \in Entity : Money(e)' = Money(e)
    BY <1>1 DEF MoneyWithin, WithinLimit
  <1>2. ASSUME NEW w \in Worker, NEW x \in Failures, NEW action \in MONEY_ATTEMPT_ACTIONS, NEW z \in log' \ log,
               Cleared(x.entity, x.detail, action, clock[w]), NoneUnderWay(w, x.entity),
               z.at = clock[w], z.entity = x.entity,
               Money(x.entity)' = Money(x.entity) \cup {z},
               \A e \in Entity \ {x.entity} : Money(e)' = Money(e)
        PROVE  MoneyWithin'
    <2>1. PICK e : e = x.entity
      OBVIOUS
    <2>2. e \in Entity /\ z.at \in Int /\ z \notin Money(e)
      BY <1>2, <2>1, IInvBasics, SameSession DEF IInv, Money, RowsInv
    <2>3. \A y \in Money(e) \cup {z} : y.at \in Int
      BY <2>2 DEF Money, IInv, RowsInv, EventInv
    <2>4. \A y \in Money(e) : ~UnderWay(y)
      <3>1. ASSUME NEW y \in Money(e), NEW o \in Worker, pc[o] = "gateway", cur[o] = y.decision PROVE FALSE
        <4>1. on[o] # e
          BY <1>2, <2>1, <3>1 DEF NoneUnderWay, Undisturbed
        <4>2. PICK r \in decisions : cur[o] = r.id /\ on[o] = r.entity
          BY <3>1, SameSession DEF IInv, Placed
        <4>3. y \in log /\ y.entity = e /\ y.decision # 0
          BY <3>1 DEF Money
        <4>4. PICK q \in decisions : q.id = y.decision /\ q.entity = y.entity
          BY <4>3 DEF IInv, RowsInv, EventInv
        <4>5. r = q
          BY <3>1, <4>2, <4>4 DEF IInv, RowsInv, DecisionInv
        <4>6. QED
          BY <4>1, <4>2, <4>3, <4>4, <4>5
      <3>2. QED
        BY <3>1 DEF UnderWay
    <2>5. ASSUME NEW rule \in RetryCaps
          PROVE  WithinLimit(rule, Money(e) \cup {z})
      <3>1. rule.window \in Nat /\ rule.limit \in Nat
        BY AgentAssumption DEF RetryCaps, Rule
      <3>2. PICK since \in Int : since = z.at - rule.window
        BY <2>2, <3>1
      <3>3. /\ IsFiniteSet({y \in Money(e) : y.at > since})
            /\ Cardinality({y \in Money(e) : y.at > since}) <= Count(e, RETRY_EVENT_TYPES, "none", since)
            /\ Count(e, RETRY_EVENT_TYPES, "none", since) \in Nat
        BY <2>2, <2>4, AttemptsAreCounted
      <3>4. ~(Count(e, RETRY_EVENT_TYPES, "none", since) >= rule.limit)
        BY <1>2, <2>1, <3>2 DEF Cleared
      <3>5. Cardinality({y \in Money(e) : y.at > since}) \in Nat
        BY <3>3, FS_CardinalityType
      <3>6. Cardinality({y \in Money(e) : y.at > since}) < rule.limit
        BY <3>1, <3>3, <3>4, <3>5
      <3>7. WithinLimit(rule, Money(e))
        BY <2>2 DEF MoneyWithin
      <3>8. PICK M : M = Money(e)
        OBVIOUS
      <3>9. WithinLimit(rule, M \cup {z})
        BY <2>2, <2>3, <3>1, <3>2, <3>3, <3>6, <3>7, <3>8, OneMore
      <3>10. QED
        BY <3>8, <3>9
    <2>6. ASSUME NEW rule \in RetryCaps, NEW g \in Entity
          PROVE  WithinLimit(rule, Money(g)')
      <3>1. CASE g = x.entity
        BY <1>2, <2>1, <2>5, <3>1 DEF WithinLimit
      <3>2. CASE g # x.entity
        <4>1. Money(g)' = Money(g)
          BY <1>2, <3>2
        <4>2. WithinLimit(rule, Money(g))
          BY DEF MoneyWithin
        <4>3. QED
          BY <4>1, <4>2 DEF WithinLimit
      <3>3. QED
        BY <3>1, <3>2
    <2>7. QED
      BY <2>6 DEF MoneyWithin, WithinLimit
  <1>3. QED
    BY <1>1, <1>2, NewMoney

LEMMA BudgetHolds ==
  ASSUME Undisturbed
  PROVE  Spec => [](ClaimInv /\ MoneyWithin)
  <1>1. Init => ClaimInv /\ MoneyWithin
    BY DEF Init, ClaimInv, MoneyWithin, WithinLimit, Money
  <1>2. IInv /\ IInv' /\ ClaimInv /\ MoneyWithin /\ [Next]_vars => ClaimInv' /\ MoneyWithin'
    BY NextEffect, ClaimsKept, MoneyKept
  <1>3. QED
    BY <1>1, <1>2, Invariance, PTL DEF Spec

LEMMA BudgetMeans == IInv /\ MoneyWithin => GatedAttemptsWithinLimit
  BY PassedIs DEF MoneyIsPassed, MoneyWithin, GatedAttemptsWithinLimit

\* In one process with a gateway that answers, the charges that passed Gate-2 and
\* the retries it let into the queue never exceed the limit of a retry rule within
\* its window: the entity lock (core/locks.py) is held from the count of the
\* attempts to the commit that records the next.
THEOREM BudgetIsKept ==
  ASSUME Undisturbed
  PROVE  Spec => []GatedAttemptsWithinLimit
  BY Invariance, BudgetHolds, BudgetMeans, PTL
====
