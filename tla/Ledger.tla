------------------------------- MODULE Ledger -------------------------------
(***************************************************************************)
(* The append protocol of core/ledger.py.  record_event looks for the      *)
(* source id, reads the hash of the entity's last event, and inserts a row *)
(* that carries this hash as its prev_hash; the caller commits.  The three *)
(* statements are separate round trips to the database, and sessions       *)
(* interleave between them.                                                *)
(*                                                                         *)
(* A hash stands for the one event it was computed from, so prev_hash is   *)
(* the id of that event, 0 for the genesis of a chain.                     *)
(***************************************************************************)
EXTENDS Integers

CONSTANTS
  Session,    \* database sessions that append
  Entity,     \* (merchant, entity) pairs
  Source,     \* source_event_ids
  NoSource,   \* an event recorded without one
  NoEntity,   \* no transaction open
  EventType,
  Locked,     \* the sessions that append under the entity lock of core/locks.py
  Serial,     \* SQLite: one writing transaction; otherwise PostgreSQL
  MaxId       \* bound: ids handed out

Id == 1..MaxId

ASSUME LedgerAssumption ==
  /\ NoEntity \notin Entity
  /\ NoSource \notin Source
  /\ "none" \notin EventType
  /\ Locked \subseteq Session
  /\ Serial \in BOOLEAN
  /\ MaxId \in Nat

VARIABLES
  event,      \* the rows of the events table, by id
  lastId,     \* the id sequence
  pc, on, request, head,   \* the transaction of each session
  writing     \* sessions whose transaction has written something

txVars == <<pc, on, request, head>>
vars == <<event, lastId, pc, on, request, head, writing>>

Free == [status |-> "free"]
NoRequest == [source |-> NoSource, type |-> "none"]
Rows == [status : {"flushed", "committed"}, by : Session, entity : Entity,
         source : Source \cup {NoSource}, type : EventType, prev : Id \cup {0}]

TypeInvariant ==
  /\ event \in [Id -> Rows \cup {Free}]
  /\ lastId \in Id \cup {0}
  /\ pc \in [Session -> {"idle", "ready", "checked", "linked"}]
  /\ on \in [Session -> Entity \cup {NoEntity}]
  /\ request \in [Session -> [source : Source \cup {NoSource}, type : EventType] \cup {NoRequest}]
  /\ head \in [Session -> Id \cup {0}]
  /\ writing \subseteq Session
  /\ \A s \in Session : /\ pc[s] = "idle" <=> on[s] = NoEntity
                        /\ pc[s] \in {"checked", "linked"} <=> request[s] # NoRequest
                        /\ head[s] # 0 => pc[s] = "linked"

Init ==
  /\ event = [i \in Id |-> Free]
  /\ lastId = 0
  /\ pc = [s \in Session |-> "idle"]
  /\ on = [s \in Session |-> NoEntity]
  /\ request = [s \in Session |-> NoRequest]
  /\ head = [s \in Session |-> 0]
  /\ writing = {}

-----------------------------------------------------------------------------
(* Reading the table *)

Used == {i \in Id : event[i] # Free}
Committed == {i \in Id : event[i].status = "committed"}
Own(s) == {i \in Id : event[i].status = "flushed" /\ event[i].by = s}
Visible(s) == Committed \cup Own(s)

EventsOf(e, ids) == {i \in ids : event[i].entity = e}

\* n is the greatest of the ids, 0 when there is none.
IsLast(n, ids) == /\ n \in ids \/ (n = 0 /\ ids = {})
                  /\ \A i \in ids : i <= n

Taken(source, ids) == source # NoSource /\ \E i \in ids : event[i].source = source

-----------------------------------------------------------------------------
(* A transaction.  A definition named X_Without..., or X_With..., just before  *)
(* a definition X is a plausible slip in X that one of the properties below    *)
(* must catch.                                                                 *)

\* SQLite waits for the one writer; PostgreSQL lets everyone write.
MayWrite(s) == Serial => writing \subseteq {s}

\* The mutex is taken for the append only, not for the whole transaction.
Begin_WithoutLock(s, e) ==
  /\ pc[s] = "idle"
  /\ pc' = [pc EXCEPT ![s] = "ready"]
  /\ on' = [on EXCEPT ![s] = e]
  /\ \/ UNCHANGED writing
     \/ MayWrite(s) /\ writing' = writing \cup {s}
  /\ UNCHANGED <<event, lastId, request, head>>

\* A caller starts to append about an entity, the pipeline, the scheduler and
\* the reconciler under the entity lock, the intake without.  The pipeline has
\* already flushed its decision row.
Begin(s, e) ==
  /\ pc[s] = "idle"
  /\ s \in Locked => \A other \in Locked : on[other] # e
  /\ pc' = [pc EXCEPT ![s] = "ready"]
  /\ on' = [on EXCEPT ![s] = e]
  /\ \/ UNCHANGED writing
     \/ MayWrite(s) /\ writing' = writing \cup {s}
  /\ UNCHANGED <<event, lastId, request, head>>

\* The session keeps the hash it read for its next append.
Finish_WithStaleHead(s) ==
  /\ pc' = [pc EXCEPT ![s] = "idle"]
  /\ on' = [on EXCEPT ![s] = NoEntity]
  /\ request' = [request EXCEPT ![s] = NoRequest]
  /\ writing' = writing \ {s}
  /\ UNCHANGED head

\* The transaction is over.
Finish(s) ==
  /\ pc' = [pc EXCEPT ![s] = "idle"]
  /\ on' = [on EXCEPT ![s] = NoEntity]
  /\ request' = [request EXCEPT ![s] = NoRequest]
  /\ head' = [head EXCEPT ![s] = 0]
  /\ writing' = writing \ {s}

\* The caller swallows the error and commits what it can.
Rollback_WithLeftovers(s) ==
  /\ \E kept \in SUBSET Own(s) :
       event' = [i \in Id |-> IF i \in kept THEN [event[i] EXCEPT !.status = "committed"]
                              ELSE IF i \in Own(s) THEN Free ELSE event[i]]
  /\ UNCHANGED lastId
  /\ Finish(s)

\* Every row of the transaction vanishes.  Ids handed out by a sequence do not
\* come back.
Rollback(s) ==
  /\ event' = [i \in Id |-> IF i \in Own(s) THEN Free ELSE event[i]]
  /\ UNCHANGED lastId
  /\ Finish(s)

\* record_event, first statement: is the source id known?  If so it raises
\* DuplicateEventError, and the caller rolls back.
FindSource(s, source, type) ==
  /\ pc[s] = "ready"
  /\ \/ Taken(source, Visible(s)) /\ Rollback(s)
     \/ /\ ~Taken(source, Visible(s))
        /\ pc' = [pc EXCEPT ![s] = "checked"]
        /\ request' = [request EXCEPT ![s] = [source |-> source, type |-> type]]
        /\ UNCHANGED <<event, lastId, on, head, writing>>

\* Second statement: the hash of the entity's last event.
ReadHead(s) ==
  /\ pc[s] = "checked"
  /\ \E last \in Id \cup {0} :
       /\ IsLast(last, EventsOf(on[s], Visible(s)))
       /\ head' = [head EXCEPT ![s] = last]
  /\ pc' = [pc EXCEPT ![s] = "linked"]
  /\ UNCHANGED <<event, lastId, on, request, writing>>

\* SQLite takes the rowid after the greatest in the table, PostgreSQL the next
\* value of a sequence.
NewId(n) == IF Serial THEN IsLast(n - 1, Used) ELSE n = lastId + 1

\* What an INSERT stores.
NewRow(s) == [status |-> "flushed", by |-> s, entity |-> on[s], source |-> request[s].source,
              type |-> request[s].type, prev |-> head[s]]

Insert(s) ==
  /\ \E n \in Id : /\ NewId(n)
                   /\ event' = [event EXCEPT ![n] = NewRow(s)]
                   /\ lastId' = n
  /\ pc' = [pc EXCEPT ![s] = "ready"]
  /\ request' = [request EXCEPT ![s] = NoRequest]
  /\ head' = [head EXCEPT ![s] = 0]
  /\ writing' = writing \cup {s}
  /\ UNCHANGED on

\* The column is not UNIQUE: looking before writing is all there is.
Flush_WithoutUnique(s) == pc[s] = "linked" /\ MayWrite(s) /\ Insert(s)

\* A row with the same source id is overwritten.
Flush_WithUpsert(s) ==
  /\ pc[s] = "linked"
  /\ MayWrite(s)
  /\ \/ \E i \in Committed :
          /\ Taken(request[s].source, {i})
          /\ event' = [event EXCEPT ![i] = [NewRow(s) EXCEPT !.status = "committed"]]
          /\ UNCHANGED lastId
          /\ Finish(s)
     \/ ~Taken(request[s].source, Used) /\ Insert(s)

\* Third statement: the INSERT.  The UNIQUE source_event_id lets it wait for a
\* concurrent row that is not committed yet, and refuses it after a committed
\* one: an IntegrityError, and the transaction is rolled back.
Flush(s) ==
  /\ pc[s] = "linked"
  /\ MayWrite(s)
  /\ \/ Taken(request[s].source, Committed) /\ Rollback(s)
     \/ ~Taken(request[s].source, Used) /\ Insert(s)

\* The caller commits everything it recorded.
Commit(s) ==
  /\ pc[s] = "ready"
  /\ event' = [i \in Id |-> IF i \in Own(s) THEN [event[i] EXCEPT !.status = "committed"]
                             ELSE event[i]]
  /\ UNCHANGED lastId
  /\ Finish(s)

\* An exception, a deadlock or lock timeout, or a crash, at any point.
Abort(s) == pc[s] # "idle" /\ Rollback(s)

Next == \E s \in Session :
          \/ \E e \in Entity : Begin(s, e)
          \/ \E source \in Source \cup {NoSource}, type \in EventType : FindSource(s, source, type)
          \/ ReadHead(s) \/ Flush(s) \/ Commit(s) \/ Abort(s)

Spec == Init /\ [][Next]_vars

-----------------------------------------------------------------------------
(* Safety *)

\* A delivery that arrives twice, also through two sessions that both looked
\* before either wrote, leaves one event.
SourceOnce ==
  \A i, j \in Committed : event[i].source = event[j].source /\ i # j => event[i].source = NoSource

\* An event is chained to an earlier event of its own entity that is itself in
\* the ledger: no crash or rollback leaves a link to a row that vanished.
LinkedToRecorded ==
  \A i \in Committed : event[i].prev # 0 =>
    /\ event[i].prev < i
    /\ event[i].prev \in EventsOf(event[i].entity, Committed)

\* verify_chain: in id order, each event carries the hash of the one before.
Verified(e) ==
  \A i \in EventsOf(e, Committed) :
    IsLast(event[i].prev, {j \in EventsOf(e, Committed) : j < i})

\* Sessions that all hold the entity lock never break a chain, on either
\* database.
ChainVerified == \A e \in Entity : Verified(e)

\* The committed rows, as other components see them.
log == {[id |-> i, entity |-> event[i].entity, type |-> event[i].type] : i \in Committed}

Promise == INSTANCE EventLog WITH Entity <- Entity, EventType <- EventType, MaxId <- MaxId, Serial <- Serial, log <- log

\* Committed events never change or vanish, and on SQLite they appear in the
\* order of their ids, which the watermark of the fold relies on.
AppendOnly == Promise!Spec

=============================================================================
