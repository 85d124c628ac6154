------------------------------- MODULE Intake -------------------------------
(***************************************************************************)
(* How events come in from outside: the webhook (surfaces/webhook.py) and  *)
(* record_event of the MCP server (surfaces/mcp_server.py).  A sender      *)
(* repeats a delivery until it is acknowledged, also while an earlier copy *)
(* is still being handled.  What is rejected before it is looked up (a bad *)
(* signature, a body that cannot be read, no entity) changes nothing and   *)
(* is left out.  Ledger has the chain; here an event is its source id.     *)
(***************************************************************************)
EXTENDS Integers

CONSTANTS
  Delivery,     \* via, merchant, entity, id (or NoId) and created_at of each
  NoId,
  Handler,      \* requests that can be handled at the same time
  MaxLost       \* bound: handlers that fail and answers that are lost

ASSUME IntakeAssumption == MaxLost \in Nat

VARIABLES
  captured,     \* the committed events: a source id, and the delivery it is from
  handler,      \* how far each handler is, and with which delivery
  acknowledged, \* the deliveries whose sender has got its answer
  lost          \* how often a handler failed or an answer was lost

intakeVars == <<captured, handler, acknowledged, lost>>

Resting == [at |-> "idle", delivery |-> NoId]

IntakeInit ==
  /\ captured = {}
  /\ handler = [h \in Handler |-> Resting]
  /\ acknowledged = {}
  /\ lost = 0

\* The sender's own id, else the event name (here one), entity and time.  The
\* merchant is no part of it.
source_event_id(d) ==
  IF d.id # NoId THEN <<"id", d.id>> ELSE <<"payment.failed", d.entity, d.created_at>>

Known(d) == \E row \in captured : row.source = source_event_id(d)

At(h, step) == [handler EXCEPT ![h].at = step]
Rest(h) == [handler EXCEPT ![h] = Resting]

Acknowledge(h) ==
  /\ acknowledged' = acknowledged \cup {handler[h].delivery}
  /\ handler' = Rest(h)

-----------------------------------------------------------------------------

\* The sender tries, or tries again.
Receive(h, d) ==
  /\ handler[h] = Resting
  /\ d \notin acknowledged
  /\ handler' = [handler EXCEPT ![h] = [at |-> "lookup", delivery |-> d]]
  /\ UNCHANGED <<captured, acknowledged, lost>>

\* A duplicate is acknowledged: 200, or "exactly-once held".
LookUp(h) ==
  /\ handler[h].at = "lookup"
  /\ IF Known(handler[h].delivery) THEN Acknowledge(h)
     ELSE handler' = At(h, "insert") /\ UNCHANGED acknowledged
  /\ UNCHANGED <<captured, lost>>

\* The INSERT waits for one of the same source id that is not committed yet.
\* If it comes second there is an IntegrityError, which the webhook takes for a
\* redelivery, and the MCP server answers with an error.
InsertRow(h) ==
  LET d == handler[h].delivery IN
  /\ handler[h].at = "insert"
  /\ \A other \in Handler :
       handler[other].at = "commit" => source_event_id(handler[other].delivery) # source_event_id(d)
  /\ IF ~Known(d) THEN handler' = At(h, "commit") /\ UNCHANGED acknowledged
     ELSE IF d.via = "webhook" THEN Acknowledge(h)
     ELSE handler' = Rest(h) /\ UNCHANGED acknowledged
  /\ UNCHANGED <<captured, lost>>

CommitRow(h) ==
  LET d == handler[h].delivery IN
  /\ handler[h].at = "commit"
  /\ captured' = captured \cup {[source |-> source_event_id(d), of |-> d]}
  /\ handler' = At(h, "answer")
  /\ UNCHANGED <<acknowledged, lost>>

Answer(h) ==
  /\ handler[h].at = "answer"
  /\ Acknowledge(h)
  /\ UNCHANGED <<captured, lost>>

\* Every error of the database is taken for a redelivery.
HandlerFails_WithAnswer(h) ==
  /\ handler[h] # Resting
  /\ lost < MaxLost
  /\ lost' = lost + 1
  /\ Acknowledge(h)
  /\ UNCHANGED captured

\* The database is locked or gone, the process dies, or the answer is lost: the
\* transaction is rolled back if it was not committed, and there is no 200.
HandlerFails(h) ==
  /\ handler[h] # Resting
  /\ lost < MaxLost
  /\ lost' = lost + 1
  /\ handler' = Rest(h)
  /\ UNCHANGED <<captured, acknowledged>>

\* What senders and handlers do if nothing goes wrong.
IntakeProgress ==
  \E h \in Handler :
    \/ \E d \in Delivery : Receive(h, d)
    \/ LookUp(h) \/ InsertRow(h) \/ CommitRow(h) \/ Answer(h)

IntakeNext == IntakeProgress \/ \E h \in Handler : HandlerFails(h)

-----------------------------------------------------------------------------

IntakeType ==
  /\ captured \subseteq [source : {source_event_id(d) : d \in Delivery}, of : Delivery]
  /\ handler \in [Handler -> [at : {"idle", "lookup", "insert", "commit", "answer"},
                              delivery : Delivery \cup {NoId}]]
  /\ acknowledged \subseteq Delivery
  /\ lost \in 0..MaxLost

\* No other delivery has the same source id.
Distinct(d) == \A other \in Delivery \ {d} : source_event_id(other) # source_event_id(d)

\* A sender that keeps trying gets its answer, and then the ledger has its
\* event, whoever raced with it and whatever failed.  Of deliveries that share
\* a source id, one is recorded for all of them.
EveryDeliveryCaptured ==
  \A d \in Delivery :
    (\E h \in Handler : handler[h].delivery = d) ~>
      /\ d \in acknowledged
      /\ \E row \in captured :
           IF Distinct(d) THEN row.of = d ELSE row.source = source_event_id(d)

=============================================================================
