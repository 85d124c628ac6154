-------------------------------- MODULE Agent --------------------------------
(***************************************************************************)
(* The agent loop of agent/decide.py, with the gates of core/gate.py, the  *)
(* queue of agent/execute.py and its due scan.  A tick lists the failures  *)
(* nobody has diagnosed and the clock, takes them one by one through       *)
(* Gate-1, the model and Gate-2 to a committed decision, executes it, and  *)
(* folds; then it lists the retries that are due and executes those.       *)
(* Failures arrive, time passes, other sessions tick and a reconciler runs *)
(* between any two of these steps.                                         *)
(*                                                                         *)
(* Events are kept with the number of the commit that made them visible; a *)
(* failure, and a decision, is named by its commit.  The gateway and the   *)
(* receipts are those of Outbox, seen from one call: completed, failed or  *)
(* unknown.                                                                *)
(***************************************************************************)
EXTENDS Integers, FiniteSets, Domain

CONSTANTS
  Entity, Cause, Channel,
  NoEntity,
  Worker,         \* sessions that tick
  ProcessOf,      \* ProcessOf[w]: the OS process of a session
  Serial,         \* SQLite: one writing transaction; otherwise PostgreSQL
  Taxonomy,       \* Taxonomy[cause]: the default action, and is it deterministic?
  Rules,          \* the policy rows in force
  DoNotContact,   \* entities whose context withholds consent
  Proposals,      \* what the model may propose
  Answers,        \* what a gateway call may come to
  Observed,       \* events that others record
  Delays,         \* how far ahead a retry is queued
  MaxTime, MaxFailures, MaxObserved, MaxAborts   \* bounds

\* A cause stands for the root cause and the context that policy rows look at.
Rule == [metric : {"retry", "contacts", "context"}, limit : Nat, window : Nat,
         verdict : VERDICTS, causes : SUBSET Cause]
\* The two actions the answer of the model cannot name are left to humans.
ActionEnum == LEGAL_ACTIONS \ {"RETRY_BACKUP_METHOD", "CHECK_METHOD_UPDATED"}
Proposal == [action : ActionEnum, channel : Channel \cup {"none"}, confident : BOOLEAN]

ASSUME AgentAssumption ==
  /\ NoEntity \notin Entity
  /\ "none" \notin Channel
  /\ ProcessOf = [w \in Worker |-> ProcessOf[w]]
  /\ Serial \in BOOLEAN
  /\ Taxonomy \in [Cause -> [action : LEGAL_ACTIONS, deterministic : BOOLEAN]]
  \* no row of the shipped taxonomy queues a retry without asking the model
  /\ \A c \in Cause : Taxonomy[c].deterministic => Taxonomy[c].action # "RETRY_SCHEDULED"
  /\ Rules \subseteq Rule
  /\ Proposals \subseteq Proposal
  /\ Answers \subseteq {"completed", "failed", "unknown"}
  \* failures, whoever records them, come in by FailureArrives
  /\ "PaymentFailed" \notin Observed
  /\ Delays \subseteq Nat
  /\ {MaxTime, MaxFailures, MaxObserved, MaxAborts} \subseteq Nat

VARIABLES
  now,
  commits,     \* commits so far
  log,         \* the events of the ledger
  decisions,   \* the decision rows
  queue,       \* the scheduled_actions rows
  status,      \* the status in each entity's L1 row
  pc, clock, todo, due, fired,   \* the tick of each session
  on, cur,     \* the entity it has locked, the decision or the failure at hand
  aborts

dbVars == <<commits, log, decisions, queue>>
tickVars == <<pc, clock, todo, due, fired, on, cur>>
vars == <<now, dbVars, status, tickVars, aborts>>

Init ==
  /\ now = 0 /\ commits = 0 /\ aborts = 0
  /\ log = {} /\ decisions = {} /\ queue = {}
  /\ status = [e \in Entity |-> "ACTIVE"]
  /\ pc = [w \in Worker |-> "idle"]
  /\ clock = [w \in Worker |-> 0]
  /\ todo = [w \in Worker |-> {}]
  /\ due = [w \in Worker |-> {}]
  /\ fired = [w \in Worker |-> FALSE]
  /\ on = [w \in Worker |-> NoEntity]
  /\ cur = [w \in Worker |-> 0]

-----------------------------------------------------------------------------
(* Reading the ledger.  A definition named X_Without..., X_With... or X_By...,  *)
(* just before a definition X is a plausible slip in X that one of the         *)
(* properties below must catch.                                                *)

EventsOf(e, types) == {x \in log : x.entity = e /\ x.type \in types}

Failures == {x \in log : x.type = "PaymentFailed"}
Failure(f) == CHOOSE x \in Failures : x.n = f
Handled(f) == \E d \in decisions : d.trigger = f

\* An entity that was diagnosed once counts as handled.
Unhandled_ByEntity ==
  {x.n : x \in {y \in Failures : \A d \in decisions : d.entity # y.entity}}

\* The failures without FailureDiagnosed.
Unhandled == {x.n : x \in {y \in Failures : ~Handled(y.n)}}

Decision(d) == CHOOSE r \in decisions : r.id = d
Logged(d, types) == \E x \in log : x.decision = d /\ x.type \in types
Intended(d) == Logged(d, {"ActionIntended"})
Settled(d) == Logged(d, {"ActionCompleted", "ActionFailed"})

\* get_windowed_count: nothing but a lower bound on the time.
Count(e, types, channel, since) ==
  Cardinality({x \in EventsOf(e, types) : x.at > since /\ channel \in {"none", x.detail}})

\* The latest of the events, by commit; the mover of a decision or attempt
\* comes first in its commit.
Before(x, y) == \/ x.n < y.n
                \/ x.n = y.n /\ x.type \in {"FailureDiagnosed", "RetryAttempted"} /\ y.type # x.type

Movers == UNION {EventsLeadingTo(s) : s \in VALID_STATUSES}

\* What a fold of every event makes of the status.
FoldedStatus(e) ==
  LET moves == EventsOf(e, Movers)
  IN IF moves = {} THEN "ACTIVE"
     ELSE TRANSITIONS("ACTIVE", (CHOOSE x \in moves : \A y \in moves \ {x} : Before(y, x)).type)

\* has_new_method_since_last_failure compares the times the events carry.
NewMethod(e) ==
  \E c \in EventsOf(e, {"PaymentMethodChanged"}) :
    \A x \in EventsOf(e, {"PaymentFailed"}) : c.at > x.at

-----------------------------------------------------------------------------
(* The gates *)

Relevant(r, action) == \/ r.metric = "retry" /\ action \in MONEY_ATTEMPT_ACTIONS
                       \/ r.metric = "contacts" /\ action \in CUSTOMER_CONTACT_ACTIONS

Counted(r, e, channel, at) ==
  IF r.metric = "retry" THEN Count(e, RETRY_EVENT_TYPES, "none", at - r.window)
                        ELSE Count(e, CONTACT_EVENT_TYPES, channel, at - r.window)

\* The verdicts of the rules that fire.
RuleVerdicts(e, cause, action, channel, at) ==
  {r.verdict : r \in {q \in Rules : /\ cause \in q.causes
                                    /\ \/ q.metric = "context"
                                       \/ Relevant(q, action) /\ Counted(q, e, channel, at) >= q.limit}}

\* Gate-1, of the default action of the cause.
evaluate(e, cause, at) ==
  LET action == Taxonomy[cause].action
  IN aggregate_verdict(
       RuleVerdicts(e, cause, action, "none", at)
         \cup {v \in {"DENY"} : status[e] = "PAUSED" /\ action \in MONEY_ATTEMPT_ACTIONS})

\* Gate-2, of the proposal.
check_proposal(e, cause, p, at) ==
  aggregate_verdict(
    RuleVerdicts(e, cause, p.action, p.channel, at)
      \cup {v \in {"DENY"} :
             \/ p.action \notin LEGAL_ACTIONS_BY_STATUS(status[e])
             \/ /\ p.action \in MONEY_ATTEMPT_ACTIONS \ {"RETRY_BACKUP_METHOD"}
                /\ cause \in HARD_DECLINE_ROOT_CAUSES
                /\ ~NewMethod(e)
             \/ p.action \in CUSTOMER_CONTACT_ACTIONS /\ e \in DoNotContact}
      \cup {v \in {"REQUIRE_HUMAN"} : ~p.confident})

\* What the pipeline goes by: a proposal, or the default if the model failed.
Default(cause) == [action |-> Taxonomy[cause].action, channel |-> "none", confident |-> TRUE]
ProposalsFor(cause) == Proposals \cup {Default(cause)}

-----------------------------------------------------------------------------
(* Locks and commits *)

\* The mutex of core/locks.py.
LockFree(w, e) == \A o \in Worker \ {w} : ProcessOf[o] = ProcessOf[w] => on[o] # e

\* From Gate-1 to the first commit a session has written: on SQLite nobody
\* else writes, on PostgreSQL nobody else passes the entity's row lock.
MayWrite(w) == \A o \in Worker \ {w} : pc[o] = "reason" => ~Serial
MayDecide(w, e) == MayWrite(w) /\ \A o \in Worker \ {w} : pc[o] = "reason" => on[o] # e

Event(type, e, at, d, detail) ==
  [n |-> commits + 1, type |-> type, entity |-> e, at |-> at, decision |-> d, detail |-> detail]

Commit(events) == log' = log \cup events /\ commits' = commits + 1

Goto(w, step) == pc' = [pc EXCEPT ![w] = step]
Lock(w, e, id) == on' = [on EXCEPT ![w] = e] /\ cur' = [cur EXCEPT ![w] = id]
Unlock(w) == Lock(w, NoEntity, 0)

\* What a tick had listed outlives it.
Drop_WithLists(w) ==
  /\ Goto(w, "idle")
  /\ clock' = [clock EXCEPT ![w] = 0]
  /\ fired' = [fired EXCEPT ![w] = FALSE]
  /\ Unlock(w)
  /\ UNCHANGED <<todo, due>>

\* The tick is over, by an exception or a crash.
Drop(w) ==
  /\ Goto(w, "idle")
  /\ clock' = [clock EXCEPT ![w] = 0]
  /\ todo' = [todo EXCEPT ![w] = {}]
  /\ due' = [due EXCEPT ![w] = {}]
  /\ fired' = [fired EXCEPT ![w] = FALSE]
  /\ Unlock(w)

\* DuplicateEventError about a failure is rolled back, which expires every
\* event listed: the loop reads the id of the next one, diagnosed by now or
\* not, and the tick dies of it.  Only after the last one it goes on.
LeaveFailure(w, f, rest) ==
  \/ /\ rest = {}
     /\ todo' = [todo EXCEPT ![w] = rest]
     /\ Unlock(w)
     /\ Goto(w, "drain")
     /\ UNCHANGED <<clock, due, fired>>
  \/ /\ \E x \in Failures : x.n > f
     /\ Drop(w)

-----------------------------------------------------------------------------
(* The world *)

Tick == /\ now < MaxTime /\ now' = now + 1
        /\ UNCHANGED <<dbVars, status, tickVars, aborts>>

WriterFree == \A w \in Worker : pc[w] = "reason" => ~Serial

\* The intake records a failure.
FailureArrives(e, cause) ==
  /\ Cardinality(Failures) < MaxFailures
  /\ WriterFree
  /\ Commit({Event("PaymentFailed", e, now, 0, cause)})
  /\ UNCHANGED <<now, decisions, queue, status, tickVars, aborts>>

\* Another system, or an operator, records an event.
Observe(e, type) ==
  /\ Cardinality({x \in log : x.decision = 0 /\ x.type # "PaymentFailed"}) < MaxObserved
  /\ WriterFree
  /\ Commit({Event(type, e, now, 0, "none")})
  /\ UNCHANGED <<now, decisions, queue, status, tickVars, aborts>>

-----------------------------------------------------------------------------
(* The drain *)

Pending == {r \in queue : ~r.executed}

\* drain_pending lists the failures without FailureDiagnosed, once.
StartTick(w) ==
  /\ pc[w] = "idle"
  /\ Unhandled # {} \/ Pending # {}
  /\ Goto(w, "drain")
  /\ clock' = [clock EXCEPT ![w] = now]
  /\ todo' = [todo EXCEPT ![w] = Unhandled]
  /\ UNCHANGED <<now, dbVars, status, due, fired, on, cur, aborts>>

\* The rows of a decision: the marker that makes it the only one about the
\* failure, and what was decided.
Decide(w, f, action, types, detail) ==
  LET e == Failure(f).entity
      d == commits + 1
  IN /\ decisions' = decisions \cup
          {[id |-> d, trigger |-> f, entity |-> e, cause |-> Failure(f).detail, action |-> action]}
     /\ Commit({Event("FailureDiagnosed", e, clock[w], d, "none")}
                 \cup {Event(type, e, clock[w], d, detail) : type \in types})

\* escalate_to_human.
Escalate(w, f) ==
  /\ Decide(w, f, "ESCALATE_HUMAN", {"EscalatedToHuman"}, "none")
  /\ Lock(w, Failure(f).entity, 0)
  /\ Goto(w, "fold")
  /\ UNCHANGED queue

\* The lock is left as soon as the intent is durable.
Intend_WithUnlock(w, f, p) ==
  /\ Decide(w, f, p.action, {"ActionIntended"}, p.channel)
  /\ Lock(w, NoEntity, commits + 1)
  /\ Goto(w, "gateway")
  /\ UNCHANGED queue

\* write_intent, which commits the decision with it.
Intend(w, f, p) ==
  /\ Decide(w, f, p.action, {"ActionIntended"}, p.channel)
  /\ Lock(w, Failure(f).entity, commits + 1)
  /\ Goto(w, "gateway")
  /\ UNCHANGED queue

\* schedule_retry.
Schedule(w, f, delay) ==
  /\ Decide(w, f, "RETRY_SCHEDULED", {"RetryScheduled"}, "none")
  /\ queue' = queue \cup {[decision |-> commits + 1, due |-> clock[w] + delay, executed |-> FALSE]}
  /\ Lock(w, Failure(f).entity, 0)
  /\ Goto(w, "fold")

IsNext(w, f) == pc[w] = "drain" /\ f \in todo[w] /\ \A g \in todo[w] : f <= g

\* The marker carries no source id, so that nothing refuses a second one.
Gate1_WithoutMarker(w, f) ==
  LET e == Failure(f).entity IN
  /\ IsNext(w, f)
  /\ LockFree(w, e) /\ MayDecide(w, e)
  /\ todo' = [todo EXCEPT ![w] = @ \ {f}]
  /\ IF evaluate(e, Failure(f).detail, clock[w]) # "ALLOW" THEN Escalate(w, f)
     ELSE Lock(w, e, f) /\ Goto(w, "reason") /\ UNCHANGED dbVars
  /\ UNCHANGED <<now, status, clock, due, fired, aborts>>

\* Gate-1, under the entity lock and the row lock: a human, a deterministic
\* route, or the model.
Gate1(w, f) ==
  LET e == Failure(f).entity
      cause == Failure(f).detail
  IN /\ IsNext(w, f)
     /\ ~Handled(f)
     /\ LockFree(w, e) /\ MayDecide(w, e)
     /\ todo' = [todo EXCEPT ![w] = @ \ {f}]
     /\ \/ /\ \/ evaluate(e, cause, clock[w]) # "ALLOW"
              \/ Taxonomy[cause] = [action |-> "ESCALATE_HUMAN", deterministic |-> TRUE]
           /\ Escalate(w, f)
        \/ /\ evaluate(e, cause, clock[w]) = "ALLOW"
           /\ Taxonomy[cause].deterministic /\ Taxonomy[cause].action # "ESCALATE_HUMAN"
           /\ Intend(w, f, Default(cause))
        \/ /\ evaluate(e, cause, clock[w]) = "ALLOW"
           /\ ~Taxonomy[cause].deterministic
           /\ Lock(w, e, f)
           /\ Goto(w, "reason")
           /\ UNCHANGED dbVars
     /\ UNCHANGED <<now, status, clock, due, fired, aborts>>

\* Someone else has diagnosed the failure since the list was read: the marker
\* is refused.
Skip(w, f) ==
  /\ IsNext(w, f)
  /\ Handled(f)
  /\ LockFree(w, Failure(f).entity) /\ MayDecide(w, Failure(f).entity)
  /\ LeaveFailure(w, f, todo[w] \ {f})
  /\ UNCHANGED <<now, dbVars, status, aborts>>

\* The model proposes, or fails; Gate-2; and the commit of what was decided.
Propose(w) ==
  LET f == cur[w]
      cause == Failure(f).detail
  IN /\ pc[w] = "reason"
     /\ \E p \in ProposalsFor(cause) :
          LET verdict == check_proposal(on[w], cause, p, clock[w]) IN
          \/ verdict # "ALLOW" /\ Escalate(w, f)
          \/ /\ verdict = "ALLOW" /\ p.action = "RETRY_SCHEDULED"
             /\ \E delay \in Delays : Schedule(w, f, delay)
          \/ verdict = "ALLOW" /\ p.action # "RETRY_SCHEDULED" /\ Intend(w, f, p)
     /\ UNCHANGED <<now, status, clock, todo, due, fired, aborts>>

-----------------------------------------------------------------------------
(* Outcomes *)

\* commit_outcome, of an answer that is not "unknown".  Only the caller that
\* made the call knows the proposal and its channel.
OutcomeTypes(action, answer, detailed, contacted) ==
  {IF answer = "completed" THEN "ActionCompleted" ELSE "ActionFailed"} \cup OUTCOME_EVENT(action)
    \cup {t \in {"RetrySucceeded"} : answer = "completed" /\ detailed /\ action \in CHARGING_ACTIONS}
    \cup {t \in {"PaymentMethodChanged"} :
           answer = "completed" /\ detailed /\ action = "CHECK_METHOD_UPDATED"}
    \cup {t \in {"CustomerContacted"} : contacted}

IntentOf(d) == CHOOSE x \in log : x.decision = d /\ x.type = "ActionIntended"

ActionOf(d) == LET planned == Decision(d).action
               IN IF planned = "RETRY_SCHEDULED" THEN "RETRY_NOW" ELSE planned

\* resolve_channel: the channel of the proposal, else the one of the action.
ChannelOf(action, proposed) ==
  IF proposed # "none" THEN proposed
  ELSE IF action \in {"SEND_PAYMENT_LINK", "REQUEST_PAYMENT_METHOD"} THEN "payment_link"
  ELSE IF action = "UPDATE_MANDATE" THEN "mandate_update"
  ELSE IF action = "AWAIT_PROMISE" THEN "message" ELSE "none"

CommitOutcome(d, at, answer, proposed) ==
  LET channel == ChannelOf(ActionOf(d), proposed) IN
  \E detailed \in BOOLEAN :
    Commit({Event(type, Decision(d).entity, at, d,
                  IF type \in {"PaymentLinkSent", "CustomerContacted"} THEN channel ELSE "none") :
              type \in OutcomeTypes(ActionOf(d), answer, detailed, channel # "none")})

\* The gateway's answer is committed.  If the reconciler was faster, the
\* receipt is refused and the failure left.
GatewayReturns(w) ==
  /\ pc[w] = "gateway"
  /\ MayWrite(w)
  /\ \E answer \in Answers :
       IF answer # "unknown" /\ Settled(cur[w])
       THEN LeaveFailure(w, Decision(cur[w]).trigger, todo[w]) /\ UNCHANGED dbVars
       ELSE /\ Goto(w, "fold")
            /\ UNCHANGED <<on, cur, clock, todo, due, fired, decisions, queue>>
            /\ IF answer = "unknown" THEN UNCHANGED <<log, commits>>
               ELSE CommitOutcome(cur[w], clock[w], answer, IntentOf(cur[w]).detail)
  /\ UNCHANGED <<now, status, aborts>>

\* fold_events, of every entity.
FoldAll == status' = [e \in Entity |-> FoldedStatus(e)]

Fold(w) ==
  /\ pc[w] = "fold"
  /\ MayWrite(w)
  /\ FoldAll
  /\ Unlock(w)
  /\ Goto(w, "drain")
  /\ UNCHANGED <<now, dbVars, clock, todo, due, fired, aborts>>

-----------------------------------------------------------------------------
(* The due scan *)

\* run_due_scheduled lists the rows that are due, once.
StartDue(w) ==
  /\ pc[w] = "drain" /\ todo[w] = {}
  /\ Goto(w, "due")
  /\ clock' = [clock EXCEPT ![w] = now]
  /\ due' = [due EXCEPT ![w] = {r.decision : r \in {q \in Pending : q.due <= now}}]
  /\ UNCHANGED <<now, dbVars, status, todo, fired, on, cur, aborts>>

StillDeclined(d) ==
  Decision(d).cause \in HARD_DECLINE_ROOT_CAUSES /\ ~NewMethod(Decision(d).entity)

\* A hard decline without a new method waits for a later tick.
Defer(w, d) ==
  /\ pc[w] = "due" /\ d \in due[w]
  /\ LockFree(w, Decision(d).entity)
  /\ StillDeclined(d)
  /\ due' = [due EXCEPT ![w] = @ \ {d}]
  /\ UNCHANGED <<now, dbVars, status, pc, clock, todo, fired, on, cur, aborts>>

\* The gates have looked at the card when they queued the row.
RunDue_WithoutMethod(w, d) ==
  /\ pc[w] = "due" /\ d \in due[w]
  /\ LockFree(w, Decision(d).entity) /\ MayWrite(w)
  /\ ~Intended(d)
  /\ Commit({Event("ActionIntended", Decision(d).entity, clock[w], d, "none")})
  /\ Lock(w, Decision(d).entity, d)
  /\ Goto(w, "charge")
  /\ UNCHANGED <<now, decisions, queue, status, clock, todo, due, fired, aborts>>

\* The row is executed as RETRY_NOW: the intent of its decision.  No gate is
\* asked again.
RunDue(w, d) ==
  /\ pc[w] = "due" /\ d \in due[w]
  /\ LockFree(w, Decision(d).entity) /\ MayWrite(w)
  /\ ~StillDeclined(d) /\ ~Intended(d)
  /\ Commit({Event("ActionIntended", Decision(d).entity, clock[w], d, "none")})
  /\ Lock(w, Decision(d).entity, d)
  /\ Goto(w, "charge")
  /\ UNCHANGED <<now, decisions, queue, status, clock, todo, due, fired, aborts>>

\* The decision has an intent already: DuplicateEventError leaves the scan, and
\* the tick.
DueRaises(w, d) ==
  /\ pc[w] = "due" /\ d \in due[w]
  /\ LockFree(w, Decision(d).entity)
  /\ ~StillDeclined(d) /\ Intended(d)
  /\ Drop(w)
  /\ UNCHANGED <<now, dbVars, status, aborts>>

\* The answer is committed; a refused receipt leaves the tick.
DueReturns(w) ==
  /\ pc[w] = "charge"
  /\ MayWrite(w)
  /\ \E answer \in Answers :
       IF answer # "unknown" /\ Settled(cur[w])
       THEN Drop(w) /\ UNCHANGED dbVars
       ELSE /\ Goto(w, "mark")
            /\ UNCHANGED <<on, cur, clock, todo, due, fired, decisions, queue>>
            /\ IF answer = "unknown" THEN UNCHANGED <<log, commits>>
               ELSE CommitOutcome(cur[w], clock[w], answer, "none")
  /\ UNCHANGED <<now, status, aborts>>

\* executed_at, in a commit of its own.
MarkExecuted(w) ==
  /\ pc[w] = "mark"
  /\ MayWrite(w)
  /\ queue' = {IF r.decision = cur[w] THEN [r EXCEPT !.executed = TRUE] ELSE r : r \in queue}
  /\ due' = [due EXCEPT ![w] = @ \ {cur[w]}]
  /\ fired' = [fired EXCEPT ![w] = TRUE]
  /\ Unlock(w)
  /\ Goto(w, "due")
  /\ UNCHANGED <<now, commits, log, decisions, status, clock, todo, aborts>>

\* The scan folds if it executed anything, and the tick commits.
FinishTick(w) ==
  /\ pc[w] = "due" /\ due[w] = {}
  /\ MayWrite(w)
  /\ IF fired[w] THEN FoldAll ELSE UNCHANGED status
  /\ Drop(w)
  /\ UNCHANGED <<now, dbVars, aborts>>

-----------------------------------------------------------------------------
(* Reconciliation and failures *)

\* `worker resume` settles a dangling intent, at the time of the intent, and
\* folds.
Reconcile(d) ==
  /\ Intended(d) /\ ~Settled(d)
  /\ WriterFree
  /\ \E answer \in Answers \ {"unknown"} : CommitOutcome(d, IntentOf(d).at, answer, "none")
  /\ status' = [e \in Entity |-> FoldedStatus(e)']
  /\ UNCHANGED <<now, decisions, queue, tickVars, aborts>>

\* An exception in a tick, or the death of its process.
Abort(w) ==
  /\ pc[w] # "idle"
  /\ aborts < MaxAborts /\ aborts' = aborts + 1
  /\ Drop(w)
  /\ UNCHANGED <<now, dbVars, status>>

Step(w) ==
  \/ StartTick(w) \/ StartDue(w) \/ FinishTick(w)
  \/ \E x \in Failures : Gate1(w, x.n) \/ Skip(w, x.n)
  \/ Propose(w) \/ GatewayReturns(w) \/ Fold(w)
  \/ \E r \in queue : Defer(w, r.decision) \/ RunDue(w, r.decision) \/ DueRaises(w, r.decision)
  \/ DueReturns(w) \/ MarkExecuted(w)

Next ==
  \/ Tick
  \/ \E e \in Entity, cause \in Cause : FailureArrives(e, cause)
  \/ \E e \in Entity, type \in Observed : Observe(e, type)
  \/ \E w \in Worker : Step(w) \/ Abort(w)
  \/ \E d \in decisions : Reconcile(d.id)

Spec == Init /\ [][Next]_vars

-----------------------------------------------------------------------------
(* Types *)

Details == Cause \cup Channel \cup {"none", "payment_link", "mandate_update", "message"}
Commits == 0..commits
AllDecisions == [id : Commits, trigger : Commits, entity : Entity, cause : Cause,
                 action : LEGAL_ACTIONS]

TypeInvariant ==
  /\ now \in 0..MaxTime
  /\ commits \in Nat
  /\ \A x \in log : /\ x.n \in 1..commits /\ x.entity \in Entity /\ x.at \in 0..now
                    /\ x.decision \in Commits /\ x.detail \in Details
  /\ decisions \subseteq AllDecisions
  /\ queue \subseteq [decision : Commits, due : Nat, executed : BOOLEAN]
  /\ status \in [Entity -> VALID_STATUSES]
  /\ pc \in [Worker -> {"idle", "drain", "reason", "gateway", "fold", "due", "charge", "mark"}]
  /\ clock \in [Worker -> 0..now]
  /\ todo \in [Worker -> SUBSET Commits]
  /\ due \in [Worker -> SUBSET Commits]
  /\ fired \in [Worker -> BOOLEAN]
  /\ on \in [Worker -> Entity \cup {NoEntity}]
  /\ cur \in [Worker -> Commits]
  /\ aborts \in 0..MaxAborts
  /\ \A w \in Worker :
       /\ on[w] # NoEntity <=> pc[w] \in {"reason", "gateway", "fold", "charge", "mark"}
       /\ pc[w] \notin {"idle", "drain"} => pc[w] \in {"reason", "gateway", "fold"} \/ todo[w] = {}
       /\ due[w] # {} => pc[w] \in {"due", "charge", "mark"}

-----------------------------------------------------------------------------
(* One decision per failure, one charge per intent *)

\* Where a failure stands, by the rows about it.
PhaseOf(f) ==
  LET ds == {d.id : d \in {r \in decisions : r.trigger = f}}
      d == CHOOSE n \in ds : TRUE
      escalated == Logged(d, {"EscalatedToHuman"})
      queued == \E r \in queue : r.decision = d
      receipts == {x \in log : x.decision = d /\ x.type \in {"ActionCompleted", "ActionFailed"}}
  IN IF ds = {} THEN "reported"
     ELSE IF \/ ds # {d} \/ Cardinality(receipts) > 1
             \/ escalated /\ (queued \/ Intended(d))
             \/ Settled(d) /\ ~Intended(d)
             \/ ~(queued <=> Logged(d, {"RetryScheduled"}))
          THEN "contradicted"
     ELSE IF escalated THEN "escalated"
     ELSE IF Settled(d) THEN "settled"
     ELSE IF Intended(d) THEN "intended"
     ELSE IF queued THEN "scheduled" ELSE "undecided"

phase == [f \in {x.n : x \in Failures} |-> PhaseOf(f)]

Promise == INSTANCE Recovery WITH phase <- phase

\* Every failure is decided at most once, as a whole, and its decision is
\* carried out at most once: whichever sessions listed it, whatever they had
\* read, and wherever one of them died.
OneDecisionEach == Promise!Spec

-----------------------------------------------------------------------------
(* Budgets *)

\* Events of the agent itself, which carry their decision.
OwnEvents(e, types) == {x \in EventsOf(e, types) : x.decision # 0}

Charges(e) == {x \in OwnEvents(e, {"ActionIntended"}) : ActionOf(x.decision) \in CHARGING_ACTIONS}

\* What the gates have let through: charges at once, and retries queued.
Passed(e) == {x \in Charges(e) : Decision(x.decision).action \in CHARGING_ACTIONS}
               \cup OwnEvents(e, {"RetryScheduled"})

WithinLimit(r, events) ==
  \A x \in events :
    Cardinality({y \in events : y.at > x.at - r.window /\ y.at <= x.at}) <= r.limit

RetryCaps == {r \in Rules : r.metric = "retry" /\ r.verdict = "DENY" /\ r.causes = Cause}

\* No more money attempts pass the gates in a window than a retry rule
\* allows, although the rule counts attempts only once they were made, and
\* several sessions are deciding.
GatedAttemptsWithinLimit == \A r \in RetryCaps, e \in Entity : WithinLimit(r, Passed(e))

\* A card that was declined for good is not charged as it is: whenever a
\* charge about such a failure becomes durable, at once or from the queue, a
\* payment method has come in that is newer than this failure and than every
\* other one of the entity that was there before the tick began, the failures
\* of the new card among them.
NewMethodFirst ==
  \A x \in log :
    x.type = "ActionIntended" /\ x.decision # 0 =>
      LET d == Decision(x.decision) IN
      ActionOf(d.id) = "RETRY_NOW" /\ d.cause \in HARD_DECLINE_ROOT_CAUSES =>
        \E c \in EventsOf(d.entity, {"PaymentMethodChanged"}) :
          /\ c.n < x.n
          /\ \A f \in EventsOf(d.entity, {"PaymentFailed"}) :
               f.n = d.trigger \/ (f.n < x.n /\ f.at < x.at) => c.at > f.at

-----------------------------------------------------------------------------
(* Liveness *)

\* `instate worker tick` is run again and again, and a running tick goes on.
FairSpec == Spec /\ \A w \in Worker : WF_vars(Step(w))

\* Every failure is decided in the end, also after ticks that died, and
\* whatever waits in the queue.
EveryFailureDecided == <>[](\A x \in Failures : Handled(x.n))

-----------------------------------------------------------------------------
(* Promises the code does not keep *)

\* "max 1 retry attempt per 24h per entity", of the charges themselves.
ChargesWithinLimit == \A r \in RetryCaps, e \in Entity : WithinLimit(r, Charges(e))

\* "Escalation - deterministic stop, no gateway call".
EscalationReachesAHuman ==
  \A d \in decisions : d.action = "ESCALATE_HUMAN" => Logged(d.id, {"EscalatedToHuman"})

\* "every rerun idempotent": a queued retry is executed in the end.
QueueDrains == <>[](Pending = {})

=============================================================================
