# Instate: the verification project

TLA+ modules, TLC configurations and machine-checked proofs about the program
in `src/`: an agent that decides what to do about failed payments, records
everything in a hash-chained event ledger, and acts through a payment gateway.
Paths below are relative to `src/instate/` unless they say otherwise.

Run a configuration with `tlc -workers 2 -config Outbox_live.cfg MCOutbox.tla`,
check the proofs with `tlapm OutboxProofs.tla`.

## 1. Inventory

Three processes touch one database (SQLite or PostgreSQL): the webhook server
(`surfaces/webhook.py`), `instate worker tick`, which drains failures and runs
what is due, and `instate worker resume`, which reconciles. Each runs sessions on
one asyncio event loop, so that sessions interleave at every `await` and
processes interleave everywhere. `core/locks.py` gives the sessions of one
process a mutex per entity; between processes there is only the database: the
single writer of SQLite, row locks and UNIQUE columns of PostgreSQL.

| component | state it keeps | operations | what makes it correct |
|---|---|---|---|
| ledger (`core/ledger.py`, `core/models.py`) | `events`: id, entity, type, source id, prev_hash, hash | `record_event`, `get_timeline`, `verify_chain`, `redact_payload` | an event is recorded once per source id; the chain of each entity verifies; committed events never change, and become visible in id order |
| projection (`core/projection.py`) | `entity_state`: one L1 row per entity, with the watermark `last_event_id` | `fold_events`, `rebuild`, windowed counts, payment-method test, payday | a row is the fold of the events up to its watermark; a call covers every event committed before it |
| policy and gates (`core/policy.py`, `core/gate.py`) | policy rows, decision rows | `lock_entity_state`, Gate-1 `evaluate`, Gate-2 `check_proposal` | retry and contact budgets hold whoever decides; nothing is charged that a rule forbids |
| decision pipeline (`agent/decide.py`, `agent/diagnose.py`) | the list of a tick; decision rows | `drain_pending`, `process_failure` | every failure is decided, once |
| outbox (`agent/execute.py`) | intent and receipt events, `scheduled_actions` | `write_intent`, `execute_action`, `commit_outcome`, `escalate_to_human`, `schedule_retry`, `run_due_scheduled` | no effect without a durable intent; one effect, one receipt, and the receipt is true |
| reconciler (`agent/reconcile.py`) | a list of dangling intents, in memory | `find_dangling_intents`, `reconcile_one`, `reconcile_pending` | every intent is resolved, and not performed twice |
| gateway adapter (`adapters/razorpay.py`) | none; the gateway keeps the idempotency keys | `execute`, `lookup`, `_post` with attempts | a timeout is "unknown", never "failed" |
| model adapters (`adapters/llm.py`, `adapters/failover.py`) | failover marks | `decide` | an answer is an action of the enum or none |
| intake (`surfaces/webhook.py`, `surfaces/mcp_server.py`) | none | `handle_webhook`, `tool_record_event` | a redelivery is inert; different events are not taken for one |
| policy replay, canary (`replay/counterfactual.py`, `core/rollout.py`) | policy rows of new versions | `replay_with_policy`, `create_canary_version` | a replay does not change what is in force, and says what the gate would have said |
| archive, standalone verification (`core/archive.py`, `verify/standalone.py`) | export files, `archive_anchors` | `archive_old_events`, `verify_exported_rows` | chains verify across an archive; nothing is lost |
| snapshots (`core/snapshot.py`) | `l1_snapshots` | `create_snapshot`, `rebuild_incremental` | the same rows as a full rebuild |
| human tasks (`core/hitl.py`) | `hitl_tasks` | enqueue, claim, resolve | closing a task and its event are one; one trouble is recovered once |
| watchers (`core/watchers.py`) | `watchers.last_fired_at` | `check_watchers`, `seed_default_watchers` | a condition that stays met is notified to a receiver that answers, and a notification it answered is not repeated within the cooldown |
| rate limits, breaker, spend guard (`core/ops.py`) | buckets, breaker state, spent amounts | `try_take`, `allow_request`, `acquire` and reports | limits hold or are overrun by a known amount, one probe at a time, and the breaker closes again |
| worker commands (`surfaces/cli.py`) | none | tick, resume, rebuild, replay | |
| precedents, dunning, privacy, sanitizing, encryption, vault, tenants, metrics, evaluation, seed data, console, demo, wizard | none of their own, or advisory | | they gate nothing |

How they call each other: a tick runs `drain_pending`, which takes each failure
through diagnosis, Gate-1, the model, Gate-2 and `execute_action`,
`schedule_retry` or `escalate_to_human`, folding after each; then
`run_due_scheduled` executes what was queued. Every one of them appends through
`record_event`. The gates read the L1 row for the status and the ledger for the
counts. The reconciler reads dangling intents and goes back to the gateway.

What is hard here: a decision spans several commits with a model call and a
gateway call in between, both slow and both awaited; locks are per process and
row locks end with the first commit; lists (failures, dangling intents, due
rows) are read once and worked through later; requests time out and arrive all
the same; a process can die between any two commits. `PROJECT.json` lists these
hazards with the line where each bites.

## 2. Plan

Modules, in the order in which they were written.

1. **Outbox**: what happens to one decided action, down to HTTP attempts.
   Abstract: `ExactlyOnce`.
2. **Ledger**: the append protocol. Abstract: `EventLog`.
3. **Projection**: the fold, *over* `EventLog`, which Ledger implements.
4. **Agent**: the whole loop, with the gates, the queue and the due scan.
   Abstract: `Recovery`. It sees the outbox as a call that completes, fails or
   stays unknown, and the ledger as an atomic commit.
5. **Maintenance**: archive, redaction, rebuild, snapshots and the two
   verifications, over one ledger.
6. **Intake**, **Hitl**, **Watchers**, **Policies**, **RetryTiming**,
   **CircuitBreaker**, **SpendGuard**, **RateLimits**: the services beside the
   loop, composed in **Services**, which runs one of them at a time: they share no
   state.

The proofs followed, in this order: Outbox, Ledger, Projection; then Maintenance,
Hitl and the other services, with Recursion for the folds they use; then Agent,
for which the others had prepared nothing: its four theorems need one large
invariant. What is left are two questions beyond the properties of the runs:

- *Projection over Ledger*: `NoDrift` is proved over `EventLog`, and that Ledger
  implements `EventLog`; a module that puts the two together would say it of the
  program as a whole.
- *Agent over Outbox*: `Recovery` sees the outbox as a call; that the phases of
  `ExactlyOnce` are what it takes them for is read, not proved.

None of the modules that are proved about declares a recursive operator, and each has
its assumptions named.

## 3. The modules

| module | models | state and steps |
|---|---|---|
| `Domain` | `core/models.py`, tables of `core/projection.py`, `core/gate.py`, `agent/execute.py` | actions, statuses, event types, `TRANSITIONS`, `LEGAL_ACTIONS_BY_STATUS`, verdicts |
| `ExactlyOnce` | the promise of the outbox | phase of an action at the gateway, receipt |
| `Outbox` | `agent/execute.py`, `agent/reconcile.py`, `adapters/razorpay.py`, `core/locks.py` | `ledger` holds pairs of key and event type, as `source_event_id` is UNIQUE; one program counter per session; one action per commit, per request, per answer |
| `EventLog` | the promise of the ledger | committed rows |
| `Ledger` | `core/ledger.py` | rows by id, flushed or committed; `FindSource`, `ReadHead`, `Flush` are the three statements of `record_event`; `Begin`, `Commit`, `Abort` are the caller's |
| `Projection` | `fold_events`, `apply_event` | the stored rows; for each session that folds, the entities its call has listed and not looked at, whether its last call was undone, the row it loaded, the row in memory and the events read; `FoldCall` is the call, `FoldSkip` leaves out an entity that is covered, `FoldLoad`, `FoldRead`, `FoldApply`, `FoldWrite` are the awaits of one entity |
| `Recovery` | the promise of the loop about one failure | reported; escalated, scheduled or intended; settled |
| `Agent` | `agent/decide.py`, `core/gate.py`, `agent/execute.py` (queue), `surfaces/cli.py` (tick) | events with the number of the commit that made them visible, decisions, queue rows, statuses; the tick of each session |
| `Maintenance` | `core/archive.py`, `core/snapshot.py`, `rebuild`, `redact_payload`, `verify_chain`, `verify/standalone.py` | every event ever recorded, which of them are in the table, how many lines the files have about each, the newest anchors, the rows and snapshots; an archive run is two steps, the files and the commit |
| `Intake` | `surfaces/webhook.py`, `record_event` of `surfaces/mcp_server.py` | committed source ids, what each handler is doing, which deliveries were acknowledged |
| `Hitl` | `core/hitl.py` | the events of an entity, how many are folded, the tasks, what each operator is about to commit |
| `Watchers` | `core/watchers.py` | what is known of each entity, time since each mark, each scan in progress, time since each notification whose answer was noted |
| `Policies` | `core/policy.py`, Gate-1, `core/rollout.py`, `replay/counterfactual.py` | limits by type and version, counted events, the evaluation under way, the decision rows (version, reason chain, `created_at`, executed); `asked` is history, what the gate was asked for each row |
| `RetryTiming` | `schedule_retry`, `infer_payday` | one request and its due date; the functions are the point |
| `CircuitBreaker`, `SpendGuard`, `RateLimits` | `core/ops.py` | their fields, and the callers |
| `Services` | | the eight modules above side by side |
| `Recursion` | | lemmas about folds over finite sets and recursive functions, for any operator |
| `OutboxProofs`, `LedgerProofs`, `ProjectionProofs`, `AgentProofs`, `MaintenanceProofs`, `HitlProofs`, `ServicesProofs` | | theorems about the module of that name; `ServicesProofs` has those about the seven services other than Hitl |
| `MC...` | | constants of the small instances |

Choices a reader should know.

*Outbox.* An idempotency key is a decision row. A refusal by the adapter itself
(an unsupported action) is counted as the gateway's. The gateway is external and
idempotent per key; whether it repeats a *refusal* is not known from the code, so
`StickyRefusal` is a constant. `Lookup` may miss what exists: the adapter queries
payment links by `reference_id = key`, although it creates them with the entity
id. "found" is the completed answer that lookup rebuilds, without amount or
data. The reconciler's branch for a missing decision row is unreachable, since
decisions are never deleted. An exception rolls the session back, which expires the
intents still listed: the loop reads the id of the next one (`agent/reconcile.py:80`)
and dies of it, so that a run is over after a gateway that raises or a receipt that is
refused, unless that was the last intent (`GiveUp`).

*Ledger.* A hash stands for the one event it was computed from, so `prev_hash` is
an id; that two events have different hashes is assumed. `redact_payload`
replaces a payload and leaves hash and chain alone, so it is no action here.
`verify_chain` is `Verified`; its limit of 10,000 events is left out. On SQLite a
session that has written excludes other writers until it commits; reads are not
part of a transaction there, so they see what is committed at that moment.
`Begin` may already count as writing: the pipeline has flushed its decision row.

*Projection.* Flush and commit of a fold are one step: a row that is flushed is
invisible to the others, and the row lock (or the SQLite writer) keeps other
writers out. A time in a column is the id of the event it came from. Columns
that are set like `last_contact_at` are left out. An UPDATE names the columns
whose value changed (SQLAlchemy), which is the point of `Updated`. A call that is
undone keeps the rows of the entities it had already written; in the code they are
undone too, which nobody can tell from a call undone before its first write
(`FoldAbort`). A promise has a
date, or has none (`UNDATED`) and leaves the one before; a date that cannot be parsed
raises (`core/projection.py:104`), then and in every later call, and is not modelled.

*Agent.* A time unit is a day. A gate and the commit that follows without an
`await` on anything but the database are one step; the model call and the gateway
call are where a step ends. Events appended by the intake between the reads of a
gate and its commit commute past it. Gate-1 reads before the decision row is
inserted, unprotected on SQLite, but its outcome only leads to a human, to a
deterministic action or to Gate-2, which reads again as the only writer. A
decision is named by the commit that makes it visible. `clock` is the `now` that a
tick captures once and uses for everything it decides, however late. A fold is
atomic here (Projection takes it apart) and may be lost with `Abort`. The death
of a process is an `Abort` of each of its sessions. A duplicate is rolled back and
expires the failures still listed, so that the drain dies of the next one
(`agent/decide.py:448`), and goes on only after the last (`LeaveFailure`). The look for
a new payment method and the commit of the intent are one step, and an intake may
report a failure between them in the code: `NewMethodFirst` therefore speaks of the
failures that were there before the tick began. A failure arrives with its
cause: diagnosis is a lookup, and `cause` also stands for the context that policy
rows look at. The enum the model may answer with (`adapters/llm.py:14-22`) lacks
`RETRY_BACKUP_METHOD` and `CHECK_METHOD_UPDATED`, so these are reached only
through `Default`, the taxonomy row, when the model fails.

*Maintenance.* Appends hold the entity lock, so the last event in the table is the
one to chain to. A fold, a rebuild and a snapshot are one transaction and one step. A
rebuild deletes and refolds what is in the table; the events that were archived
are not in it, so a rebuild after an archive yields other rows, and reports them.
`missed` and `Restarted` are how the properties say where this begins. A snapshot
leaves out the timezone and the card, here `card`, which is why no claim is made
about that column after `rebuild_incremental`.

*Intake.* What is rejected before the lookup changes nothing and is left out, as is
sanitizing. The webhook takes every `IntegrityError` of the insert for a duplicate
(`surfaces/webhook.py:161`); here the insert fails on duplicates only: the other constraints of `events` are
NOT NULL columns, which `handle_webhook` fills. `HandlerFails` stands for a locked database, a dead process, a lost
answer, and for the MCP server's answer "tool failed".

*Hitl.* An operator looks and commits in two steps, and takes no lock in between.
Two who resolve one task meet at the source id `hitl_<id>_resolved`, and the second
transaction is undone; but a no-op overwrites the resolution of a task that was
resolved meanwhile, a claim its status, and two tasks of one entity, resolved by
operators who looked before either committed, recover it twice. `TaskAndEvent` and
`OneRecoveryPerTrouble` are what remains true.

*Watchers.* All four seeded conditions are there; the run seeds the two about
retries and promises. A scan takes its `now` once, and its notifications and marks
carry it; so no time passes during a scan, and what a long scan would do is what an
overlap does. Nothing keeps two `watch run` from overlapping. A delivery whose answer
is lost, or is not a success, may have been received (`core/watchers.py:44`):
`NotDelivered` does not say, and the entity is notified again. What can be promised is
about notifications whose answer was noted (`noted`), and about scans that read the
watcher after it was marked (`crossed`).

*Policies.* Decisions are those of one entity. The gate evaluates at the `now` the
caller fixed and counts the events recorded by then, all counts of one evaluation
together; the row is inserted later (`RecordDecision`), and its `created_at` is the time
of the insert. A row keeps its version, its reason chain and `created_at`, not the
action, the context or the `now` the gate was given: which context rule matched cannot
be derived again from it (`replay/counterfactual.py:101`), only that the chain is one the
cited version can produce, and this is what `EvidenceStands` says. `asked` keeps what the
row does not, so that `ReplayIsTheGate` can say when the replay, which takes
`created_at` for both times, repeats the gate. It tests every metric rule of the type, whatever its
`applies_when` and the action, and no context rule; `ReplayIsTheGate` says for which
decisions this makes no difference. The sentinel row of a canary holds the
merchants it is meant for, but nothing reads it (`is_canary` has no caller): a
canary is in force for everyone.

*RetryTiming.* Half hours from the first of a month; zones have a fixed offset. The
comment at `agent/execute.py:393` says the holiday is a day in IST; the code, and
`Holiday`, take the day of the UTC time. The clamp comes after the holiday shift
and may move the time onto the holiday again (late on the evening before): no
property claims otherwise. The month after December is the next entry of a sequence of
months here; the wrap of `core/projection.py:451` is not computed.

*CircuitBreaker, SpendGuard, RateLimits.* Elapsed time is counted up to the cooldown.
A caller that never reports the end of its call is left out. Grants of the
semaphore are first come, first served, as asyncio's are. What a caller estimates
(0 if it does not say) and what its call costs are independent; a guard without a
budget, which refuses nobody, is left out.

A definition named `X_Without...`, `X_With...` or `X_By...`, placed before `X`, is a
plausible slip in `X`: a dropped guard, a missing reset, a swapped order. With it
in place of `X`, the run reports the property violated. They are not part of the
specification.

## 4. What the runs show

| run | instance | checks | what could go wrong there |
|---|---|---|---|
| `outbox_refine` | 2 decisions about one entity, 2 processes, 2 attempts per call, 1 stray request per key, 1 crash, sticky refusals | `ExactlyOnceRefinement` | a timed-out request arrives after the reconciler repeated it; a stale list; a death between gateway and receipt |
| `outbox_live` | 2 decisions about one entity, 2 sessions of one process, 1 crash, refusals that change | `NoEffectWithoutIntent`, `AtMostOneReceipt`, `OutcomeWithReceipt`, `TypeInvariant`, `DanglingIsResolved` | the two sessions settle one intent differently; a lock that is not left; an intent that is forgotten |
| `ledger_append` | 3 sessions under the lock, 2 entities, 1 source id, 3 rows, SQLite | `ChainVerified`, `SourceOnce`, `LinkedToRecorded`, `AppendOnly`, `TypeInvariant` | appends and rollbacks interleave between look, link and insert |
| `ledger_intake` | a session with the lock, one without | `ChainVerified` *violated* | the webhook takes no lock |
| `projection_fold` | 1 folding session, 2 entities, 3 events of 5 types, any number of undone calls | `NoDrift`, `WatermarkMonotone`, `EventuallyCovered`, `TypeInvariant` | events and rows appear while a call is suspended; an insert that fails, or a crash, undoes it |
| `agent_routes` | 1 session; fraud, a deterministic row, an expired card; 2 failures, 1 new card, 2 days, 1 abort, a gateway that completes | `NewMethodFirst`, `TypeInvariant` | the second failure comes between the new card and the queued retry, and is one of the new card |
| `agent_decide` | 2 processes on PostgreSQL, 2 failures, 1 abort, a gateway that completes or times out, a reconciler | `OneDecisionEach`, `EveryFailureDecided` | both drains list the same failure; one dies anywhere |
| `agent_budget` | 2 sessions of one process, 3 failures, 3 days, budgets 1 a day and 2 a week | `GatedAttemptsWithinLimit` | an attempt is counted only after the gateway's answer; the sessions' clocks differ |
| `agent_rerun` | 1 session, 1 queued retry, 1 abort | `QueueDrains` *violated* | the row that was half executed makes each scan raise |
| `maintenance` | 2 entities, 3 events of 2 types, one of which may be late, 2 ticks, 1 dead archive run or redaction | `HotChainVerified`, `AuditVerifies`, `NothingLost`, `RowsTrue`, `DriftExplained`, `TypeInvariant` | late events among the archived ones; a second archive moves the anchor; events come between export and delete; a snapshot older than an archive |
| `services` | 3 deliveries, 2 handlers, 1 failure; 2 tasks, 2 operators, 1 event; 2 watchers, 2 entities, 2 scans of which 1 may overlap and 1 may die; 2 versions, 3 contexts, 1 decision, 2 counted events; about 2,200 requests for a due date; breaker with 3 callers, threshold 2, 5 failures; 3 callers on 1 semaphore, 2 merchants, a budget of 3, estimates 0 and 1, calls that cost up to 2; 2 buckets, 4 ticks | `EveryDeliveryCaptured`, `TaskAndEvent`, `OneRecoveryPerTrouble`, `CooldownHeld`, `EventuallyTold`, `EvidenceStands`, `ReplayIsTheGate`, `DueInWorkingHours`, `PaydayAhead`, `OneProbePerOpening`, `ClosesAgain`, `OverrunBounded`, `RateHeld`, `TypeInvariant` | see the module of each |
| `services_replay` | as `services` | `ReplayIsReadOnly` *violated* | the shadow rows of a replay are the highest version |

The three violated runs are disagreements between the code and what its own
documents say; `PROJECT.json` quotes them under "findings". The counterexample of
each is short and needs no unusual constant: `agent_rerun` needs one abort between
two commits, `ledger_intake` two sessions, `services_replay` a replay and then a
failure.

**Other disagreements.** The modules also state what the code's documents say in
places where it does not hold and no run is spent on showing it:

- `NoSettledDrift` (Projection, with two folding sessions): of two folds that read
  the same row, the one that saw more events may end on the status it started from
  and write the watermark only, over the status of the other
  (`core/projection.py:204`; `src/README.md:83` "zero drift"). On PostgreSQL an
  event that commits late stays behind the watermark even of a single fold.
- `ChargesWithinLimit` (Agent, retries queued a day ahead): the due scan asks
  neither gates nor counters, so a queued retry comes on top of another attempt of
  the same day (`agent/execute.py:542`; `core/policy.py:54` "max 1 retry attempt per
  24h per entity"), also after the customer has paid. A charge whose answer is
  "unknown" is in no budget either.
- `EscalationReachesAHuman` (Agent, a model that proposes a human):
  `ESCALATE_HUMAN` goes to `execute_action` after Gate-2 and ends at the gateway,
  as an unsupported action (`agent/decide.py:387`; `agent/execute.py:343`
  "deterministic stop, no gateway call").
- With a retention shorter than the widest window of a rule, which nothing in
  `archive_old_events` excludes, an event held back for its window stays in the table
  while its neighbours go, and its link leads nowhere (`core/archive.py:38`;
  `src/instate/core/archive.py:1` "chain-walkable export"). `MaintenanceAssumption`
  excludes it: 90 days against 7 as shipped. Without it, `Maintenance.cfg` with a
  window of 1 violates `HotChainVerified` in eight steps.
- A subscription paused after the last fold is charged (`core/gate.py:214`). The
  reconciler calls the gateway for an intent of its list that was resolved since.
- A replay reports changes even for unchanged limits, where a rule that does not
  concern a case has reached its limit (`replay/counterfactual.py:99`). It counts up to
  `created_at`, the time of the insert, and so also what was recorded after the gate
  had counted.
- A gateway that raises ends the reconcile run, unless the intent is the last one: the
  rollback expires the others, and the next `intent.entity_id` raises outside the `try`
  (`agent/reconcile.py:80`; `agent/reconcile.py:72` "never kills the boot"). Nothing is
  lost, since the next run lists them again (`DanglingIsResolved`). `drain_pending` has
  the same flaw after a duplicate (`agent/decide.py:448`; `agent/decide.py:463` "Skip, don't
  crash the drain").
- With the default estimate of 0, a single caller of the spend guard overruns its budget
  by what one call costs (`core/ops.py:143`). `OverrunBounded` is what holds for
  independent estimates and costs.
- Watchers notify at least once: a scan that overlaps may notify again within the
  cooldown and move `last_fired_at` back, and an entity whose answer was lost, or whose
  scan died before the mark, is told again (`core/watchers.py:44`, `:123`).

**Bounds.** `MaxStray`, `MaxCrashes`, `MaxAborts` count failures: one is enough to
cut each protocol at every point, since recovery starts from the same durable
state after every crash; the proofs hold for any number. `MaxId` and `MaxFailures` are two or three: a chain link, a race and
the event that reveals it; two failures of one entity make the second meet what
the first left. `MaxTime` is two where a window matters: the daily budget
turns over twice, and the weekly one is set to two attempts instead of three, so
that it can be exceeded within three days. Sessions are two where the question is
about a pair; the ledger has a third so that one can interfere with a pair.
Symmetry is used in `agent_budget`, over sessions of one process, and in
`maintenance`, over entities, which differ in nothing but their name; both check
safety only. `CHECK_DEADLOCK FALSE` stands where all work may be done.
In `maintenance` retention and window are zero, so that what was recorded before
the present tick is old: two ticks give two archives, and three events a
predecessor, one that is late, and one that comes after. In `services` there are two
versions (a seed, and one made of it by canary or replay, also while a gate that has
read the first has not written its row); the calendar goes from January to May, with a
short month, adjacent holidays and one in the middle, and zones on both sides of UTC; five failures of a breaker of threshold
two are two openings by count and one by a failed probe. With a budget of 3, estimates
of 0 or 1 and costs of 0 to 2, callers pass the check on one balance, overrun the
budget, and stop just below it. A second scan and one death, with two entities, are
enough to be marked by another scan while one is under way, and to leave a
notification without its mark.

**Fairness.** *Outbox*: a running session goes on (weak fairness of `Post` and
`CommitOutcome`, which nothing can block); locks are handed over by asyncio in
order and `worker resume` is run again and again (strong fairness of
`StartReconcile`, `ReconcileOne`); a gateway asked for ever neither raises nor
times out for ever (strong fairness of `Lookup`, `GatewayAnswers`). Without
the last, `DanglingIsResolved` cannot hold of any program. Crashes, lost and late
requests have none. *Projection*: a call of `fold_events` that runs takes its next step
(weak fairness of `FoldStep`). Nobody is obliged to call: `fold_events` runs after a
decision, a reconciliation, an executed row, an operator's resolution or by command, and
an event that arrives after the last of these is covered by none. Nor is a call obliged
to succeed. `EventuallyCovered` is therefore about the events a call has listed, and
calls that are not undone. *Agent*: `worker tick` is run again and again and a running tick
takes its next step; aborts are bounded by `MaxAborts`, that is, ticks do not die
for ever. Nothing obliges failures to arrive, time to pass, or the reconciler to
run. *Services*: senders repeat what was not acknowledged (Razorpay does until it
gets a 200) and handlers go on. `instate watch run` checks once; whoever sets up
watchers runs it again and again, so that scans are started and take their next step
(weak fairness) and time passes between them (strong, since it is suspended during a
scan). That the receiver answers every now and then is no fairness of the
specification but the assumption `Answers` inside `EventuallyTold`. Time passes for the breaker, callers come,
and not every call fails: `MaxFailures` bounds the failures.

## 5. What is proved

Every invariant and every action property that a passing run checks, and the three
refinements, are theorems: for all values of the constants that satisfy the named
assumption of the module, hence for any number of sessions, entities, decisions,
events and crashes. What a theorem assumes beyond that stands in its `ASSUME`, and below.

*OutboxProofs.* `IInv` says, for each session, that what it has at hand or in its
list has a durable intent, and that an action the adapter refuses can only be
answered "failed" (`WorkerInv`); and for each key, that nothing exists for it, at
the gateway or in the ledger, before its intent (`KeyInv`). Neither `AtMostOneReceipt`
nor `OutcomeWithReceipt` is inductive: both need that any two outcomes of one
action share a row, so that the second transaction meets the UNIQUE key and rolls
back (`OutcomeEvents`, `CommitRows`). From `IInv`: `Typing`, `IntentBeforeEffect`,
`SingleReceipt`, `OutcomesWithReceipts`. `Refinement` assumes `StickyRefusal` and
adds `TruthInv`: what a session is about to record is what the gateway did, and
the gateway did it at most once; each step of Outbox then maps to a step of
`ExactlyOnce` or to a stutter (`StepSimulates`).

*LedgerProofs.* `IInv` links every used row to an earlier row that is committed or
flushed by the same transaction, and says that the head a session has read is
one it can see; that is what survives a rollback. From it: `Typing`, `Linked`,
`DeliveredOnce` (two rows of one source are never both in the table, committed or
not), `GrowsOnly` (the committed rows implement `EventLog`). `ChainUnbroken`
assumes that every session holds the entity lock and adds `ChainInv`: at most one
session is inside an entity, so what it read as last stays last. It holds on both
databases; the run `ledger_intake` shows the assumption is needed.

*ProjectionProofs.* `Typing` holds for any number of folds. `ZeroDrift` and
`Forward` assume `Serial` (ids become visible in order) and one folding session;
`IInv` follows one fold: the row in memory agrees with the events up to its own
watermark, and an event past it is in the list or newer than the whole list. The
disagreement about `NoSettledDrift` in section 4 is why the second assumption is
needed.

*AgentProofs.* `IInv` is `RowsInv`, about the rows, and `SessionInv`, about the ticks.
`RowsInv`: a failure has a number of its own; a decision is about one failure and no two
are about the same (`DecisionInv`); a queue row belongs to a decision that says so
(`QueueInv`); a decision is with a human, in the queue or intended, and it has one
intent and one receipt at most (`RouteInv`). `SessionInv`: what a tick has at hand
agrees with the rows: a failure that is being reasoned about is undecided, an intent
that is carried out is there (`Placed`); two sessions never reason about one entity
(`Alone`), and two of one process never hold its lock (`Exclusive`). None of this is
inductive without the rest: that a failure is still undecided when the model has
answered and its decision is committed follows from the row lock, held since Gate-1, and
the row lock protects it only because every decision looks for the marker under that
lock. A step is then classified by what it does to the rows (`Effect`: nothing, or a
report, a decision, a queued retry that runs, or a settlement), and the other theorems
are about the five kinds instead of the eighteen actions. `Typing` needs nothing else.
`DecidedOnce` maps each kind to a step of `Recovery`. `MethodFirst` adds `MethodInv`:
before the intent of a charge a payment method came in that is newer than the failure
and than all others of the entity that had been recorded.
Gate-2 sees to it for a charge at once, the due scan's own look for one from the queue,
since a later failure, also one of the new card, may have come between. The theorem assumes `HardDeclinesAsked`,
that no deterministic taxonomy row of a hard decline says `RETRY_NOW`; Gate-2 is not
asked about such rows, and the shipped ones (`agent/diagnose.py:78`) all escalate.
`BudgetIsKept` adds `ClaimInv` (a charge the gates let through is recorded as an attempt
at the time of its intent, or a session is at the gateway with it) and `MoneyWithin`, so
that what Gate-2 counts is all that was let through. It assumes `Undisturbed`: sessions
of one process, answers other than "unknown", no tick that dies. Each part is needed,
and TLC finds a violation of `GatedAttemptsWithinLimit` if `Agent_budget.cfg` is given
two processes (the entity lock is per process, on either database), the answer "unknown"
(which leaves a charge nobody counts until it is reconciled), or one abort (the same,
between the gateway and the receipt). `agent_budget` has the same hypotheses in its
constants, but three days and two rules only.

*MaintenanceProofs.* `LedgerInv`: times and ids grow together and nothing occurs after
it is recorded (`TimeInv`: every caller of `record_event` passes the time of the call or
of the start of its tick), so that the archive takes the oldest events of an entity
(`SuffixInv`), what the run listed is what its delete finds (`SelectInv`), the newest
anchor is the last event that is gone (`AnchorInv`), and an event points at the last one
before it, or nothing before it was left (`ChainInv`). This gives `TableVerifies`,
`Kept` and `FilesVerify`. `RowsInv` adds, for the stored row and the snapshot of each
entity, that it is the fold of all events up to its watermark unless one was missing
when it was computed: `RowsAreTrue` and `DriftHasAReason`. The fold needs induction over
the events; see *Recursion*.

*HitlProofs.* `HitlInv`: an event of a task was recorded after its operator looked,
once, and is folded (`EntryInv`); a resolved task has one (`TaskInv`); and between a
recovery and the look of anyone who will record another, the entity had come to a status
that is not terminal (`SeenInv`, `DeskInv`): `TaskIsItsEvent`, `RecoveredOnce`.

*ServicesProofs.* One invariant for each service. `BreakerInv`: there are probes in the
half-open state only, while one is marked. `SpendInv`: for some estimate, what a
merchant has spent and the most its callers in flight or waiting can cost stay below the
bound; one caller more passes the check only if what is spent leaves room for its
estimate. `RateInv`: for each stretch of ticks, what was granted in it and what is left
in the bucket are at most a full bucket and the refill. `WatchersInv`: a noted
notification is as old as its watcher's mark at least, and the entities a scan has yet to
look at were noted a cooldown ago or the watcher was marked since the scan read it
(`ScanInv`). `PoliciesInv`: the version that a decision cites, or that a gate is
evaluating, has rows, which are never changed, and every entry of the chain agrees with
them. `TimingInv` says where the due date comes from; that it lies in
working hours and the payday ahead are facts about the functions. Each service has its
own variables, so that the invariants hold side by side (`EachServiceRuns`).
`ReplayFaithful` follows from the operators alone and needs no invariant.

*Recursion.* The library's principles of induction take the statement as an operator,
which the provers cannot instantiate. Recursion states them with sets (`SetInduction`,
`FiniteInduction`, `MinimalSubset`), from the well-foundedness of strict inclusion, and
derives from these what a fold over a finite set and a recursive function compute at
each step, for any operator; the other modules instantiate it with theirs. In that way
`Applied`, the statuses of Hitl, the sums of RateLimits and the months of RetryTiming
are proved about for inputs of any length.

The assumptions on constants are those the code justifies: months have 28 to 31 days and
requests come within the calendar (`TimingAssumption`); the callers of the spend guard
are finitely many; limits in an override are integers; nobody is called "none"; and
failures come in by `FailureArrives` only (`AgentAssumption`: whoever records one
records it with its cause).

The refinements are `Promise == INSTANCE ExactlyOnce WITH ...` in Outbox, `INSTANCE
EventLog WITH ...` in Ledger, and `INSTANCE Recovery WITH ...` in Agent; all three are
proved, and checked by `outbox_refine`, `ledger_append` and `agent_decide`.

Only model-checked: liveness (`DanglingIsResolved`, `EventuallyCovered`,
`EveryFailureDecided`, `EventuallyTold`, `ClosesAgain`, `EveryDeliveryCaptured`),
which TLAPS does not reach, since it has no ENABLED.

## 6. What is not modelled

Left out for good: precedents (similarity of embeddings, advisory), dunning
sequences (a field of the digest), privacy, sanitizing, encryption, vault, tenants
and configuration (filters, keys and DDL without a state machine), metrics,
evaluation, replay harness, seed data, console, demo and wizard (reports and
presentation). In the modelled parts: the text of prompts and digests, HTTP
bodies and signatures, logging, the diagnosis rules (a total lookup in Agent; the
`LookupError` of an entity type that was never seeded, behind which a drain would
stop, is not there), the failover of the reasoner (it keeps no state that is read),
the reporting parts of replay and rebuild, `sla_breaches`, two archive runs at once, and
callers of the breaker that never report, a promise whose date cannot be parsed,
and a spend guard without a budget.
Agent leaves the due date open (`Delays`); RetryTiming computes it.
