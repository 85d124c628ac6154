------------------------------- MODULE Outbox -------------------------------
(***************************************************************************)
(* The outbox of agent/execute.py and the boot reconciler of               *)
(* agent/reconcile.py, over the HTTP adapter of adapters/razorpay.py.      *)
(*                                                                         *)
(* A worker that executes an action commits ActionIntended to the ledger,  *)
(* calls the gateway with an idempotency key made from the decision, and   *)
(* commits the receipt together with the outcome events.  A worker that    *)
(* reconciles reads the intents without a receipt once, then resolves them *)
(* one by one.  Workers of one process share the entity locks of           *)
(* core/locks.py; workers of different processes share only the database.  *)
(* A process may die between any two commits, and a request that timed out *)
(* may still reach the gateway.                                            *)
(***************************************************************************)
EXTENDS Integers, Domain

CONSTANTS
  Key,             \* idempotency keys: one per decision row
  EntityOf,        \* EntityOf[k]: the entity the decision is about
  Worker,          \* sessions that run the agent
  ProcessOf,       \* ProcessOf[w]: the OS process of a worker
  Action,          \* the actions callers execute, among LEGAL_ACTIONS
  NoKey,           \* "no decision at hand"
  StickyRefusal,   \* does the gateway repeat a refusal for the same key?
  MAX_ATTEMPTS,    \* HTTP attempts of one gateway call
  MaxStray,        \* bound: timed-out requests of one key still on their way
  MaxCrashes       \* bound: process crashes

Process == {ProcessOf[w] : w \in Worker}

ASSUME OutboxAssumption ==
  /\ NoKey \notin Key
  /\ ProcessOf = [w \in Worker |-> ProcessOf[w]]
  /\ EntityOf = [k \in Key |-> EntityOf[k]]
  /\ Action \subseteq LEGAL_ACTIONS \ {"RETRY_SCHEDULED"}   \* that one is queued, never executed
  /\ StickyRefusal \in BOOLEAN
  /\ MAX_ATTEMPTS \in Nat \ {0}
  /\ MaxStray \in Nat
  /\ MaxCrashes \in Nat

VARIABLES
  ledger,          \* committed events, as <<key, event type>>: source_event_id is UNIQUE
  plan,            \* plan[k]: the action in the payload of the intent
  remote,          \* remote[k]: the gateway's memory of the key (external)
  effects,         \* effects[k]: times the gateway performed the action (external)
  stray,           \* stray[k]: requests whose sender gave up on the answer
  pc, mode, cur, attempt, answer, todo,   \* what each worker is doing
  crashes

dbVars == <<ledger, plan>>
gatewayVars == <<remote, effects, stray>>
workerVars == <<pc, mode, cur, attempt, answer, todo>>
vars == <<ledger, plan, remote, effects, stray, pc, mode, cur, attempt, answer, todo, crashes>>

EventType == {"ActionIntended", "ActionCompleted", "ActionFailed", "RetryAttempted",
              "RetryScheduled", "RetrySucceeded", "PaymentLinkSent", "RecoveryActionSent",
              "MethodCheckCompleted", "PaymentMethodChanged", "CustomerContacted"}
Receipts == {"ActionCompleted", "ActionFailed"}

\* "found" is a completed answer that lookup rebuilt: it carries neither an
\* amount nor data.
Answers == {"none", "completed", "failed", "found", "unknown"}

TypeInvariant ==
  /\ ledger \subseteq Key \X EventType
  /\ plan \in [Key -> LEGAL_ACTIONS \cup {"NONE"}]
  /\ remote \in [Key -> {"none", "completed", "failed"}]
  /\ effects \in [Key -> Nat]
  /\ stray \in [Key -> Nat]
  /\ pc \in [Worker -> {"idle", "scan", "lookup", "post", "await", "commit"}]
  /\ mode \in [Worker -> {"execute", "reconcile"}]
  /\ cur \in [Worker -> Key \cup {NoKey}]
  /\ attempt \in [Worker -> 0..MAX_ATTEMPTS]
  /\ answer \in [Worker -> Answers]
  /\ todo \in [Worker -> SUBSET Key]
  /\ crashes \in Nat

Init ==
  /\ ledger = {}
  /\ plan = [k \in Key |-> "NONE"]
  /\ remote = [k \in Key |-> "none"]
  /\ effects = [k \in Key |-> 0]
  /\ stray = [k \in Key |-> 0]
  /\ pc = [w \in Worker |-> "idle"]
  /\ mode = [w \in Worker |-> "execute"]
  /\ cur = [w \in Worker |-> NoKey]
  /\ attempt = [w \in Worker |-> 0]
  /\ answer = [w \in Worker |-> "none"]
  /\ todo = [w \in Worker |-> {}]
  /\ crashes = 0

-----------------------------------------------------------------------------
(* Reading the ledger and the locks *)

Logged(k, type) == <<k, type>> \in ledger
HasReceipt(k) == \E type \in Receipts : Logged(k, type)
Dangling == {k \in Key : Logged(k, "ActionIntended") /\ ~HasReceipt(k)}

\* A worker holds the entity lock of its process from the moment it has a
\* decision at hand until it is done with it; not even it can take it twice.
LockFree(w, k) ==
  \A other \in Worker :
    ProcessOf[other] = ProcessOf[w] /\ cur[other] # NoKey => EntityOf[cur[other]] # EntityOf[k]

Hold(w, k, step) ==
  /\ LockFree(w, k)
  /\ cur' = [cur EXCEPT ![w] = k]
  /\ pc' = [pc EXCEPT ![w] = step]
  /\ attempt' = [attempt EXCEPT ![w] = 0]
  /\ answer' = [answer EXCEPT ![w] = "none"]

\* Leave the lock, and go on with the rest of the list if there is one.
Leave(w, rest) ==
  /\ cur' = [cur EXCEPT ![w] = NoKey]
  /\ pc' = [pc EXCEPT ![w] = IF rest = {} THEN "idle" ELSE "scan"]
  /\ attempt' = [attempt EXCEPT ![w] = 0]
  /\ answer' = [answer EXCEPT ![w] = "none"]
  /\ todo' = [todo EXCEPT ![w] = rest]
  /\ UNCHANGED mode

\* An executing worker is done, a reconciling one takes the next intent.
Release(w) == Leave(w, todo[w])

\* An exception.  A reconciler defers the intent, but its rollback expires the
\* intents that are left: reading the next one raises, and the run is over.
GiveUp(w) == Leave(w, {})

-----------------------------------------------------------------------------
(* Intent, then gateway, then receipt.  A definition named X_Without..., or    *)
(* X_With..., just before a definition X is a plausible slip in X that one of  *)
(* the properties below must catch.                                            *)

\* The intent is added to the session but not committed.
WriteIntent_WithoutCommit(w, k, action) ==
  /\ pc[w] = "idle"
  /\ Hold(w, k, "post")
  /\ ~Logged(k, "ActionIntended")
  /\ plan' = [plan EXCEPT ![k] = action]
  /\ mode' = [mode EXCEPT ![w] = "execute"]
  /\ UNCHANGED <<ledger, gatewayVars, todo, crashes>>

\* write_intent: the intent is committed, under the UNIQUE key, before the
\* gateway hears of the action.  A second intent for the key raises and
\* changes nothing.
WriteIntent(w, k, action) ==
  /\ pc[w] = "idle"
  /\ Hold(w, k, "post")
  /\ ~Logged(k, "ActionIntended")
  /\ ledger' = ledger \cup {<<k, "ActionIntended">>}
  /\ plan' = [plan EXCEPT ![k] = action]
  /\ mode' = [mode EXCEPT ![w] = "execute"]
  /\ UNCHANGED <<gatewayVars, todo, crashes>>

\* The adapter sends one HTTP request, or refuses the action by itself.
Post(w) ==
  /\ pc[w] = "post"
  /\ \/ /\ plan[cur[w]] \in GATEWAY_ACTIONS
        /\ pc' = [pc EXCEPT ![w] = "await"]
        /\ attempt' = [attempt EXCEPT ![w] = @ + 1]
        /\ UNCHANGED <<answer, remote>>
     \/ /\ plan[cur[w]] \notin GATEWAY_ACTIONS
        /\ pc' = [pc EXCEPT ![w] = "commit"]
        /\ answer' = [answer EXCEPT ![w] = "failed"]
        /\ remote' = [remote EXCEPT ![cur[w]] = "failed"]
        /\ UNCHANGED attempt
  /\ UNCHANGED <<dbVars, effects, stray, mode, cur, todo, crashes>>

\* The gateway is idempotent per key (external): it repeats a completed
\* answer without performing the action again.  A method probe only reads.
GatewayHandles(k, verdict) ==
  IF plan[k] = "CHECK_METHOD_UPDATED"
  THEN UNCHANGED <<remote, effects>>
  ELSE /\ remote[k] = "completed" \/ (remote[k] = "failed" /\ StickyRefusal)
            => verdict = remote[k]
       /\ remote' = [remote EXCEPT ![k] = verdict]
       /\ effects' = [effects EXCEPT ![k] =
                        IF verdict = "completed" /\ remote[k] # "completed" THEN @ + 1 ELSE @]

GatewayAnswers(w) ==
  /\ pc[w] = "await"
  /\ \E verdict \in {"completed", "failed"} :
       /\ GatewayHandles(cur[w], verdict)
       /\ answer' = [answer EXCEPT ![w] = verdict]
  /\ pc' = [pc EXCEPT ![w] = "commit"]
  /\ attempt' = [attempt EXCEPT ![w] = 0]
  /\ UNCHANGED <<dbVars, stray, mode, cur, todo, crashes>>

\* A request without an answer is lost, or is still on its way.
GoesAstray(k) ==
  stray' \in {stray, [stray EXCEPT ![k] = IF @ < MaxStray THEN @ + 1 ELSE @]}

\* One attempt too many.
NoAnswer_WithExtraAttempt(w) ==
  /\ pc[w] = "await"
  /\ GoesAstray(cur[w])
  /\ IF attempt[w] <= MAX_ATTEMPTS
     THEN pc' = [pc EXCEPT ![w] = "post"] /\ UNCHANGED answer
     ELSE pc' = [pc EXCEPT ![w] = "commit"] /\ answer' = [answer EXCEPT ![w] = "unknown"]
  /\ UNCHANGED <<dbVars, remote, effects, mode, cur, attempt, todo, crashes>>

\* Giving up counts as a refusal.
NoAnswer_WithFailure(w) ==
  /\ pc[w] = "await"
  /\ GoesAstray(cur[w])
  /\ pc' = [pc EXCEPT ![w] = "commit"]
  /\ answer' = [answer EXCEPT ![w] = "failed"]
  /\ attempt' = [attempt EXCEPT ![w] = 0]
  /\ UNCHANGED <<dbVars, remote, effects, mode, cur, todo, crashes>>

\* Timeout, transport error, 429 or 5xx: try again, or give up with "unknown".
\* The method probe is a single GET.
NoAnswer(w) ==
  /\ pc[w] = "await"
  /\ GoesAstray(cur[w])
  /\ IF attempt[w] < MAX_ATTEMPTS /\ plan[cur[w]] # "CHECK_METHOD_UPDATED"
     THEN /\ pc' = [pc EXCEPT ![w] = "post"]
          /\ UNCHANGED <<answer, attempt>>
     ELSE /\ pc' = [pc EXCEPT ![w] = "commit"]
          /\ answer' = [answer EXCEPT ![w] = "unknown"]
          /\ attempt' = [attempt EXCEPT ![w] = 0]
  /\ UNCHANGED <<dbVars, remote, effects, mode, cur, todo, crashes>>

\* The request of a caller that gave up, or died, reaches the gateway.
StrayArrives(k) ==
  /\ stray[k] > 0
  /\ stray' = [stray EXCEPT ![k] = @ - 1]
  /\ \E verdict \in {"completed", "failed"} : GatewayHandles(k, verdict)
  /\ UNCHANGED <<dbVars, workerVars, crashes>>

\* The events of one outcome: the receipt, the event the fold understands,
\* the recovered amount and a found method when the answer carries them, and
\* the contact.
OutcomeRows(action, status, detailed, contacted) ==
  {type \in EventType :
     \/ type = (IF status = "completed" THEN "ActionCompleted" ELSE "ActionFailed")
     \/ type \in OUTCOME_EVENT(action)
     \/ type = "RetrySucceeded" /\ status = "completed" /\ detailed /\ action \in CHARGING_ACTIONS
     \/ type = "PaymentMethodChanged" /\ status = "completed" /\ detailed
          /\ action = "CHECK_METHOD_UPDATED"
     \/ type = "CustomerContacted" /\ contacted}

\* The outcomes a worker may write for its answer.  Only an executing worker
\* has the proposal, whose channel counts as a contact whatever the action.
Outcomes(w) ==
  LET action == plan[cur[w]]
      status == IF answer[w] = "failed" THEN "failed" ELSE "completed"
  IN {OutcomeRows(action, status, detailed, contacted) :
        detailed \in {d \in BOOLEAN : d => answer[w] = "completed"},
        contacted \in {c \in BOOLEAN : /\ HasDefaultChannel(action) => c
                                       /\ c => HasDefaultChannel(action) \/ mode[w] = "execute"}}

\* Only the receipt is protected by its key; other rows are written if absent.
CommitOutcome_WithoutRollback(w) ==
  /\ pc[w] = "commit"
  /\ IF answer[w] = "unknown"
     THEN UNCHANGED ledger
     ELSE \E types \in Outcomes(w) : ledger' = ledger \cup ({cur[w]} \X types)
  /\ Release(w)
  /\ UNCHANGED <<plan, gatewayVars, crashes>>

\* The receipt is committed before the outcome events, which a crash loses.
CommitOutcome_WithTwoCommits(w) ==
  /\ pc[w] = "commit"
  /\ IF answer[w] = "unknown"
     THEN UNCHANGED ledger
     ELSE \E types \in Outcomes(w), kept \in {EventType, Receipts} :
            LET rows == {cur[w]} \X types IN
            ledger' = IF rows \cap ledger = {} THEN ledger \cup (rows \cap (Key \X kept)) ELSE ledger
  /\ Release(w)
  /\ UNCHANGED <<plan, gatewayVars, crashes>>

\* commit_outcome: receipt and outcome events in one transaction.  "unknown"
\* writes no event.  A source_event_id already taken raises, and the whole
\* transaction rolls back.
CommitOutcome(w) ==
  /\ pc[w] = "commit"
  /\ \/ answer[w] = "unknown" /\ UNCHANGED ledger /\ Release(w)
     \/ /\ answer[w] # "unknown"
        /\ \E types \in Outcomes(w) :
             LET rows == {cur[w]} \X types IN
             \/ rows \cap ledger = {} /\ ledger' = ledger \cup rows /\ Release(w)
             \/ rows \cap ledger # {} /\ UNCHANGED ledger /\ GiveUp(w)
  /\ UNCHANGED <<plan, gatewayVars, crashes>>

-----------------------------------------------------------------------------
(* Reconciliation *)

\* find_dangling_intents: the list is read once, outside any lock.
StartReconcile(w) ==
  /\ pc[w] = "idle"
  /\ Dangling # {}
  /\ todo' = [todo EXCEPT ![w] = Dangling]
  /\ pc' = [pc EXCEPT ![w] = "scan"]
  /\ mode' = [mode EXCEPT ![w] = "reconcile"]
  /\ UNCHANGED <<dbVars, gatewayVars, cur, attempt, answer, crashes>>

\* reconcile_one takes the next intent of the list under the entity lock.
ReconcileOne(w, k) ==
  /\ pc[w] = "scan"
  /\ k \in todo[w]
  /\ Hold(w, k, "lookup")
  /\ todo' = [todo EXCEPT ![w] = @ \ {k}]
  /\ UNCHANGED <<dbVars, gatewayVars, mode, crashes>>

\* gateway.lookup finds the key, or misses it: a 404, an error and an action
\* that is not a payment link all read as None, and the call is made again.
Lookup(w) ==
  /\ pc[w] = "lookup"
  /\ \/ /\ remote[cur[w]] = "completed"
        /\ answer' = [answer EXCEPT ![w] = "found"]
        /\ pc' = [pc EXCEPT ![w] = "commit"]
     \/ /\ pc' = [pc EXCEPT ![w] = "post"]
        /\ UNCHANGED answer
  /\ UNCHANGED <<dbVars, gatewayVars, mode, cur, attempt, todo, crashes>>

-----------------------------------------------------------------------------
(* Failures *)

\* The exception leaves the entity lock taken.
GatewayRaises_WithoutRelease(w) ==
  /\ pc[w] \in {"lookup", "await"}
  /\ IF pc[w] = "await" THEN GoesAstray(cur[w]) ELSE UNCHANGED stray
  /\ pc' = [pc EXCEPT ![w] = "idle"]
  /\ attempt' = [attempt EXCEPT ![w] = 0]
  /\ todo' = [todo EXCEPT ![w] = {}]
  /\ UNCHANGED <<dbVars, remote, effects, cur, answer, mode, crashes>>

\* A gateway that raises: nothing is written.
GatewayRaises(w) ==
  /\ pc[w] \in {"lookup", "await"}
  /\ IF pc[w] = "await" THEN GoesAstray(cur[w]) ELSE UNCHANGED stray
  /\ GiveUp(w)
  /\ UNCHANGED <<dbVars, remote, effects, crashes>>

\* A process dies: its sessions, lists and locks are gone, the requests they
\* were waiting on may still arrive.
Crash(p) ==
  /\ crashes < MaxCrashes
  /\ crashes' = crashes + 1
  /\ LET dead == {w \in Worker : ProcessOf[w] = p}
         waiting == {cur[w] : w \in {v \in dead : pc[v] = "await"}}
     IN /\ \E w \in dead : pc[w] # "idle"
        /\ pc' = [w \in Worker |-> IF w \in dead THEN "idle" ELSE pc[w]]
        /\ mode' = [w \in Worker |-> IF w \in dead THEN "execute" ELSE mode[w]]
        /\ cur' = [w \in Worker |-> IF w \in dead THEN NoKey ELSE cur[w]]
        /\ attempt' = [w \in Worker |-> IF w \in dead THEN 0 ELSE attempt[w]]
        /\ answer' = [w \in Worker |-> IF w \in dead THEN "none" ELSE answer[w]]
        /\ todo' = [w \in Worker |-> IF w \in dead THEN {} ELSE todo[w]]
        /\ stray' = [k \in Key |-> IF k \in waiting /\ stray[k] < MaxStray
                                   THEN stray[k] + 1 ELSE stray[k]]
  /\ UNCHANGED <<dbVars, remote, effects>>

-----------------------------------------------------------------------------

Next ==
  \/ \E w \in Worker, k \in Key, action \in Action : WriteIntent(w, k, action)
  \/ \E w \in Worker, k \in Key : ReconcileOne(w, k)
  \/ \E w \in Worker : \/ Post(w) \/ GatewayAnswers(w) \/ NoAnswer(w)
                       \/ CommitOutcome(w) \/ StartReconcile(w) \/ Lookup(w)
                       \/ GatewayRaises(w)
  \/ \E k \in Key : StrayArrives(k)
  \/ \E p \in Process : Crash(p)

Spec == Init /\ [][Next]_vars

-----------------------------------------------------------------------------
(* Safety *)

\* The gateway never performs an action the ledger does not know of: a crash
\* at any point leaves a durable intent to reconcile (write_intent commits
\* before execute_action calls the gateway).
NoEffectWithoutIntent ==
  \A k \in Key : effects[k] > 0 => Logged(k, "ActionIntended")

\* Whatever races for one intent - the executing worker, reconcilers with
\* stale lists, gateways that change their mind - the ledger never holds both
\* a completed and a failed receipt for it.
AtMostOneReceipt ==
  \A k \in Key : ~(Logged(k, "ActionCompleted") /\ Logged(k, "ActionFailed"))

\* The events the gates count exist exactly when the receipt does, also across
\* crashes: commit_outcome writes them in one transaction.
OutcomeWithReceipt ==
  \A k \in Key :
    /\ \A type \in OUTCOME_EVENT(plan[k]) : Logged(k, type) <=> HasReceipt(k)
    /\ Logged(k, "RetrySucceeded") \/ Logged(k, "PaymentMethodChanged")
         => Logged(k, "ActionCompleted")

(* What a gateway that repeats its refusals makes of it: each action is
   performed at most once and its receipt is true.  A method probe changes
   nothing at the gateway and is promised nothing. *)

\* The place of an action at the gateway, for the abstract specification.
PhaseOf(k) ==
  IF plan[k] = "CHECK_METHOD_UPDATED" \/ ~Logged(k, "ActionIntended") THEN "absent"
  ELSE IF effects[k] > 1 THEN "repeated"
  ELSE IF effects[k] = 1 THEN "performed"
  ELSE IF remote[k] = "failed" THEN "refused" ELSE "intended"

ReceiptOf(k) ==
  IF plan[k] = "CHECK_METHOD_UPDATED" \/ ~HasReceipt(k) THEN "none"
  ELSE IF Logged(k, "ActionCompleted") THEN "completed" ELSE "failed"

phase == [k \in Key |-> PhaseOf(k)]
receipt == [k \in Key |-> ReceiptOf(k)]

Promise == INSTANCE ExactlyOnce WITH Key <- Key, phase <- phase, receipt <- receipt

\* Seen through that mapping, the outbox is the exactly-once register: lost,
\* repeated and late requests, concurrent reconcilers and crashes never make
\* the gateway act twice, and never make the ledger contradict the gateway.
ExactlyOnceRefinement == Promise!Spec

-----------------------------------------------------------------------------
(* Liveness *)

\* A worker that is running takes its next step, locks are handed over, the
\* reconciler is run again and again (boot, `instate worker resume`), and a
\* gateway that is asked again and again neither raises nor stays silent for
\* ever.
Fairness ==
  \A w \in Worker :
    /\ WF_vars(Post(w) \/ CommitOutcome(w))
    /\ SF_vars(Lookup(w))
    /\ SF_vars(GatewayAnswers(w))
    /\ SF_vars(StartReconcile(w))
    /\ SF_vars(\E k \in Key : ReconcileOne(w, k))

FairSpec == Spec /\ Fairness

\* No intent dangles for ever, whatever was lost on the way.
DanglingIsResolved == \A k \in Key : Logged(k, "ActionIntended") ~> HasReceipt(k)

=============================================================================
