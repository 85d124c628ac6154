---------------------------- MODULE OutboxProofs ----------------------------
(***************************************************************************)
(* Proofs about Outbox for every set of keys and workers, every assignment *)
(* of workers to processes and every bound: typing, the intent before the  *)
(* effect, a single receipt, and outcome events with their receipt.        *)
(***************************************************************************)
EXTENDS Outbox, TLAPS

USE DEF Receipts

(* The tables of Domain, as the proofs use them. *)

\* Every action the gateway is asked for has an outcome event, and that event
\* is no receipt and none of the events that depend on the answer.
LEMMA OutcomeEvents ==
  ASSUME NEW action \in LEGAL_ACTIONS
  PROVE  /\ OUTCOME_EVENT(action) \subseteq EventType
         /\ action \in GATEWAY_ACTIONS => OUTCOME_EVENT(action) # {}
         /\ \A type \in OUTCOME_EVENT(action) :
              type \notin {"ActionIntended", "ActionCompleted", "ActionFailed",
                           "RetrySucceeded", "PaymentMethodChanged", "CustomerContacted"}
  BY DEF LEGAL_ACTIONS, OUTCOME_EVENT, EventType, GATEWAY_ACTIONS, CHARGING_ACTIONS

\* What one transaction of commit_outcome holds.
LEMMA OutcomeRowsHold ==
  ASSUME NEW action \in LEGAL_ACTIONS, NEW status \in {"completed", "failed"},
         NEW detailed \in BOOLEAN, NEW contacted \in BOOLEAN,
         NEW rows, rows = OutcomeRows(action, status, detailed, contacted)
  PROVE  /\ rows \subseteq EventType
         /\ "ActionIntended" \notin rows
         /\ OUTCOME_EVENT(action) \subseteq rows
         /\ "ActionCompleted" \in rows <=> status = "completed"
         /\ "ActionFailed" \in rows <=> status = "failed"
         /\ "RetrySucceeded" \in rows => status = "completed"
         /\ "PaymentMethodChanged" \in rows => status = "completed"
  <1>1. /\ "ActionIntended" \in EventType /\ "ActionCompleted" \in EventType
        /\ "ActionFailed" \in EventType
    BY DEF EventType
  <1>2. QED
    BY <1>1, OutcomeEvents DEF OutcomeRows

\* The transactions a worker may commit for its answer.
LEMMA OutcomesAre ==
  ASSUME NEW w \in Worker, plan[cur[w]] \in LEGAL_ACTIONS,
         NEW types \in Outcomes(w)
  PROVE  /\ types \subseteq EventType
         /\ "ActionIntended" \notin types
         /\ OUTCOME_EVENT(plan[cur[w]]) \subseteq types
         /\ "ActionCompleted" \in types <=> answer[w] # "failed"
         /\ "ActionFailed" \in types <=> answer[w] = "failed"
         /\ "RetrySucceeded" \in types => "ActionCompleted" \in types
         /\ "PaymentMethodChanged" \in types => "ActionCompleted" \in types
  <1>1. PICK detailed \in BOOLEAN, contacted \in BOOLEAN :
          types = OutcomeRows(plan[cur[w]],
                              IF answer[w] = "failed" THEN "failed" ELSE "completed",
                              detailed, contacted)
    BY DEF Outcomes, HasDefaultChannel
  <1>2. QED
    BY <1>1, OutcomeRowsHold

-----------------------------------------------------------------------------
(* The inductive invariant *)

\* What a worker has at hand while it is between two steps.
WorkerInv(w) ==
    /\ pc[w] \in {"lookup", "post", "await", "commit"} => cur[w] \in Key
    /\ cur[w] \in Key => Logged(cur[w], "ActionIntended")
    /\ \A k \in todo[w] : Logged(k, "ActionIntended")
    /\ pc[w] = "post" => attempt[w] < MAX_ATTEMPTS
    /\ pc[w] = "lookup" => attempt[w] = 0
    /\ pc[w] = "await" => plan[cur[w]] \in GATEWAY_ACTIONS
    /\ pc[w] = "commit" => /\ answer[w] # "none"
                           /\ plan[cur[w]] \notin GATEWAY_ACTIONS => answer[w] = "failed"
WorkersInv == \A w \in Worker : WorkerInv(w)

\* Nothing exists for a key before its intent; an action the adapter refuses
\* is never completed.
KeyInv(k) ==
    /\ Logged(k, "ActionIntended") => plan[k] \in Action
    /\ ~Logged(k, "ActionIntended") =>
         /\ plan[k] = "NONE" /\ remote[k] = "none" /\ effects[k] = 0 /\ stray[k] = 0
         /\ \A type \in EventType : ~Logged(k, type)
    /\ plan[k] \notin GATEWAY_ACTIONS =>
         stray[k] = 0 /\ remote[k] # "completed" /\ ~Logged(k, "ActionCompleted")
KeysInv == \A k \in Key : KeyInv(k)

IInv ==
  /\ TypeInvariant
  /\ WorkersInv
  /\ KeysInv
  /\ AtMostOneReceipt
  /\ OutcomeWithReceipt

THEOREM InitIInv == Init => IInv
  <1> SUFFICES ASSUME Init PROVE IInv
    OBVIOUS
  <1> USE OutboxAssumption DEF Init
  <1>1. TypeInvariant
    BY DEF TypeInvariant, Answers
  <1>2. WorkersInv
    BY DEF WorkersInv, WorkerInv
  <1>3. KeysInv
    BY DEF KeysInv, KeyInv, Logged, GATEWAY_ACTIONS
  <1>4. AtMostOneReceipt
    BY DEF AtMostOneReceipt, Logged
  <1>5. OutcomeWithReceipt
    BY DEF OutcomeWithReceipt, Logged, HasReceipt, OUTCOME_EVENT
  <1>6. QED
    BY <1>1, <1>2, <1>3, <1>4, <1>5 DEF IInv

\* Receipts and outcome events only depend on the committed rows.
LEMMA SameRows ==
  ASSUME IInv, UNCHANGED dbVars
  PROVE  AtMostOneReceipt' /\ OutcomeWithReceipt'
  BY DEF IInv, dbVars, AtMostOneReceipt, OutcomeWithReceipt, Logged, HasReceipt

LEMMA WriteIntentIInv ==
  ASSUME IInv, NEW w \in Worker, NEW k \in Key, NEW action \in Action, WriteIntent(w, k, action)
  PROVE  IInv'
  <1> USE DEF IInv
  <1>1. action \in LEGAL_ACTIONS /\ <<k, "ActionIntended">> \in Key \X EventType
    BY OutboxAssumption DEF EventType
  <1>2. TypeInvariant'
    BY <1>1, OutboxAssumption DEF TypeInvariant, Answers, WriteIntent, Hold, gatewayVars
  <1>3. \A j \in Key, type \in EventType :
          Logged(j, type)' <=> Logged(j, type) \/ (j = k /\ type = "ActionIntended")
    BY DEF Logged, WriteIntent
  <1>4. \A type \in EventType : ~Logged(k, type)
    BY DEF KeysInv, KeyInv, WriteIntent
  <1>5. WorkersInv'
    <2> SUFFICES ASSUME NEW v \in Worker PROVE WorkerInv(v)'
      BY DEF WorkersInv
    <2> USE DEF WorkersInv, WorkerInv
    <2>1. todo' = todo
      BY DEF WriteIntent
    <2>2. \A j \in Key : Logged(j, "ActionIntended") \/ j = k => Logged(j, "ActionIntended")'
      BY <1>3 DEF EventType
    <2>3. CASE v = w
      BY <2>1, <2>2, <2>3, OutboxAssumption DEF TypeInvariant, WriteIntent, Hold
    <2>4. CASE v # w
      <3>1. pc[v] = "await" \/ pc[v] = "commit" => cur[v] # k /\ cur[v] \in Key
        BY DEF WriteIntent
      <3>2. /\ pc'[v] = pc[v] /\ cur'[v] = cur[v] /\ attempt'[v] = attempt[v]
            /\ answer'[v] = answer[v]
        BY <2>4 DEF TypeInvariant, WriteIntent, Hold
      <3>3. \A j \in Key : j # k => plan'[j] = plan[j]
        BY DEF TypeInvariant, WriteIntent
      <3>4. QED
        BY <2>1, <2>2, <3>1, <3>2, <3>3 DEF TypeInvariant
    <2>5. QED
      BY <2>3, <2>4
  <1>6. KeysInv'
    BY <1>3, <1>4 DEF KeysInv, KeyInv, TypeInvariant, WriteIntent, Hold, gatewayVars, EventType
  <1>7. AtMostOneReceipt'
    BY <1>3 DEF AtMostOneReceipt, EventType
  <1>8. OutcomeWithReceipt'
    <2> SUFFICES ASSUME NEW j \in Key PROVE OutcomeWithReceipt!(j)'
      BY DEF OutcomeWithReceipt
    <2>1. CASE j = k
      BY <1>1, <1>3, <1>4, <2>1, OutcomeEvents
      DEF HasReceipt, TypeInvariant, WriteIntent, EventType
    <2>2. CASE j # k
      <3>1. plan'[j] = plan[j] /\ \A type \in EventType : Logged(j, type)' <=> Logged(j, type)
        BY <1>3, <2>2 DEF TypeInvariant, WriteIntent
      <3>2. \A type \in OUTCOME_EVENT(plan[j]) : type \in EventType
        BY OutcomeEvents DEF TypeInvariant, OUTCOME_EVENT, CHARGING_ACTIONS
      <3>3. QED
        BY <3>1, <3>2 DEF HasReceipt, OutcomeWithReceipt, EventType
    <2>3. QED
      BY <2>1, <2>2
  <1>9. QED
    BY <1>2, <1>5, <1>6, <1>7, <1>8

\* The other workers of a step that leaves the ledger alone.
LEMMA OtherWorkers ==
  ASSUME IInv, UNCHANGED dbVars, NEW w \in Worker, NEW v \in Worker \ {w},
         pc'[v] = pc[v], cur'[v] = cur[v], attempt'[v] = attempt[v],
         answer'[v] = answer[v], todo'[v] = todo[v]
  PROVE  WorkerInv(v)'
  BY DEF IInv, WorkersInv, WorkerInv, Logged, dbVars

LEMMA ReconcileOneIInv ==
  ASSUME IInv, NEW w \in Worker, NEW k \in Key, ReconcileOne(w, k)
  PROVE  IInv'
  <1> USE DEF IInv, ReconcileOne, Hold
  <1>1. TypeInvariant'
    BY OutboxAssumption DEF TypeInvariant, Answers, dbVars, gatewayVars
  <1>2. ASSUME NEW v \in Worker PROVE WorkerInv(v)'
    <2>1. CASE v = w
      BY <2>1 DEF WorkersInv, WorkerInv, TypeInvariant, Logged, dbVars
    <2>2. CASE v # w
      BY <2>2, OtherWorkers DEF TypeInvariant
    <2>3. QED
      BY <2>1, <2>2
  <1>3. KeysInv'
    BY DEF KeysInv, KeyInv, Logged, dbVars, gatewayVars
  <1>4. QED
    BY <1>1, <1>2, <1>3, SameRows DEF WorkersInv

LEMMA PostIInv ==
  ASSUME IInv, NEW w \in Worker, Post(w)
  PROVE  IInv'
  <1> USE DEF IInv, Post
  <1>1. cur[w] \in Key /\ Logged(cur[w], "ActionIntended") /\ attempt[w] < MAX_ATTEMPTS
    BY DEF WorkersInv, WorkerInv
  <1>2. TypeInvariant'
    BY <1>1, OutboxAssumption DEF TypeInvariant, Answers, dbVars
  <1>3. ASSUME NEW v \in Worker PROVE WorkerInv(v)'
    <2>1. CASE v = w
      BY <1>1, <2>1 DEF WorkersInv, WorkerInv, TypeInvariant, Logged, dbVars
    <2>2. CASE v # w
      BY <2>2, OtherWorkers DEF TypeInvariant
    <2>3. QED
      BY <2>1, <2>2
  <1>4. KeysInv'
    BY <1>1 DEF KeysInv, KeyInv, TypeInvariant, Logged, dbVars
  <1>5. QED
    BY <1>2, <1>3, <1>4, SameRows DEF WorkersInv

\* What the gateway may do to the memory of one key.
LEMMA GatewayHandlesKeys ==
  ASSUME IInv, NEW k \in Key, NEW verdict \in {"completed", "failed"}, GatewayHandles(k, verdict),
         Logged(k, "ActionIntended"), plan[k] \in GATEWAY_ACTIONS, UNCHANGED dbVars,
         stray' \in [Key -> Nat], \A j \in Key \ {k} : stray'[j] = stray[j]
  PROVE  /\ remote' \in [Key -> {"none", "completed", "failed"}]
         /\ effects' \in [Key -> Nat]
         /\ KeysInv'
  <1> USE DEF IInv, GatewayHandles, TypeInvariant
  <1>1. /\ remote' \in [Key -> {"none", "completed", "failed"}]
        /\ effects' \in [Key -> Nat]
    OBVIOUS
  <1>2. \A j \in Key \ {k} : remote'[j] = remote[j] /\ effects'[j] = effects[j]
    OBVIOUS
  <1>3. QED
    BY <1>1, <1>2 DEF KeysInv, KeyInv, Logged, dbVars

LEMMA GatewayAnswersIInv ==
  ASSUME IInv, NEW w \in Worker, GatewayAnswers(w)
  PROVE  IInv'
  <1> USE DEF IInv, GatewayAnswers
  <1>1. /\ cur[w] \in Key /\ Logged(cur[w], "ActionIntended")
        /\ plan[cur[w]] \in GATEWAY_ACTIONS
    BY DEF WorkersInv, WorkerInv
  <1>2. PICK verdict \in {"completed", "failed"} :
          GatewayHandles(cur[w], verdict) /\ answer' = [answer EXCEPT ![w] = verdict]
    OBVIOUS
  <1>3. /\ remote' \in [Key -> {"none", "completed", "failed"}]
        /\ effects' \in [Key -> Nat]
        /\ KeysInv'
    BY <1>1, <1>2, GatewayHandlesKeys DEF TypeInvariant
  <1>4. TypeInvariant'
    BY <1>2, <1>3, OutboxAssumption DEF TypeInvariant, Answers, dbVars
  <1>5. ASSUME NEW v \in Worker PROVE WorkerInv(v)'
    <2>1. CASE v = w
      BY <1>1, <1>2, <2>1 DEF WorkersInv, WorkerInv, TypeInvariant, Logged, dbVars
    <2>2. CASE v # w
      BY <1>2, <2>2, OtherWorkers DEF TypeInvariant
    <2>3. QED
      BY <2>1, <2>2
  <1>6. QED
    BY <1>3, <1>4, <1>5, SameRows DEF WorkersInv

\* A request goes astray only for the key it carries.
LEMMA GoesAstrayKeys ==
  ASSUME TypeInvariant, NEW k \in Key, GoesAstray(k)
  PROVE  stray' \in [Key -> Nat] /\ \A j \in Key \ {k} : stray'[j] = stray[j]
  BY OutboxAssumption DEF GoesAstray, TypeInvariant

LEMMA NoAnswerIInv ==
  ASSUME IInv, NEW w \in Worker, NoAnswer(w)
  PROVE  IInv'
  <1> USE DEF IInv, NoAnswer
  <1>1. /\ cur[w] \in Key /\ Logged(cur[w], "ActionIntended")
        /\ plan[cur[w]] \in GATEWAY_ACTIONS
    BY DEF WorkersInv, WorkerInv
  <1>2. stray' \in [Key -> Nat] /\ \A j \in Key \ {cur[w]} : stray'[j] = stray[j]
    BY <1>1, GoesAstrayKeys
  <1>3. TypeInvariant'
    BY <1>2, OutboxAssumption DEF TypeInvariant, Answers, dbVars
  <1>4. ASSUME NEW v \in Worker PROVE WorkerInv(v)'
    <2>1. CASE v = w
      BY <1>1, <2>1, OutboxAssumption DEF WorkersInv, WorkerInv, TypeInvariant, Logged, dbVars
    <2>2. CASE v # w
      BY <2>2, OtherWorkers DEF TypeInvariant
    <2>3. QED
      BY <2>1, <2>2
  <1>5. KeysInv'
    BY <1>1, <1>2 DEF KeysInv, KeyInv, Logged, dbVars
  <1>6. QED
    BY <1>3, <1>4, <1>5, SameRows DEF WorkersInv

LEMMA StrayArrivesIInv ==
  ASSUME IInv, NEW k \in Key, StrayArrives(k)
  PROVE  IInv'
  <1> USE DEF IInv, StrayArrives
  <1>1. Logged(k, "ActionIntended") /\ plan[k] \in GATEWAY_ACTIONS
    BY DEF KeysInv, KeyInv
  <1>2. stray' \in [Key -> Nat] /\ \A j \in Key \ {k} : stray'[j] = stray[j]
    BY DEF TypeInvariant
  <1>3. /\ remote' \in [Key -> {"none", "completed", "failed"}]
        /\ effects' \in [Key -> Nat]
        /\ KeysInv'
    BY <1>1, <1>2, GatewayHandlesKeys
  <1>4. TypeInvariant'
    BY <1>2, <1>3 DEF TypeInvariant, dbVars, workerVars
  <1>5. WorkersInv'
    BY DEF WorkersInv, WorkerInv, Logged, dbVars, workerVars
  <1>6. QED
    BY <1>3, <1>4, <1>5, SameRows

LEMMA StartReconcileIInv ==
  ASSUME IInv, NEW w \in Worker, StartReconcile(w)
  PROVE  IInv'
  <1> USE DEF IInv, StartReconcile
  <1>1. TypeInvariant'
    BY OutboxAssumption DEF TypeInvariant, Answers, dbVars, gatewayVars, Dangling
  <1>2. ASSUME NEW v \in Worker PROVE WorkerInv(v)'
    <2>1. CASE v = w
      BY <2>1 DEF WorkersInv, WorkerInv, TypeInvariant, Logged, dbVars, Dangling
    <2>2. CASE v # w
      BY <2>2, OtherWorkers DEF TypeInvariant
    <2>3. QED
      BY <2>1, <2>2
  <1>3. KeysInv'
    BY DEF KeysInv, KeyInv, Logged, dbVars, gatewayVars
  <1>4. QED
    BY <1>1, <1>2, <1>3, SameRows DEF WorkersInv

LEMMA LookupIInv ==
  ASSUME IInv, NEW w \in Worker, Lookup(w)
  PROVE  IInv'
  <1> USE DEF IInv, Lookup
  <1>1. TypeInvariant'
    BY OutboxAssumption DEF TypeInvariant, Answers, dbVars, gatewayVars
  <1>2. ASSUME NEW v \in Worker PROVE WorkerInv(v)'
    <2>1. CASE v = w
      <3>1. /\ cur[w] \in Key /\ Logged(cur[w], "ActionIntended") /\ attempt[w] < MAX_ATTEMPTS
            /\ \A k \in todo[w] : Logged(k, "ActionIntended")
        BY OutboxAssumption DEF WorkersInv, WorkerInv
      <3>2. remote[cur[w]] = "completed" => plan[cur[w]] \in GATEWAY_ACTIONS
        BY <3>1 DEF KeysInv, KeyInv
      <3>3. QED
        BY <2>1, <3>1, <3>2 DEF WorkerInv, TypeInvariant, Logged, dbVars
    <2>2. CASE v # w
      BY <2>2, OtherWorkers DEF TypeInvariant
    <2>3. QED
      BY <2>1, <2>2
  <1>3. KeysInv'
    BY DEF KeysInv, KeyInv, Logged, dbVars, gatewayVars
  <1>4. QED
    BY <1>1, <1>2, <1>3, SameRows DEF WorkersInv

\* Leaving the lock leaves nothing at hand.
LEMMA LeaveWorkers ==
  ASSUME IInv, NEW w \in Worker, NEW rest, rest \subseteq todo[w], Leave(w, rest), NEW v \in Worker,
         \A k \in Key : Logged(k, "ActionIntended") => Logged(k, "ActionIntended")',
         plan' = plan
  PROVE  WorkerInv(v)'
  <1> USE DEF IInv, Leave, WorkersInv, WorkerInv, TypeInvariant
  <1>1. CASE v = w
    BY <1>1, OutboxAssumption
  <1>2. CASE v # w
    BY <1>2
  <1>3. QED
    BY <1>1, <1>2

LEMMA ReleaseWorkers ==
  ASSUME IInv, NEW w \in Worker, Release(w) \/ GiveUp(w), NEW v \in Worker,
         \A k \in Key : Logged(k, "ActionIntended") => Logged(k, "ActionIntended")',
         plan' = plan
  PROVE  WorkerInv(v)'
  <1>1. PICK rest : rest \subseteq todo[w] /\ Leave(w, rest)
    BY DEF Release, GiveUp
  <1>2. QED
    BY <1>1, LeaveWorkers

LEMMA GatewayRaisesIInv ==
  ASSUME IInv, NEW w \in Worker, GatewayRaises(w)
  PROVE  IInv'
  <1> USE DEF IInv, GatewayRaises
  <1>1. cur[w] \in Key /\ Logged(cur[w], "ActionIntended")
        /\ (pc[w] = "await" => plan[cur[w]] \in GATEWAY_ACTIONS)
    BY DEF WorkersInv, WorkerInv
  <1>2. /\ stray' \in [Key -> Nat] /\ \A j \in Key \ {cur[w]} : stray'[j] = stray[j]
        /\ pc[w] # "await" => stray' = stray
    BY <1>1, GoesAstrayKeys DEF TypeInvariant
  <1>3. TypeInvariant'
    BY <1>2, OutboxAssumption DEF TypeInvariant, Answers, dbVars, GiveUp, Leave
  <1>4. ASSUME NEW v \in Worker PROVE WorkerInv(v)'
    BY ReleaseWorkers DEF Logged, dbVars
  <1>5. KeysInv'
    BY <1>1, <1>2 DEF KeysInv, KeyInv, Logged, dbVars
  <1>6. QED
    BY <1>3, <1>4, <1>5, SameRows DEF WorkersInv

\* A transaction that commits adds the rows of one outcome for the key at
\* hand; one that finds a row already there adds nothing.
LEMMA CommitRows ==
  ASSUME IInv, NEW w \in Worker, CommitOutcome(w), ledger' # ledger
  PROVE  \E types \in Outcomes(w) :
           /\ answer[w] # "unknown"
           /\ \A type \in types : ~Logged(cur[w], type)
           /\ \A j \in Key, type \in EventType :
                Logged(j, type)' <=> Logged(j, type) \/ (j = cur[w] /\ type \in types)
           /\ types \subseteq EventType
           /\ ledger' \subseteq Key \X EventType
  <1>1. cur[w] \in Key /\ Logged(cur[w], "ActionIntended") /\ plan[cur[w]] \in LEGAL_ACTIONS
    BY OutboxAssumption DEF IInv, WorkersInv, WorkerInv, KeysInv, KeyInv, CommitOutcome
  <1>2. answer[w] # "unknown"
    BY DEF CommitOutcome
  <1>4. PICK types \in Outcomes(w) :
          ({cur[w]} \X types) \cap ledger = {} /\ ledger' = ledger \cup ({cur[w]} \X types)
    BY <1>2 DEF CommitOutcome
  <1>5. types \subseteq EventType
    BY <1>1, OutcomesAre
  <1>6. ledger' \subseteq Key \X EventType
    BY <1>1, <1>4, <1>5 DEF IInv, TypeInvariant
  <1>7. \A type \in types : ~Logged(cur[w], type)
    BY <1>4 DEF Logged
  <1>8. \A j \in Key, type \in EventType :
          Logged(j, type)' <=> Logged(j, type) \/ (j = cur[w] /\ type \in types)
    BY <1>4 DEF Logged
  <1>9. QED
    BY <1>2, <1>5, <1>6, <1>7, <1>8

LEMMA CommitOutcomeIInv ==
  ASSUME IInv, NEW w \in Worker, CommitOutcome(w)
  PROVE  IInv'
  <1> USE DEF IInv
  <1>1. /\ plan' = plan /\ remote' = remote /\ effects' = effects /\ stray' = stray
        /\ crashes' = crashes /\ (Release(w) \/ GiveUp(w))
    BY DEF CommitOutcome, gatewayVars
  <1>2. /\ pc' \in [Worker -> {"idle", "scan", "lookup", "post", "await", "commit"}]
        /\ mode' = mode /\ todo' \in [Worker -> SUBSET Key]
        /\ cur' \in [Worker -> Key \cup {NoKey}]
        /\ attempt' \in [Worker -> 0..MAX_ATTEMPTS]
        /\ answer' \in [Worker -> Answers]
    BY <1>1, OutboxAssumption DEF TypeInvariant, Release, GiveUp, Leave, Answers
  <1>3. CASE ledger' = ledger
    <2>1. TypeInvariant'
      BY <1>1, <1>2, <1>3 DEF TypeInvariant
    <2>2. WorkersInv'
      BY <1>1, <1>3, ReleaseWorkers DEF WorkersInv, Logged
    <2>3. KeysInv'
      BY <1>1, <1>3 DEF KeysInv, KeyInv, Logged
    <2>4. QED
      BY <1>1, <1>3, <2>1, <2>2, <2>3, SameRows DEF dbVars
  <1>4. CASE ledger' # ledger
    <2> DEFINE k == cur[w]
    <2>1. /\ k \in Key /\ Logged(k, "ActionIntended") /\ plan[k] \in LEGAL_ACTIONS
          /\ plan[k] \notin GATEWAY_ACTIONS => answer[w] = "failed"
      BY OutboxAssumption DEF WorkersInv, WorkerInv, KeysInv, KeyInv, CommitOutcome
    <2>2. PICK types \in Outcomes(w) :
             /\ \A type \in types : ~Logged(k, type)
             /\ \A j \in Key, type \in EventType :
                  Logged(j, type)' <=> Logged(j, type) \/ (j = k /\ type \in types)
             /\ ledger' \subseteq Key \X EventType
      BY <1>4, CommitRows
    <2>3. /\ types \subseteq EventType
          /\ "ActionIntended" \notin types
          /\ OUTCOME_EVENT(plan[k]) \subseteq types
          /\ "ActionCompleted" \in types <=> answer[w] # "failed"
          /\ "ActionFailed" \in types <=> answer[w] = "failed"
          /\ "RetrySucceeded" \in types => "ActionCompleted" \in types
          /\ "PaymentMethodChanged" \in types => "ActionCompleted" \in types
      BY <2>1, OutcomesAre
    <2> HIDE DEF k
    <2>4. TypeInvariant'
      BY <1>1, <1>2, <2>2 DEF TypeInvariant
    <2>5. \A j \in Key : Logged(j, "ActionIntended") <=> Logged(j, "ActionIntended")'
      BY <2>2, <2>3 DEF EventType
    <2>6. WorkersInv'
      BY <1>1, <2>5, ReleaseWorkers DEF WorkersInv
    <2>7. ASSUME NEW j \in Key PROVE KeyInv(j)'
      <3>1. CASE j = k
        BY <1>1, <2>1, <2>2, <2>3, <3>1 DEF KeysInv, KeyInv, EventType
      <3>2. CASE j # k
        BY <1>1, <2>2, <3>2 DEF KeysInv, KeyInv, EventType
      <3>3. QED
        BY <3>1, <3>2
    <2>8. ~HasReceipt(k)
      <3>1. CASE plan[k] \in GATEWAY_ACTIONS
        BY <2>1, <2>2, <2>3, <3>1, OutcomeEvents DEF OutcomeWithReceipt, HasReceipt
      <3>2. CASE plan[k] \notin GATEWAY_ACTIONS
        BY <2>1, <2>2, <2>3, <3>2 DEF KeysInv, KeyInv, HasReceipt
      <3>3. QED
        BY <3>1, <3>2
    <2>9. AtMostOneReceipt'
      BY <2>2, <2>3, <2>8 DEF AtMostOneReceipt, HasReceipt, EventType
    <2>10. ASSUME NEW j \in Key PROVE OutcomeWithReceipt!(j)'
      <3>1. \A type \in OUTCOME_EVENT(plan[j]) : type \in EventType
        BY OutcomeEvents DEF TypeInvariant, OUTCOME_EVENT, CHARGING_ACTIONS
      <3>2. CASE j = k
        <4>1. HasReceipt(j)'
          BY <2>2, <2>3, <3>2 DEF HasReceipt, EventType
        <4>2. \A type \in OUTCOME_EVENT(plan[j]) : Logged(j, type)'
          BY <2>2, <2>3, <3>1, <3>2
        <4>3. Logged(j, "RetrySucceeded")' \/ Logged(j, "PaymentMethodChanged")'
                => Logged(j, "ActionCompleted")'
          BY <2>2, <2>3, <2>8, <3>2 DEF OutcomeWithReceipt, HasReceipt, EventType
        <4>4. QED
          BY <1>1, <4>1, <4>2, <4>3
      <3>3. CASE j # k
        <4>1. \A type \in EventType : Logged(j, type)' <=> Logged(j, type)
          BY <2>2, <3>3
        <4>2. HasReceipt(j)' <=> HasReceipt(j)
          BY <4>1 DEF HasReceipt, EventType
        <4>3. QED
          BY <1>1, <3>1, <4>1, <4>2 DEF OutcomeWithReceipt, EventType
      <3>4. QED
        BY <3>2, <3>3
    <2>11. QED
      BY <2>4, <2>6, <2>7, <2>9, <2>10 DEF KeysInv, OutcomeWithReceipt
  <1>5. QED
    BY <1>3, <1>4

LEMMA CrashIInv ==
  ASSUME IInv, NEW p \in Process, Crash(p)
  PROVE  IInv'
  <1> USE DEF IInv, Crash
  <1> DEFINE dead == {w \in Worker : ProcessOf[w] = p}
             waiting == {cur[w] : w \in {v \in dead : pc[v] = "await"}}
  <1>1. \A k \in waiting : k \in Key /\ Logged(k, "ActionIntended") /\ plan[k] \in GATEWAY_ACTIONS
    BY DEF WorkersInv, WorkerInv
  <1>2. TypeInvariant'
    BY OutboxAssumption DEF TypeInvariant, Answers, dbVars
  <1>3. WorkersInv'
    BY OutboxAssumption DEF WorkersInv, WorkerInv, TypeInvariant, Logged, dbVars
  <1>4. KeysInv'
    BY <1>1 DEF KeysInv, KeyInv, TypeInvariant, Logged, dbVars
  <1>5. QED
    BY <1>2, <1>3, <1>4, SameRows

LEMMA StutterIInv == ASSUME IInv, UNCHANGED vars PROVE IInv'
  <1>1. TypeInvariant'
    BY DEF IInv, TypeInvariant, vars
  <1>2. WorkersInv'
    BY DEF IInv, WorkersInv, WorkerInv, Logged, vars
  <1>3. KeysInv'
    BY DEF IInv, KeysInv, KeyInv, Logged, vars
  <1>4. QED
    BY <1>1, <1>2, <1>3, SameRows DEF IInv, vars, dbVars

\* IInv is inductive.
THEOREM NextIInv == IInv /\ [Next]_vars => IInv'
  <1> SUFFICES ASSUME IInv, [Next]_vars PROVE IInv'
    OBVIOUS
  <1>1. CASE UNCHANGED vars
    BY <1>1, StutterIInv
  <1>2. CASE Next
    BY <1>2, WriteIntentIInv, ReconcileOneIInv, PostIInv, GatewayAnswersIInv, NoAnswerIInv,
       CommitOutcomeIInv, StartReconcileIInv, LookupIInv, GatewayRaisesIInv, StrayArrivesIInv,
       CrashIInv
    DEF Next
  <1>3. QED
    BY <1>1, <1>2

THEOREM Invariance == Spec => []IInv
  BY InitIInv, NextIInv, PTL DEF Spec

\* Every variable keeps its type: in particular a gateway call never makes
\* more than MAX_ATTEMPTS requests (_post).
THEOREM Typing == Spec => []TypeInvariant
  BY Invariance, PTL DEF IInv

\* The gateway never performs an action whose intent is not durable
\* (write_intent commits before the call), whatever crashes and arrives late.
THEOREM IntentBeforeEffect == Spec => []NoEffectWithoutIntent
  <1>1. IInv => NoEffectWithoutIntent
    BY DEF IInv, KeysInv, KeyInv, NoEffectWithoutIntent
  <1>2. QED
    BY <1>1, Invariance, PTL

\* The ledger never holds two receipts that contradict each other
\* (commit_outcome), for any number of racing workers and any gateway.
THEOREM SingleReceipt == Spec => []AtMostOneReceipt
  BY Invariance, PTL DEF IInv

\* The events the gates count are committed with the receipt, or not at all
\* (commit_outcome, _write_outcome_events).
THEOREM OutcomesWithReceipts == Spec => []OutcomeWithReceipt
  BY Invariance, PTL DEF IInv

-----------------------------------------------------------------------------
(* Exactly once, at a gateway that repeats its refusals *)

\* Any gateway that remembers completed keys performs each action at most once.
PerformedOnce ==
  \A k \in Key : effects[k] = IF remote[k] = "completed" THEN 1 ELSE 0

\* The answer a worker is about to commit, and every committed receipt, is
\* what the gateway did; probes excepted.
WorkerTruth(w) ==
  pc[w] = "commit" /\ plan[cur[w]] # "CHECK_METHOD_UPDATED" =>
    /\ answer[w] \in {"completed", "found"} => remote[cur[w]] = "completed"
    /\ answer[w] = "failed" => remote[cur[w]] = "failed"
KeyTruth(k) ==
  plan[k] # "CHECK_METHOD_UPDATED" =>
    /\ Logged(k, "ActionCompleted") => remote[k] = "completed"
    /\ Logged(k, "ActionFailed") => remote[k] = "failed"
TruthInv == (\A w \in Worker : WorkerTruth(w)) /\ (\A k \in Key : KeyTruth(k))

\* A gateway step keeps what is already settled.
LEMMA SettledStays ==
  ASSUME TypeInvariant, PerformedOnce, StickyRefusal,
         NEW k \in Key, NEW verdict \in {"completed", "failed"}, GatewayHandles(k, verdict)
  PROVE  /\ PerformedOnce'
         /\ \A j \in Key : remote[j] # "none" => remote'[j] = remote[j]
         /\ \A j \in Key \ {k} : remote'[j] = remote[j]
         /\ plan[k] # "CHECK_METHOD_UPDATED" => remote'[k] = verdict
  BY DEF TypeInvariant, PerformedOnce, GatewayHandles

LEMMA TruthNext ==
  ASSUME IInv, StickyRefusal, PerformedOnce, TruthInv, [Next]_vars
  PROVE  PerformedOnce' /\ TruthInv'
  <1> USE DEF IInv
  <1>1. ASSUME NEW w \in Worker, NEW k \in Key, NEW action \in Action, WriteIntent(w, k, action)
        PROVE PerformedOnce' /\ TruthInv'
    <2> USE <1>1 DEF WriteIntent, gatewayVars
    <2>1. PerformedOnce'
      BY DEF PerformedOnce
    <2>2. ASSUME NEW j \in Key PROVE KeyTruth(j)'
      <3>1. ~Logged(k, "ActionCompleted") /\ ~Logged(k, "ActionFailed")
        BY DEF KeysInv, KeyInv, EventType
      <3>2. QED
        BY <3>1 DEF TruthInv, KeyTruth, Logged, TypeInvariant
    <2>3. ASSUME NEW v \in Worker PROVE WorkerTruth(v)'
      <3>1. CASE v = w
        BY <3>1 DEF WorkerTruth, Hold, TypeInvariant
      <3>2. CASE v # w
        <4>1. pc[v] = "commit" => cur[v] \in Key /\ cur[v] # k
          BY DEF WorkersInv, WorkerInv
        <4>2. QED
          BY <3>2, <4>1 DEF TruthInv, WorkerTruth, Hold, TypeInvariant
      <3>3. QED
        BY <3>1, <3>2
    <2>4. QED
      BY <2>1, <2>2, <2>3 DEF TruthInv
  <1>2. ASSUME NEW w \in Worker, Post(w)
        PROVE PerformedOnce' /\ TruthInv'
    <2> USE <1>2 DEF Post, dbVars
    <2>1. cur[w] \in Key
      BY DEF WorkersInv, WorkerInv
    <2>2. CASE plan[cur[w]] \in GATEWAY_ACTIONS
      BY <2>1, <2>2 DEF PerformedOnce, TruthInv, WorkerTruth, KeyTruth, Logged, TypeInvariant
    <2>3. CASE plan[cur[w]] \notin GATEWAY_ACTIONS
      <3>1. remote[cur[w]] # "completed" /\ ~Logged(cur[w], "ActionCompleted")
        BY <2>1, <2>3 DEF KeysInv, KeyInv
      <3>2. remote' = [remote EXCEPT ![cur[w]] = "failed"] /\ effects' = effects
        BY <2>3
      <3>3. PerformedOnce'
        BY <2>1, <3>1, <3>2 DEF PerformedOnce, TypeInvariant
      <3>4. ASSUME NEW j \in Key PROVE KeyTruth(j)'
        BY <2>1, <3>1, <3>2 DEF TruthInv, KeyTruth, Logged, TypeInvariant
      <3>5. ASSUME NEW v \in Worker PROVE WorkerTruth(v)'
        <4>1. pc[v] = "commit" => cur[v] \in Key
          BY DEF WorkersInv, WorkerInv
        <4>2. QED
          BY <2>1, <2>3, <3>1, <3>2, <4>1 DEF TruthInv, WorkerTruth, TypeInvariant
      <3>6. QED
        BY <3>3, <3>4, <3>5 DEF TruthInv
    <2>4. QED
      BY <2>2, <2>3
  <1>3. ASSUME NEW w \in Worker, GatewayAnswers(w)
        PROVE PerformedOnce' /\ TruthInv'
    <2> USE <1>3 DEF GatewayAnswers, dbVars
    <2>1. cur[w] \in Key
      BY DEF WorkersInv, WorkerInv
    <2>2. PICK verdict \in {"completed", "failed"} :
            GatewayHandles(cur[w], verdict) /\ answer' = [answer EXCEPT ![w] = verdict]
      OBVIOUS
    <2>3. /\ PerformedOnce'
          /\ \A j \in Key : remote[j] # "none" => remote'[j] = remote[j]
          /\ plan[cur[w]] # "CHECK_METHOD_UPDATED" => remote'[cur[w]] = verdict
      BY <2>1, <2>2, SettledStays
    <2>4. ASSUME NEW j \in Key PROVE KeyTruth(j)'
      BY <2>3 DEF TruthInv, KeyTruth, Logged
    <2>5. ASSUME NEW v \in Worker PROVE WorkerTruth(v)'
      <3>1. pc[v] = "commit" => cur[v] \in Key
        BY DEF WorkersInv, WorkerInv
      <3>2. QED
        BY <2>2, <2>3, <3>1 DEF TruthInv, WorkerTruth, TypeInvariant
    <2>6. QED
      BY <2>3, <2>4, <2>5 DEF TruthInv
  <1>4. ASSUME NEW k \in Key, StrayArrives(k)
        PROVE PerformedOnce' /\ TruthInv'
    <2> USE <1>4 DEF StrayArrives, dbVars, workerVars
    <2>1. PICK verdict \in {"completed", "failed"} : GatewayHandles(k, verdict)
      OBVIOUS
    <2>2. PerformedOnce' /\ \A j \in Key : remote[j] # "none" => remote'[j] = remote[j]
      BY <2>1, SettledStays
    <2>3. ASSUME NEW j \in Key PROVE KeyTruth(j)'
      BY <2>2 DEF TruthInv, KeyTruth, Logged
    <2>4. ASSUME NEW v \in Worker PROVE WorkerTruth(v)'
      BY <2>2 DEF TruthInv, WorkerTruth, WorkersInv, WorkerInv
    <2>5. QED
      BY <2>2, <2>3, <2>4 DEF TruthInv
  <1>5. ASSUME NEW w \in Worker, CommitOutcome(w)
        PROVE PerformedOnce' /\ TruthInv'
    <2>1. /\ plan' = plan /\ remote' = remote /\ effects' = effects
          /\ cur[w] \in Key /\ plan[cur[w]] \in LEGAL_ACTIONS
          /\ pc[w] = "commit" /\ answer[w] \in Answers \ {"none"}
      BY <1>5, OutboxAssumption DEF CommitOutcome, gatewayVars, WorkersInv, WorkerInv,
         KeysInv, KeyInv, TypeInvariant
    <2>2. ASSUME NEW v \in Worker PROVE WorkerTruth(v)'
      BY <1>5, <2>1 DEF CommitOutcome, Release, GiveUp, Leave, TruthInv, WorkerTruth, TypeInvariant
    <2>3. ASSUME NEW j \in Key PROVE KeyTruth(j)'
      <3>1. CASE ledger' = ledger
        BY <2>1, <3>1 DEF TruthInv, KeyTruth, Logged
      <3>2. CASE ledger' # ledger
        <4>1. PICK types \in Outcomes(w) :
                 /\ answer[w] # "unknown"
                 /\ \A i \in Key, type \in EventType :
                      Logged(i, type)' <=> Logged(i, type) \/ (i = cur[w] /\ type \in types)
          BY <1>5, <3>2, CommitRows
        <4>2. /\ "ActionCompleted" \in types <=> answer[w] # "failed"
              /\ "ActionFailed" \in types <=> answer[w] = "failed"
          BY <2>1, OutcomesAre
        <4>3. QED
          BY <2>1, <4>1, <4>2 DEF TruthInv, KeyTruth, WorkerTruth, EventType, Answers
      <3>3. QED
        BY <3>1, <3>2
    <2>4. QED
      BY <2>1, <2>2, <2>3 DEF TruthInv, PerformedOnce
  <1>6. ASSUME NEW w \in Worker, Lookup(w)
        PROVE PerformedOnce' /\ TruthInv'
    BY <1>6 DEF PerformedOnce, TruthInv, WorkerTruth, KeyTruth, TypeInvariant, WorkersInv, WorkerInv, Lookup, Logged,
                dbVars, gatewayVars
  <1>7. ASSUME NEW w \in Worker,
               NoAnswer(w) \/ GatewayRaises(w) \/ StartReconcile(w)
               \/ (\E k \in Key : ReconcileOne(w, k))
        PROVE PerformedOnce' /\ TruthInv'
    BY <1>7 DEF PerformedOnce, TruthInv, WorkerTruth, KeyTruth, TypeInvariant, WorkersInv, WorkerInv, Logged,
                NoAnswer, GatewayRaises, GiveUp, Leave, StartReconcile, ReconcileOne, Hold,
                dbVars, gatewayVars
  <1>8. ASSUME NEW p \in Process, Crash(p)
        PROVE PerformedOnce' /\ TruthInv'
    BY <1>8 DEF PerformedOnce, TruthInv, WorkerTruth, KeyTruth, TypeInvariant, Crash, Logged, dbVars
  <1>9. CASE UNCHANGED vars
    BY <1>9 DEF PerformedOnce, TruthInv, WorkerTruth, KeyTruth, Logged, vars
  <1>10. QED
    BY <1>1, <1>2, <1>3, <1>4, <1>5, <1>6, <1>7, <1>8, <1>9 DEF Next

\* One key changes its place, the others keep theirs.
LEMMA KeyStep ==
  ASSUME NEW k \in Key,
         \A j \in Key \ {k} : PhaseOf(j)' = PhaseOf(j) /\ ReceiptOf(j)' = ReceiptOf(j),
         \/ PhaseOf(k)' = PhaseOf(k) /\ ReceiptOf(k)' = ReceiptOf(k)
         \/ PhaseOf(k) = "absent" /\ PhaseOf(k)' = "intended" /\ ReceiptOf(k)' = ReceiptOf(k)
         \/ /\ PhaseOf(k) = "intended" /\ PhaseOf(k)' \in {"performed", "refused"}
            /\ ReceiptOf(k)' = ReceiptOf(k)
         \/ /\ PhaseOf(k)' = PhaseOf(k) /\ ReceiptOf(k) = "none"
            /\ \/ PhaseOf(k) = "performed" /\ ReceiptOf(k)' = "completed"
               \/ PhaseOf(k) = "refused" /\ ReceiptOf(k)' = "failed"
  PROVE  [Promise!Next]_<<phase, receipt>>
  <1>1. /\ phase' = [phase EXCEPT ![k] = PhaseOf(k)']
        /\ receipt' = [receipt EXCEPT ![k] = ReceiptOf(k)']
        /\ phase[k] = PhaseOf(k) /\ receipt[k] = ReceiptOf(k)
    BY DEF phase, receipt
  <1>2. PhaseOf(k)' = PhaseOf(k) => phase' = phase
    BY <1>1 DEF phase
  <1>3. ReceiptOf(k)' = ReceiptOf(k) => receipt' = receipt
    BY <1>1 DEF receipt
  <1>4. QED
    BY <1>1, <1>2, <1>3
    DEF Promise!Next, Promise!Intend, Promise!Settle, Promise!Record

\* What the view of a key depends on.
LEMMA SameView ==
  ASSUME NEW j \in Key, plan'[j] = plan[j], remote'[j] = remote[j], effects'[j] = effects[j],
         \A type \in {"ActionIntended"} \cup Receipts : Logged(j, type)' <=> Logged(j, type)
  PROVE  PhaseOf(j)' = PhaseOf(j) /\ ReceiptOf(j)' = ReceiptOf(j)
  BY DEF PhaseOf, ReceiptOf, HasReceipt

\* A gateway that handles a request settles the action, or repeats itself.
LEMMA HandlesSimulates ==
  ASSUME IInv, StickyRefusal, PerformedOnce, UNCHANGED dbVars,
         NEW k \in Key, Logged(k, "ActionIntended"),
         NEW verdict \in {"completed", "failed"}, GatewayHandles(k, verdict)
  PROVE  [Promise!Next]_<<phase, receipt>>
  <1> USE DEF IInv, TypeInvariant, dbVars
  <1>1. \A j \in Key : ReceiptOf(j)' = ReceiptOf(j)
    BY DEF ReceiptOf, HasReceipt, Logged
  <1>2. \A j \in Key \ {k} : PhaseOf(j)' = PhaseOf(j)
    BY DEF PhaseOf, Logged, GatewayHandles
  <1>3. \/ PhaseOf(k)' = PhaseOf(k)
        \/ PhaseOf(k) = "intended" /\ PhaseOf(k)' \in {"performed", "refused"}
    BY DEF PhaseOf, Logged, GatewayHandles, PerformedOnce
  <1>4. QED
    BY <1>1, <1>2, <1>3, KeyStep

LEMMA CommitSimulates ==
  ASSUME IInv, IInv', TruthInv, PerformedOnce, NEW w \in Worker, CommitOutcome(w)
  PROVE  [Promise!Next]_<<phase, receipt>>
  <1>0. PICK k \in Key : k = cur[w]
    BY DEF IInv, CommitOutcome, WorkersInv, WorkerInv
  <1>1. /\ plan' = plan /\ remote' = remote /\ effects' = effects
        /\ k \in Key /\ Logged(k, "ActionIntended")
        /\ plan[k] \in LEGAL_ACTIONS
        /\ pc[w] = "commit" /\ answer[w] \in Answers \ {"none"}
    BY <1>0, OutboxAssumption DEF IInv, CommitOutcome, gatewayVars, WorkersInv, WorkerInv,
       KeysInv, KeyInv, TypeInvariant
  <1>2. CASE ledger' = ledger
    <2>1. \A j \in Key : PhaseOf(j)' = PhaseOf(j) /\ ReceiptOf(j)' = ReceiptOf(j)
      BY <1>1, <1>2 DEF PhaseOf, ReceiptOf, HasReceipt, Logged
    <2>2. QED
      BY <1>1, <2>1, KeyStep
  <1>3. CASE ledger' # ledger
    <2>1. PICK types \in Outcomes(w) :
             /\ answer[w] # "unknown"
             /\ \A type \in types : ~Logged(k, type)
             /\ \A j \in Key, type \in EventType :
                  Logged(j, type)' <=> Logged(j, type) \/ (j = k /\ type \in types)
      BY <1>0, <1>3, CommitRows
    <2>2. /\ "ActionIntended" \notin types
          /\ "ActionCompleted" \in types <=> answer[w] # "failed"
          /\ "ActionFailed" \in types <=> answer[w] = "failed"
      BY <1>0, <1>1, OutcomesAre
    <2>3. \A j \in Key \ {k} : PhaseOf(j)' = PhaseOf(j) /\ ReceiptOf(j)' = ReceiptOf(j)
      BY <1>1, <2>1, SameView DEF EventType
    <2>4. PhaseOf(k)' = PhaseOf(k)
      BY <1>1, <2>1, <2>2 DEF PhaseOf, EventType
    <2>5. CASE plan[k] = "CHECK_METHOD_UPDATED"
      <3>1. ReceiptOf(k)' = ReceiptOf(k)
        BY <1>1, <2>5 DEF ReceiptOf
      <3>2. QED
        BY <1>1, <2>3, <2>4, <3>1, KeyStep
    <2>6. CASE plan[k] # "CHECK_METHOD_UPDATED"
      <3>1. ~HasReceipt(k)
        BY <1>1, <2>1, <2>2 DEF IInv, AtMostOneReceipt, HasReceipt, EventType
      <3>2. ReceiptOf(k) = "none"
        BY <3>1 DEF ReceiptOf
      <3>3. CASE answer[w] = "failed"
        <4>1. remote[k] = "failed" /\ effects[k] = 0
          BY <1>0, <1>1, <2>6, <3>3 DEF TruthInv, WorkerTruth, PerformedOnce
        <4>2. PhaseOf(k) = "refused"
          BY <1>1, <2>6, <4>1 DEF PhaseOf
        <4>3. ReceiptOf(k)' = "failed"
          BY <1>1, <2>1, <2>2, <2>6, <3>1, <3>3 DEF ReceiptOf, HasReceipt, EventType
        <4>4. QED
          BY <1>1, <2>3, <2>4, <3>2, <4>2, <4>3, KeyStep
      <3>4. CASE answer[w] # "failed"
        <4>1. remote[k] = "completed" /\ effects[k] = 1
          BY <1>0, <1>1, <2>1, <2>6, <3>4 DEF TruthInv, WorkerTruth, PerformedOnce, Answers
        <4>2. PhaseOf(k) = "performed"
          BY <1>1, <2>6, <4>1 DEF PhaseOf
        <4>3. ReceiptOf(k)' = "completed"
          BY <1>1, <2>1, <2>2, <2>6, <3>4 DEF ReceiptOf, HasReceipt, EventType
        <4>4. QED
          BY <1>1, <2>3, <2>4, <3>2, <4>2, <4>3, KeyStep
      <3>5. QED
        BY <3>3, <3>4
    <2>7. QED
      BY <2>5, <2>6
  <1>4. QED
    BY <1>2, <1>3

\* Every step of the outbox is a step of the exactly-once register, or none.
LEMMA StepSimulates ==
  ASSUME IInv, IInv', StickyRefusal, PerformedOnce, TruthInv, [Next]_vars
  PROVE  [Promise!Next]_<<phase, receipt>>
  <1>1. ASSUME UNCHANGED <<dbVars, remote, effects>>
        PROVE  [Promise!Next]_<<phase, receipt>>
    <2>1. \A j \in Key : PhaseOf(j)' = PhaseOf(j) /\ ReceiptOf(j)' = ReceiptOf(j)
      BY <1>1 DEF dbVars, PhaseOf, ReceiptOf, HasReceipt, Logged
    <2>2. phase' = phase /\ receipt' = receipt
      BY <2>1 DEF phase, receipt
    <2>3. QED
      BY <2>2
  <1>2. ASSUME NEW w \in Worker, NEW k \in Key, NEW action \in Action, WriteIntent(w, k, action)
        PROVE  [Promise!Next]_<<phase, receipt>>
    <2>1. /\ ~Logged(k, "ActionIntended") /\ remote[k] = "none" /\ effects[k] = 0
          /\ \A type \in EventType : ~Logged(k, type)
      BY <1>2 DEF IInv, KeysInv, KeyInv, WriteIntent
    <2>2. /\ plan' = [plan EXCEPT ![k] = action] /\ remote' = remote /\ effects' = effects
          /\ \A j \in Key, type \in EventType :
                Logged(j, type)' <=> Logged(j, type) \/ (j = k /\ type = "ActionIntended")
      BY <1>2 DEF WriteIntent, gatewayVars, Logged
    <2>3. \A j \in Key \ {k} : PhaseOf(j)' = PhaseOf(j) /\ ReceiptOf(j)' = ReceiptOf(j)
      BY <2>2, SameView DEF IInv, TypeInvariant, EventType
    <2>4. ReceiptOf(k)' = ReceiptOf(k)
      BY <2>1, <2>2 DEF ReceiptOf, HasReceipt, EventType
    <2>5. PhaseOf(k) = "absent" /\ PhaseOf(k)' \in {"absent", "intended"}
      BY <2>1, <2>2 DEF PhaseOf, EventType
    <2>6. QED
      BY <2>3, <2>4, <2>5, KeyStep
  <1>3. ASSUME NEW w \in Worker, Post(w)
        PROVE  [Promise!Next]_<<phase, receipt>>
    <2>1. PICK k \in Key : k = cur[w] /\ Logged(k, "ActionIntended")
      BY <1>3 DEF IInv, WorkersInv, WorkerInv, Post
    <2>2. CASE plan[k] \in GATEWAY_ACTIONS
      BY <1>1, <1>3, <2>1, <2>2 DEF Post
    <2>3. CASE plan[k] \notin GATEWAY_ACTIONS
      <3>1. /\ remote[k] # "completed" /\ effects[k] = 0
        BY <2>1, <2>3 DEF IInv, KeysInv, KeyInv, PerformedOnce
      <3>2. /\ plan' = plan /\ ledger' = ledger /\ effects' = effects
            /\ remote' = [remote EXCEPT ![k] = "failed"]
        BY <1>3, <2>1, <2>3 DEF Post, dbVars
      <3>3. \A j \in Key : ReceiptOf(j)' = ReceiptOf(j)
        BY <3>2 DEF ReceiptOf, HasReceipt, Logged
      <3>4. \A j \in Key \ {k} : PhaseOf(j)' = PhaseOf(j)
        BY <3>2 DEF PhaseOf, Logged, IInv, TypeInvariant
      <3>5. \/ PhaseOf(k)' = PhaseOf(k)
            \/ PhaseOf(k) = "intended" /\ PhaseOf(k)' = "refused"
        BY <2>1, <3>1, <3>2 DEF PhaseOf, Logged, IInv, TypeInvariant
      <3>6. QED
        BY <2>1, <3>3, <3>4, <3>5, KeyStep
    <2>4. QED
      BY <2>2, <2>3
  <1>4. ASSUME NEW w \in Worker, GatewayAnswers(w)
        PROVE  [Promise!Next]_<<phase, receipt>>
    <2>1. cur[w] \in Key /\ Logged(cur[w], "ActionIntended")
      BY <1>4 DEF IInv, WorkersInv, WorkerInv, GatewayAnswers
    <2>2. PICK verdict \in {"completed", "failed"} : GatewayHandles(cur[w], verdict)
      BY <1>4 DEF GatewayAnswers
    <2>3. QED
      BY <1>4, <2>1, <2>2, HandlesSimulates DEF GatewayAnswers
  <1>5. ASSUME NEW k \in Key, StrayArrives(k)
        PROVE  [Promise!Next]_<<phase, receipt>>
    <2>1. Logged(k, "ActionIntended")
      BY <1>5 DEF IInv, KeysInv, KeyInv, StrayArrives
    <2>2. PICK verdict \in {"completed", "failed"} : GatewayHandles(k, verdict)
      BY <1>5 DEF StrayArrives
    <2>3. QED
      BY <1>5, <2>1, <2>2, HandlesSimulates DEF StrayArrives
  <1>6. ASSUME NEW w \in Worker, CommitOutcome(w)
        PROVE  [Promise!Next]_<<phase, receipt>>
    BY <1>6, CommitSimulates
  <1>7. ASSUME NEW w \in Worker,
               NoAnswer(w) \/ GatewayRaises(w) \/ StartReconcile(w) \/ Lookup(w)
               \/ (\E k \in Key : ReconcileOne(w, k))
        PROVE  [Promise!Next]_<<phase, receipt>>
    BY <1>1, <1>7 DEF NoAnswer, GatewayRaises, StartReconcile, Lookup, ReconcileOne, gatewayVars
  <1>8. ASSUME NEW p \in Process, Crash(p)
        PROVE  [Promise!Next]_<<phase, receipt>>
    BY <1>1, <1>8 DEF Crash
  <1>9. CASE UNCHANGED vars
    BY <1>1, <1>9 DEF vars, dbVars
  <1>10. QED
    BY <1>2, <1>3, <1>4, <1>5, <1>6, <1>7, <1>8, <1>9 DEF Next

\* With a gateway that repeats its refusals, the outbox implements the
\* exactly-once register: no loss, repetition, race or crash shows through.
THEOREM Refinement ==
  ASSUME StickyRefusal
  PROVE  Spec => ExactlyOnceRefinement
  <1>1. Init => PerformedOnce /\ TruthInv
    BY DEF Init, PerformedOnce, TruthInv, WorkerTruth, KeyTruth, Logged
  <1>2. Init => Promise!Init
    BY DEF Init, Promise!Init, phase, receipt, PhaseOf, ReceiptOf, HasReceipt, Logged
  <1>3. IInv /\ PerformedOnce /\ TruthInv /\ [Next]_vars => PerformedOnce' /\ TruthInv'
    BY TruthNext
  <1>4. IInv /\ IInv' /\ PerformedOnce /\ TruthInv /\ [Next]_vars
          => [Promise!Next]_<<phase, receipt>>
    BY StepSimulates
  <1>5. QED
    BY <1>1, <1>2, <1>3, <1>4, Invariance, PTL
    DEF Spec, ExactlyOnceRefinement, Promise!Spec, Promise!vars

=============================================================================
