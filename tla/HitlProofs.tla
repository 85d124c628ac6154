----------------------------- MODULE HitlProofs -----------------------------
(***************************************************************************)
(* Proofs about Hitl for any operators, tasks and arrivals: a task and the *)
(* event of its resolution are recorded together and once, and several     *)
(* tasks about one trouble recover it once.                                *)
(***************************************************************************)
EXTENDS Hitl, FiniteSetTheorems, TLAPS

\* The status after each event, as a recursive function.
Statuses == INSTANCE Recursion
  WITH Op <- LAMBDA i, status : TRANSITIONS(status, ledger[i].type),
       Map <- LAMBDA w, i : i,
       Ch <- LAMBDA S : CHOOSE i \in S : TRUE

LEMMA Appended ==
  ASSUME NEW S, NEW s \in Seq(S), NEW x \in S
  PROVE  /\ Append(s, x) \in Seq(S) /\ Len(Append(s, x)) = Len(s) + 1
         /\ DOMAIN s = 1..Len(s) /\ DOMAIN Append(s, x) = 1..Len(s) + 1
         /\ \A i \in 1..Len(s) : Append(s, x)[i] = s[i]
         /\ Append(s, x)[Len(s) + 1] = x
  OBVIOUS

-----------------------------------------------------------------------------
(* The inductive invariant *)

Entries == [type : Arrivals \cup {"HumanResolved", "PromiseMade"},
            task : TaskId \cup {0}, seen : Nat]
Tasks == [status : {"open", "claimed", "resolved"},
          resolution : {"none", "noop", "recovered", "promise"}]

TypeInv ==
  /\ ledger \in Seq(Entries)
  /\ folded \in 0..Len(ledger)
  /\ tasks \in Seq(Tasks) /\ Len(tasks) <= MaxTasks
  /\ desk \in [Operator -> [task : DOMAIN tasks \cup {0}, seen : 0..Len(ledger),
                            doing : {"nothing", "claim", "noop", "recovered", "promise"}]]

Arrived == {i \in DOMAIN ledger : ledger[i].task = 0}

\* A task is recorded once, and after the look of its operator; it is one of
\* the queue, and what it recorded is folded.
EntryInv(i) ==
  /\ ledger[i].seen < i
  /\ ledger[i].task # 0 => ledger[i].task \in DOMAIN tasks /\ i <= folded
  /\ \A j \in DOMAIN ledger : ledger[i].task = ledger[j].task /\ ledger[i].task # 0 => i = j

TaskInv(t) ==
  /\ tasks[t].resolution \in {"recovered", "promise"} => Recorded(t)
  /\ tasks[t].resolution = "none" => ~Recorded(t)

\* Between two events the entity has come to a status that is not terminal.
Reopened(i, n) ==
  \E k \in i + 1..n : \E s \in VALID_STATUSES \ TERMINAL_STATUSES : ledger[k].type \in EventsLeadingTo(s)

\* Whoever looked after a recovery, and goes on, saw that it had not lasted.
SeenInv(n) ==
  \A i \in DOMAIN ledger :
    i <= n /\ ledger[i].task # 0 /\ ledger[i].type = "HumanResolved" => Reopened(i, n)

DeskInv(o) ==
  /\ desk[o].doing # "nothing" => desk[o].task # 0
  /\ Resolving(o) => SeenInv(desk[o].seen)

HitlInv ==
  /\ TypeInv
  /\ Cardinality(Arrived) <= MaxArrivals
  /\ \A i \in DOMAIN ledger : EntryInv(i)
  /\ \A t \in DOMAIN tasks : TaskInv(t)
  /\ \A o \in Operator : DeskInv(o)
  /\ \A j \in DOMAIN ledger : ledger[j].task # 0 => SeenInv(ledger[j].seen)

LEMMA InitHitlInv == HitlInit => HitlInv
  <1> SUFFICES ASSUME HitlInit PROVE HitlInv
    OBVIOUS
  <1> USE DEF HitlInit
  <1>1. TypeInv
    BY HitlAssumption DEF TypeInv, NoTask
  <1>2. Arrived = {}
    BY DEF Arrived
  <1>3. Cardinality(Arrived) <= MaxArrivals
    BY <1>2, FS_EmptySet, HitlAssumption
  <1>4. \A o \in Operator : DeskInv(o)
    BY DEF DeskInv, NoTask, Resolving
  <1>5. QED
    BY <1>1, <1>3, <1>4 DEF HitlInv

-----------------------------------------------------------------------------
(* What each action keeps *)

\* Nothing is said about a ledger that grows that was not true of it before.
LEMMA Grown ==
  ASSUME HitlInv, NEW x \in Entries, ledger' = Append(ledger, x)
  PROVE  /\ ledger' \in Seq(Entries) /\ Len(ledger') = Len(ledger) + 1
         /\ DOMAIN ledger = 1..Len(ledger) /\ DOMAIN ledger' = 1..Len(ledger) + 1
         /\ \A i \in DOMAIN ledger : ledger'[i] = ledger[i]
         /\ ledger'[Len(ledger) + 1] = x
         /\ Len(ledger) \in Nat
         /\ \A n \in 0..Len(ledger) : SeenInv(n) => SeenInv(n)'
         /\ \A t : Recorded(t)' <=> Recorded(t) \/ t = x.task
  <1>1. /\ ledger' \in Seq(Entries) /\ Len(ledger') = Len(ledger) + 1
        /\ DOMAIN ledger = 1..Len(ledger) /\ DOMAIN ledger' = 1..Len(ledger) + 1
        /\ \A i \in DOMAIN ledger : ledger'[i] = ledger[i]
        /\ ledger'[Len(ledger) + 1] = x
        /\ Len(ledger) \in Nat
    BY Appended DEF HitlInv, TypeInv
  <1>2. ASSUME NEW n \in 0..Len(ledger), SeenInv(n) PROVE SeenInv(n)'
    <2>1. SUFFICES ASSUME NEW i \in DOMAIN ledger', i <= n, ledger'[i].task # 0,
                          ledger'[i].type = "HumanResolved"
                   PROVE  Reopened(i, n)'
      BY DEF SeenInv
    <2>2. i \in DOMAIN ledger /\ ledger'[i] = ledger[i]
      BY <1>1, <2>1
    <2>3. Reopened(i, n)
      BY <1>2, <2>1, <2>2 DEF SeenInv
    <2>4. \A k \in i + 1..n : ledger'[k] = ledger[k]
      BY <1>1, <2>2
    <2>5. QED
      BY <2>3, <2>4 DEF Reopened
  <1>3. ASSUME NEW t PROVE Recorded(t)' <=> Recorded(t) \/ t = x.task
    BY <1>1 DEF Recorded
  <1>4. QED
    BY <1>1, <1>2, <1>3

LEMMA GrownSeen ==
  ASSUME HitlInv, NEW x \in Entries, ledger' = Append(ledger, x),
         NEW j \in DOMAIN ledger, ledger[j].task # 0
  PROVE  SeenInv(ledger[j].seen)'
  <1>1. /\ DOMAIN ledger = 1..Len(ledger) /\ ledger'[j] = ledger[j] /\ Len(ledger) \in Nat
        /\ \A n \in 0..Len(ledger) : SeenInv(n) => SeenInv(n)'
    BY Grown
  <1>2. ledger[j] \in Entries
    BY <1>1 DEF HitlInv, TypeInv
  <1>3. SeenInv(ledger[j].seen) /\ EntryInv(j) /\ ledger[j].seen \in Nat
    BY <1>2 DEF HitlInv, Entries
  <1>4. PICK n \in 0..Len(ledger) : n = ledger[j].seen
    BY <1>1, <1>3 DEF EntryInv
  <1>5. SeenInv(n)'
    BY <1>1, <1>3, <1>4
  <1>6. QED
    BY <1>1, <1>4, <1>5 DEF SeenInv, Reopened

LEMMA ArriveKeeps ==
  ASSUME HitlInv, NEW type \in Arrivals, HitlArrive(type)
  PROVE  HitlInv'
  <1> DEFINE x == [type |-> type, task |-> 0, seen |-> 0]
  <1>1. x \in Entries /\ x.task = 0 /\ x.seen = 0
    BY DEF Entries
  <1>2. ledger' = Append(ledger, x) /\ UNCHANGED <<folded, tasks, desk>>
    BY DEF HitlArrive
  <1> HIDE DEF x
  <1>3. /\ ledger' \in Seq(Entries) /\ Len(ledger') = Len(ledger) + 1
        /\ DOMAIN ledger = 1..Len(ledger) /\ DOMAIN ledger' = 1..Len(ledger) + 1
        /\ \A i \in DOMAIN ledger : ledger'[i] = ledger[i]
        /\ ledger'[Len(ledger) + 1] = x
        /\ Len(ledger) \in Nat
        /\ \A n \in 0..Len(ledger) : SeenInv(n) => SeenInv(n)'
        /\ \A t : Recorded(t)' <=> Recorded(t) \/ t = x.task
    BY <1>1, <1>2, Grown
  <1>4. TypeInv'
    BY <1>2, <1>3 DEF HitlInv, TypeInv
  <1>5. (Cardinality(Arrived) <= MaxArrivals)'
    <2>1. Arrived' = Arrived \cup {Len(ledger) + 1}
      BY <1>1, <1>3 DEF Arrived
    <2>2. IsFiniteSet(Arrived)
      <3>1. Arrived \in SUBSET (1..Len(ledger))
        BY <1>3 DEF Arrived
      <3>2. IsFiniteSet(1..Len(ledger))
        BY <1>3, FS_Interval
      <3>3. QED
        BY <3>1, <3>2, FS_Subset
    <2>3. Cardinality(Arrived) < MaxArrivals /\ Cardinality(Arrived) \in Nat
      BY <2>2, FS_CardinalityType DEF HitlArrive, Arrived
    <2>4. Len(ledger) + 1 \notin Arrived
      BY <1>3 DEF Arrived
    <2>5. Cardinality(Arrived') = Cardinality(Arrived) + 1
      BY <2>1, <2>2, <2>4, FS_AddElement
    <2>6. QED
      BY <2>3, <2>5, HitlAssumption
  <1>6. ASSUME NEW i \in DOMAIN ledger' PROVE EntryInv(i)'
    <2>1. CASE i \in DOMAIN ledger
      <3>1. EntryInv(i)
        BY <2>1 DEF HitlInv
      <3>2. QED
        BY <1>1, <1>2, <1>3, <2>1, <3>1 DEF EntryInv
    <2>2. CASE i = Len(ledger) + 1
      BY <1>1, <1>3, <2>2 DEF EntryInv
    <2>3. QED
      BY <1>3, <2>1, <2>2
  <1>7. ASSUME NEW t \in DOMAIN tasks' PROVE TaskInv(t)'
    <2>1. TaskInv(t) /\ t # 0
      BY <1>2 DEF HitlInv, TypeInv
    <2>2. QED
      BY <1>1, <1>2, <1>3, <2>1 DEF TaskInv
  <1>8. ASSUME NEW o \in Operator PROVE DeskInv(o)'
    <2>1. DeskInv(o) /\ desk[o].seen \in 0..Len(ledger)
      BY DEF HitlInv, TypeInv
    <2>2. PICK n \in 0..Len(ledger) : n = desk[o].seen /\ n = desk'[o].seen
      BY <1>2, <2>1
    <2>3. Resolving(o) => SeenInv(n)'
      BY <1>3, <2>1, <2>2 DEF DeskInv
    <2>4. Resolving(o)' => SeenInv(desk[o].seen)'
      BY <1>2, <2>2, <2>3 DEF Resolving, SeenInv, Reopened
    <2>5. QED
      BY <1>2, <2>1, <2>4 DEF DeskInv
  <1>9. ASSUME NEW j \in DOMAIN ledger', ledger'[j].task # 0 PROVE SeenInv(ledger[j].seen)'
    <2>1. j \in DOMAIN ledger /\ ledger[j].task # 0
      BY <1>1, <1>3, <1>9
    <2>2. QED
      BY <1>1, <1>2, <2>1, GrownSeen
  <1>10. QED
    BY <1>4, <1>5, <1>6, <1>7, <1>8, <1>9 DEF HitlInv

LEMMA FoldKeeps ==
  ASSUME HitlInv, HitlFold
  PROVE  HitlInv'
  <1> USE DEF HitlFold
  <1>1. Len(ledger) \in Nat /\ DOMAIN ledger = 1..Len(ledger)
    BY DEF HitlInv, TypeInv
  <1>2. TypeInv'
    BY <1>1 DEF HitlInv, TypeInv
  <1>3. ASSUME NEW i \in DOMAIN ledger PROVE EntryInv(i)'
    BY <1>1, <1>3 DEF HitlInv, EntryInv
  <1>4. ASSUME NEW t \in DOMAIN tasks PROVE TaskInv(t)'
    BY <1>4 DEF HitlInv, TaskInv, Recorded
  <1>5. ASSUME NEW o \in Operator PROVE DeskInv(o)'
    BY <1>5 DEF HitlInv, DeskInv, Resolving, SeenInv, Reopened
  <1>6. ASSUME NEW j \in DOMAIN ledger, ledger[j].task # 0 PROVE SeenInv(ledger[j].seen)'
    BY <1>6 DEF HitlInv, SeenInv, Reopened
  <1>7. (Cardinality(Arrived) <= MaxArrivals)'
    BY DEF HitlInv, Arrived
  <1>8. QED
    BY <1>2, <1>3, <1>4, <1>5, <1>6, <1>7 DEF HitlInv

LEMMA EnqueueKeeps ==
  ASSUME HitlInv, enqueue_escalation
  PROVE  HitlInv'
  <1> DEFINE x == [status |-> "open", resolution |-> "none"]
  <1>1. x \in Tasks /\ x.resolution = "none"
    BY DEF Tasks
  <1>2. tasks' = Append(tasks, x) /\ UNCHANGED <<ledger, folded, desk>> /\ Len(tasks) < MaxTasks
    BY DEF enqueue_escalation
  <1> HIDE DEF x
  <1>3. /\ tasks' \in Seq(Tasks) /\ Len(tasks') = Len(tasks) + 1
        /\ DOMAIN tasks = 1..Len(tasks) /\ DOMAIN tasks' = 1..Len(tasks) + 1
        /\ \A i \in DOMAIN tasks : tasks'[i] = tasks[i]
        /\ tasks'[Len(tasks) + 1] = x
        /\ Len(tasks) \in Nat
    BY <1>1, <1>2, Appended DEF HitlInv, TypeInv
  <1>4. TypeInv'
    <2>1. desk' \in [Operator -> [task : DOMAIN tasks' \cup {0}, seen : 0..Len(ledger),
                                 doing : {"nothing", "claim", "noop", "recovered", "promise"}]]
      BY <1>2, <1>3 DEF HitlInv, TypeInv
    <2>2. QED
      BY <1>2, <1>3, <2>1, HitlAssumption DEF HitlInv, TypeInv
  <1>5. ASSUME NEW i \in DOMAIN ledger' PROVE EntryInv(i)'
    <2>1. EntryInv(i)
      BY <1>2, <1>5 DEF HitlInv
    <2>2. QED
      BY <1>2, <1>3, <2>1 DEF EntryInv
  <1>6. ASSUME NEW t \in DOMAIN tasks' PROVE TaskInv(t)'
    <2>1. CASE t \in DOMAIN tasks
      <3>1. TaskInv(t)
        BY <2>1 DEF HitlInv
      <3>2. QED
        BY <1>2, <1>3, <2>1, <3>1 DEF TaskInv, Recorded
    <2>2. CASE t = Len(tasks) + 1
      <3>1. ~Recorded(t)
        <4>1. \A i \in DOMAIN ledger : EntryInv(i)
          BY DEF HitlInv
        <4>2. t # 0 /\ t \notin DOMAIN tasks
          BY <1>3, <2>2
        <4>3. QED
          BY <4>1, <4>2 DEF EntryInv, Recorded
      <3>2. QED
        BY <1>1, <1>2, <1>3, <2>2, <3>1 DEF TaskInv, Recorded
    <2>3. QED
      BY <1>3, <2>1, <2>2
  <1>7. ASSUME NEW o \in Operator PROVE DeskInv(o)'
    BY <1>2, <1>7 DEF HitlInv, DeskInv, Resolving, SeenInv, Reopened
  <1>8. ASSUME NEW j \in DOMAIN ledger', ledger'[j].task # 0 PROVE SeenInv(ledger[j].seen)'
    BY <1>2, <1>8 DEF HitlInv, SeenInv, Reopened
  <1>9. (Cardinality(Arrived) <= MaxArrivals)'
    BY <1>2 DEF HitlInv, Arrived
  <1>10. QED
    BY <1>4, <1>5, <1>6, <1>7, <1>8, <1>9 DEF HitlInv

\* Steps of an operator that leave the ledger and the tasks alone.
LEMMA DeskKeeps ==
  ASSUME HitlInv, NEW o \in Operator, UNCHANGED <<ledger, folded, tasks>>,
         NEW d \in [task : DOMAIN tasks \cup {0}, seen : 0..Len(ledger),
                    doing : {"nothing", "claim", "noop", "recovered", "promise"}],
         desk' = [desk EXCEPT ![o] = d],
         d.doing # "nothing" => d.task # 0,
         d.doing \in {"recovered", "promise"} => SeenInv(d.seen)
  PROVE  HitlInv'
  <1>1. TypeInv'
    BY DEF HitlInv, TypeInv
  <1>2. ASSUME NEW i \in DOMAIN ledger PROVE EntryInv(i)'
    <2>1. EntryInv(i)
      BY <1>2 DEF HitlInv
    <2>2. QED
      BY <2>1 DEF EntryInv
  <1>3. ASSUME NEW t \in DOMAIN tasks PROVE TaskInv(t)'
    BY <1>3 DEF HitlInv, TaskInv, Recorded
  <1>4. ASSUME NEW p \in Operator PROVE DeskInv(p)'
    <2>1. DeskInv(p) /\ desk'[p] = IF p = o THEN d ELSE desk[p]
      BY DEF HitlInv, TypeInv
    <2>2. QED
      BY <2>1 DEF DeskInv, Resolving, SeenInv, Reopened
  <1>5. ASSUME NEW j \in DOMAIN ledger, ledger[j].task # 0 PROVE SeenInv(ledger[j].seen)'
    BY <1>5 DEF HitlInv, SeenInv, Reopened
  <1>6. (Cardinality(Arrived) <= MaxArrivals)'
    BY DEF HitlInv, Arrived
  <1>7. QED
    BY <1>1, <1>2, <1>3, <1>4, <1>5, <1>6 DEF HitlInv

LEMMA AbortKeeps ==
  ASSUME HitlInv, NEW o \in Operator, DeskAbort(o)
  PROVE  HitlInv'
  <1>1. NoTask \in [task : DOMAIN tasks \cup {0}, seen : 0..Len(ledger),
                    doing : {"nothing", "claim", "noop", "recovered", "promise"}]
    BY DEF NoTask, HitlInv, TypeInv
  <1>2. NoTask.doing = "nothing" /\ desk' = [desk EXCEPT ![o] = NoTask] /\ UNCHANGED <<ledger, folded, tasks>>
    BY DEF NoTask, DeskAbort, Rested
  <1> HIDE DEF NoTask
  <1>3. QED
    BY <1>1, <1>2, DeskKeeps

\* What a status becomes is terminal, unless the event leads to another one.
LEMMA TerminalStays ==
  ASSUME NEW status \in TERMINAL_STATUSES, NEW type,
         \A s \in VALID_STATUSES \ TERMINAL_STATUSES : type \notin EventsLeadingTo(s)
  PROVE  TRANSITIONS(status, type) \in TERMINAL_STATUSES
  <1>1. CASE \E next \in VALID_STATUSES : type \in EventsLeadingTo(next)
    <2> DEFINE next == CHOOSE next \in VALID_STATUSES : type \in EventsLeadingTo(next)
    <2>1. next \in VALID_STATUSES /\ type \in EventsLeadingTo(next)
      BY <1>1
    <2>2. TRANSITIONS(status, type) = next
      BY <1>1 DEF TRANSITIONS
    <2> HIDE DEF next
    <2>3. QED
      BY <2>1, <2>2
  <1>2. CASE ~\E next \in VALID_STATUSES : type \in EventsLeadingTo(next)
    BY <1>2 DEF TRANSITIONS
  <1>3. QED
    BY <1>1, <1>2

LEMMA RecoveredStatus ==
  ASSUME NEW status
  PROVE  TRANSITIONS(status, "HumanResolved") \in TERMINAL_STATUSES
  <1>1. "HumanResolved" \in EventsLeadingTo("RECOVERED") /\ "RECOVERED" \in VALID_STATUSES
    BY DEF EventsLeadingTo, VALID_STATUSES
  <1>2. \A s \in VALID_STATUSES : "HumanResolved" \in EventsLeadingTo(s) => s = "RECOVERED"
    BY DEF EventsLeadingTo, VALID_STATUSES
  <1> DEFINE next == CHOOSE next \in VALID_STATUSES : "HumanResolved" \in EventsLeadingTo(next)
  <1>3. next \in VALID_STATUSES /\ "HumanResolved" \in EventsLeadingTo(next)
    BY <1>1
  <1>4. TRANSITIONS(status, "HumanResolved") = next
    BY <1>1 DEF TRANSITIONS
  <1> HIDE DEF next
  <1>5. QED
    BY <1>2, <1>3, <1>4 DEF TERMINAL_STATUSES

\* The status after one event more.
LEMMA StatusStep ==
  ASSUME NEW n \in Nat
  PROVE  StatusAt(n + 1) = TRANSITIONS(StatusAt(n), ledger[n + 1].type)
  <1>1. \A i : StatusAt(i) = Statuses!Rec("ACTIVE", i)
    BY DEF StatusAt, Statuses!Rec
  <1>2. Statuses!Rec("ACTIVE", n + 1) = TRANSITIONS(Statuses!Rec("ACTIVE", n), ledger[n + 1].type)
    BY Statuses!RecUnfold
  <1>3. QED
    BY <1>1, <1>2

\* After a recovery the entity stays settled until an event reopens it.
LEMMA SettledUntilReopened ==
  ASSUME NEW i \in Nat \ {0}, ledger[i].type = "HumanResolved", NEW n \in Nat, i <= n, ~Reopened(i, n)
  PROVE  StatusAt(n) \in TERMINAL_STATUSES
  <1> DEFINE S == {m \in Nat : i <= m /\ m <= n => StatusAt(m) \in TERMINAL_STATUSES}
  <1> HIDE DEF TERMINAL_STATUSES
  <1>1. 0 \in S
    OBVIOUS
  <1>2. ASSUME NEW m \in Nat, m \in S PROVE m + 1 \in S
    <2>1. SUFFICES ASSUME i <= m + 1, m + 1 <= n PROVE StatusAt(m + 1) \in TERMINAL_STATUSES
      OBVIOUS
    <2>2. StatusAt(m + 1) = TRANSITIONS(StatusAt(m), ledger[m + 1].type)
      BY StatusStep
    <2>3. CASE i = m + 1
      BY <2>2, <2>3, RecoveredStatus
    <2>4. CASE i # m + 1
      <3>1. StatusAt(m) \in TERMINAL_STATUSES
        BY <1>2, <2>1, <2>4
      <3>2. m + 1 \in i + 1..n
        BY <2>1, <2>4
      <3>3. \A s \in VALID_STATUSES \ TERMINAL_STATUSES : ledger[m + 1].type \notin EventsLeadingTo(s)
        BY <3>2 DEF Reopened
      <3>4. QED
        BY <2>2, <3>1, <3>3, TerminalStays
    <2>5. QED
      BY <2>3, <2>4
  <1> HIDE DEF S
  <1>3. n \in S
    BY <1>1, <1>2, Statuses!SetInduction
  <1>4. QED
    BY <1>3 DEF S

LEMMA LookKeeps ==
  ASSUME HitlInv, NEW o \in Operator, NEW t \in DOMAIN tasks,
         NEW action \in {"recovered", "promise"},
         ClaimLook(o, t) \/ ResolveLook(o, t, action)
  PROVE  HitlInv'
  <1>1. t # 0 /\ Len(ledger) \in Nat /\ DOMAIN ledger = 1..Len(ledger)
    BY DEF HitlInv, TypeInv
  <1>2. CASE ClaimLook(o, t)
    <2> DEFINE d == [task |-> t, doing |-> "claim", seen |-> Len(ledger)]
    <2>1. /\ d \in [task : DOMAIN tasks \cup {0}, seen : 0..Len(ledger),
                    doing : {"nothing", "claim", "noop", "recovered", "promise"}]
          /\ d.task # 0 /\ d.doing = "claim"
      BY <1>1
    <2>2. desk' = [desk EXCEPT ![o] = d] /\ UNCHANGED <<ledger, folded, tasks>>
      BY <1>2 DEF ClaimLook, LookAt
    <2> HIDE DEF d
    <2>3. QED
      BY <2>1, <2>2, DeskKeeps
  <1>3. CASE ResolveLook(o, t, action)
    <2> DEFINE doing == IF CurrentStatus \in TERMINAL_STATUSES THEN "noop" ELSE action
               d == [task |-> t, doing |-> doing, seen |-> Len(ledger)]
    <2>1. desk' = [desk EXCEPT ![o] = d] /\ UNCHANGED <<ledger, folded, tasks>>
      BY <1>3 DEF ResolveLook, LookAt
    <2>2. doing \in {"noop", "recovered", "promise"} /\ (doing # "noop" => CurrentStatus \notin TERMINAL_STATUSES)
      OBVIOUS
    <2> HIDE DEF doing
    <2>3. /\ d \in [task : DOMAIN tasks \cup {0}, seen : 0..Len(ledger),
                    doing : {"nothing", "claim", "noop", "recovered", "promise"}]
          /\ d.task # 0 /\ d.doing = doing /\ d.seen = Len(ledger)
      BY <1>1, <2>2
    <2>4. ASSUME doing # "noop" PROVE SeenInv(Len(ledger))
      <3>1. SUFFICES ASSUME NEW i \in DOMAIN ledger, ledger[i].task # 0, ledger[i].type = "HumanResolved",
                            ~Reopened(i, Len(ledger))
                     PROVE  FALSE
        BY DEF SeenInv
      <3>2. i \in Nat \ {0} /\ i <= folded /\ folded \in Nat /\ folded <= Len(ledger)
        BY <1>1, <3>1 DEF HitlInv, EntryInv, TypeInv
      <3>3. ~Reopened(i, folded)
        BY <1>1, <3>1, <3>2 DEF Reopened
      <3>4. StatusAt(folded) \in TERMINAL_STATUSES
        BY <3>1, <3>2, <3>3, SettledUntilReopened
      <3>5. QED
        BY <2>2, <2>4, <3>4 DEF CurrentStatus
    <2> HIDE DEF d
    <2>5. QED
      BY <2>1, <2>2, <2>3, <2>4, DeskKeeps
  <1>4. QED
    BY <1>2, <1>3

\* A task is written, its operator rests, and the ledger stays as it is.
LEMMA TaskKeeps ==
  ASSUME HitlInv, NEW o \in Operator, NEW t \in DOMAIN tasks, NEW task \in Tasks,
         tasks' = [tasks EXCEPT ![t] = task], desk' = Rested(o), UNCHANGED <<ledger, folded>>,
         task.resolution \in {tasks[t].resolution, "noop"}
  PROVE  HitlInv'
  <1>1. tasks' \in Seq(Tasks) /\ DOMAIN tasks' = DOMAIN tasks /\ Len(tasks') = Len(tasks)
    BY DEF HitlInv, TypeInv
  <1>2. TypeInv'
    <2>1. desk' \in [Operator -> [task : DOMAIN tasks \cup {0}, seen : 0..Len(ledger),
                                 doing : {"nothing", "claim", "noop", "recovered", "promise"}]]
      BY DEF HitlInv, TypeInv, Rested, NoTask
    <2>2. QED
      BY <1>1, <2>1 DEF HitlInv, TypeInv
  <1>3. ASSUME NEW i \in DOMAIN ledger PROVE EntryInv(i)'
    BY <1>1, <1>3 DEF HitlInv, EntryInv
  <1>4. ASSUME NEW u \in DOMAIN tasks PROVE TaskInv(u)'
    <2>1. TaskInv(u) /\ TaskInv(t)
      BY <1>4 DEF HitlInv
    <2>2. tasks'[u] = IF u = t THEN task ELSE tasks[u]
      BY <1>4 DEF HitlInv, TypeInv
    <2>3. QED
      BY <2>1, <2>2 DEF TaskInv, Recorded
  <1>5. ASSUME NEW p \in Operator PROVE DeskInv(p)'
    <2>1. DeskInv(p) /\ desk'[p] = IF p = o THEN NoTask ELSE desk[p]
      BY DEF HitlInv, TypeInv, Rested
    <2>2. QED
      BY <2>1 DEF DeskInv, Resolving, SeenInv, Reopened, NoTask
  <1>6. ASSUME NEW j \in DOMAIN ledger, ledger[j].task # 0 PROVE SeenInv(ledger[j].seen)'
    BY <1>6 DEF HitlInv, SeenInv, Reopened
  <1>7. (Cardinality(Arrived) <= MaxArrivals)'
    BY DEF HitlInv, Arrived
  <1>8. QED
    BY <1>1, <1>2, <1>3, <1>4, <1>5, <1>6, <1>7 DEF HitlInv

LEMMA ClaimKeeps ==
  ASSUME HitlInv, NEW o \in Operator, claim_task(o)
  PROVE  HitlInv'
  <1> DEFINE t == desk[o].task
             task == [tasks[t] EXCEPT !.status = "claimed"]
  <1>1. t \in DOMAIN tasks /\ tasks[t] \in Tasks
    BY DEF HitlInv, TypeInv, DeskInv, claim_task
  <1>2. task \in Tasks /\ task.resolution = tasks[t].resolution
    BY <1>1 DEF Tasks
  <1>3. tasks' = [tasks EXCEPT ![t] = task] /\ desk' = Rested(o) /\ UNCHANGED <<ledger, folded>>
    BY DEF claim_task
  <1> HIDE DEF task, t
  <1>4. QED
    BY <1>1, <1>2, <1>3, TaskKeeps

LEMMA NoopKeeps ==
  ASSUME HitlInv, NEW o \in Operator, ResolveNoop(o)
  PROVE  HitlInv'
  <1> DEFINE t == desk[o].task
             task == [status |-> "resolved", resolution |-> "noop"]
  <1>1. t \in DOMAIN tasks
    BY DEF HitlInv, TypeInv, DeskInv, ResolveNoop
  <1>2. task \in Tasks /\ task.resolution = "noop"
    BY DEF Tasks
  <1>3. tasks' = [tasks EXCEPT ![t] = task] /\ desk' = Rested(o) /\ UNCHANGED <<ledger, folded>>
    BY DEF ResolveNoop, Closed
  <1> HIDE DEF task, t
  <1>4. QED
    BY <1>1, <1>2, <1>3, TaskKeeps

LEMMA CommitKeeps ==
  ASSUME HitlInv, NEW o \in Operator, ResolveCommit(o)
  PROVE  HitlInv'
  <1>1. PICK t : t = desk[o].task
    OBVIOUS
  <1>2. PICK x : x = [type |-> IF desk[o].doing = "promise" THEN "PromiseMade" ELSE "HumanResolved",
                      task |-> desk[o].task, seen |-> desk[o].seen]
    OBVIOUS
  <1>3. desk[o] \in [task : DOMAIN tasks \cup {0}, seen : 0..Len(ledger),
                     doing : {"nothing", "claim", "noop", "recovered", "promise"}]
    BY DEF HitlInv, TypeInv
  <1>4. Len(ledger) \in Nat /\ DOMAIN tasks = 1..Len(tasks) /\ Len(tasks) \in Nat /\ Len(tasks) <= MaxTasks
    BY DEF HitlInv, TypeInv
  <1>5. /\ t \in DOMAIN tasks /\ t # 0 /\ t \in TaskId
        /\ SeenInv(desk[o].seen) /\ ~Recorded(t)
    BY <1>1, <1>3, <1>4, HitlAssumption DEF HitlInv, DeskInv, ResolveCommit, Resolving, TaskId
  <1>6. x \in Entries /\ x.task = t /\ x.seen = desk[o].seen /\ x.seen \in 0..Len(ledger)
    BY <1>1, <1>2, <1>3, <1>4, <1>5 DEF Entries
  <1>7. /\ tasks' = [tasks EXCEPT ![t] = [status |-> "resolved", resolution |-> desk[o].doing]]
        /\ desk[o].doing \in {"recovered", "promise"}
        /\ ledger' = Append(ledger, x)
        /\ folded' = Len(ledger')
        /\ desk' = [desk EXCEPT ![o] = NoTask]
    BY <1>1, <1>2 DEF ResolveCommit, Resolving, Closed, Written, Rested
  <1>8. /\ ledger' \in Seq(Entries) /\ Len(ledger') = Len(ledger) + 1
        /\ DOMAIN ledger = 1..Len(ledger) /\ DOMAIN ledger' = 1..Len(ledger) + 1
        /\ \A i \in DOMAIN ledger : ledger'[i] = ledger[i]
        /\ ledger'[Len(ledger) + 1] = x
        /\ \A n \in 0..Len(ledger) : SeenInv(n) => SeenInv(n)'
        /\ \A u : Recorded(u)' <=> Recorded(u) \/ u = t
    BY <1>6, <1>7, Grown
  <1>9. tasks' \in Seq(Tasks) /\ DOMAIN tasks' = DOMAIN tasks /\ Len(tasks') = Len(tasks)
    BY <1>5, <1>7 DEF HitlInv, TypeInv, Tasks
  <1>10. TypeInv'
    <2>1. desk' \in [Operator -> [task : DOMAIN tasks' \cup {0}, seen : 0..Len(ledger'),
                                  doing : {"nothing", "claim", "noop", "recovered", "promise"}]]
      <3>1. ASSUME NEW p \in Operator
            PROVE  desk'[p] \in [task : DOMAIN tasks' \cup {0}, seen : 0..Len(ledger'),
                                 doing : {"nothing", "claim", "noop", "recovered", "promise"}]
        <4>1. desk[p] \in [task : DOMAIN tasks \cup {0}, seen : 0..Len(ledger),
                           doing : {"nothing", "claim", "noop", "recovered", "promise"}]
          BY DEF HitlInv, TypeInv
        <4>2. desk'[p] = IF p = o THEN NoTask ELSE desk[p]
          BY <1>7 DEF HitlInv, TypeInv
        <4>3. 0..Len(ledger) \subseteq 0..Len(ledger') /\ 0 \in 0..Len(ledger')
          BY <1>4, <1>8
        <4>4. CASE p = o
          BY <4>2, <4>3, <4>4 DEF NoTask
        <4>5. CASE p # o
          BY <1>9, <4>1, <4>2, <4>3, <4>5
        <4>6. QED
          BY <4>4, <4>5
      <3>2. desk' = [p \in Operator |-> desk'[p]]
        BY <1>7 DEF HitlInv, TypeInv
      <3>3. QED
        BY <3>1, <3>2
    <2>2. QED
      BY <1>4, <1>7, <1>8, <1>9, <2>1 DEF TypeInv
  <1>11. ASSUME NEW i \in DOMAIN ledger' PROVE EntryInv(i)'
    <2>1. CASE i \in DOMAIN ledger
      <3>1. EntryInv(i) /\ ledger'[i] = ledger[i] /\ i \in 1..Len(ledger)
        BY <1>8, <2>1 DEF HitlInv
      <3>2. ledger[i].task # t
        BY <1>5, <2>1 DEF Recorded
      <3>3. ledger'[i].task # 0 => ledger'[i].task \in DOMAIN tasks' /\ i <= folded'
        BY <1>4, <1>7, <1>8, <1>9, <3>1 DEF EntryInv
      <3>4. ASSUME NEW j \in DOMAIN ledger', ledger'[i].task = ledger'[j].task, ledger'[i].task # 0
            PROVE  i = j
        <4>1. j # Len(ledger) + 1
          BY <1>6, <1>8, <3>1, <3>2, <3>4
        <4>2. j \in DOMAIN ledger /\ ledger'[j] = ledger[j]
          BY <1>8, <4>1
        <4>3. QED
          BY <3>1, <3>4, <4>2 DEF EntryInv
      <3>5. QED
        BY <3>1, <3>3, <3>4 DEF EntryInv
    <2>2. CASE i = Len(ledger) + 1
      <3>1. ledger'[i].task = t /\ ledger'[i].seen < i
        BY <1>4, <1>6, <1>8, <2>2
      <3>2. ASSUME NEW j \in DOMAIN ledger', ledger'[j].task = t PROVE i = j
        <4>1. j \notin DOMAIN ledger
          BY <1>5, <1>8, <3>2 DEF Recorded
        <4>2. QED
          BY <1>8, <2>2, <4>1
      <3>3. QED
        BY <1>4, <1>5, <1>7, <1>8, <1>9, <2>2, <3>1, <3>2 DEF EntryInv
    <2>3. QED
      BY <1>4, <1>8, <2>1, <2>2
  <1>12. ASSUME NEW u \in DOMAIN tasks' PROVE TaskInv(u)'
    <2>1. TaskInv(u) /\ u \in DOMAIN tasks
      BY <1>9 DEF HitlInv
    <2>2. CASE u = t
      <3>1. tasks'[t].resolution = desk[o].doing
        BY <1>5, <1>7 DEF HitlInv, TypeInv
      <3>2. QED
        BY <1>7, <1>8, <2>2, <3>1 DEF TaskInv
    <2>3. CASE u # t
      <3>1. tasks'[u] = tasks[u]
        BY <1>5, <1>7, <2>1, <2>3 DEF HitlInv, TypeInv
      <3>2. QED
        BY <1>8, <2>1, <2>3, <3>1 DEF TaskInv
    <2>4. QED
      BY <2>2, <2>3
  <1>13. ASSUME NEW p \in Operator PROVE DeskInv(p)'
    <2>1. desk'[p] = IF p = o THEN NoTask ELSE desk[p]
      BY <1>7 DEF HitlInv, TypeInv
    <2>2. CASE p = o
      BY <2>1, <2>2 DEF DeskInv, Resolving, NoTask
    <2>3. CASE p # o
      <3>1. DeskInv(p) /\ desk'[p] = desk[p]
        BY <2>1, <2>3 DEF HitlInv
      <3>2. PICK n \in 0..Len(ledger) : n = desk[p].seen /\ n = desk'[p].seen
        BY <3>1 DEF HitlInv, TypeInv
      <3>3. Resolving(p) => SeenInv(n)'
        BY <1>8, <3>1, <3>2 DEF DeskInv
      <3>4. Resolving(p)' => SeenInv(desk[p].seen)'
        BY <3>1, <3>2, <3>3 DEF Resolving, SeenInv, Reopened
      <3>5. QED
        BY <3>1, <3>4 DEF DeskInv
    <2>4. QED
      BY <2>2, <2>3
  <1>14. ASSUME NEW j \in DOMAIN ledger', ledger'[j].task # 0 PROVE SeenInv(ledger[j].seen)'
    <2>1. CASE j \in DOMAIN ledger
      <3>1. ledger[j].task # 0
        BY <1>8, <1>14, <2>1
      <3>2. QED
        BY <1>6, <1>7, <2>1, <3>1, GrownSeen
    <2>2. CASE j = Len(ledger) + 1
      <3>1. PICK n \in 0..Len(ledger) : n = desk[o].seen /\ n = ledger'[j].seen
        BY <1>6, <1>8, <2>2
      <3>2. SeenInv(n)'
        BY <1>5, <1>8, <3>1
      <3>3. QED
        BY <3>1, <3>2 DEF SeenInv, Reopened
    <2>3. QED
      BY <1>4, <1>8, <2>1, <2>2
  <1>15. (Cardinality(Arrived) <= MaxArrivals)'
    <2>1. Arrived' = Arrived
      BY <1>4, <1>5, <1>6, <1>8 DEF Arrived
    <2>2. QED
      BY <2>1 DEF HitlInv
  <1>16. QED
    BY <1>10, <1>11, <1>12, <1>13, <1>14, <1>15 DEF HitlInv

\* Every step of the queue keeps the invariant.
LEMMA NextHitlInv == HitlInv /\ [HitlNext]_hitlVars => HitlInv'
  <1> SUFFICES ASSUME HitlInv, [HitlNext]_hitlVars PROVE HitlInv'
    OBVIOUS
  <1>1. ASSUME NEW type \in Arrivals, HitlArrive(type) PROVE HitlInv'
    BY <1>1, ArriveKeeps
  <1>2. CASE HitlFold
    BY <1>2, FoldKeeps
  <1>3. CASE enqueue_escalation
    BY <1>3, EnqueueKeeps
  <1>4. ASSUME NEW o \in Operator, NEW t \in DOMAIN tasks,
               ClaimLook(o, t) \/ \E action \in {"recovered", "promise"} : ResolveLook(o, t, action)
        PROVE  HitlInv'
    BY <1>4, LookKeeps
  <1>5. ASSUME NEW o \in Operator, claim_task(o) PROVE HitlInv'
    BY <1>5, ClaimKeeps
  <1>6. ASSUME NEW o \in Operator, ResolveNoop(o) PROVE HitlInv'
    BY <1>6, NoopKeeps
  <1>7. ASSUME NEW o \in Operator, ResolveCommit(o) PROVE HitlInv'
    BY <1>7, CommitKeeps
  <1>8. ASSUME NEW o \in Operator, DeskAbort(o) PROVE HitlInv'
    BY <1>8, AbortKeeps
  <1>9. CASE UNCHANGED hitlVars
    BY <1>9 DEF hitlVars, HitlInv, TypeInv, Arrived, EntryInv, TaskInv, DeskInv, SeenInv, Reopened,
                Recorded, Resolving
  <1>10. QED
    BY <1>1, <1>2, <1>3, <1>4, <1>5, <1>6, <1>7, <1>8, <1>9 DEF HitlNext

-----------------------------------------------------------------------------
(* The properties *)

\* Entries from outside and one for each task: the ledger is no longer than that.
LEMMA LedgerBounded ==
  ASSUME HitlInv
  PROVE  Len(ledger) <= MaxArrivals + MaxTasks
  <1> DEFINE Recordings == DOMAIN ledger \ Arrived
             f == [i \in Recordings |-> ledger[i].task]
  <1>1. DOMAIN ledger = 1..Len(ledger) /\ Len(ledger) \in Nat
    BY DEF HitlInv, TypeInv
  <1>2. IsFiniteSet(DOMAIN ledger) /\ Cardinality(DOMAIN ledger) = Len(ledger)
    <2>1. PICK n \in Nat : n = Len(ledger)
      BY <1>1
    <2>2. IsFiniteSet(1..n) /\ Cardinality(1..n) = n
      BY FS_Interval
    <2>3. QED
      BY <1>1, <2>1, <2>2
  <1>3. ASSUME NEW i \in Recordings PROVE ledger[i].task \in TaskId
    <2>1. EntryInv(i) /\ ledger[i].task # 0 /\ ledger[i] \in Entries
      BY <1>1 DEF HitlInv, TypeInv, Arrived
    <2>2. QED
      BY <2>1 DEF Entries
  <1>4. \A i, j \in Recordings : ledger[i].task = ledger[j].task => i = j
    BY DEF HitlInv, EntryInv, Arrived
  <1>5. f \in Injection(Recordings, TaskId)
    BY <1>3, <1>4 DEF Injection, IsInjective
  <1>6. IsFiniteSet(TaskId) /\ Cardinality(TaskId) = MaxTasks
    BY FS_Interval, HitlAssumption DEF TaskId
  <1> HIDE DEF f
  <1>7. IsFiniteSet(Recordings) /\ Cardinality(Recordings) <= MaxTasks
    BY <1>5, <1>6, FS_Injection
  <1>8. IsFiniteSet(Arrived) /\ Cardinality(Arrived) <= MaxArrivals
    <2>1. Arrived \in SUBSET (DOMAIN ledger)
      BY DEF Arrived
    <2>2. QED
      BY <1>2, <2>1, FS_Subset DEF HitlInv
  <1>9. DOMAIN ledger = Arrived \cup Recordings /\ Arrived \cap Recordings = {}
    BY DEF Arrived
  <1>10. Cardinality(DOMAIN ledger) = Cardinality(Arrived) + Cardinality(Recordings)
    <2> HIDE DEF Recordings
    <2>1. Cardinality(Arrived \cup Recordings)
            = Cardinality(Arrived) + Cardinality(Recordings) - Cardinality(Arrived \cap Recordings)
      BY <1>7, <1>8, FS_Union
    <2>2. Cardinality(Arrived \cap Recordings) = 0
      BY <1>9, FS_EmptySet
    <2>3. Cardinality(Arrived) \in Nat /\ Cardinality(Recordings) \in Nat
      BY <1>7, <1>8, FS_CardinalityType
    <2>4. QED
      BY <1>9, <2>1, <2>2, <2>3
  <1>11. Cardinality(Arrived) \in Nat /\ Cardinality(Recordings) \in Nat
    BY <1>7, <1>8, FS_CardinalityType
  <1>12. QED
    BY <1>2, <1>7, <1>8, <1>10, <1>11, HitlAssumption

LEMMA InvType ==
  ASSUME HitlInv
  PROVE  HitlType
  <1>1. Len(ledger) \in Nat /\ Len(ledger) <= MaxArrivals + MaxTasks /\ DOMAIN ledger = 1..Len(ledger)
    BY LedgerBounded DEF HitlInv, TypeInv
  <1> DEFINE Row == [type : Arrivals \cup {"HumanResolved", "PromiseMade"},
                     task : TaskId \cup {0}, seen : 0..MaxArrivals + MaxTasks]
  <1>2. ASSUME NEW i \in 1..Len(ledger) PROVE ledger[i] \in Row
    <2>1. ledger[i] \in Entries /\ EntryInv(i)
      BY <1>1 DEF HitlInv, TypeInv
    <2>2. ledger[i].seen \in 0..MaxArrivals + MaxTasks
      BY <1>1, <2>1, HitlAssumption DEF Entries, EntryInv
    <2>3. QED
      BY <2>1, <2>2 DEF Entries
  <1>3. ledger = [i \in 1..Len(ledger) |-> ledger[i]]
    BY DEF HitlInv, TypeInv
  <1>4. ledger \in Seq(Row)
    <2> HIDE DEF Row
    <2>1. ledger \in [1..Len(ledger) -> Row]
      BY <1>2, <1>3
    <2>2. QED
      BY <1>1, <2>1
  <1>5. QED
    BY <1>4 DEF HitlInv, TypeInv, HitlType, Tasks

LEMMA InvTaskAndEvent ==
  ASSUME HitlInv
  PROVE  TaskAndEvent
  <1>1. SUFFICES ASSUME NEW t \in DOMAIN tasks
                 PROVE  LET written == Cardinality({i \in DOMAIN ledger : ledger[i].task = t}) IN
                        /\ written <= 1
                        /\ tasks[t].resolution \in {"recovered", "promise"} => written = 1
                        /\ tasks[t].resolution = "none" => written = 0
                        /\ tasks[t].resolution \in {"none", "noop", "recovered", "promise"}
    BY DEF TaskAndEvent
  <1>2. PICK W : W = {i \in DOMAIN ledger : ledger[i].task = t}
    OBVIOUS
  <1>3. TaskInv(t) /\ t # 0 /\ tasks[t].resolution \in {"none", "noop", "recovered", "promise"}
    <2>1. TaskInv(t) /\ t # 0 /\ tasks[t] \in Tasks
      BY DEF HitlInv, TypeInv
    <2>2. QED
      BY <2>1 DEF Tasks
  <1>4. Recorded(t) <=> W # {}
    BY <1>2 DEF Recorded
  <1>5. CASE W = {}
    BY <1>2, <1>3, <1>4, <1>5, FS_EmptySet DEF TaskInv
  <1>6. CASE W # {}
    <2>1. PICK i : i \in W
      BY <1>6
    <2>2. W = {i}
      BY <1>2, <1>3, <2>1 DEF HitlInv, EntryInv
    <2>3. Cardinality(W) = 1
      BY <2>2, FS_Singleton
    <2>4. QED
      BY <1>2, <1>3, <1>4, <1>6, <2>3 DEF TaskInv
  <1>7. QED
    BY <1>5, <1>6

LEMMA InvOneRecovery ==
  ASSUME HitlInv
  PROVE  OneRecoveryPerTrouble
  <1>1. SUFFICES ASSUME NEW i \in DOMAIN ledger, NEW j \in DOMAIN ledger,
                        ledger[i].task # 0, ledger[j].task # 0, i <= ledger[j].seen,
                        ledger[i].type = "HumanResolved"
                 PROVE  Reopened(i, j - 1)
    BY DEF OneRecoveryPerTrouble, Reopened
  <1>2. SeenInv(ledger[j].seen) /\ EntryInv(j)
    BY <1>1 DEF HitlInv
  <1>3. Reopened(i, ledger[j].seen)
    BY <1>1, <1>2 DEF SeenInv
  <1>4. ledger[j].seen \in Nat /\ i \in Nat /\ j \in Nat
    <2>1. ledger[j] \in Entries /\ i \in Nat /\ j \in Nat
      BY DEF HitlInv, TypeInv
    <2>2. QED
      BY <2>1 DEF Entries
  <1>5. i + 1..ledger[j].seen \subseteq i + 1..j - 1
    BY <1>2, <1>4 DEF EntryInv
  <1>6. QED
    BY <1>3, <1>5 DEF Reopened

\* The queue runs by itself, or as the service that was picked.
THEOREM HitlHolds == HitlInit /\ [][HitlNext]_hitlVars => []HitlInv
  BY InitHitlInv, NextHitlInv, PTL

\* core/hitl.py: tasks, the events they leave and the desks of the operators
\* stay within their types, and the ledger has at most one entry for each task
\* and each event from outside.
THEOREM HitlTyped == HitlInit /\ [][HitlNext]_hitlVars => []HitlType
  BY HitlHolds, InvType, PTL

\* core/hitl.py, resolve_task: the task and its event are committed together,
\* and once, whoever else resolves the task at the same time.
THEOREM TaskIsItsEvent == HitlInit /\ [][HitlNext]_hitlVars => []TaskAndEvent
  BY HitlHolds, InvTaskAndEvent, PTL

\* core/hitl.py, resolve_task: because the event is folded by the transaction
\* that records it, an operator who looks afterwards finds the entity settled,
\* until something reopens it.
THEOREM RecoveredOnce == HitlInit /\ [][HitlNext]_hitlVars => []OneRecoveryPerTrouble
  BY HitlHolds, InvOneRecovery, PTL

=============================================================================
