------------------------------- MODULE Hitl --------------------------------
(***************************************************************************)
(* The queue of human tasks about one entity (core/hitl.py).  A task is    *)
(* enqueued, claimed and resolved; resolving it appends an event about the *)
(* entity and folds it, unless the entity is already settled.  Between the *)
(* look of an operator at the task and the status, and the commit of what  *)
(* follows, other operators commit, the intake appends and the worker      *)
(* folds.                                                                  *)
(***************************************************************************)
EXTENDS Integers, Sequences, Domain

CONSTANTS
  Operator,     \* who works on the queue
  MaxTasks,     \* bound: tasks enqueued
  MaxArrivals,  \* bound: events from outside
  Arrivals      \* the types of these events

ASSUME HitlAssumption ==
  MaxTasks \in Nat /\ MaxArrivals \in Nat

VARIABLES
  ledger,       \* the events of the entity: a type, the task it came from or 0, and
                \* how many events there were when its operator looked
  folded,       \* how many of them the L1 row has seen
  tasks,        \* status and resolution of each task
  desk          \* what each operator is about to commit

hitlVars == <<ledger, folded, tasks, desk>>

TaskId == 1..MaxTasks
NoTask == [task |-> 0, doing |-> "nothing", seen |-> 0]

HitlInit ==
  /\ ledger = <<>>
  /\ folded = 0
  /\ tasks = <<>>
  /\ desk = [o \in Operator |-> NoTask]

\* The status after the first n events.
StatusAt(n) ==
  LET status[i \in 0..n] == IF i = 0 THEN "ACTIVE" ELSE TRANSITIONS(status[i - 1], ledger[i].type)
  IN status[n]

\* The status in L1.
CurrentStatus == StatusAt(folded)

HitlArrive(type) ==
  /\ Cardinality({i \in DOMAIN ledger : ledger[i].task = 0}) < MaxArrivals
  /\ ledger' = Append(ledger, [type |-> type, task |-> 0, seen |-> 0])
  /\ UNCHANGED <<folded, tasks, desk>>

HitlFold ==
  /\ folded < Len(ledger)
  /\ folded' = Len(ledger)
  /\ UNCHANGED <<ledger, tasks, desk>>

\* Nothing is enqueued for an entity that is settled; an entity may have
\* several tasks.
enqueue_escalation ==
  /\ Len(tasks) < MaxTasks
  /\ CurrentStatus \notin TERMINAL_STATUSES
  /\ tasks' = Append(tasks, [status |-> "open", resolution |-> "none"])
  /\ UNCHANGED <<ledger, folded, desk>>

Rested(o) == [desk EXCEPT ![o] = NoTask]

\* claim_task and resolve_task look at the task, resolve_task at the status of
\* the entity as well.
LookAt(o, t, doing) ==
  /\ desk[o] = NoTask
  /\ desk' = [desk EXCEPT ![o] = [task |-> t, doing |-> doing, seen |-> Len(ledger)]]
  /\ UNCHANGED <<ledger, folded, tasks>>

ClaimLook(o, t) == tasks[t].status = "open" /\ LookAt(o, t, "claim")

\* The status is written whatever has become of the task.
claim_task(o) ==
  /\ desk[o].doing = "claim"
  /\ tasks' = [tasks EXCEPT ![desk[o].task].status = "claimed"]
  /\ desk' = Rested(o)
  /\ UNCHANGED <<ledger, folded>>

ResolveLook(o, t, action) ==
  /\ tasks[t].status \in {"open", "claimed"}
  /\ LookAt(o, t, IF CurrentStatus \in TERMINAL_STATUSES THEN "noop" ELSE action)

Closed(o) ==
  [tasks EXCEPT ![desk[o].task] = [status |-> "resolved", resolution |-> desk[o].doing]]

\* The entity was settled: the task is closed and nothing else happens.
ResolveNoop(o) ==
  /\ desk[o].doing = "noop"
  /\ tasks' = Closed(o)
  /\ desk' = Rested(o)
  /\ UNCHANGED <<ledger, folded>>

Resolving(o) == desk[o].doing \in {"recovered", "promise"}

Written(o) ==
  Append(ledger, [type |-> IF desk[o].doing = "promise" THEN "PromiseMade" ELSE "HumanResolved",
                  task |-> desk[o].task, seen |-> desk[o].seen])

\* The source id of the event is the task's: it is recorded once.
Recorded(t) == \E i \in DOMAIN ledger : ledger[i].task = t

\* The events are folded by the next tick of the worker.
ResolveCommit_WithoutFold(o) ==
  /\ Resolving(o) /\ ~Recorded(desk[o].task)
  /\ tasks' = Closed(o)
  /\ ledger' = Written(o)
  /\ desk' = Rested(o)
  /\ UNCHANGED folded

\* The task is closed first, the event recorded in a second transaction.
ResolveCommit_WithTwoCommits(o) ==
  /\ Resolving(o) /\ ~Recorded(desk[o].task)
  /\ IF tasks[desk[o].task].status # "resolved"
     THEN tasks' = Closed(o) /\ UNCHANGED <<ledger, folded, desk>>
     ELSE /\ ledger' = Written(o)
          /\ folded' = Len(ledger')
          /\ desk' = Rested(o)
          /\ UNCHANGED tasks

\* One transaction closes the task, records the event and folds everything.
ResolveCommit(o) ==
  /\ Resolving(o) /\ ~Recorded(desk[o].task)
  /\ tasks' = Closed(o)
  /\ ledger' = Written(o)
  /\ folded' = Len(ledger')
  /\ desk' = Rested(o)

\* The transaction is rolled back, because its event is a duplicate or for any
\* other reason, or the operator's process dies.
DeskAbort(o) ==
  /\ desk[o] # NoTask
  /\ desk' = Rested(o)
  /\ UNCHANGED <<ledger, folded, tasks>>

HitlNext ==
  \/ \E type \in Arrivals : HitlArrive(type)
  \/ HitlFold
  \/ enqueue_escalation
  \/ \E o \in Operator :
       \/ \E t \in DOMAIN tasks :
            ClaimLook(o, t) \/ \E action \in {"recovered", "promise"} : ResolveLook(o, t, action)
       \/ claim_task(o) \/ ResolveNoop(o) \/ ResolveCommit(o) \/ DeskAbort(o)

-----------------------------------------------------------------------------

HitlType ==
  /\ ledger \in Seq([type : Arrivals \cup {"HumanResolved", "PromiseMade"},
                     task : TaskId \cup {0}, seen : 0..MaxArrivals + MaxTasks])
  /\ folded \in 0..Len(ledger)
  /\ tasks \in Seq([status : {"open", "claimed", "resolved"},
                    resolution : {"none", "noop", "recovered", "promise"}])
  /\ desk \in [Operator -> [task : DOMAIN tasks \cup {0}, seen : 0..Len(ledger),
                            doing : {"nothing", "claim", "noop", "recovered", "promise"}]]

\* A task that says it was resolved has written to the ledger, once, and a task
\* nobody has resolved has not.  A no-op may have come on top of a resolution
\* that was under way.
TaskAndEvent ==
  \A t \in DOMAIN tasks :
    LET written == Cardinality({i \in DOMAIN ledger : ledger[i].task = t}) IN
    CASE tasks[t].resolution \in {"recovered", "promise"} -> written = 1
      [] tasks[t].resolution = "noop" -> written <= 1
      [] tasks[t].resolution = "none" -> written = 0

\* Several tasks about one trouble recover it once: whoever looks after a
\* HumanResolved of the queue records another one only if something else has
\* happened to the entity in between.  Two operators who looked before either
\* recorded anything do recover it twice.
OneRecoveryPerTrouble ==
  \A i, j \in DOMAIN ledger :
    /\ ledger[i].task # 0 /\ ledger[j].task # 0 /\ i <= ledger[j].seen
    /\ ledger[i].type = "HumanResolved" /\ ledger[j].type = "HumanResolved"
    => \E k \in i + 1..j - 1 :
         \E s \in VALID_STATUSES \ TERMINAL_STATUSES : ledger[k].type \in EventsLeadingTo(s)

=============================================================================
