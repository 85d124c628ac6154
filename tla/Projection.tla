----------------------------- MODULE Projection -----------------------------
(***************************************************************************)
(* The fold of core/projection.py: the L1 row of an entity is brought up   *)
(* to date from the events past its watermark, last_event_id.  A call of   *)
(* fold_events lists the last event of every entity, and then takes the    *)
(* entities one by one: it reads the row, reads the events, applies them   *)
(* in memory and writes back the columns that changed.  It takes no lock:  *)
(* events are appended, and other folds run, between these steps.  Nothing *)
(* obliges anyone to call it: the agent does after it decided, executed or *)
(* reconciled something, an operator's resolution and a rebuild do.        *)
(*                                                                         *)
(* The ledger is the abstract EventLog that Ledger implements.  A time or  *)
(* a due date in a column is the id of the event it was copied from, 0 for *)
(* NULL.  A PromiseMade without a due_at, which resolve_task records if    *)
(* the operator names none, is the type UNDATED.  last_failure_reason,     *)
(* amount_at_risk_minor, timezone and the card expiry are set the way      *)
(* last_contact_at is, each by its own event types, and are left out.      *)
(***************************************************************************)
EXTENDS Integers, Domain

CONSTANTS
  Entity,     \* (merchant, entity) pairs
  NoEntity,   \* no fold in progress
  EventType,
  MaxId,      \* bound: ids handed out
  Serial,     \* SQLite: ids become visible in order
  Folder      \* sessions that fold

ASSUME ProjectionAssumption ==
  /\ NoEntity \notin Entity
  /\ MaxId \in Nat
  /\ Serial \in BOOLEAN

VARIABLES
  log,        \* the committed events
  state,      \* the committed entity_state rows
  listed,     \* the last event of each entity a call has still to look at
  failed,     \* was the last call of the session undone?
  on,         \* the entity each session is folding
  loaded,     \* the row it read
  row,        \* the row in its memory
  todo        \* the events it has read and not applied yet

vars == <<log, state, listed, failed, on, loaded, row, todo>>

Ledger == INSTANCE EventLog

Id == 1..MaxId
Event == [id : Id, entity : Entity, type : EventType]
Columns == [status : VALID_STATUSES \cup {"none"},
            last_contact_at : Id \cup {0}, open_ptp_due_at : Id \cup {0},
            last_event_id : Id \cup {0}]

\* No row.  A fold and Gate-1 create it ACTIVE with watermark 0.
Absent == [status |-> "none", last_contact_at |-> 0, open_ptp_due_at |-> 0, last_event_id |-> 0]
Created == [Absent EXCEPT !.status = "ACTIVE"]

TypeInvariant ==
  /\ log \subseteq Event
  /\ state \in [Entity -> Columns]
  /\ on \in [Folder -> Entity \cup {NoEntity}]
  /\ loaded \in [Folder -> Columns]
  /\ row \in [Folder -> Columns]
  /\ todo \in [Folder -> SUBSET log]
  /\ listed \in [Folder -> [Entity -> Id \cup {0}]]
  /\ failed \in [Folder -> BOOLEAN]
  /\ \A e \in Entity : state[e].status = "none" => state[e] = Absent
  /\ \A f \in Folder :
       /\ row[f].status = "none" <=> on[f] = NoEntity
       /\ loaded[f] # Absent =>
            on[f] \in Entity /\ loaded[f].status # "none" /\ state[on[f]].status # "none"
       /\ \A x \in todo[f] : x.entity = on[f]
       /\ on[f] # NoEntity => listed[f][on[f]] # 0

\* No call, or one that has come to the end of its list.
Nothing == [e \in Entity |-> 0]

Init ==
  /\ log = {}
  /\ state = [e \in Entity |-> Absent]
  /\ on = [f \in Folder |-> NoEntity]
  /\ loaded = [f \in Folder |-> Absent]
  /\ row = [f \in Folder |-> Absent]
  /\ todo = [f \in Folder |-> {}]
  /\ listed = [f \in Folder |-> Nothing]
  /\ failed = [f \in Folder |-> FALSE]

-----------------------------------------------------------------------------
(* One event *)

UNDATED == "PromiseMade without due_at"
TypeOf(x) == IF x.type = UNDATED THEN "PromiseMade" ELSE x.type

\* apply_event: the row after one more event.  A promise without a date leaves
\* the date of the one before.
apply_event(r, x) ==
  [r EXCEPT !.status = TRANSITIONS(r.status, TypeOf(x)),
            !.last_contact_at = IF x.type \in CONTACT_EVENT_TYPES THEN x.id ELSE r.last_contact_at,
            !.open_ptp_due_at = IF x.type = "PromiseMade" THEN x.id
                                ELSE IF x.type \in {"PromiseHonored", "PromiseBroken"} THEN 0
                                ELSE r.open_ptp_due_at,
            !.last_event_id = x.id]

Past(e, n) == {x \in log : x.entity = e /\ x.id > n}

\* A column goes into the UPDATE only if its value changed in memory.
Column(was, now, stored) == IF now = was THEN stored ELSE now

Updated(was, now, stored) ==
  [status |-> Column(was.status, now.status, stored.status),
   last_contact_at |-> Column(was.last_contact_at, now.last_contact_at, stored.last_contact_at),
   open_ptp_due_at |-> Column(was.open_ptp_due_at, now.open_ptp_due_at, stored.open_ptp_due_at),
   last_event_id |-> Column(was.last_event_id, now.last_event_id, stored.last_event_id)]

-----------------------------------------------------------------------------
(* A call, one entity at a time.  A definition named X_Without..., or          *)
(* X_With..., is a plausible slip in X.                                        *)

\* The intake, the agent or an operator commits an event.
Append(x) == Ledger!Append({x}) /\ UNCHANGED <<state, listed, failed, on, loaded, row, todo>>

\* The INSERT takes over a row that is there.
LockEntityState_WithUpsert(e) ==
  /\ state' = [state EXCEPT ![e] = Created]
  /\ UNCHANGED <<log, listed, failed, on, loaded, row, todo>>

\* Gate-1 creates the row of an entity it has not seen.
LockEntityState(e) ==
  /\ state[e] = Absent
  /\ state' = [state EXCEPT ![e] = Created]
  /\ UNCHANGED <<log, listed, failed, on, loaded, row, todo>>

LastOf(e) == {x.id : x \in {y \in log : y.entity = e /\ \A z \in log : z.entity = e => z.id <= y.id}}

\* fold_events is called: SELECT entity, max(id) ... GROUP BY entity.
FoldCall(f) ==
  /\ listed[f] = Nothing
  /\ \E last \in [Entity -> Id \cup {0}] :
       /\ \A e \in Entity : IF LastOf(e) = {} THEN last[e] = 0 ELSE last[e] \in LastOf(e)
       /\ listed' = [listed EXCEPT ![f] = last]
  /\ failed' = [failed EXCEPT ![f] = FALSE]
  /\ UNCHANGED <<log, state, on, loaded, row, todo>>

\* The row is read, or made, for an entity whose listed event is past its
\* watermark.
FoldLoad(f, e) ==
  /\ on[f] = NoEntity
  /\ listed[f][e] > state[e].last_event_id
  /\ on' = [on EXCEPT ![f] = e]
  /\ loaded' = [loaded EXCEPT ![f] = state[e]]
  /\ row' = [row EXCEPT ![f] = IF state[e] = Absent THEN Created ELSE state[e]]
  /\ UNCHANGED <<log, state, listed, failed, todo>>

\* Someone else has covered the listed event.
FoldSkip(f, e) ==
  /\ on[f] = NoEntity
  /\ listed[f][e] # 0
  /\ state[e].last_event_id >= listed[f][e]
  /\ listed' = [listed EXCEPT ![f][e] = 0]
  /\ UNCHANGED <<log, state, failed, on, loaded, row, todo>>

\* The events are read at once, past the watermark of the row in memory.
FoldRead(f) ==
  /\ on[f] # NoEntity
  /\ row[f].last_event_id = loaded[f].last_event_id
  /\ todo[f] = {}
  /\ todo' = [todo EXCEPT ![f] = Past(on[f], row[f].last_event_id)]
  /\ UNCHANGED <<log, state, listed, failed, on, loaded, row>>

\* The rows come in the order the database likes.
FoldApply_WithoutOrder(f) ==
  \E x \in todo[f] :
    /\ row' = [row EXCEPT ![f] = apply_event(@, x)]
    /\ todo' = [todo EXCEPT ![f] = @ \ {x}]
    /\ UNCHANGED <<log, state, listed, failed, on, loaded>>

\* The next event, in the order of the ids.
FoldApply(f) ==
  \E x \in todo[f] :
    /\ \A y \in todo[f] : x.id <= y.id
    /\ row' = [row EXCEPT ![f] = apply_event(@, x)]
    /\ todo' = [todo EXCEPT ![f] = @ \ {x}]
    /\ UNCHANGED <<log, state, listed, failed, on, loaded>>

\* The events of the last fold are left in the list.
Idle_WithLeftovers(f) ==
  /\ on' = [on EXCEPT ![f] = NoEntity]
  /\ loaded' = [loaded EXCEPT ![f] = Absent]
  /\ row' = [row EXCEPT ![f] = Absent]
  /\ UNCHANGED todo

Idle(f) ==
  /\ on' = [on EXCEPT ![f] = NoEntity]
  /\ loaded' = [loaded EXCEPT ![f] = Absent]
  /\ row' = [row EXCEPT ![f] = Absent]
  /\ todo' = [todo EXCEPT ![f] = {}]

\* The transaction, and with it the call, is undone.
Undone(f) ==
  /\ listed' = [listed EXCEPT ![f] = Nothing]
  /\ failed' = [failed EXCEPT ![f] = TRUE]
  /\ Idle(f)
  /\ UNCHANGED state

\* The INSERT of a new row fails if someone else made it in the meantime.
InsertFails(f) == loaded[f] = Absent /\ state[on[f]] # Absent

\* An entity whose row someone else made is left out, and the call goes on.
FoldWrite_WithoutFailure(f) ==
  /\ on[f] # NoEntity
  /\ todo[f] = {}
  /\ row[f].last_event_id # loaded[f].last_event_id
  /\ IF InsertFails(f) THEN UNCHANGED state
     ELSE state' = [state EXCEPT ![on[f]] = Updated(loaded[f], row[f], @)]
  /\ listed' = [listed EXCEPT ![f][on[f]] = 0]
  /\ UNCHANGED failed
  /\ Idle(f)
  /\ UNCHANGED log

\* The row is flushed and later committed, or the call is undone.
FoldWrite(f) ==
  /\ on[f] # NoEntity
  /\ todo[f] = {}
  /\ row[f].last_event_id # loaded[f].last_event_id
  /\ \/ InsertFails(f) /\ Undone(f)
     \/ /\ ~InsertFails(f)
        /\ state' = [state EXCEPT ![on[f]] = Updated(loaded[f], row[f], @)]
        /\ listed' = [listed EXCEPT ![f][on[f]] = 0]
        /\ UNCHANGED failed
        /\ Idle(f)
  /\ UNCHANGED log

\* A crash, or a rollback of the transaction that folds.
FoldAbort(f) ==
  /\ listed[f] # Nothing
  /\ Undone(f)
  /\ UNCHANGED log

FoldStep(f) == \/ \E e \in Entity : FoldLoad(f, e) \/ FoldSkip(f, e)
               \/ FoldRead(f) \/ FoldApply(f) \/ FoldWrite(f)

Next ==
  \/ \E x \in Event : Append(x)
  \/ \E e \in Entity : LockEntityState(e)
  \/ \E f \in Folder : FoldCall(f) \/ FoldStep(f) \/ FoldAbort(f)

Spec == Init /\ [][Next]_vars

\* A call that runs goes on.  Nobody need call, and every call may be undone.
FairSpec == Spec /\ \A f \in Folder : WF_vars(FoldStep(f))

-----------------------------------------------------------------------------
(* What a row should say *)

Seen(r, e) == {x \in log : x.entity = e /\ x.id <= r.last_event_id}

Last(x, events) == x \in events /\ \A y \in events : y.id <= x.id

Moves(events) == {x \in events : \E s \in VALID_STATUSES : TypeOf(x) \in EventsLeadingTo(s)}
Contacts(events) == {x \in events : x.type \in CONTACT_EVENT_TYPES}
Promises(events) ==
  {x \in events : x.type \in {"PromiseMade", "PromiseHonored", "PromiseBroken"}}

StatusAgrees(r, events) ==
  \/ Moves(events) = {} /\ r.status = "ACTIVE"
  \/ \E x \in events : Last(x, Moves(events)) /\ TypeOf(x) \in EventsLeadingTo(r.status)

ContactAgrees(r, events) ==
  \/ Contacts(events) = {} /\ r.last_contact_at = 0
  \/ \E x \in events : Last(x, Contacts(events)) /\ r.last_contact_at = x.id

\* A dated promise is open if no other came after it, nor an end of one.
PromiseAgrees(r, events) ==
  \/ Promises(events) = {} /\ r.open_ptp_due_at = 0
  \/ \E x \in events : /\ Last(x, Promises(events))
                       /\ r.open_ptp_due_at = IF x.type = "PromiseMade" THEN x.id ELSE 0

\* The last event of each kind decides, whatever came before it.
Agrees(r, events) ==
  StatusAgrees(r, events) /\ ContactAgrees(r, events) /\ PromiseAgrees(r, events)

\* L1 is a pure fold of L0: each row says what the events up to its watermark
\* say, whatever was appended, created or undone while it was folded.
NoDrift == \A e \in Entity : state[e] # Absent => Agrees(state[e], Seen(state[e], e))

\* The same of the rows no event is left to fold into: a drift that no later
\* fold repairs.
NoSettledDrift ==
  \A e \in Entity :
    state[e] # Absent /\ Past(e, state[e].last_event_id) = {} => Agrees(state[e], Seen(state[e], e))

\* A fold never takes a row back behind an event it had already covered.
WatermarkMonotone ==
  [][\A e \in Entity : state[e].last_event_id <= state'[e].last_event_id]_vars

\* An event committed before fold_events is called ends up behind the watermark
\* of its entity, whatever is appended, created and skipped meanwhile: the call
\* ends, and an entity it leaves uncovered has undone it as a whole.
EventuallyCovered ==
  \A f \in Folder, e \in Entity, n \in Id :
    listed[f][e] = n ~> state[e].last_event_id >= n \/ failed[f]

=============================================================================
