-------------------------- MODULE ProjectionProofs --------------------------
(***************************************************************************)
(* Proofs about Projection, for any number of entities and events.         *)
(*                                                                         *)
(* The rows are shown to agree with the events they cover by following one *)
(* fold: what is in memory agrees with the events up to its own watermark, *)
(* and an event of the entity past it is in the list, or came after        *)
(* everything in the list.  The second part holds because ids become       *)
(* visible in order (Serial); the row that is written back is the row that *)
(* was agreed on because nobody else folds (OneFolder).                    *)
(***************************************************************************)
EXTENDS Projection, TLAPS

OneFolder == \A f, g \in Folder : f = g

-----------------------------------------------------------------------------
(* One event *)

\* TRANSITIONS goes where the type leads, and nowhere if it leads nowhere.
LEMMA Target ==
  ASSUME NEW type, NEW status \in VALID_STATUSES
  PROVE  /\ TRANSITIONS(status, type) \in VALID_STATUSES
         /\ \/ type \in EventsLeadingTo(TRANSITIONS(status, type))
            \/ /\ \A s \in VALID_STATUSES : type \notin EventsLeadingTo(s)
               /\ TRANSITIONS(status, type) = status
<1>1. CASE \E next \in VALID_STATUSES : type \in EventsLeadingTo(next)
  <2> DEFINE chosen == CHOOSE next \in VALID_STATUSES : type \in EventsLeadingTo(next)
  <2>1. chosen \in VALID_STATUSES /\ type \in EventsLeadingTo(chosen)
    BY <1>1
  <2>2. TRANSITIONS(status, type) = chosen
    BY <1>1 DEF TRANSITIONS
  <2> QED
    BY <2>1, <2>2
<1>2. CASE ~\E next \in VALID_STATUSES : type \in EventsLeadingTo(next)
  BY <1>2 DEF TRANSITIONS
<1> QED
  BY <1>1, <1>2

LEMMA ApplyType ==
  ASSUME NEW r \in Columns, r.status # "none", NEW x \in Event
  PROVE  /\ apply_event(r, x) \in Columns
         /\ apply_event(r, x).status = TRANSITIONS(r.status, TypeOf(x))
         /\ apply_event(r, x).status \in VALID_STATUSES
         /\ apply_event(r, x).last_event_id = x.id
<1>1. r.status \in VALID_STATUSES
  BY DEF Columns
<1>2. TRANSITIONS(r.status, TypeOf(x)) \in VALID_STATUSES
  BY <1>1, Target
<1> QED
  BY <1>2 DEF apply_event, Columns, Event

\* One more event in the order of the ids keeps the row in agreement.
LEMMA ApplyAgrees ==
  ASSUME NEW r \in Columns, r.status # "none",
         NEW S \in SUBSET Event, NEW x \in Event, \A y \in S : y.id < x.id,
         Agrees(r, S)
  PROVE  Agrees(apply_event(r, x), S \cup {x})
<1> DEFINE q == apply_event(r, x)
           T == S \cup {x}
<1>0. r.status \in VALID_STATUSES /\ q.status = TRANSITIONS(r.status, TypeOf(x))
  BY ApplyType DEF Columns
<1>1. StatusAgrees(q, T)
  <2>1. CASE TypeOf(x) \in EventsLeadingTo(q.status)
    <3>1. Last(x, Moves(T))
      <4>1. q.status \in VALID_STATUSES
        BY ApplyType
      <4>2. x \in Moves(T)
        BY <2>1, <4>1 DEF Moves
      <4> QED
        BY <4>2 DEF Last, Moves, Event, Id
    <3> QED
      BY <3>1, <2>1 DEF StatusAgrees
  <2>2. CASE /\ \A s \in VALID_STATUSES : TypeOf(x) \notin EventsLeadingTo(s)
             /\ q.status = r.status
    <3>1. Moves(T) = Moves(S)
      BY <2>2 DEF Moves
    <3> QED
      BY <3>1, <2>2 DEF StatusAgrees, Agrees
  <2> QED
    BY <1>0, <2>1, <2>2, Target
<1>2. ContactAgrees(q, T)
  <2>1. CASE x.type \in CONTACT_EVENT_TYPES
    <3>1. Last(x, Contacts(T))
      BY <2>1 DEF Last, Contacts, Event, Id
    <3>2. q.last_contact_at = x.id
      BY <2>1 DEF apply_event, Columns
    <3> QED
      BY <3>1, <3>2 DEF ContactAgrees
  <2>2. CASE x.type \notin CONTACT_EVENT_TYPES
    <3>1. Contacts(T) = Contacts(S)
      BY <2>2 DEF Contacts
    <3>2. q.last_contact_at = r.last_contact_at
      BY <2>2 DEF apply_event, Columns
    <3> QED
      BY <3>1, <3>2 DEF ContactAgrees, Agrees
  <2> QED
    BY <2>1, <2>2
<1>3. PromiseAgrees(q, T)
  <2>1. CASE x.type \in {"PromiseMade", "PromiseHonored", "PromiseBroken"}
    <3>1. Last(x, Promises(T))
      BY <2>1 DEF Last, Promises, Event, Id
    <3>2. q.open_ptp_due_at = IF x.type = "PromiseMade" THEN x.id ELSE 0
      BY <2>1 DEF apply_event, Columns
    <3> QED
      BY <3>1, <3>2 DEF PromiseAgrees
  <2>2. CASE x.type \notin {"PromiseMade", "PromiseHonored", "PromiseBroken"}
    <3>1. Promises(T) = Promises(S)
      BY <2>2 DEF Promises
    <3>2. q.open_ptp_due_at = r.open_ptp_due_at
      BY <2>2 DEF apply_event, Columns
    <3> QED
      BY <3>1, <3>2 DEF PromiseAgrees, Agrees
  <2> QED
    BY <2>1, <2>2
<1> QED
  BY <1>1, <1>2, <1>3 DEF Agrees

\* The columns that changed, written over the row they were read from, give the
\* row in memory.
LEMMA WriteBack ==
  ASSUME NEW was \in Columns, NEW now \in Columns
  PROVE  Updated(was, now, was) = now
BY DEF Updated, Column, Columns

-----------------------------------------------------------------------------
(* The inductive invariant *)

\* The column is 0 or the id of an event.
Known(n) == n = 0 \/ \E x \in log : x.id = n

\* An event past the row in memory is in the list, or newer than the list.
Ordered(f, x) ==
  x.entity = on[f] /\ x.id > row[f].last_event_id =>
    x \in todo[f] \/ \A y \in todo[f] : y.id < x.id

FoldInv(f) ==
  on[f] # NoEntity =>
    /\ row[f].status # "none"
    /\ Known(row[f].last_event_id)
    /\ loaded[f].last_event_id <= row[f].last_event_id
    /\ loaded[f] = state[on[f]] \/ (loaded[f] = Absent /\ state[on[f]] = Created)
    /\ Agrees(row[f], Seen(row[f], on[f]))
    /\ \A x \in todo[f] : row[f].last_event_id < x.id
    /\ \A x \in log : Ordered(f, x)

RowInv(e) == state[e] # Absent => Agrees(state[e], Seen(state[e], e))

IInv ==
  /\ TypeInvariant
  /\ \A x, y \in log : x.id = y.id => x = y
  /\ \A e \in Entity : Known(state[e].last_event_id)
  /\ \A f \in Folder : FoldInv(f)
  /\ \A e \in Entity : RowInv(e)

LEMMA AbsentType == Absent \in Columns /\ Created \in Columns /\ Created # Absent /\ Created.status = "ACTIVE"
BY DEF Absent, Created, Columns, VALID_STATUSES

THEOREM InitType == Init => TypeInvariant
BY AbsentType, ProjectionAssumption DEF Init, Nothing, TypeInvariant, Absent

THEOREM NextType == TypeInvariant /\ [Next]_vars => TypeInvariant'
<1> SUFFICES ASSUME TypeInvariant, [Next]_vars PROVE TypeInvariant'
  OBVIOUS
<1> USE DEF TypeInvariant
<1>1. ASSUME NEW x \in Event, Append(x) PROVE TypeInvariant'
  BY <1>1 DEF Append, Ledger!Append
<1>2. ASSUME NEW e \in Entity, LockEntityState(e) PROVE TypeInvariant'
  BY <1>2, AbsentType DEF LockEntityState
<1>3. ASSUME NEW f \in Folder, NEW e \in Entity, FoldLoad(f, e) PROVE TypeInvariant'
  <2>1. todo[f] = {}
    BY <1>3, ProjectionAssumption DEF FoldLoad, Event
  <2>2. listed[f][e] # 0
    BY <1>3 DEF FoldLoad, Columns, Id
  <2> QED
    BY <1>3, <2>1, <2>2, AbsentType, ProjectionAssumption DEF FoldLoad
<1>4. ASSUME NEW f \in Folder, FoldRead(f) PROVE TypeInvariant'
  BY <1>4 DEF FoldRead, Past
<1>9. ASSUME NEW f \in Folder, FoldCall(f) PROVE TypeInvariant'
  <2>1. PICK last \in [Entity -> Id \cup {0}] : listed' = [listed EXCEPT ![f] = last]
    BY <1>9 DEF FoldCall
  <2>2. on[f] = NoEntity
    BY <1>9 DEF FoldCall, Nothing
  <2> QED
    BY <1>9, <2>1, <2>2 DEF FoldCall
<1>10. ASSUME NEW f \in Folder, NEW e \in Entity, FoldSkip(f, e) PROVE TypeInvariant'
  BY <1>10 DEF FoldSkip
<1>5. ASSUME NEW f \in Folder, FoldApply(f) PROVE TypeInvariant'
  <2>1. PICK x \in todo[f] : FoldApply(f)!(x)
    BY <1>5 DEF FoldApply
  <2>2. x \in Event /\ on[f] \in Entity /\ row[f].status # "none"
    BY <2>1, ProjectionAssumption DEF Event
  <2>3. apply_event(row[f], x) \in Columns /\ apply_event(row[f], x).status # "none"
    BY <2>2, ApplyType DEF VALID_STATUSES
  <2> QED
    BY <2>1, <2>2, <2>3, ProjectionAssumption
<1>6. ASSUME NEW f \in Folder, FoldWrite(f), ~InsertFails(f) PROVE TypeInvariant'
  <2>1. on[f] \in Entity /\ row[f].status # "none"
    BY <1>6 DEF FoldWrite
  <2>2. /\ state' = [state EXCEPT ![on[f]] = Updated(loaded[f], row[f], @)]
        /\ listed' = [listed EXCEPT ![f][on[f]] = 0]
        /\ UNCHANGED <<log, failed>>
        /\ Idle(f)
    BY <1>6 DEF FoldWrite
  <2> DEFINE written == Updated(loaded[f], row[f], state[on[f]])
  <2>3. written \in Columns
    BY <2>1 DEF Updated, Column, Columns
  <2>4. written.status # "none"
    BY <1>6, <2>1 DEF Updated, Column, InsertFails, Absent
  <2>5. /\ state' \in [Entity -> Columns]
        /\ \A e \in Entity : state[e].status # "none" => state'[e].status # "none"
        /\ \A e \in Entity : state'[e].status = "none" => state'[e] = Absent
    BY <2>1, <2>2, <2>3, <2>4
  <2>6. \A g \in Folder : g # f => on'[g] = on[g] /\ loaded'[g] = loaded[g] /\ listed'[g] = listed[g]
    BY <2>2 DEF Idle
  <2>7. on'[f] = NoEntity /\ loaded'[f] = Absent
    BY <2>2 DEF Idle
  <2>8. \A g \in Folder : loaded'[g] # Absent =>
          on'[g] \in Entity /\ loaded'[g].status # "none" /\ state'[on'[g]].status # "none"
    BY <2>5, <2>6, <2>7
  <2> QED
    BY <2>2, <2>5, <2>6, <2>7, <2>8, AbsentType DEF Idle, Absent
<1>7. ASSUME NEW f \in Folder, Undone(f), UNCHANGED log PROVE TypeInvariant'
  BY <1>7, AbsentType, ProjectionAssumption DEF Undone, Idle, Absent, Nothing
<1>11. ASSUME NEW f \in Folder, FoldWrite(f) PROVE TypeInvariant'
  BY <1>11, <1>6, <1>7 DEF FoldWrite
<1>8. CASE UNCHANGED vars
  BY <1>8 DEF vars
<1> QED
  BY <1>1, <1>2, <1>3, <1>4, <1>5, <1>7, <1>8, <1>9, <1>10, <1>11 DEF Next, FoldStep, FoldAbort

\* A new row says what no event says.
LEMMA CreatedAgrees ==
  ASSUME TypeInvariant, NEW e \in Entity
  PROVE  Seen(Created, e) = {} /\ Agrees(Created, Seen(Created, e))
<1>1. Created.last_event_id = 0 /\ Created.status = "ACTIVE"
      /\ Created.last_contact_at = 0 /\ Created.open_ptp_due_at = 0
  BY DEF Created, Absent
<1>2. Seen(Created, e) = {}
  BY <1>1 DEF Seen, TypeInvariant, Event, Id
<1> QED
  BY <1>1, <1>2 DEF Agrees, StatusAgrees, ContactAgrees, PromiseAgrees, Moves, Contacts, Promises

\* An event that becomes visible after the ones a row knows is not covered.
LEMMA SeenStable ==
  ASSUME TypeInvariant, Serial, NEW x \in Event, Append(x),
         NEW r \in Columns, Known(r.last_event_id), NEW e \in Entity
  PROVE  {y \in log' : y.entity = e /\ y.id <= r.last_event_id} = Seen(r, e)
<1>1. log' = log \cup {x} /\ \A y \in log : x.id > y.id
  BY DEF Append, Ledger!Append
<1>2. x.id > r.last_event_id
  BY <1>1 DEF Known, Event, Id, TypeInvariant, Columns
<1> QED
  BY <1>1, <1>2 DEF Seen, Event, Id, Columns

LEMMA AppendIInv ==
  ASSUME Serial, IInv, NEW x \in Event, Append(x)
  PROVE  IInv'
<1> USE DEF IInv
<1>1. TypeInvariant'
  BY NextType DEF Next
<1>2. /\ log' = log \cup {x} /\ \A y \in log : x.id > y.id
      /\ UNCHANGED <<state, on, loaded, row, todo>>
  BY DEF Append, Ledger!Append
<1>3. \A y, z \in log' : y.id = z.id => y = z
  BY <1>2 DEF TypeInvariant, Event, Id
<1>4. \A e \in Entity : Known(state[e].last_event_id)'
  BY <1>2 DEF Known
<1>5. ASSUME NEW f \in Folder PROVE FoldInv(f)'
  <2> SUFFICES ASSUME on[f] # NoEntity PROVE FoldInv(f)'
    BY <1>2 DEF FoldInv
  <2>1. on[f] \in Entity /\ row[f] \in Columns /\ FoldInv(f)
    BY DEF TypeInvariant
  <2>2. {y \in log' : y.entity = on[f] /\ y.id <= row[f].last_event_id} = Seen(row[f], on[f])
    BY <2>1, SeenStable DEF FoldInv
  <2>3. Seen(row[f], on[f])' = Seen(row[f], on[f])
    BY <2>2, <1>2 DEF Seen
  <2>4. Known(row[f].last_event_id)'
    BY <1>2, <2>1 DEF FoldInv, Known
  <2>5. \A z \in log' : Ordered(f, z)'
    <3>1. todo[f] \subseteq log
      BY DEF TypeInvariant
    <3> QED
      BY <3>1, <1>2, <2>1 DEF FoldInv, Ordered
  <2> QED
    BY <2>1, <2>3, <2>4, <2>5, <1>2 DEF FoldInv
<1>6. ASSUME NEW e \in Entity PROVE RowInv(e)'
  <2>1. state[e] \in Columns
    BY DEF TypeInvariant
  <2>2. {y \in log' : y.entity = e /\ y.id <= state[e].last_event_id} = Seen(state[e], e)
    BY <2>1, SeenStable
  <2>3. Seen(state[e], e)' = Seen(state[e], e)
    BY <2>2, <1>2 DEF Seen
  <2> QED
    BY <2>3, <1>2 DEF RowInv
<1> QED
  BY <1>1, <1>3, <1>4, <1>5, <1>6

LEMMA LockIInv ==
  ASSUME IInv, NEW d \in Entity, LockEntityState(d)
  PROVE  IInv'
<1> USE DEF IInv
<1>1. TypeInvariant'
  BY NextType DEF Next
<1>2. /\ state[d] = Absent /\ state' = [state EXCEPT ![d] = Created]
      /\ UNCHANGED <<log, on, loaded, row, todo>>
  BY DEF LockEntityState
<1>3. \A e \in Entity : Known(state[e].last_event_id)'
  BY <1>2 DEF Known, Created, Absent, TypeInvariant
<1>4. ASSUME NEW f \in Folder PROVE FoldInv(f)'
  <2>1. on[f] # NoEntity =>
          loaded[f] = state'[on[f]] \/ (loaded[f] = Absent /\ state'[on[f]] = Created)
    BY <1>2, AbsentType DEF FoldInv, TypeInvariant
  <2> QED
    BY <1>2, <2>1 DEF FoldInv, Known, Ordered, Seen
<1>5. ASSUME NEW e \in Entity PROVE RowInv(e)'
  <2>1. CASE e = d
    BY <2>1, <1>2, CreatedAgrees DEF RowInv, Seen, TypeInvariant
  <2>2. CASE e # d
    BY <2>2, <1>2 DEF RowInv, Seen, TypeInvariant
  <2> QED
    BY <2>1, <2>2
<1> QED
  BY <1>1, <1>2, <1>3, <1>4, <1>5

LEMMA LoadIInv ==
  ASSUME IInv, NEW f \in Folder, NEW e \in Entity, FoldLoad(f, e)
  PROVE  IInv'
<1> USE DEF IInv
<1>1. TypeInvariant'
  BY NextType DEF Next, FoldStep
<1>2. /\ on[f] = NoEntity
      /\ on' = [on EXCEPT ![f] = e]
      /\ loaded' = [loaded EXCEPT ![f] = state[e]]
      /\ row' = [row EXCEPT ![f] = IF state[e] = Absent THEN Created ELSE state[e]]
      /\ UNCHANGED <<log, state, todo>>
  BY DEF FoldLoad
<1>3. todo[f] = {}
  BY <1>2, ProjectionAssumption DEF TypeInvariant, Event
<1>4. on'[f] = e /\ loaded'[f] = state[e] /\ row'[f] = IF state[e] = Absent THEN Created ELSE state[e]
  BY <1>2 DEF TypeInvariant
<1>5. /\ row'[f].status # "none"
      /\ Known(row'[f].last_event_id)
      /\ row'[f].last_event_id = state[e].last_event_id
      /\ Agrees(row'[f], Seen(row'[f], e))
  <2>1. CASE state[e] = Absent
    BY <2>1, <1>4, CreatedAgrees DEF Created, Absent, Known
  <2>2. CASE state[e] # Absent
    BY <2>2, <1>4 DEF RowInv, TypeInvariant
  <2> QED
    BY <2>1, <2>2
<1>6. FoldInv(f)'
  <2>1. Seen(row[f], on[f])' = Seen(row'[f], e)
    BY <1>2, <1>4 DEF Seen
  <2>2. \A x \in log' : Ordered(f, x)'
    BY <1>2, <1>3 DEF Ordered
  <2> QED
    BY <2>1, <2>2, <1>1, <1>2, <1>3, <1>4, <1>5 DEF FoldInv, Known, TypeInvariant, Columns, Id
<1>7. ASSUME NEW g \in Folder, g # f PROVE FoldInv(g)'
  BY <1>2, <1>7 DEF FoldInv, Known, Ordered, Seen, TypeInvariant
<1> QED
  BY <1>1, <1>2, <1>6, <1>7 DEF Known, RowInv, Seen

LEMMA ReadIInv ==
  ASSUME IInv, NEW f \in Folder, FoldRead(f)
  PROVE  IInv'
<1> USE DEF IInv
<1>1. TypeInvariant'
  BY NextType DEF Next, FoldStep
<1>2. /\ todo' = [todo EXCEPT ![f] = Past(on[f], row[f].last_event_id)]
      /\ UNCHANGED <<log, state, on, loaded, row>>
  BY DEF FoldRead
<1>3. ASSUME NEW g \in Folder PROVE FoldInv(g)'
  <2>1. CASE g = f
    <3>1. todo'[f] = Past(on[f], row[f].last_event_id)
      BY <1>2 DEF TypeInvariant
    <3>2. \A x \in todo'[f] : row[f].last_event_id < x.id
      BY <3>1 DEF Past, TypeInvariant, Columns, Event, Id
    <3>3. \A x \in log' : Ordered(f, x)'
      BY <1>2, <3>1 DEF Ordered, Past
    <3> QED
      BY <2>1, <1>2, <3>2, <3>3 DEF FoldInv, Known, Seen
  <2>2. CASE g # f
    BY <2>2, <1>2 DEF FoldInv, Known, Ordered, Seen, TypeInvariant
  <2> QED
    BY <2>1, <2>2
<1> QED
  BY <1>1, <1>2, <1>3 DEF Known, RowInv, Seen

\* A call that lists, or passes over an entity, changes no row and no fold.
LEMMA ListIInv ==
  ASSUME IInv, NEW f \in Folder, FoldCall(f) \/ \E e \in Entity : FoldSkip(f, e)
  PROVE  IInv'
<1>1. TypeInvariant'
  BY NextType DEF IInv, Next, FoldStep
<1>2. UNCHANGED <<log, state, on, loaded, row, todo>>
  BY DEF FoldCall, FoldSkip
<1> QED
  BY <1>1, <1>2 DEF IInv, Known, FoldInv, Ordered, RowInv, Seen

\* The next event in the list is the next event of the entity.
LEMMA ApplyIInv ==
  ASSUME IInv, NEW f \in Folder, FoldApply(f)
  PROVE  IInv'
<1> USE DEF IInv
<1>1. TypeInvariant'
  BY NextType DEF Next, FoldStep
<1>2. PICK x \in todo[f] : FoldApply(f)!(x)
  BY DEF FoldApply
<1>3. /\ on[f] \in Entity /\ on[f] # NoEntity /\ x \in log /\ x \in Event /\ x.entity = on[f]
      /\ row[f] \in Columns /\ row[f].status # "none" /\ todo[f] \subseteq log
      /\ UNCHANGED <<log, state, on, loaded>>
  BY <1>2, ProjectionAssumption DEF TypeInvariant, Event
<1>4. row'[f] = apply_event(row[f], x) /\ todo'[f] = todo[f] \ {x}
  BY <1>2 DEF TypeInvariant
<1>5. row'[f].status # "none" /\ row'[f].last_event_id = x.id
  BY <1>3, <1>4, ApplyType DEF VALID_STATUSES
<1>6. row[f].last_event_id < x.id
  BY <1>3 DEF FoldInv
<1>7. Seen(row'[f], on[f]) = Seen(row[f], on[f]) \cup {x}
  <2>1. ASSUME NEW z \in log, z.entity = on[f], z.id <= x.id, ~(z.id <= row[f].last_event_id)
        PROVE  z = x
    <3>1. z.id \in Int /\ x.id \in Int /\ row[f].last_event_id \in Int
      BY <1>3 DEF TypeInvariant, Event, Id, Columns
    <3>2. z \in todo[f] \/ \A y \in todo[f] : y.id < z.id
      BY <2>1, <3>1, <1>3 DEF FoldInv, Ordered
    <3>3. z \in todo[f]
      BY <3>1, <3>2, <2>1
    <3> QED
      BY <3>1, <3>3, <2>1, <1>2, <1>3
  <2>2. \A z \in log : z.id \in Int
    BY DEF TypeInvariant, Event, Id
  <2> QED
    BY <2>1, <2>2, <1>3, <1>5, <1>6 DEF Seen, Columns, Id
<1>8. Agrees(row'[f], Seen(row'[f], on[f]))
  <2>1. \A y \in Seen(row[f], on[f]) : y.id < x.id
    BY <1>3, <1>6 DEF Seen, TypeInvariant, Event, Id, Columns
  <2>2. Seen(row[f], on[f]) \in SUBSET Event
    BY DEF Seen, TypeInvariant
  <2> QED
    BY <1>3, <1>4, <1>7, <2>1, <2>2, ApplyAgrees DEF FoldInv
<1>9. FoldInv(f)'
  <2>1. \A y \in todo'[f] : row'[f].last_event_id < y.id
    <3> SUFFICES ASSUME NEW y \in todo[f], y # x PROVE x.id < y.id
      BY <1>4, <1>5
    <3>1. y \in log /\ x.id <= y.id /\ x.id # y.id
      BY <1>2, <1>3
    <3>2. x.id \in Int /\ y.id \in Int
      BY <3>1, <1>3 DEF TypeInvariant, Event, Id
    <3> QED
      BY <3>1, <3>2
  <2>2. \A z \in log' : Ordered(f, z)'
    <3> SUFFICES ASSUME NEW z \in log, z.entity = on[f], z.id > x.id, z \notin todo[f] \ {x}
                 PROVE  \A y \in todo[f] \ {x} : y.id < z.id
      BY <1>3, <1>4, <1>5 DEF Ordered
    <3>1. z.id \in Int /\ x.id \in Int /\ row[f].last_event_id \in Int
      BY <1>3 DEF TypeInvariant, Event, Id, Columns
    <3>2. z \notin todo[f] /\ z.id > row[f].last_event_id
      BY <3>1, <1>6
    <3> QED
      BY <3>2, <1>3 DEF FoldInv, Ordered
  <2>3. loaded[f].last_event_id <= x.id
    BY <1>3, <1>6 DEF FoldInv, TypeInvariant, Event, Id, Columns
  <2>4. Seen(row[f], on[f])' = Seen(row'[f], on[f])
    BY <1>3 DEF Seen
  <2> QED
    BY <1>3, <1>5, <1>8, <2>1, <2>2, <2>3, <2>4 DEF FoldInv, Known
<1>10. ASSUME NEW g \in Folder, g # f PROVE FoldInv(g)'
  <2>1. row'[g] = row[g] /\ todo'[g] = todo[g]
    BY <1>2, <1>10 DEF TypeInvariant
  <2>2. FoldInv(g)
    OBVIOUS
  <2> QED
    BY <1>3, <2>1, <2>2 DEF FoldInv, Known, Ordered, Seen
<1> QED
  BY <1>1, <1>3, <1>9, <1>10 DEF Known, RowInv, Seen

\* Nobody else folds: what is stored is the row in memory, or the row stays.
LEMMA StoredRow ==
  ASSUME IInv, NEW f \in Folder, FoldWrite(f)
  PROVE  \/ UNCHANGED state
         \/ state' = [state EXCEPT ![on[f]] = row[f]]
<1>1. loaded[f] \in Columns /\ row[f] \in Columns /\ on[f] \in Entity
  BY DEF IInv, TypeInvariant, FoldWrite
<1>2. CASE InsertFails(f)
  BY <1>2 DEF FoldWrite, Undone
<1>3. CASE ~InsertFails(f)
  <2>1. loaded[f] = state[on[f]]
    BY <1>3, AbsentType DEF IInv, FoldInv, FoldWrite, InsertFails
  <2>2. Updated(loaded[f], row[f], state[on[f]]) = row[f]
    BY <1>1, <2>1, WriteBack
  <2>3. state' = [state EXCEPT ![on[f]] = Updated(loaded[f], row[f], state[on[f]])]
    BY <1>3 DEF FoldWrite
  <2> QED
    BY <2>2, <2>3
<1> QED
  BY <1>2, <1>3

LEMMA WriteIInv ==
  ASSUME OneFolder, IInv, NEW f \in Folder, FoldWrite(f)
  PROVE  IInv'
<1> USE DEF IInv
<1>1. TypeInvariant'
  BY NextType DEF Next, FoldStep
<1>2. on[f] # NoEntity /\ on[f] \in Entity /\ on'[f] = NoEntity /\ log' = log
  BY DEF FoldWrite, Undone, Idle, TypeInvariant
<1>3. \A g \in Folder : FoldInv(g)'
  BY <1>2 DEF OneFolder, FoldInv
<1>4. ASSUME NEW e \in Entity PROVE RowInv(e)' /\ Known(state[e].last_event_id)'
  <2>1. CASE state'[e] = state[e]
    BY <2>1, <1>2 DEF RowInv, Seen, Known
  <2>2. CASE state'[e] # state[e]
    <3>1. e = on[f] /\ state'[e] = row[f]
      BY <2>2, <1>2, StoredRow DEF TypeInvariant
    <3> QED
      BY <3>1, <1>2 DEF RowInv, Seen, Known, FoldInv
  <2> QED
    BY <2>1, <2>2
<1> QED
  BY <1>1, <1>2, <1>3, <1>4

LEMMA AbortIInv ==
  ASSUME IInv, NEW f \in Folder, FoldAbort(f)
  PROVE  IInv'
<1> USE DEF IInv
<1>1. TypeInvariant'
  BY NextType DEF Next
<1>2. on'[f] = NoEntity /\ log' = log /\ state' = state
  BY DEF FoldAbort, Undone, Idle, TypeInvariant
<1>3. ASSUME NEW g \in Folder PROVE FoldInv(g)'
  <2>1. CASE g = f
    BY <2>1, <1>2 DEF FoldInv
  <2>2. CASE g # f
    BY <2>2 DEF FoldAbort, Undone, Idle, FoldInv, Known, Ordered, Seen, TypeInvariant
  <2> QED
    BY <2>1, <2>2
<1> QED
  BY <1>1, <1>2, <1>3 DEF Known, RowInv, Seen

THEOREM InitIInv == Init => IInv
<1> SUFFICES ASSUME Init PROVE IInv
  OBVIOUS
<1>1. \A e \in Entity : state[e] = Absent
  BY DEF Init
<1>2. \A f \in Folder : on[f] = NoEntity
  BY DEF Init
<1> QED
  BY InitType, <1>1, <1>2 DEF Init, IInv, Known, Absent, FoldInv, RowInv

THEOREM NextIInv == Serial /\ OneFolder /\ IInv /\ [Next]_vars => IInv'
<1> SUFFICES ASSUME Serial, OneFolder, IInv, [Next]_vars PROVE IInv'
  OBVIOUS
<1>1. CASE UNCHANGED vars
  <2>1. TypeInvariant'
    BY NextType DEF IInv
  <2> QED
    BY <1>1, <2>1 DEF vars, IInv, Known, FoldInv, Ordered, RowInv, Seen
<1> QED
  BY <1>1, AppendIInv, LockIInv, ListIInv, LoadIInv, ReadIInv, ApplyIInv, WriteIInv, AbortIInv
     DEF Next, FoldStep

-----------------------------------------------------------------------------
(* The theorems *)

\* The variables keep their types with any number of sessions that fold, on
\* both databases: a row never disappears under a fold that has read it.
THEOREM Typing == Spec => []TypeInvariant
BY InitType, NextType, PTL DEF Spec

\* Where ids become visible in order and one session folds, the invariant
\* holds throughout.
THEOREM Invariance == ASSUME Serial, OneFolder PROVE Spec => []IInv
BY InitIInv, NextIInv, PTL DEF Spec

\* Zero drift: fold_events, stopped and repeated anywhere, leaves every row as
\* the events up to its watermark say.
THEOREM ZeroDrift == ASSUME Serial, OneFolder PROVE Spec => []NoDrift
<1>1. IInv => NoDrift
  BY DEF IInv, RowInv, NoDrift
<1> QED
  BY <1>1, Invariance, PTL

\* No step takes a watermark back.
LEMMA StepMonotone ==
  IInv /\ [Next]_vars => [\A e \in Entity : state[e].last_event_id <= state'[e].last_event_id]_vars
<1> SUFFICES ASSUME IInv, Next, NEW e \in Entity
             PROVE  state[e].last_event_id <= state'[e].last_event_id
  OBVIOUS
<1>1. state[e].last_event_id \in Int
  BY DEF IInv, TypeInvariant, Columns, Id
<1>2. CASE state'[e] = state[e]
  BY <1>1, <1>2
<1>3. ASSUME NEW d \in Entity, LockEntityState(d)
      PROVE  state[e].last_event_id <= state'[e].last_event_id
  <2>1. state'[e] = state[e] \/ (state[e] = Absent /\ state'[e] = Created)
    BY <1>3 DEF LockEntityState, IInv, TypeInvariant
  <2> QED
    BY <2>1, <1>1 DEF Absent, Created
<1>4. ASSUME NEW f \in Folder, FoldWrite(f)
      PROVE  state[e].last_event_id <= state'[e].last_event_id
  <2>1. state'[e] = state[e] \/ (e = on[f] /\ state'[e] = row[f])
    BY <1>4, StoredRow DEF IInv, TypeInvariant
  <2>2. e = on[f] => state[e].last_event_id <= row[f].last_event_id
    BY <1>4 DEF FoldWrite, IInv, FoldInv, Absent, Created
  <2> QED
    BY <2>1, <2>2, <1>1
<1> QED
  BY <1>1, <1>2, <1>3, <1>4
     DEF Next, FoldStep, Append, FoldCall, FoldLoad, FoldSkip, FoldRead, FoldApply, FoldAbort, Undone

\* A watermark only ever moves forward.
THEOREM Forward == ASSUME Serial, OneFolder PROVE Spec => WatermarkMonotone
BY StepMonotone, Invariance, PTL DEF Spec, WatermarkMonotone

=============================================================================
