---------------------------- MODULE LedgerProofs ----------------------------
(***************************************************************************)
(* Proofs about Ledger for every set of sessions, entities and sources, on *)
(* both databases: idempotency by source id, links that lead to recorded   *)
(* events, append-only growth, and unbroken chains when every session      *)
(* holds the entity lock.                                                  *)
(***************************************************************************)
EXTENDS Ledger, TLAPS

-----------------------------------------------------------------------------
(* The inductive invariant *)

\* A row that is not committed belongs to an open transaction about its entity.
FlushedInv(i) ==
  event[i].status = "flushed" =>
    LET s == event[i].by IN
    /\ pc[s] # "idle" /\ on[s] = event[i].entity /\ s \in writing
    /\ Serial => \A j \in Committed : j < i

\* A link leads to an earlier event of the entity that is committed, or that
\* commits and vanishes together with this one.
LinkInv(i) ==
  i \in Used /\ event[i].prev # 0 =>
    /\ event[i].prev < i
    /\ event[i].prev \in Used
    /\ event[event[i].prev].entity = event[i].entity
    /\ event[event[i].prev].status = "committed"
       \/ (event[i].status = "flushed" /\ event[event[i].prev].by = event[i].by)

SourceInv(i, j) ==
  i \in Used /\ j \in Used /\ i # j /\ event[i].source = event[j].source => event[i].source = NoSource

\* The hash at hand is that of an event the session sees.
HeadInv(s) ==
  pc[s] = "linked" /\ head[s] # 0 =>
    /\ head[s] \in Visible(s)
    /\ event[head[s]].entity = on[s]

IInv ==
  /\ TypeInvariant
  /\ \A i \in Id : FlushedInv(i) /\ LinkInv(i)
  /\ \A i, j \in Id : SourceInv(i, j)
  /\ \A s \in Session : HeadInv(s)
  /\ ~Serial => \A i \in Used : i <= lastId
  /\ Serial => \A s, t \in writing : s = t

LEMMA UsedStatus ==
  ASSUME TypeInvariant, NEW i \in Id
  PROVE  /\ i \in Used <=> event[i].status \in {"flushed", "committed"}
         /\ i \in Used => event[i] \in Rows
         /\ i \notin Used => event[i] = Free
  BY DEF TypeInvariant, Used, Free, Rows

THEOREM InitIInv == Init => IInv
  <1> SUFFICES ASSUME Init PROVE IInv
    OBVIOUS
  <1>1. TypeInvariant
    BY LedgerAssumption DEF Init, TypeInvariant, NoRequest
  <1>2. Used = {} /\ \A i \in Id : event[i].status = "free"
    BY DEF Init, Used, Free
  <1>3. QED
    BY <1>1, <1>2 DEF Init, IInv, FlushedInv, LinkInv, SourceInv, HeadInv

\* A transaction that only reads, or opens, leaves the rows alone.
LEMMA BeginIInv ==
  ASSUME IInv, NEW s \in Session, NEW e \in Entity, Begin(s, e)
  PROVE  IInv'
  <1> USE DEF IInv, Begin
  <1>1. TypeInvariant'
    BY LedgerAssumption DEF TypeInvariant
  <1>2. \A i \in Id : event[i].status = "flushed" => event[i].by # s
    BY DEF FlushedInv
  <1>3. ASSUME NEW i \in Id PROVE FlushedInv(i)'
    <2>1. event[i].status = "flushed" => event[i].by \in Session
      BY UsedStatus DEF Rows
    <2>2. QED
      BY <1>2, <1>3, <2>1 DEF FlushedInv, TypeInvariant, Committed
  <1>4. ASSUME NEW i \in Id PROVE LinkInv(i)'
    BY <1>4 DEF LinkInv, Used
  <1>5. ASSUME NEW i \in Id, NEW j \in Id PROVE SourceInv(i, j)'
    BY <1>5 DEF SourceInv, Used
  <1>6. ASSUME NEW t \in Session PROVE HeadInv(t)'
    BY <1>6 DEF HeadInv, Visible, Own, Committed, TypeInvariant
  <1>7. Serial => \A t, u \in writing' : t = u
    BY DEF MayWrite
  <1>8. QED
    BY <1>1, <1>3, <1>4, <1>5, <1>6, <1>7 DEF Used

LEMMA RollbackIInv ==
  ASSUME IInv, NEW s \in Session, Rollback(s)
  PROVE  IInv'
  <1> USE DEF IInv, Rollback, Finish
  <1>1. TypeInvariant'
    BY LedgerAssumption DEF TypeInvariant, Own
  <1>2. ASSUME NEW i \in Id
        PROVE  /\ i \in Used' <=> i \in Used /\ i \notin Own(s)
               /\ i \notin Own(s) => event'[i] = event[i]
               /\ i \in Own(s) => event'[i] = Free
    BY <1>2, UsedStatus DEF Used, Own, Free
  <1>3. \A i \in Id : i \in Committed' <=> i \in Committed
    BY <1>2 DEF Committed, Own, Free
  <1>4. ASSUME NEW i \in Id PROVE FlushedInv(i)'
    <2>1. SUFFICES ASSUME event'[i].status = "flushed" PROVE FlushedInv(i)'
      BY DEF FlushedInv
    <2>2. i \notin Own(s) /\ event'[i] = event[i]
      BY <1>2, <2>1 DEF Free
    <2>3. event[i].by # s /\ event[i].by \in Session
      BY <2>1, <2>2, UsedStatus DEF Own, Rows
    <2>4. QED
      BY <1>3, <2>2, <2>3 DEF FlushedInv, TypeInvariant, Committed
  <1>5. ASSUME NEW i \in Id PROVE LinkInv(i)'
    <2>1. SUFFICES ASSUME i \in Used', event'[i].prev # 0 PROVE LinkInv(i)'
      BY DEF LinkInv
    <2>2. i \in Used /\ i \notin Own(s) /\ event'[i] = event[i]
      BY <1>2, <2>1
    <2>3. event[i].prev \in Id
      BY <2>1, <2>2, UsedStatus DEF Rows
    <2>4. event[i].prev \notin Own(s)
      BY <2>1, <2>2 DEF LinkInv, Own
    <2>5. QED
      BY <1>2, <2>1, <2>2, <2>3, <2>4 DEF LinkInv
  <1>6. ASSUME NEW i \in Id, NEW j \in Id PROVE SourceInv(i, j)'
    BY <1>2, <1>6 DEF SourceInv
  <1>7. ASSUME NEW t \in Session PROVE HeadInv(t)'
    <2>1. CASE t = s
      BY <2>1 DEF HeadInv, TypeInvariant
    <2>2. CASE t # s
      <3>1. pc'[t] = pc[t] /\ head'[t] = head[t] /\ on'[t] = on[t]
        BY <2>2 DEF TypeInvariant
      <3>2. ASSUME NEW i \in Visible(t) PROVE i \in Visible(t)' /\ event'[i] = event[i]
        BY <1>2, <2>2 DEF Visible, Own, Committed
      <3>3. HeadInv(t)
        OBVIOUS
      <3>4. QED
        BY ONLY <3>1, <3>2, <3>3 DEF HeadInv
    <2>3. QED
      BY <2>1, <2>2
  <1>8. ~Serial => \A i \in Used' : i <= lastId'
    BY <1>2 DEF Used
  <1>9. QED
    BY <1>1, <1>4, <1>5, <1>6, <1>7, <1>8

\* Reading changes nothing but the transaction itself.
LEMMA ReadIInv ==
  ASSUME IInv, NEW s \in Session,
         ReadHead(s) \/ (/\ pc[s] = "ready" /\ pc' = [pc EXCEPT ![s] = "checked"]
                        /\ \E source \in Source \cup {NoSource}, type \in EventType :
                             request' = [request EXCEPT ![s] = [source |-> source, type |-> type]]
                        /\ UNCHANGED <<event, lastId, on, head, writing>>)
  PROVE  IInv'
  <1> USE DEF IInv
  <1>1. /\ UNCHANGED <<event, lastId, on, writing>>
        /\ \A t \in Session : pc'[t] = "idle" <=> pc[t] = "idle"
        /\ \A t \in Session \ {s} : pc'[t] = pc[t] /\ head'[t] = head[t]
    BY DEF ReadHead, TypeInvariant
  <1>2. TypeInvariant'
    BY LedgerAssumption DEF TypeInvariant, ReadHead, NoRequest
  <1>3. ASSUME NEW i \in Id PROVE FlushedInv(i)' /\ LinkInv(i)'
    <2>1. event[i].status = "flushed" => event[i].by \in Session
      BY UsedStatus DEF Rows
    <2>2. QED
      BY <1>1, <2>1 DEF FlushedInv, LinkInv, Used, Committed
  <1>4. ASSUME NEW i \in Id, NEW j \in Id PROVE SourceInv(i, j)'
    BY <1>1 DEF SourceInv, Used
  <1>5. ASSUME NEW t \in Session PROVE HeadInv(t)'
    <2>1. CASE t # s
      BY <1>1, <2>1 DEF HeadInv, Visible, Own, Committed
    <2>2. CASE t = s
      BY <1>1, <2>2 DEF HeadInv, ReadHead, TypeInvariant, IsLast, EventsOf, Visible, Own, Committed
    <2>3. QED
      BY <2>1, <2>2
  <1>6. QED
    BY <1>1, <1>2, <1>3, <1>4, <1>5 DEF Used

\* A new id is not used, and on SQLite it is the greatest.
LEMMA NewIdIsNew ==
  ASSUME IInv, NEW n \in Id, NewId(n)
  PROVE  /\ n \notin Used
         /\ \A i \in Used : i < n
  BY DEF IInv, TypeInvariant, NewId, IsLast, Used, Id

LEMMA InsertIInv ==
  ASSUME IInv, NEW s \in Session, pc[s] = "linked", MayWrite(s),
         ~Taken(request[s].source, Used), Insert(s)
  PROVE  IInv'
  <1> USE DEF IInv
  <1>1. PICK n \in Id : NewId(n) /\ event' = [event EXCEPT ![n] = NewRow(s)] /\ lastId' = n
    BY DEF Insert
  <1>2. /\ pc' = [pc EXCEPT ![s] = "ready"] /\ head' = [head EXCEPT ![s] = 0] /\ on' = on
        /\ request' = [request EXCEPT ![s] = NoRequest] /\ writing' = writing \cup {s}
    BY DEF Insert
  <1>3. n \notin Used /\ \A i \in Used : i < n
    BY <1>1, NewIdIsNew
  <1>4. NewRow(s) \in Rows /\ NewRow(s).status = "flushed" /\ NewRow(s) # Free
    BY DEF NewRow, Rows, Free, TypeInvariant, NoRequest
  <1>5. TypeInvariant'
    BY <1>1, <1>2, <1>4 DEF TypeInvariant
  <1>6. /\ event'[n] = NewRow(s) /\ Used' = Used \cup {n}
        /\ \A i \in Id \ {n} : event'[i] = event[i]
    BY <1>1, <1>4 DEF Used, TypeInvariant
  <1>7. Committed' = Committed /\ Committed \subseteq Used
    BY <1>3, <1>4, <1>6, UsedStatus DEF Committed, Free
  <1>8. ASSUME NEW t \in Session
        PROVE  /\ t # s => Own(t)' = Own(t)
               /\ Own(s)' = Own(s) \cup {n}
    BY <1>3, <1>4, <1>6, UsedStatus DEF Own, NewRow, Free
  <1>9. ASSUME NEW i \in Id PROVE FlushedInv(i)'
    <2>1. CASE i = n
      BY <1>2, <1>3, <1>6, <1>7, <2>1 DEF FlushedInv, NewRow, TypeInvariant
    <2>2. CASE i # n
      <3>1. event[i].status = "flushed" => event[i].by \in Session
        BY UsedStatus DEF Rows
      <3>2. QED
        BY <1>2, <1>6, <1>7, <2>2, <3>1 DEF FlushedInv, TypeInvariant
    <2>3. QED
      BY <2>1, <2>2
  <1>10. ASSUME NEW i \in Id PROVE LinkInv(i)'
    <2>1. CASE i = n
      <3>1. HeadInv(s)
        OBVIOUS
      <3>2. ASSUME head[s] # 0
            PROVE  /\ head[s] \in Used /\ head[s] < n /\ event[head[s]].entity = on[s]
                   /\ event[head[s]].status = "committed" \/ event[head[s]].by = s
        <4>1. head[s] \in Visible(s) /\ event[head[s]].entity = on[s]
          BY <3>1, <3>2 DEF HeadInv
        <4>2. head[s] \in Used
          BY <4>1, UsedStatus DEF Visible, Own, Committed
        <4>3. QED
          BY <1>3, <4>1, <4>2 DEF Visible, Own, Committed
      <3>3. event'[n].prev = head[s] /\ event'[n].entity = on[s] /\ event'[n].by = s
            /\ event'[n].status = "flushed"
        BY <1>6 DEF NewRow
      <3>4. QED
        BY <1>3, <1>6, <2>1, <3>2, <3>3 DEF LinkInv, Used
    <2>2. CASE i # n
      <3>1. LinkInv(i)
        OBVIOUS
      <3>2. Used \subseteq Id
        BY DEF Used
      <3>3. QED
        BY ONLY <1>3, <1>6, <2>2, <3>1, <3>2, i \in Id DEF LinkInv
    <2>3. QED
      BY <2>1, <2>2
  <1>11. ASSUME NEW i \in Id, NEW j \in Id PROVE SourceInv(i, j)'
    <2>1. event'[n].source = request[s].source
      BY <1>6 DEF NewRow
    <2>2. \A k \in Used : event[k].source = request[s].source => request[s].source = NoSource
      BY DEF Taken
    <2>3. QED
      BY <1>3, <1>6, <2>1, <2>2 DEF SourceInv
  <1>12. ASSUME NEW t \in Session PROVE HeadInv(t)'
    <2>1. CASE t = s
      BY <1>2, <2>1 DEF HeadInv, TypeInvariant
    <2>2. CASE t # s
      <3>1. HeadInv(t)
        OBVIOUS
      <3>2. pc'[t] = pc[t] /\ head'[t] = head[t] /\ on'[t] = on[t]
        BY <1>2, <2>2 DEF TypeInvariant
      <3>3. ASSUME NEW i \in Visible(t) PROVE i \in Visible(t)' /\ event'[i] = event[i]
        BY <1>3, <1>6, <1>7, <1>8, <2>2, UsedStatus DEF Visible, Own, Committed
      <3>4. QED
        BY ONLY <3>1, <3>2, <3>3 DEF HeadInv
    <2>3. QED
      BY <2>1, <2>2
  <1>13. ~Serial => \A i \in Used' : i <= lastId'
    BY <1>1, <1>3, <1>6 DEF Used, Id
  <1>14. Serial => \A t, u \in writing' : t = u
    BY <1>2 DEF MayWrite
  <1>15. QED
    BY <1>5, <1>9, <1>10, <1>11, <1>12, <1>13, <1>14

LEMMA CommitIInv ==
  ASSUME IInv, NEW s \in Session, Commit(s)
  PROVE  IInv'
  <1> USE DEF IInv
  <1>1. /\ pc' = [pc EXCEPT ![s] = "idle"] /\ on' = [on EXCEPT ![s] = NoEntity]
        /\ request' = [request EXCEPT ![s] = NoRequest] /\ head' = [head EXCEPT ![s] = 0]
        /\ writing' = writing \ {s} /\ lastId' = lastId
    BY DEF Commit, Finish
  <1>2. ASSUME NEW i \in Id
        PROVE  /\ i \in Own(s) => event'[i] = [event[i] EXCEPT !.status = "committed"]
               /\ i \notin Own(s) => event'[i] = event[i]
    BY DEF Commit
  <1>3. ASSUME NEW i \in Id, i \in Used
        PROVE  /\ event'[i] \in Rows /\ i \in Used'
               /\ event'[i].by = event[i].by /\ event'[i].entity = event[i].entity
               /\ event'[i].source = event[i].source /\ event'[i].prev = event[i].prev
               /\ event'[i].type = event[i].type
               /\ event'[i].status = IF i \in Own(s) THEN "committed" ELSE event[i].status
    <2>1. event[i] \in Rows
      BY <1>3, UsedStatus
    <2>2. [event[i] EXCEPT !.status = "committed"] \in Rows
      BY <2>1 DEF Rows
    <2>3. event'[i] \in Rows
      BY <1>2, <2>1, <2>2
    <2>4. event'[i] # Free
      BY <2>3 DEF Rows, Free
    <2>5. QED
      BY <1>2, <2>1, <2>3, <2>4 DEF Rows, Used
  <1>4. ASSUME NEW i \in Id, i \notin Used
        PROVE  i \notin Used' /\ event'[i] = Free
    <2>1. event[i] = Free /\ i \notin Own(s)
      BY <1>4, UsedStatus DEF Own, Free
    <2>2. QED
      BY <1>2, <2>1 DEF Used
  <1>5. TypeInvariant'
    <2>1. event' \in [Id -> Rows \cup {Free}]
      <3>1. \A i \in Id : event'[i] \in Rows \cup {Free}
        BY <1>3, <1>4
      <3>2. QED
        BY <3>1 DEF Commit
    <2>2. QED
      BY <1>1, <2>1, LedgerAssumption DEF TypeInvariant
  <1>6. Used' = Used
    BY <1>3, <1>4 DEF Used
  <1>7. Committed' = Visible(s)
    BY <1>3, <1>4, UsedStatus DEF Committed, Visible, Own, Free
  <1>8. \A t \in Session \ {s} : Own(t)' = Own(t)
    BY <1>3, <1>4, UsedStatus DEF Own, Free
  <1>9. ASSUME NEW i \in Id PROVE FlushedInv(i)'
    <2>1. SUFFICES ASSUME event'[i].status = "flushed" PROVE FlushedInv(i)'
      BY DEF FlushedInv
    <2>2. i \in Used /\ i \notin Own(s) /\ event[i].status = "flushed" /\ event'[i] = event[i]
      BY <1>2, <1>3, <1>4, <2>1, UsedStatus DEF Free
    <2>3. event[i].by \in Session /\ event[i].by # s
      BY <2>2, UsedStatus DEF Own, Rows
    <2>4. ASSUME Serial PROVE Committed' = Committed
      <3>1. event[i].by \in writing
        BY <2>2 DEF FlushedInv
      <3>2. s \notin writing
        BY <2>3, <2>4, <3>1
      <3>3. Own(s) = {}
        BY <3>2 DEF FlushedInv, Own
      <3>4. QED
        BY <1>7, <3>3 DEF Visible
    <2>5. QED
      BY <1>1, <2>2, <2>3, <2>4 DEF FlushedInv, TypeInvariant
  <1>10. ASSUME NEW i \in Id PROVE LinkInv(i)'
    <2>1. SUFFICES ASSUME i \in Used', event'[i].prev # 0 PROVE LinkInv(i)'
      BY DEF LinkInv
    <2>2. i \in Used /\ event[i].prev # 0
      BY <1>3, <1>6, <2>1
    <2>3. LinkInv(i)
      OBVIOUS
    <2>4. event[i].prev \in Used /\ event[i].prev \in Id
      BY <2>2, <2>3 DEF LinkInv, Used
    <2>5. PICK p \in Id : p = event[i].prev /\ p \in Used
      BY <2>4
    <2>6. /\ event'[i].prev = p /\ event'[p].entity = event'[i].entity /\ p < i
          /\ event[p].status = "committed" \/ (event[i].status = "flushed" /\ event[p].by = event[i].by)
      BY <1>3, <2>2, <2>3, <2>5 DEF LinkInv
    <2>7. event[p].status = "committed" => event'[p].status = "committed"
      BY <1>3, <2>5
    <2>8. ASSUME event[p].status # "committed"
          PROVE  \/ event'[p].status = "committed"
                 \/ event'[i].status = "flushed" /\ event'[p].by = event'[i].by
      <3>1. event[p].status = "flushed" /\ event[i].status = "flushed" /\ event[p].by = event[i].by
        BY <2>5, <2>6, <2>8, UsedStatus
      <3>2. CASE event[p].by = s
        BY <1>3, <2>5, <3>1, <3>2 DEF Own
      <3>3. CASE event[p].by # s
        BY <1>3, <2>2, <2>5, <3>1, <3>3 DEF Own
      <3>4. QED
        BY <3>2, <3>3
    <2>9. QED
      BY <1>6, <2>5, <2>6, <2>7, <2>8 DEF LinkInv
  <1>11. ASSUME NEW i \in Id, NEW j \in Id PROVE SourceInv(i, j)'
    BY <1>3, <1>6 DEF SourceInv
  <1>12. ASSUME NEW t \in Session PROVE HeadInv(t)'
    <2>1. CASE t = s
      BY <1>1, <2>1 DEF HeadInv, TypeInvariant
    <2>2. CASE t # s
      <3>1. HeadInv(t)
        OBVIOUS
      <3>2. pc'[t] = pc[t] /\ head'[t] = head[t] /\ on'[t] = on[t]
        BY <1>1, <2>2 DEF TypeInvariant
      <3>3. ASSUME NEW i \in Visible(t) PROVE i \in Visible(t)' /\ event'[i].entity = event[i].entity
        BY <1>3, <1>7, <1>8, <2>2, UsedStatus DEF Visible, Own, Committed
      <3>4. QED
        BY ONLY <3>1, <3>2, <3>3 DEF HeadInv
    <2>3. QED
      BY <2>1, <2>2
  <1>13. QED
    BY <1>1, <1>5, <1>6, <1>9, <1>10, <1>11, <1>12

THEOREM NextIInv == IInv /\ [Next]_vars => IInv'
  <1> SUFFICES ASSUME IInv, [Next]_vars PROVE IInv'
    OBVIOUS
  <1>1. CASE UNCHANGED vars
    BY <1>1 DEF vars, IInv, TypeInvariant, FlushedInv, LinkInv, SourceInv, HeadInv,
                Used, Committed, Visible, Own
  <1>2. ASSUME NEW s \in Session, NEW e \in Entity, Begin(s, e) PROVE IInv'
    BY <1>2, BeginIInv
  <1>3. ASSUME NEW s \in Session, NEW source \in Source \cup {NoSource}, NEW type \in EventType,
               FindSource(s, source, type)
        PROVE  IInv'
    BY <1>3, ReadIInv, RollbackIInv DEF FindSource
  <1>4. ASSUME NEW s \in Session, ReadHead(s) PROVE IInv'
    BY <1>4, ReadIInv
  <1>5. ASSUME NEW s \in Session, Flush(s) PROVE IInv'
    BY <1>5, RollbackIInv, InsertIInv DEF Flush
  <1>6. ASSUME NEW s \in Session, Commit(s) PROVE IInv'
    BY <1>6, CommitIInv
  <1>7. ASSUME NEW s \in Session, Abort(s) PROVE IInv'
    BY <1>7, RollbackIInv DEF Abort
  <1>8. QED
    BY <1>1, <1>2, <1>3, <1>4, <1>5, <1>6, <1>7 DEF Next

THEOREM Invariance == Spec => []IInv
  BY InitIInv, NextIInv, PTL DEF Spec

\* The sessions and the rows are well formed.
THEOREM Typing == Spec => []TypeInvariant
  BY Invariance, PTL DEF IInv

\* A source id is recorded once, whatever the interleaving of look and insert
\* (record_event).
THEOREM DeliveredOnce == Spec => []SourceOnce
  <1>1. IInv => SourceOnce
    BY UsedStatus DEF IInv, SourceInv, SourceOnce, Committed
  <1>2. QED
    BY <1>1, Invariance, PTL

\* prev_hash always leads to a recorded event of the entity (record_event).
THEOREM Linked == Spec => []LinkedToRecorded
  <1>1. IInv => LinkedToRecorded
    BY UsedStatus DEF IInv, LinkInv, LinkedToRecorded, Committed, EventsOf, Used
  <1>2. QED
    BY <1>1, Invariance, PTL

-----------------------------------------------------------------------------
(* The committed rows only grow *)

\* What is committed stays, and nothing becomes committed: readers see no change.
LEMMA SameLog ==
  ASSUME Committed' = Committed, \A i \in Committed : event'[i] = event[i]
  PROVE  log' = log
  BY DEF log

LEMMA CommitAppends ==
  ASSUME IInv, NEW s \in Session, Commit(s)
  PROVE  Promise!Next
  <1> USE DEF IInv
  <1>1. ASSUME NEW i \in Visible(s)
        PROVE  /\ event[i] \in Rows
               /\ i \in Committed' /\ event'[i].entity = event[i].entity
               /\ event'[i].type = event[i].type
    <2>1. i \in Id /\ event[i] \in Rows
      BY UsedStatus DEF Visible, Own, Committed
    <2>2. event'[i] = IF i \in Own(s) THEN [event[i] EXCEPT !.status = "committed"] ELSE event[i]
      BY <2>1 DEF Commit
    <2>3. QED
      BY <2>1, <2>2 DEF Visible, Committed, Rows
  <1>2. Committed' \subseteq Visible(s)
    BY DEF Committed, Visible, Commit
  <1>3. log \subseteq log'
    BY <1>1 DEF log, Visible
  <1>4. ASSUME NEW x \in log'
        PROVE  \E i \in Visible(s) : x = [id |-> i, entity |-> event[i].entity, type |-> event[i].type]
    BY <1>1, <1>2 DEF log
  <1>5. log' \subseteq Promise!Row
    BY <1>1, <1>4 DEF Promise!Row, Promise!Id, Rows, Visible, Own, Committed, Id
  <1>6. \A x, y \in log' : x.id = y.id => x = y
    BY <1>4
  <1>7. ASSUME NEW x \in log' \ log, NEW y \in log
        PROVE  x.id # y.id /\ (Serial => x.id > y.id)
    <2>1. PICK i \in Visible(s) : x = [id |-> i, entity |-> event[i].entity, type |-> event[i].type]
      BY <1>4
    <2>2. PICK j \in Committed : y = [id |-> j, entity |-> event[j].entity, type |-> event[j].type]
      BY DEF log
    <2>3. i \in Own(s)
      BY <2>1 DEF log, Visible
    <2>4. i # j /\ i \in Id /\ j \in Id /\ (Serial => j < i)
      BY <2>2, <2>3 DEF Own, Committed, FlushedInv
    <2>5. QED
      BY <2>1, <2>2, <2>4 DEF Id
  <1>8. QED
    BY <1>3, <1>5, <1>6, <1>7 DEF Promise!Next, Promise!Append

\* Readers see committed events appear, never change, and, with one writer at a
\* time, appear in the order of their ids.
THEOREM GrowsOnly == Spec => AppendOnly
  <1>1. Init => Promise!Init
    BY DEF Init, Promise!Init, log, Committed, Free
  <1>2. ASSUME IInv, [Next]_vars PROVE [Promise!Next]_log
    <2>1. ASSUME NEW s \in Session, Commit(s) PROVE Promise!Next
      BY <1>2, <2>1, CommitAppends
    <2>2. ASSUME UNCHANGED event PROVE log' = log
      BY <2>2, SameLog DEF Committed
    <2>3. ASSUME NEW s \in Session, Rollback(s) PROVE log' = log
      BY <2>3, SameLog DEF Rollback, Committed, Own, Free
    <2>4. ASSUME NEW s \in Session, Insert(s) PROVE log' = log
      <3>1. PICK n \in Id : NewId(n) /\ event' = [event EXCEPT ![n] = NewRow(s)]
        BY <2>4 DEF Insert
      <3>2. n \notin Used
        BY <1>2, <3>1, NewIdIsNew
      <3>3. event[n] = Free /\ NewRow(s).status = "flushed"
        BY <1>2, <3>2, UsedStatus DEF IInv, NewRow
      <3>4. QED
        BY <1>2, <3>1, <3>3, SameLog DEF Committed, Free, IInv, TypeInvariant
    <2>5. QED
      BY <1>2, <2>1, <2>2, <2>3, <2>4
      DEF Next, Begin, FindSource, ReadHead, Flush, Abort, vars
  <1>3. QED
    BY <1>1, <1>2, Invariance, PTL DEF Spec, AppendOnly, Promise!Spec

-----------------------------------------------------------------------------
(* Sessions that all hold the entity lock never break a chain *)

\* One transaction at a time is open about an entity.
Exclusive == \A s, t \in Session : pc[s] # "idle" /\ on[s] = on[t] => s = t

\* The rows of the entity before a row, committed or not.
Before(i) == {j \in Used : j < i /\ event[j].entity = event[i].entity}

LastInv(s) == pc[s] = "linked" => IsLast(head[s], EventsOf(on[s], Used))
OrderInv(i, j) ==
  event[i].status = "committed" /\ event[j].status = "flushed" /\ event[i].entity = event[j].entity
    => i < j

ChainInv ==
  /\ Exclusive
  /\ \A i \in Used : IsLast(event[i].prev, Before(i))
  /\ \A s \in Session : LastInv(s)
  /\ \A i, j \in Id : OrderInv(i, j)

\* Under the lock, what a session sees of its entity is all there is.
LEMMA SeesAll ==
  ASSUME IInv, Exclusive, NEW s \in Session, pc[s] # "idle",
         NEW i \in Id, i \in Used, event[i].entity = on[s]
  PROVE  i \in Visible(s)
  <1>1. CASE event[i].status = "flushed"
    <2>1. event[i].by \in Session
      BY UsedStatus DEF IInv, Rows
    <2>2. pc[event[i].by] # "idle" /\ on[event[i].by] = on[s]
      BY <1>1 DEF IInv, FlushedInv
    <2>3. QED
      BY <1>1, <2>1, <2>2 DEF Exclusive, Visible, Own
  <1>2. QED
    BY <1>1, UsedStatus DEF IInv, Visible, Committed

LEMMA ChainRollback ==
  ASSUME IInv, ChainInv, NEW s \in Session, Rollback(s), pc[s] # "idle"
  PROVE  ChainInv'
  <1> USE DEF ChainInv
  <1>1. ASSUME NEW i \in Id
        PROVE  /\ i \in Used' <=> i \in Used /\ i \notin Own(s)
               /\ i \notin Own(s) => event'[i] = event[i]
               /\ i \in Own(s) => event'[i] = Free /\ event[i].entity = on[s]
    BY <1>1, UsedStatus DEF Rollback, Used, Own, Free, IInv, FlushedInv
  <1>2. /\ pc' = [pc EXCEPT ![s] = "idle"] /\ on' = [on EXCEPT ![s] = NoEntity]
        /\ head' = [head EXCEPT ![s] = 0]
    BY DEF Rollback, Finish
  <1>3. Exclusive'
    BY <1>2 DEF Exclusive, IInv, TypeInvariant
  <1>4. ASSUME NEW i \in Used' PROVE IsLast(event[i].prev, Before(i))'
    <2>1. i \in Id /\ i \in Used /\ i \notin Own(s) /\ event'[i] = event[i]
      BY <1>1 DEF Used
    <2>2. ASSUME NEW j \in Before(i) PROVE j \notin Own(s)
      <3>1. CASE event[i].entity = on[s]
        <4>1. event[i].status = "committed"
          BY <2>1, <3>1, SeesAll DEF Visible, Committed
        <4>2. OrderInv(i, j) /\ j \in Id
          BY <2>1 DEF Before, Used
        <4>3. QED
          BY <2>1, <4>1, <4>2 DEF OrderInv, Before, Own, Id
      <3>2. CASE event[i].entity # on[s]
        BY <1>1, <3>2 DEF Before, Own
      <3>3. QED
        BY <3>1, <3>2
    <2>3. Before(i)' = Before(i)
      BY <1>1, <2>1, <2>2 DEF Before, Used
    <2>4. QED
      BY <2>1, <2>3 DEF IsLast
  <1>5. ASSUME NEW t \in Session PROVE LastInv(t)'
    <2>1. CASE t = s
      BY <1>2, <2>1 DEF LastInv, IInv, TypeInvariant
    <2>2. CASE t # s /\ pc[t] = "linked"
      <3>1. on[t] # on[s] /\ pc'[t] = pc[t] /\ head'[t] = head[t] /\ on'[t] = on[t]
        BY <1>2, <2>2 DEF Exclusive, IInv, TypeInvariant
      <3>2. EventsOf(on[t], Used)' = EventsOf(on[t], Used)
        BY <1>1, <3>1 DEF EventsOf, Used
      <3>3. LastInv(t)
        OBVIOUS
      <3>4. QED
        BY <3>1, <3>2, <3>3 DEF LastInv, IsLast
    <2>3. CASE t # s /\ pc[t] # "linked"
      BY <1>2, <2>3 DEF LastInv, IInv, TypeInvariant
    <2>4. QED
      BY <2>1, <2>2, <2>3
  <1>6. ASSUME NEW i \in Id, NEW j \in Id PROVE OrderInv(i, j)'
    BY <1>1, <1>6 DEF OrderInv, Free
  <1>7. QED
    BY <1>3, <1>4, <1>5, <1>6

LEMMA ChainInsert ==
  ASSUME IInv, ChainInv, NEW s \in Session, pc[s] = "linked", Insert(s)
  PROVE  ChainInv'
  <1> USE DEF ChainInv
  <1>1. PICK n \in Id : NewId(n) /\ event' = [event EXCEPT ![n] = NewRow(s)]
    BY DEF Insert
  <1>2. /\ pc' = [pc EXCEPT ![s] = "ready"] /\ head' = [head EXCEPT ![s] = 0] /\ on' = on
    BY DEF Insert
  <1>3. n \notin Used /\ \A i \in Used : i < n
    BY <1>1, NewIdIsNew
  <1>4. /\ NewRow(s).status = "flushed" /\ NewRow(s).prev = head[s] /\ NewRow(s).entity = on[s]
        /\ NewRow(s) # Free
    BY DEF NewRow, Free
  <1>5. /\ event'[n] = NewRow(s) /\ Used' = Used \cup {n}
        /\ \A i \in Id \ {n} : event'[i] = event[i]
    BY <1>1, <1>4 DEF Used, IInv, TypeInvariant
  <1>6. Exclusive'
    BY <1>2 DEF Exclusive, IInv, TypeInvariant
  <1>7. ASSUME NEW i \in Used' PROVE IsLast(event[i].prev, Before(i))'
    <2>1. CASE i = n
      <3>1. Before(n)' = EventsOf(on[s], Used)
        <4>1. event'[n].entity = on[s]
          BY <1>4, <1>5
        <4>2. Before(n)' = {j \in Used \cup {n} : j < n /\ event'[j].entity = on[s]}
          BY <1>5, <4>1 DEF Before
        <4>3. \A j \in Used \cup {n} : j < n <=> j \in Used
          BY <1>3, n \in Int DEF Id
        <4>4. \A j \in Used : event'[j].entity = event[j].entity
          BY <1>3, <1>5 DEF Used
        <4>5. QED
          BY <4>2, <4>3, <4>4 DEF EventsOf
      <3>2. LastInv(s)
        OBVIOUS
      <3>3. QED
        BY <1>4, <1>5, <2>1, <3>1, <3>2 DEF LastInv, IsLast
    <2>2. CASE i # n
      <3>1. i \in Used /\ event'[i] = event[i]
        BY <1>5, <2>2 DEF Used
      <3>2. Before(i)' = Before(i)
        BY <1>3, <1>5, <3>1 DEF Before, Used, Id
      <3>3. QED
        BY <3>1, <3>2 DEF IsLast
    <2>3. QED
      BY <2>1, <2>2
  <1>8. ASSUME NEW t \in Session PROVE LastInv(t)'
    <2>1. CASE t # s /\ pc[t] = "linked"
      <3>1. on[t] # on[s] /\ pc'[t] = pc[t] /\ head'[t] = head[t] /\ on'[t] = on[t]
        BY <1>2, <2>1 DEF Exclusive, IInv, TypeInvariant
      <3>2. EventsOf(on[t], Used)' = EventsOf(on[t], Used)
        BY <1>3, <1>4, <1>5, <3>1 DEF EventsOf, Used
      <3>3. LastInv(t)
        OBVIOUS
      <3>4. QED
        BY <3>1, <3>2, <3>3 DEF LastInv, IsLast
    <2>2. CASE t = s \/ pc[t] # "linked"
      BY <1>2, <2>2 DEF LastInv, IInv, TypeInvariant
    <2>3. QED
      BY <2>1, <2>2
  <1>9. ASSUME NEW i \in Id, NEW j \in Id PROVE OrderInv(i, j)'
    BY <1>3, <1>4, <1>5, <1>9, UsedStatus DEF OrderInv, IInv
  <1>10. QED
    BY <1>6, <1>7, <1>8, <1>9

LEMMA ChainCommit ==
  ASSUME IInv, ChainInv, NEW s \in Session, Commit(s)
  PROVE  ChainInv'
  <1> USE DEF ChainInv
  <1>1. ASSUME NEW i \in Id
        PROVE  /\ i \in Used' <=> i \in Used
               /\ event'[i].entity = event[i].entity /\ event'[i].prev = event[i].prev
               /\ event'[i].status = IF i \in Own(s) THEN "committed" ELSE event[i].status
    <2>1. i \in Used => event[i] \in Rows
      BY UsedStatus DEF IInv
    <2>2. event'[i] = IF i \in Own(s) THEN [event[i] EXCEPT !.status = "committed"] ELSE event[i]
      BY DEF Commit
    <2>3. i \in Own(s) => i \in Used
      BY UsedStatus DEF Own, IInv
    <2>4. QED
      BY <2>1, <2>2, <2>3 DEF Used, Rows, Free
  <1>2. /\ pc' = [pc EXCEPT ![s] = "idle"] /\ on' = [on EXCEPT ![s] = NoEntity]
        /\ head' = [head EXCEPT ![s] = 0]
    BY DEF Commit, Finish
  <1>3. Used' = Used
    BY <1>1 DEF Used
  <1>4. Exclusive'
    BY <1>2 DEF Exclusive, IInv, TypeInvariant
  <1>5. ASSUME NEW i \in Used' PROVE IsLast(event[i].prev, Before(i))'
    <2>1. i \in Used /\ i \in Id
      BY <1>3 DEF Used
    <2>2. Before(i)' = Before(i)
      BY <1>1, <1>3, <2>1 DEF Before, Used
    <2>3. QED
      BY <1>1, <2>1, <2>2 DEF IsLast
  <1>6. ASSUME NEW t \in Session PROVE LastInv(t)'
    <2>1. EventsOf(on[t], Used)' = EventsOf(on'[t], Used)
      BY <1>1, <1>3 DEF EventsOf, Used
    <2>2. LastInv(t)
      OBVIOUS
    <2>3. QED
      BY <1>2, <2>1, <2>2 DEF LastInv, IsLast, IInv, TypeInvariant
  <1>7. ASSUME NEW i \in Id, NEW j \in Id PROVE OrderInv(i, j)'
    <2>1. SUFFICES ASSUME event'[i].status = "committed", event'[j].status = "flushed",
                          event'[i].entity = event'[j].entity
                   PROVE  i < j
      BY DEF OrderInv
    <2>2. event[j].status = "flushed" /\ j \notin Own(s) /\ j \in Used
      BY <1>1, <2>1, UsedStatus DEF IInv
    <2>3. event[i].entity = event[j].entity
      BY <1>1, <2>1
    <2>4. CASE i \in Own(s)
      <3>1. event[i].entity = on[s] /\ pc[s] # "idle"
        BY <2>4 DEF IInv, FlushedInv, Own, Commit
      <3>2. j \in Visible(s)
        BY <2>2, <2>3, <3>1, SeesAll
      <3>3. QED
        BY <2>2, <3>2 DEF Visible, Committed
    <2>5. CASE i \notin Own(s)
      BY <1>1, <2>1, <2>2, <2>3, <2>5 DEF OrderInv
    <2>6. QED
      BY <2>4, <2>5
  <1>8. QED
    BY <1>4, <1>5, <1>6, <1>7

LEMMA ChainNext ==
  ASSUME IInv, ChainInv, Locked = Session, [Next]_vars
  PROVE  ChainInv'
  <1> USE DEF ChainInv
  <1>1. ASSUME UNCHANGED event, Exclusive', \A s \in Session : LastInv(s)'
        PROVE  ChainInv'
    BY <1>1 DEF Before, Used, IsLast, OrderInv
  <1>2. CASE UNCHANGED vars
    BY <1>1, <1>2 DEF vars, Exclusive, LastInv, IsLast, EventsOf, Used
  <1>3. ASSUME NEW s \in Session, NEW e \in Entity, Begin(s, e) PROVE ChainInv'
    <2>1. Exclusive'
      BY <1>3, LedgerAssumption DEF Begin, Exclusive, IInv, TypeInvariant
    <2>2. ASSUME NEW t \in Session PROVE LastInv(t)'
      BY <1>3 DEF Begin, LastInv, IsLast, EventsOf, Used, IInv, TypeInvariant
    <2>3. QED
      BY <1>1, <1>3, <2>1, <2>2 DEF Begin
  <1>4. ASSUME NEW s \in Session, NEW source \in Source \cup {NoSource}, NEW type \in EventType,
               FindSource(s, source, type)
        PROVE  ChainInv'
    <2>1. CASE Rollback(s)
      BY <1>4, <2>1, ChainRollback DEF FindSource
    <2>2. CASE ~Rollback(s)
      <3>1. pc' = [pc EXCEPT ![s] = "checked"] /\ pc[s] = "ready" /\ UNCHANGED <<event, on, head>>
        BY <1>4, <2>2 DEF FindSource
      <3>2. Exclusive'
        BY <3>1 DEF Exclusive, IInv, TypeInvariant
      <3>3. ASSUME NEW t \in Session PROVE LastInv(t)'
        BY <3>1 DEF LastInv, IsLast, EventsOf, Used, IInv, TypeInvariant
      <3>4. QED
        BY <1>1, <3>1, <3>2, <3>3
    <2>3. QED
      BY <2>1, <2>2
  <1>5. ASSUME NEW s \in Session, ReadHead(s) PROVE ChainInv'
    <2>1. PICK last \in Id \cup {0} :
             /\ IsLast(last, EventsOf(on[s], Visible(s)))
             /\ head' = [head EXCEPT ![s] = last]
      BY <1>5 DEF ReadHead
    <2>2. pc' = [pc EXCEPT ![s] = "linked"] /\ pc[s] = "checked" /\ UNCHANGED <<event, on>>
      BY <1>5 DEF ReadHead
    <2>3. EventsOf(on[s], Visible(s)) = EventsOf(on[s], Used)
      <3>1. Visible(s) \subseteq Used
        BY UsedStatus DEF IInv, Visible, Own, Committed
      <3>2. ASSUME NEW i \in Used, event[i].entity = on[s] PROVE i \in Visible(s)
        BY <2>2, <3>2, SeesAll DEF Used
      <3>3. QED
        BY <3>1, <3>2 DEF EventsOf
    <2>4. Exclusive'
      BY <2>2 DEF Exclusive, IInv, TypeInvariant
    <2>5. ASSUME NEW t \in Session PROVE LastInv(t)'
      BY <2>1, <2>2, <2>3 DEF LastInv, IsLast, EventsOf, Used, IInv, TypeInvariant
    <2>6. QED
      BY <1>1, <2>2, <2>4, <2>5
  <1>6. ASSUME NEW s \in Session, Flush(s) PROVE ChainInv'
    BY <1>6, ChainRollback, ChainInsert DEF Flush
  <1>7. ASSUME NEW s \in Session, Commit(s) PROVE ChainInv'
    BY <1>7, ChainCommit
  <1>8. ASSUME NEW s \in Session, Abort(s) PROVE ChainInv'
    BY <1>8, ChainRollback DEF Abort
  <1>9. QED
    BY <1>2, <1>3, <1>4, <1>5, <1>6, <1>7, <1>8 DEF Next

\* When every session appends under the entity lock, verify_chain holds at all
\* times, on SQLite and on PostgreSQL.
THEOREM ChainUnbroken ==
  ASSUME Locked = Session
  PROVE  Spec => []ChainVerified
  <1>1. Init => ChainInv
    BY DEF Init, ChainInv, Exclusive, LastInv, OrderInv, Used, Free
  <1>2. IInv /\ ChainInv /\ [Next]_vars => ChainInv'
    BY ChainNext
  <1>3. IInv /\ ChainInv => ChainVerified
    <2>1. SUFFICES ASSUME IInv, ChainInv, NEW e \in Entity, NEW i \in EventsOf(e, Committed)
                   PROVE  IsLast(event[i].prev, {j \in EventsOf(e, Committed) : j < i})
      BY DEF ChainVerified, Verified
    <2>2. i \in Used /\ i \in Id /\ event[i].entity = e /\ event[i].status = "committed"
      BY <2>1, UsedStatus DEF IInv, EventsOf, Committed
    <2>3. ASSUME NEW j \in Before(i) PROVE j \in Committed
      <3>1. j \in Id /\ j < i /\ event[j].entity = e /\ event[j].status \in {"flushed", "committed"}
        BY <2>1, <2>2, UsedStatus DEF IInv, Before, Used
      <3>2. OrderInv(i, j)
        BY <2>1, <2>2, <3>1 DEF ChainInv
      <3>3. QED
        BY <2>2, <3>1, <3>2 DEF OrderInv, Committed, Id
    <2>4. Before(i) = {j \in EventsOf(e, Committed) : j < i}
      BY <2>1, <2>2, <2>3, UsedStatus DEF IInv, Before, EventsOf, Committed, Used
    <2>5. QED
      BY <2>1, <2>2, <2>4 DEF ChainInv
  <1>4. QED
    BY <1>1, <1>2, <1>3, Invariance, PTL DEF Spec

=============================================================================
