---------------------------- MODULE Maintenance ----------------------------
(***************************************************************************)
(* What happens to a ledger that is kept for a long time: old events move  *)
(* to export files and leave an anchor (core/archive.py), payloads are     *)
(* redacted (core/ledger.py), L1 rows are checkpointed (core/snapshot.py)  *)
(* and recomputed, from the ledger or from the checkpoints                 *)
(* (core/projection.py); the chains are verified by the program and by an  *)
(* auditor who has exported rows only (verify/standalone.py).              *)
(*                                                                         *)
(* Appends hold the entity lock (Ledger is about those that do not).  A    *)
(* fold, a rebuild and a snapshot are one transaction each, and one step.  *)
(* A hash stands for the event it was computed from, so that prev is an    *)
(* id.  Of the columns of a row, reason stands for those that come from    *)
(* payloads and are kept in snapshots, card for the timezone and the card  *)
(* expiry, which are not.                                                  *)
(***************************************************************************)
EXTENDS Integers, Sequences, FiniteSetsExt, Folds, Domain

CONSTANTS
  Entity,
  EventType,
  Late,       \* the types that may be recorded later than they occurred
  MaxId,      \* bound: events recorded
  MaxTime,    \* bound: ticks of the clock
  Retention,  \* retention_days, in ticks
  Window,     \* the widest window of a policy rule, in ticks
  MaxRare     \* bound: archive runs that die and events redacted, together

\* The default retention is 90 days, the widest seeded window 7.
ASSUME MaintenanceAssumption ==
  /\ MaxId \in Nat /\ MaxTime \in Nat /\ MaxRare \in Nat
  /\ Window \in Nat /\ Retention \in Nat
  /\ Window <= Retention

VARIABLES
  clock,
  log,        \* every event that was ever recorded, by id
  hot,        \* the ids in the events table
  cold,       \* lines of the archive files about each event
  anchors,    \* the newest archive anchor of each entity: an id, or 0
  archiving,  \* the run in progress: its now, and the ids it has selected
  redacted,   \* events without payload
  state,      \* the entity_state rows
  snap,       \* the snapshot rebuild_incremental would start from
  crashes     \* archive runs that died

vars == <<clock, log, hot, cold, anchors, archiving, redacted, state, snap, crashes>>
l0 == <<log, hot, cold, anchors, archiving, redacted>>
l1 == <<state, snap>>

Id == 1..MaxId
Time == 0..MaxTime

\* missed is history: the archived events behind the watermark that were not
\* there any more when the row was computed.
Columns == [status : VALID_STATUSES \cup {"none"}, reason : Id \cup {0}, card : Id \cup {0},
            last_event_id : Id \cup {0}, missed : SUBSET Id]
Absent == [status |-> "none", reason |-> 0, card |-> 0, last_event_id |-> 0, missed |-> {}]
Created == [Absent EXCEPT !.status = "ACTIVE"]
NoArchive == [now |-> 0, ids |-> {}]

Init ==
  /\ clock = 0
  /\ log = <<>>
  /\ hot = {}
  /\ cold = [i \in Id |-> 0]
  /\ anchors = [e \in Entity |-> 0]
  /\ archiving = NoArchive
  /\ redacted = {}
  /\ state = [e \in Entity |-> Absent]
  /\ snap = [e \in Entity |-> Absent]
  /\ crashes = 0

Of(e, ids) == {i \in ids : log[i].entity = e}
Past(ids, n) == {i \in ids : i > n}
LastOf(ids) == Max(ids \cup {0})

-----------------------------------------------------------------------------
(* The ledger *)

Tick == clock < MaxTime /\ clock' = clock + 1 /\ UNCHANGED <<l0, l1, crashes>>

\* A new event is chained to the last one that is still in the table.  It may
\* have occurred earlier than it is recorded.
Record(e, type, occurred) ==
  /\ Len(log) < MaxId
  /\ log' = Append(log, [entity |-> e, type |-> type, recorded |-> clock,
                         occurred |-> occurred, prev |-> LastOf(Of(e, hot))])
  /\ hot' = hot \cup {Len(log) + 1}
  /\ UNCHANGED <<clock, cold, anchors, archiving, redacted, l1, crashes>>

redact_payload(i) ==
  /\ crashes + Cardinality(redacted) < MaxRare
  /\ redacted' = redacted \cup {i}
  /\ UNCHANGED <<clock, log, hot, cold, anchors, archiving, l1, crashes>>

-----------------------------------------------------------------------------
(* The archive: X_Without..., or X_With..., is a plausible slip in X.      *)

\* Past retention, and outside every window the gates count over.
Old(i, now) ==
  log[i].recorded < now - Retention /\ log[i].occurred < now - Window

\* Each entity's file gets the lines of all entities.
Exported_WithAll(ids) ==
  [i \in Id |-> IF i \in ids THEN cold[i] + Cardinality({log[j].entity : j \in ids}) ELSE cold[i]]

\* A line for each event, appended to the file of its entity.
Exported(ids) == [i \in Id |-> IF i \in ids THEN cold[i] + 1 ELSE cold[i]]

\* The lines are in the files before anything is deleted.
ArchiveExport ==
  LET old == {i \in hot : Old(i, clock)} IN
  /\ archiving = NoArchive
  /\ old # {}
  /\ archiving' = [now |-> clock, ids |-> old]
  /\ cold' = Exported(old)
  /\ UNCHANGED <<clock, log, hot, anchors, redacted, l1, crashes>>

\* The first anchor of an entity is kept.
Anchored_WithFirst(ids) ==
  [e \in Entity |-> IF Of(e, ids) = {} \/ anchors[e] # 0 THEN anchors[e] ELSE LastOf(Of(e, ids))]

Anchored(ids) ==
  [e \in Entity |-> IF Of(e, ids) = {} THEN anchors[e] ELSE LastOf(Of(e, ids))]

\* The predicate of the delete is evaluated with the time of the delete.
ArchiveCommit_WithNewNow ==
  /\ archiving # NoArchive
  /\ anchors' = Anchored({i \in hot : Old(i, clock)})
  /\ hot' = {i \in hot : ~Old(i, clock)}
  /\ archiving' = NoArchive
  /\ UNCHANGED <<clock, log, cold, redacted, l1, crashes>>

\* The list of the run is kept.
ArchiveCommit_WithList ==
  /\ archiving # NoArchive
  /\ anchors' = Anchored(archiving.ids)
  /\ hot' = {i \in hot : ~Old(i, archiving.now)}
  /\ UNCHANGED <<clock, log, cold, archiving, redacted, l1, crashes>>

\* The anchors and the delete are one transaction; the delete repeats the
\* predicate of the select, with the now of the run.
ArchiveCommit ==
  /\ archiving # NoArchive
  /\ anchors' = Anchored(archiving.ids)
  /\ hot' = {i \in hot : ~Old(i, archiving.now)}
  /\ archiving' = NoArchive
  /\ UNCHANGED <<clock, log, cold, redacted, l1, crashes>>

\* The run dies: some lines are in the files, nothing is in the database.
ArchiveDies ==
  /\ crashes + Cardinality(redacted) < MaxRare
  /\ archiving = NoArchive
  /\ \E part \in SUBSET {i \in hot : Old(i, clock)} :
       /\ part # {}
       /\ cold' = Exported(part)
  /\ crashes' = crashes + 1
  /\ UNCHANGED <<clock, log, hot, anchors, archiving, redacted, l1>>

-----------------------------------------------------------------------------
(* L1 *)

\* A payload that was redacted sets nothing.
apply_event(r, i) ==
  LET x == log[i]  paid == i \notin redacted IN
  [r EXCEPT !.status = TRANSITIONS(r.status, x.type),
            !.reason = IF x.type = "PaymentFailed" /\ paid THEN i ELSE r.reason,
            !.card = IF x.type = "CardExpiring" /\ paid THEN i ELSE r.card,
            !.last_event_id = i]

\* The row after the events, oldest first.
Applied(r, ids) ==
  MapThenFoldSet(LAMBDA i, s : apply_event(s, i), r, LAMBDA i : i, Max, ids)

\* A row brought up to date from the events that are still in the table.
Folded(e, r) ==
  LET new  == Past(Of(e, hot), r.last_event_id)
      gone == {i \in Of(e, DOMAIN log \ hot) : r.last_event_id < i /\ i < LastOf(new)} IN
  IF new = {} THEN r ELSE [Applied(r, new) EXCEPT !.missed = r.missed \cup gone]

\* fold_events, for all entities that have an event in the table.
FoldEvents(rows) ==
  [e \in Entity |->
     IF Of(e, hot) = {} THEN rows[e]
     ELSE Folded(e, IF rows[e] = Absent THEN Created ELSE rows[e])]

Fold ==
  /\ state' = FoldEvents(state)
  /\ UNCHANGED <<clock, l0, snap, crashes>>

\* Every column is compared.
SixColumns_WithCard(r) == [status |-> r.status, reason |-> r.reason, card |-> r.card, at |-> r.last_event_id]

\* The columns rebuild compares.
SixColumns(r) == [status |-> r.status, reason |-> r.reason, at |-> r.last_event_id]

\* The entities for which a rebuild from old to new reports drift: those that
\* changed, appeared (unless it is the first build) or disappeared.
Mismatches(old, new) ==
  {e \in Entity :
     \/ new[e] # Absent /\ old[e] = Absent /\ \E x \in Entity : old[x] # Absent
     \/ new[e] # Absent /\ old[e] # Absent /\ SixColumns(new[e]) # SixColumns(old[e])
     \/ new[e] = Absent /\ old[e] # Absent}

Rebuild ==
  /\ state' = FoldEvents([e \in Entity |-> Absent])
  /\ UNCHANGED <<clock, l0, snap, crashes>>

\* The watermark of the snapshot is the last event of the entity.
Snapshot_WithLastEvent(e) ==
  [state[e] EXCEPT !.card = 0, !.last_event_id = LastOf(Of(e, hot) \cup {state[e].last_event_id})]

\* What a snapshot stores: not the timezone, not the card.
Snapshot(e) == [state[e] EXCEPT !.card = 0]

\* Of two snapshots at one event the first is kept, otherwise the newest.
create_snapshot(e) ==
  /\ state[e] # Absent
  /\ \/ snap[e] = Absent
     \/ state[e].last_event_id > snap[e].last_event_id
  /\ snap' = [snap EXCEPT ![e] = Snapshot(e)]
  /\ UNCHANGED <<clock, l0, state, crashes>>

\* Without any snapshot it is a rebuild.  An entity with one continues from it,
\* also if none of its events is in the table; the others are folded whole.
RebuildIncremental ==
  /\ \E e \in Entity : snap[e] # Absent
  /\ state' = [e \in Entity |->
                 IF snap[e] # Absent THEN Folded(e, snap[e])
                 ELSE IF Of(e, hot) # {} THEN Folded(e, Created) ELSE Absent]
  /\ UNCHANGED <<clock, l0, snap, crashes>>

-----------------------------------------------------------------------------

Next ==
  \/ Tick
  \/ \E e \in Entity, t \in EventType, o \in {0, clock} :
       (o = clock \/ t \in Late) /\ Record(e, t, o)
  \/ \E i \in hot \ redacted : redact_payload(i)
  \/ ArchiveExport \/ ArchiveCommit \/ ArchiveDies
  \/ Fold \/ Rebuild \/ RebuildIncremental
  \/ \E e \in Entity : create_snapshot(e)

Spec == Init /\ [][Next]_vars

-----------------------------------------------------------------------------
(* Verification *)

\* Each row points at the one before it, and the first at nothing, or at an
\* event somebody vouches for.
Linked(ids, vouched) ==
  \A i \in ids :
    LET before == {j \in ids : j < i} IN
    \/ log[i].prev = LastOf(before)
    \/ before = {} /\ log[i].prev # 0 /\ log[i].prev = vouched /\ vouched < i

\* verify_chain looks at the table and at the newest anchor.
verify_chain(e) == Linked(Of(e, hot), anchors[e])

\* verify_exported_rows takes rows from anywhere: copies says how often each
\* event is among them, and a row that is there twice breaks the chain.
verify_exported_rows(e, copies, anchor) ==
  LET ids == {i \in Of(e, DOMAIN log) : copies[i] > 0} IN
  Linked(ids, anchor) /\ \A i \in ids : copies[i] = 1

InTable == [i \in Id |-> IF i \in hot THEN 1 ELSE 0]
Everywhere == [i \in Id |-> InTable[i] + cold[i]]

-----------------------------------------------------------------------------
(* Properties *)

TypeInvariant ==
  /\ clock \in Time /\ crashes \in 0..MaxRare
  /\ log \in Seq([entity : Entity, type : EventType, recorded : Time, occurred : Time,
                  prev : Id \cup {0}])
  /\ hot \subseteq DOMAIN log /\ redacted \subseteq DOMAIN log
  /\ cold \in [Id -> 0..1 + MaxRare]
  /\ anchors \in [Entity -> Id \cup {0}]
  /\ archiving \in [now : Time, ids : SUBSET hot]
  /\ state \in [Entity -> Columns] /\ snap \in [Entity -> Columns]
  /\ \A e \in Entity : state[e].last_event_id <= Len(log) /\ snap[e].card = 0

\* What is left in the table verifies, for the program and for an auditor who
\* has the anchors, whatever has been archived and however late events came.
HotChainVerified ==
  \A e \in Entity : verify_chain(e) /\ verify_exported_rows(e, InTable, anchors[e])

\* An entity all of whose events were archived starts a new chain.
Restarted(e) == \E i \in Of(e, DOMAIN log) : log[i].prev = 0 /\ \E j \in Of(e, DOMAIN log) : j < i

\* Files and table together are the whole chain, unless it was restarted or a
\* run died over its files.
AuditVerifies ==
  crashes = 0 /\ archiving = NoArchive =>
    \A e \in Entity : ~Restarted(e) => verify_exported_rows(e, Everywhere, 0)

\* An event is in the table or in a file, also if a run dies half way.
NothingLost == \A i \in DOMAIN log : i \in hot \/ cold[i] > 0

\* A row for which no archived event was missing says what all events up to
\* its watermark say, whichever way it was computed: by folds, by a rebuild, or
\* from a snapshot taken before the archive.
RowsTrue ==
  \A e \in Entity :
    LET r == state[e]
        all == {i \in Of(e, DOMAIN log) : i <= r.last_event_id}
        full == Applied(Created, all) IN
    r # Absent /\ r.missed = {} =>
      /\ r.status = full.status
      /\ all \cap redacted = {} => r.reason = full.reason

\* A rebuild that reports drift has met events no fold had seen, or events that
\* were archived or redacted since, never a row that was folded wrongly.
DriftExplained ==
  [][Rebuild => \A e \in Mismatches(state, state') :
       \/ Past(Of(e, hot), state[e].last_event_id) # {}
       \/ Of(e, DOMAIN log \ hot) # {}
       \/ Of(e, redacted) # {}]_vars

=============================================================================
