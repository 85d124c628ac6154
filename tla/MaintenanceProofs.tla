-------------------------- MODULE MaintenanceProofs --------------------------
(***************************************************************************)
(* Proofs about Maintenance, for any number of entities, events, archive   *)
(* runs and redactions, and any retention that covers the windows.         *)
(*                                                                         *)
(* The archive takes the events of an entity from the oldest on, because   *)
(* they are recorded in the order of their ids and no event occurs after   *)
(* it is recorded; the widest window is no wider than the retention, so    *)
(* that late events make no difference.  What has left the table is then   *)
(* all older than what is in it, and ends at the newest anchor.            *)
(***************************************************************************)
EXTENDS Maintenance, FiniteSetTheorems, TLAPS

Rows == INSTANCE Recursion
          WITH Op <- LAMBDA i, r : apply_event(r, i), Map <- LAMBDA w, i : i, Ch <- Max

-----------------------------------------------------------------------------
(* The last of some ids *)

LEMMA LastIs ==
  ASSUME NEW n \in Nat, NEW S \in SUBSET (1..n)
  PROVE  /\ S = {} => LastOf(S) = 0
         /\ S # {} => LastOf(S) \in S
         /\ \A i \in S : i <= LastOf(S)
         /\ \A i \in S : (\A j \in S : j <= i) => LastOf(S) = i
  <1> DEFINE T == S \cup {0}
  <1>1. T \in SUBSET Nat /\ Rows!IsFiniteSet(T) /\ T # {}
    <2>1. Rows!IsFiniteSet(0..n) /\ T \in SUBSET (0..n)
      BY Rows!FS_Interval
    <2> HIDE DEF T
    <2>2. Rows!IsFiniteSet(T)
      BY <2>1, Rows!FS_Subset
    <2>3. QED
      BY <2>2 DEF T
  <1>2. Max(T) \in T /\ \A i \in T : i <= Max(T)
    BY <1>1, Rows!GreatestElement DEF Max
  <1>3. PICK m : m = LastOf(S)
    OBVIOUS
  <1>4. m \in S \cup {0} /\ \A i \in S : i <= m
    BY <1>2, <1>3 DEF LastOf
  <1>5. \A i \in S : i \in Nat /\ i > 0
    OBVIOUS
  <1> HIDE DEF T
  <1>6. ASSUME NEW i \in S PROVE m \in S
    BY <1>4, <1>5
  <1>7. ASSUME NEW i \in S, \A j \in S : j <= i PROVE m = i
    BY <1>4, <1>5, <1>7
  <1>8. QED
    BY <1>3, <1>4, <1>6, <1>7

-----------------------------------------------------------------------------
(* The ledger and the archive *)

Events == [entity : Entity, type : EventType, recorded : Time, occurred : Time,
           prev : Id \cup {0}]

Gone == DOMAIN log \ hot

LedgerType ==
  /\ clock \in Time /\ crashes \in 0..MaxRare
  /\ log \in Seq(Events) /\ Len(log) <= MaxId
  /\ hot \subseteq DOMAIN log /\ redacted \subseteq DOMAIN log
  /\ cold \in [Id -> Nat]
  /\ anchors \in [Entity -> Id \cup {0}]
  /\ archiving \in [now : Time, ids : SUBSET hot]

\* Nothing occurs after it is recorded, and ids are handed out as time passes.
TimeInv ==
  /\ \A i \in DOMAIN log : log[i].occurred <= log[i].recorded /\ log[i].recorded <= clock
  /\ \A i, j \in DOMAIN log : i < j => log[i].recorded <= log[j].recorded

\* What a run has selected is what its delete will find.
SelectInv ==
  IF archiving = NoArchive THEN archiving.ids = {}
  ELSE archiving.now <= clock /\ archiving.ids = {i \in hot : Old(i, archiving.now)}

\* The oldest events of an entity go first.
SuffixInv ==
  \A i, j \in DOMAIN log :
    i < j /\ log[i].entity = log[j].entity /\ i \in hot => j \in hot

Before(i) == {j \in Of(log[i].entity, DOMAIN log) : j < i}

\* An event points at the last one before it, or nothing before it was left.
ChainInv ==
  \A i \in DOMAIN log :
    \/ log[i].prev = LastOf(Before(i))
    \/ log[i].prev = 0 /\ Before(i) \cap hot = {}

AnchorInv == \A e \in Entity : anchors[e] = LastOf(Of(e, Gone))

\* An archived event has a line, and no more than the runs that wrote one.
FileInv ==
  /\ \A i \in Gone \cup archiving.ids : cold[i] > 0 /\ cold[i] <= crashes + 1
  /\ \A i \in Id \ (Gone \cup archiving.ids) : cold[i] <= crashes

LedgerInv ==
  LedgerType /\ TimeInv /\ SelectInv /\ SuffixInv /\ ChainInv /\ AnchorInv /\ FileInv

LEMMA Ids ==
  ASSUME LedgerType
  PROVE  /\ Len(log) \in Nat /\ DOMAIN log = 1..Len(log) /\ DOMAIN log \subseteq Id
         /\ \A i \in DOMAIN log : log[i] \in Events
         /\ \A e, S : S \subseteq DOMAIN log => Of(e, S) \in SUBSET (1..Len(log))
  <1>1. Len(log) \in Nat /\ DOMAIN log = 1..Len(log) /\ Len(log) <= MaxId
    BY DEF LedgerType
  <1>2. \A i \in DOMAIN log : log[i] \in Events
    BY DEF LedgerType
  <1>3. QED
    BY <1>1, <1>2, MaintenanceAssumption DEF Id, Of

\* How LastOf looks at the ids of the ledger.
LEMMA LastEvent ==
  ASSUME LedgerType, NEW S \in SUBSET DOMAIN log
  PROVE  /\ S = {} => LastOf(S) = 0
         /\ S # {} => LastOf(S) \in S
         /\ \A i \in S : i <= LastOf(S)
         /\ \A i \in S : (\A j \in S : j <= i) => LastOf(S) = i
         /\ LastOf(S) \in Id \cup {0}
  <1>1. Len(log) \in Nat /\ S \in SUBSET (1..Len(log)) /\ S \subseteq Id
    BY Ids
  <1>2. QED
    BY <1>1, LastIs

LEMMA RecordLedger ==
  ASSUME LedgerInv, NEW e \in Entity, NEW t \in EventType, NEW o \in {0, clock}, Record(e, t, o)
  PROVE  LedgerInv'
  <1> USE DEF LedgerInv
  <1>0. PICK n : n = Len(log) + 1
    OBVIOUS
  <1> DEFINE x == [entity |-> e, type |-> t, recorded |-> clock, occurred |-> o,
                   prev |-> LastOf(Of(e, hot))]
  <1>1. /\ Len(log) < MaxId /\ log' = Append(log, x) /\ hot' = hot \cup {n}
        /\ UNCHANGED <<clock, cold, anchors, archiving, redacted, crashes>>
    BY <1>0 DEF Record
  <1>2. Len(log) \in Nat /\ DOMAIN log = 1..Len(log) /\ n \in Id
    BY <1>0, <1>1, Ids, MaintenanceAssumption DEF Id
  <1>3. Of(e, hot) \in SUBSET DOMAIN log
    BY DEF Of, LedgerType
  <1>4. x \in Events
    <2>1. LastOf(Of(e, hot)) \in Id \cup {0}
      BY <1>3, LastEvent
    <2>2. o \in Time /\ clock \in Time
      BY MaintenanceAssumption DEF LedgerType, Time
    <2>3. QED
      BY <2>1, <2>2 DEF Events
  <1> HIDE DEF x
  <1>5. /\ DOMAIN log' = DOMAIN log \cup {n} /\ Len(log') = n /\ log' \in Seq(Events)
        /\ log'[n] = x /\ \A i \in DOMAIN log : log'[i] = log[i]
    BY <1>0, <1>1, <1>2, <1>4 DEF LedgerType
  <1>6. n \notin DOMAIN log /\ (\A i \in DOMAIN log : i < n) /\ n \notin hot
    BY <1>0, <1>2 DEF LedgerType
  <1>7. /\ x.entity = e /\ x.recorded = clock /\ x.occurred = o /\ x.prev = LastOf(Of(e, hot))
    BY DEF x
  <1>8. Gone' = Gone
    BY <1>1, <1>5, <1>6 DEF Gone
  <1>9. LedgerType'
    <2>1. n <= MaxId
      BY <1>2 DEF Id
    <2>2. archiving' \in [now : Time, ids : SUBSET hot']
      BY <1>1 DEF LedgerType
    <2>3. QED
      BY <1>1, <1>5, <2>1, <2>2 DEF LedgerType
  <1>10. TimeInv'
    <2>1. o <= clock /\ clock \in Int
      BY DEF LedgerType, Time
    <2>2. QED
      BY <1>1, <1>5, <1>6, <1>7, <2>1 DEF TimeInv, LedgerType, Time
  <1>11. SelectInv'
    <2>1. CASE archiving = NoArchive
      BY <1>1, <2>1 DEF SelectInv
    <2>2. CASE archiving # NoArchive
      <3>1. archiving.now <= clock /\ archiving.ids = {i \in hot : Old(i, archiving.now)}
        BY <2>2 DEF SelectInv
      <3>2. ~Old(n, archiving.now)'
        <4>1. ~(clock < archiving.now - Retention)
          BY <3>1, MaintenanceAssumption DEF LedgerType, Time
        <4>2. QED
          BY <1>1, <1>5, <1>7, <4>1 DEF Old
      <3>3. \A i \in hot : Old(i, archiving.now)' <=> Old(i, archiving.now)
        BY <1>1, <1>5 DEF Old, LedgerType
      <3>4. QED
        BY <1>1, <2>2, <3>1, <3>2, <3>3 DEF SelectInv
    <2>3. QED
      BY <2>1, <2>2
  <1>12. SuffixInv'
    BY <1>1, <1>5, <1>6 DEF SuffixInv
  <1>13. ChainInv'
    <2>1. ASSUME NEW i \in DOMAIN log PROVE Before(i)' = Before(i)
      BY <1>5, <1>6 DEF Before, Of
    <2>2. ASSUME NEW i \in DOMAIN log
          PROVE  \/ log'[i].prev = LastOf(Before(i)')
                 \/ log'[i].prev = 0 /\ Before(i)' \cap hot' = {}
      <3>1. n \notin Before(i)
        BY <1>6 DEF Before, Of
      <3>2. QED
        BY <1>1, <1>5, <2>1, <3>1 DEF ChainInv
    <2>3. Before(n)' = Of(e, DOMAIN log)
      BY <1>5, <1>6, <1>7 DEF Before, Of
    <2>4. \/ log'[n].prev = LastOf(Before(n)')
          \/ log'[n].prev = 0 /\ Before(n)' \cap hot' = {}
      <3>1. CASE Of(e, hot) = {}
        BY <1>1, <1>3, <1>5, <1>6, <1>7, <2>3, <3>1, LastEvent DEF Of
      <3>2. CASE Of(e, hot) # {}
        <4> DEFINE m == LastOf(Of(e, hot))
        <4>1. m \in Of(e, hot) /\ \A i \in Of(e, hot) : i <= m
          BY <1>3, <3>2, LastEvent
        <4>2. ASSUME NEW j \in Of(e, DOMAIN log) PROVE j <= m
          <5>1. j \in DOMAIN log /\ m \in DOMAIN log /\ m \in hot /\ log[j].entity = log[m].entity
            BY <4>1 DEF Of, LedgerType
          <5>2. j \in hot => j <= m
            BY <4>1, <5>1 DEF Of
          <5>3. m < j => j \in hot
            BY <5>1 DEF SuffixInv
          <5>4. QED
            BY <1>2, <5>1, <5>2, <5>3
        <4>3. m \in Of(e, DOMAIN log) /\ Of(e, DOMAIN log) \in SUBSET DOMAIN log
          BY <4>1 DEF Of, LedgerType
        <4>4. LastOf(Of(e, DOMAIN log)) = m
          BY <4>2, <4>3, LastEvent
        <4>5. QED
          BY <1>5, <1>7, <2>3, <4>4
      <3>3. QED
        BY <3>1, <3>2
    <2>5. QED
      BY <1>5, <2>2, <2>4 DEF ChainInv
  <1>14. AnchorInv'
    BY <1>1, <1>5, <1>8 DEF AnchorInv, Gone, Of
  <1>15. FileInv'
    BY <1>1, <1>8 DEF FileInv
  <1>16. QED
    BY <1>9, <1>10, <1>11, <1>12, <1>13, <1>14, <1>15

LEMMA FewRare ==
  ASSUME LedgerType, crashes + Cardinality(redacted) < MaxRare
  PROVE  crashes + 1 \in 0..MaxRare
  <1>1. IsFiniteSet(redacted)
    BY Ids, FS_Interval, FS_Subset DEF LedgerType
  <1>2. Cardinality(redacted) \in Nat
    BY <1>1, FS_CardinalityType
  <1>3. QED
    BY <1>2, MaintenanceAssumption DEF LedgerType

\* Lines are added for events that are in the table.
LEMMA ExportedLines ==
  ASSUME LedgerType, NEW S \in SUBSET hot
  PROVE  /\ Exported(S) \in [Id -> Nat]
         /\ \A i \in S : Exported(S)[i] = cold[i] + 1
         /\ \A i \in Id \ S : Exported(S)[i] = cold[i]
  BY Ids DEF Exported, LedgerType

LEMMA ExportLedger ==
  ASSUME LedgerInv, ArchiveExport
  PROVE  LedgerInv'
  <1> USE DEF LedgerInv
  <1> DEFINE old == {i \in hot : Old(i, clock)}
  <1>1. /\ archiving = NoArchive /\ archiving' = [now |-> clock, ids |-> old] /\ old # {}
        /\ cold' = Exported(old)
        /\ UNCHANGED <<clock, log, hot, anchors, redacted, crashes>>
    BY DEF ArchiveExport
  <1>2. archiving.ids = {} /\ archiving'.ids = old /\ archiving'.now = clock
    BY <1>1 DEF NoArchive
  <1>3. archiving' # NoArchive
    BY <1>1, <1>2 DEF NoArchive
  <1>4. LedgerType'
    BY <1>1, ExportedLines DEF LedgerType
  <1>5. SelectInv'
    BY <1>1, <1>2, <1>3 DEF SelectInv, Old, LedgerType, Time
  <1>6. FileInv'
    <2>1. old \subseteq hot /\ old \cap Gone = {} /\ hot \subseteq Id /\ Gone \subseteq Id
      BY Ids DEF Gone, LedgerType
    <2>2. /\ \A i \in old : cold'[i] = cold[i] + 1
          /\ \A i \in Id \ old : cold'[i] = cold[i]
      BY <1>1, ExportedLines
    <2>3. \A i \in Id : cold[i] \in Nat
      BY DEF LedgerType
    <2>4. Gone' = Gone /\ crashes' = crashes /\ crashes \in Nat
      BY <1>1 DEF Gone, LedgerType
    <2> HIDE DEF old
    <2>5. QED
      BY <1>2, <2>1, <2>2, <2>3, <2>4 DEF FileInv
  <1>7. QED
    BY <1>1, <1>4, <1>5, <1>6 DEF TimeInv, SuffixInv, ChainInv, AnchorInv, Gone, Of, Before

\* An event is old as soon as it was recorded before the retention, and so is
\* every event before it.
LEMMA OldFromTheStart ==
  ASSUME LedgerType, TimeInv, NEW now \in Time, NEW i \in DOMAIN log, NEW j \in DOMAIN log, i <= j,
         Old(j, now)
  PROVE  Old(i, now)
  <1>1. /\ log[i].recorded \in Int /\ log[j].recorded \in Int /\ log[i].occurred \in Int
        /\ i \in Int /\ j \in Int
    BY Ids DEF Events, Time
  <1>2. log[i].recorded <= log[j].recorded /\ log[i].occurred <= log[i].recorded
    BY <1>1 DEF TimeInv
  <1>3. QED
    BY <1>1, <1>2, MaintenanceAssumption DEF Old, Time

LEMMA CommitLedger ==
  ASSUME LedgerInv, ArchiveCommit
  PROVE  LedgerInv'
  <1> USE DEF LedgerInv
  <1> DEFINE ids == archiving.ids
  <1>1. /\ anchors' = Anchored(ids) /\ hot' = {i \in hot : ~Old(i, archiving.now)}
        /\ archiving' = NoArchive
        /\ UNCHANGED <<clock, log, cold, redacted, crashes>>
    BY DEF ArchiveCommit
  <1>2. ids = {i \in hot : Old(i, archiving.now)} /\ archiving.now \in Time
    BY DEF ArchiveCommit, SelectInv, LedgerType
  <1>3. hot' = hot \ ids /\ ids \subseteq hot /\ Gone' = Gone \cup ids /\ hot \subseteq DOMAIN log
    BY <1>1, <1>2 DEF Gone, LedgerType
  <1>4. archiving'.ids = {}
    BY <1>1 DEF NoArchive
  <1>5. ASSUME NEW i \in DOMAIN log, NEW j \in ids, i <= j, i \in hot PROVE i \in ids
    BY <1>2, <1>3, <1>5, OldFromTheStart
  <1> HIDE DEF ids
  <1>6. LedgerType'
    <2>1. ASSUME NEW e \in Entity PROVE anchors'[e] \in Id \cup {0}
      <3>1. Of(e, ids) \in SUBSET DOMAIN log
        BY <1>3 DEF Of
      <3>2. QED
        BY <1>1, <3>1, LastEvent DEF Anchored, LedgerType
    <2>2. archiving' \in [now : Time, ids : SUBSET hot']
      BY <1>1, MaintenanceAssumption DEF NoArchive, Time
    <2>3. anchors' = [e \in Entity |-> anchors'[e]]
      BY <1>1 DEF Anchored
    <2>4. QED
      BY <1>1, <1>3, <2>1, <2>2, <2>3 DEF LedgerType
  <1>7. SelectInv'
    BY <1>1, <1>4 DEF SelectInv
  <1>8. SuffixInv'
    <2>1. SUFFICES ASSUME NEW i \in DOMAIN log, NEW j \in DOMAIN log, i < j,
                          log[i].entity = log[j].entity, i \in hot \ ids
                   PROVE  j \in hot \ ids
      BY <1>1, <1>3 DEF SuffixInv
    <2>2. j \in hot
      BY <2>1 DEF SuffixInv
    <2>3. j \notin ids
      BY <1>5, <2>1, Ids
    <2>4. QED
      BY <2>2, <2>3
  <1>9. ChainInv'
    BY <1>1, <1>3 DEF ChainInv, Before, Of
  <1>10. AnchorInv'
    <2>1. SUFFICES ASSUME NEW e \in Entity PROVE anchors'[e] = LastOf(Of(e, Gone'))
      BY <1>1 DEF AnchorInv, Of
    <2>2. /\ Of(e, Gone') = Of(e, Gone) \cup Of(e, ids)
          /\ Of(e, ids) \in SUBSET DOMAIN log
          /\ Of(e, Gone') \in SUBSET DOMAIN log
      BY <1>3 DEF Of, Gone
    <2>3. CASE Of(e, ids) = {}
      BY <1>1, <2>2, <2>3 DEF Anchored, AnchorInv
    <2>4. CASE Of(e, ids) # {}
      <3> DEFINE m == LastOf(Of(e, ids))
      <3>1. m \in Of(e, ids) /\ \A i \in Of(e, ids) : i <= m
        BY <2>2, <2>4, LastEvent
      <3>2. ASSUME NEW i \in Of(e, Gone) PROVE i <= m
        <4>1. i \in DOMAIN log /\ m \in DOMAIN log /\ log[i].entity = log[m].entity
              /\ i \notin hot /\ m \in hot
          BY <1>3, <3>1 DEF Of, Gone
        <4>2. ~(m < i)
          BY <4>1 DEF SuffixInv
        <4>3. QED
          BY <4>1, <4>2, Ids
      <3>3. LastOf(Of(e, Gone')) = m
        BY <2>2, <3>1, <3>2, LastEvent
      <3>4. QED
        BY <1>1, <2>4, <3>3 DEF Anchored
    <2>5. QED
      BY <2>3, <2>4
  <1>11. FileInv'
    BY <1>1, <1>3, <1>4 DEF FileInv, ids
  <1>12. QED
    BY <1>1, <1>6, <1>7, <1>8, <1>9, <1>10, <1>11 DEF TimeInv

LEMMA DiesLedger ==
  ASSUME LedgerInv, ArchiveDies
  PROVE  LedgerInv'
  <1> USE DEF LedgerInv
  <1>1. PICK part \in SUBSET {i \in hot : Old(i, clock)} : cold' = Exported(part)
    BY DEF ArchiveDies
  <1>2. /\ archiving = NoArchive /\ crashes' = crashes + 1
        /\ UNCHANGED <<clock, log, hot, anchors, archiving, redacted>>
        /\ crashes + Cardinality(redacted) < MaxRare
    BY DEF ArchiveDies
  <1>3. /\ cold' \in [Id -> Nat] /\ Gone' = Gone
        /\ \A i \in Id : cold'[i] = cold[i] \/ (i \in hot /\ cold'[i] = cold[i] + 1)
    BY <1>1, <1>2, ExportedLines DEF Gone
  <1>4. crashes' \in 0..MaxRare /\ crashes \in Nat
    BY <1>2, FewRare DEF LedgerType
  <1>5. LedgerType'
    BY <1>2, <1>3, <1>4 DEF LedgerType
  <1>6. FileInv'
    <2>1. \A i \in Id : cold[i] \in Nat
      BY DEF LedgerType
    <2>2. archiving.ids = {} /\ archiving'.ids = {}
      BY <1>2 DEF NoArchive
    <2>3. Gone \subseteq Id /\ Gone \cap hot = {}
      BY Ids DEF Gone
    <2>4. QED
      BY <1>2, <1>3, <1>4, <2>1, <2>2, <2>3 DEF FileInv
  <1>7. QED
    BY <1>2, <1>5, <1>6 DEF TimeInv, SelectInv, Old, SuffixInv, ChainInv, AnchorInv, Gone, Of, Before

\* What leaves the ledger alone leaves its invariant, also if time passes.
LEMMA KeepLedger ==
  ASSUME LedgerInv, UNCHANGED <<log, hot, cold, anchors, archiving, crashes>>,
         clock' \in Time, clock <= clock', redacted' \subseteq DOMAIN log
  PROVE  LedgerInv'
  <1> USE DEF LedgerInv
  <1>1. LedgerType'
    BY DEF LedgerType
  <1>2. TimeInv'
    <2>1. \A i \in DOMAIN log : log[i].recorded \in Int
      BY Ids DEF Events, Time
    <2>2. QED
      BY <2>1 DEF TimeInv, LedgerType, Time
  <1>3. SelectInv'
    BY DEF SelectInv, Old, LedgerType, Time
  <1>4. QED
    BY <1>1, <1>2, <1>3 DEF SuffixInv, ChainInv, AnchorInv, FileInv, Gone, Of, Before

LEMMA InitLedger == Init => LedgerInv
  <1> SUFFICES ASSUME Init PROVE LedgerInv
    OBVIOUS
  <1> USE DEF Init
  <1>1. DOMAIN log = {} /\ hot = {} /\ Gone = {} /\ archiving.ids = {}
    BY DEF Gone, NoArchive
  <1>2. LedgerType
    BY <1>1, MaintenanceAssumption DEF LedgerType, Time, NoArchive
  <1>3. AnchorInv
    BY <1>1, <1>2, LastEvent DEF AnchorInv, Of
  <1>4. FileInv
    BY <1>1 DEF FileInv
  <1>5. QED
    BY <1>1, <1>2, <1>3, <1>4 DEF LedgerInv, TimeInv, SelectInv, SuffixInv, ChainInv

LEMMA NextLedger == LedgerInv /\ [Next]_vars => LedgerInv'
  <1> SUFFICES ASSUME LedgerInv, [Next]_vars PROVE LedgerInv'
    OBVIOUS
  <1>1. clock \in Time /\ redacted \subseteq DOMAIN log /\ \A n \in Time : n <= n
    BY DEF LedgerInv, LedgerType, Time
  <1>2. CASE UNCHANGED vars
    BY <1>1, <1>2, KeepLedger DEF vars
  <1>3. CASE Tick
    <2>1. clock' \in Time /\ clock <= clock'
      BY <1>1, <1>3, MaintenanceAssumption DEF Tick, Time
    <2>2. QED
      BY <1>1, <1>3, <2>1, KeepLedger DEF Tick, l0
  <1>4. ASSUME NEW i \in hot \ redacted, redact_payload(i) PROVE LedgerInv'
    <2>1. i \in DOMAIN log
      BY <1>4 DEF LedgerInv, LedgerType
    <2>2. QED
      BY <1>1, <1>4, <2>1, KeepLedger DEF redact_payload
  <1>5. CASE Fold \/ Rebuild \/ RebuildIncremental \/ \E e \in Entity : create_snapshot(e)
    BY <1>1, <1>5, KeepLedger DEF Fold, Rebuild, RebuildIncremental, create_snapshot, l0
  <1>6. QED
    BY <1>2, <1>3, <1>4, <1>5, RecordLedger, ExportLedger, CommitLedger, DiesLedger DEF Next

LEMMA LedgerHolds == Spec => []LedgerInv
  BY InitLedger, NextLedger, PTL DEF Spec

\* Every row in the table is linked to the one before it, or to the newest
\* anchor if there is none.
LEMMA HotLinked ==
  ASSUME LedgerInv, NEW e \in Entity
  PROVE  verify_chain(e)
  <1> USE DEF LedgerInv
  <1> SUFFICES ASSUME NEW i \in Of(e, hot)
               PROVE  LET before == {j \in Of(e, hot) : j < i} IN
                      \/ log[i].prev = LastOf(before)
                      \/ before = {} /\ log[i].prev # 0 /\ log[i].prev = anchors[e] /\ anchors[e] < i
    BY DEF verify_chain, Linked
  <1> DEFINE before == {j \in Of(e, hot) : j < i}
  <1>1. i \in DOMAIN log /\ i \in hot /\ log[i].entity = e /\ hot \subseteq DOMAIN log
    BY DEF Of, LedgerType
  <1>2. before \in SUBSET DOMAIN log /\ before = Before(i) \cap hot /\ Before(i) \in SUBSET DOMAIN log
    BY <1>1 DEF Of, Before
  <1>3. CASE log[i].prev = 0 /\ Before(i) \cap hot = {}
    BY <1>2, <1>3, LastEvent
  <1>4. CASE log[i].prev = LastOf(Before(i))
    <2>1. CASE before # {}
      <3> DEFINE m == LastOf(before)
      <3>1. m \in before /\ \A j \in before : j <= m
        BY <1>2, <2>1, LastEvent
      <3>2. ASSUME NEW j \in Before(i) PROVE j <= m
        <4>1. j \in DOMAIN log /\ m \in DOMAIN log /\ m \in hot /\ log[j].entity = log[m].entity
          BY <1>1, <1>2, <3>1 DEF Before, Of
        <4>2. m < j => j \in before
          BY <1>2, <4>1, <3>2 DEF SuffixInv
        <4>3. QED
          BY <3>1, <4>1, <4>2, Ids
      <3>3. m \in Before(i)
        BY <1>2, <3>1
      <3>4. LastOf(Before(i)) = m
        BY <1>2, <3>2, <3>3, LastEvent
      <3>5. QED
        BY <1>4, <3>4
    <2>2. CASE before = {}
      <3>1. Before(i) = Of(e, Gone)
        <4>1. Before(i) \subseteq Of(e, Gone)
          BY <1>1, <1>2, <2>2 DEF Before, Of, Gone
        <4>2. ASSUME NEW j \in Of(e, Gone) PROVE j < i
          <5>1. j \in DOMAIN log /\ log[j].entity = e /\ j \notin hot
            BY DEF Of, Gone
          <5>2. ~(i < j) /\ i # j
            BY <1>1, <5>1 DEF SuffixInv
          <5>3. QED
            BY <1>1, <5>1, <5>2, Ids
        <4>3. QED
          BY <1>1, <4>1, <4>2 DEF Before, Of, Gone
      <3>2. log[i].prev = anchors[e]
        BY <1>4, <3>1 DEF AnchorInv
      <3>3. CASE Before(i) = {}
        BY <1>2, <1>4, <2>2, <3>3
      <3>4. CASE Before(i) # {}
        <4>1. LastOf(Before(i)) \in Before(i)
          BY <1>2, <3>4, LastEvent
        <4>2. log[i].prev < i /\ log[i].prev \in DOMAIN log
          BY <1>4, <4>1 DEF Before, Of
        <4>3. log[i].prev # 0
          BY <4>2, Ids
        <4>4. QED
          BY <2>2, <3>2, <4>2, <4>3
      <3>5. QED
        BY <3>3, <3>4
    <2>3. QED
      BY <2>1, <2>2
  <1>5. QED
    BY <1>1, <1>3, <1>4 DEF ChainInv

\* core/ledger.py, verify_chain, and the standalone verifier: the table verifies
\* for the program and for an auditor with the anchors, for any number of archive
\* runs, finished or not, and of late events.
THEOREM TableVerifies == Spec => []HotChainVerified
  <1>1. LedgerInv => HotChainVerified
    <2> SUFFICES ASSUME LedgerInv, NEW e \in Entity
                 PROVE  verify_chain(e) /\ verify_exported_rows(e, InTable, anchors[e])
      BY DEF HotChainVerified
    <2>1. verify_chain(e)
      BY HotLinked
    <2>2. hot \subseteq DOMAIN log /\ DOMAIN log \subseteq Id
      BY Ids DEF LedgerInv, LedgerType
    <2>3. \A i \in Id : InTable[i] = IF i \in hot THEN 1 ELSE 0
      BY DEF InTable
    <2>4. {i \in Of(e, DOMAIN log) : InTable[i] > 0} = Of(e, hot)
      BY <2>2, <2>3 DEF Of
    <2>5. \A i \in Of(e, hot) : InTable[i] = 1
      BY <2>2, <2>3 DEF Of
    <2>6. QED
      BY <2>1, <2>4, <2>5 DEF verify_chain, verify_exported_rows
  <1>2. QED
    BY <1>1, LedgerHolds, PTL

\* core/archive.py writes the file before it deletes the rows: an event is in the
\* table or in a file at all times, also while an archive run is under way and
\* after one that died.
THEOREM Kept == Spec => []NothingLost
  <1>1. LedgerInv => NothingLost
    BY DEF LedgerInv, NothingLost, FileInv, Gone
  <1>2. QED
    BY <1>1, LedgerHolds, PTL

\* verify/standalone.py: files and table together are the whole chain of an
\* entity, from its first event on, if no run died and the entity was never
\* archived to the last row.
THEOREM FilesVerify == Spec => []AuditVerifies
  <1>1. LedgerInv => AuditVerifies
    <2> SUFFICES ASSUME LedgerInv, crashes = 0, archiving = NoArchive, NEW e \in Entity, ~Restarted(e)
                 PROVE  verify_exported_rows(e, Everywhere, 0)
      BY DEF AuditVerifies
    <2> DEFINE all == Of(e, DOMAIN log)
    <2>1. all \in SUBSET DOMAIN log /\ DOMAIN log \subseteq Id /\ hot \subseteq DOMAIN log
      BY Ids DEF Of, LedgerInv, LedgerType
    <2>2. ASSUME NEW i \in all PROVE Everywhere[i] = 1
      <3>1. i \in Id /\ i \in DOMAIN log /\ Everywhere[i] = (IF i \in hot THEN 1 ELSE 0) + cold[i]
            /\ cold[i] \in Nat /\ archiving.ids = {}
        BY <2>1 DEF Everywhere, InTable, LedgerInv, LedgerType, NoArchive
      <3>2. CASE i \in hot
        BY <3>1, <3>2 DEF LedgerInv, FileInv, Gone
      <3>3. CASE i \notin hot
        BY <3>1, <3>3 DEF LedgerInv, FileInv, Gone
      <3>4. QED
        BY <3>2, <3>3
    <2>3. ASSUME NEW i \in all PROVE log[i].prev = LastOf({j \in all : j < i})
      <3>1. i \in DOMAIN log /\ Before(i) = {j \in all : j < i} /\ Before(i) \in SUBSET DOMAIN log
        BY <2>1 DEF Before, Of
      <3>2. log[i].prev = 0 => Before(i) = {}
        BY <3>1 DEF Restarted
      <3>3. CASE log[i].prev = 0
        BY <3>1, <3>2, <3>3, LastEvent DEF LedgerInv
      <3>4. CASE log[i].prev # 0
        BY <3>1, <3>4 DEF LedgerInv, ChainInv
      <3>5. QED
        BY <3>3, <3>4
    <2>4. {i \in all : Everywhere[i] > 0} = all
      BY <2>2
    <2> HIDE DEF all
    <2>5. Linked(all, 0)
      BY <2>3 DEF Linked
    <2>6. QED
      BY <2>2, <2>4, <2>5 DEF verify_exported_rows, all
  <1>2. QED
    BY <1>1, LedgerHolds, PTL

-----------------------------------------------------------------------------
(* Rows *)

\* The row after no event, and after one more.
Steps ==
  \A r : /\ Applied(r, {}) = r
         /\ \A S \in SUBSET DOMAIN log : S # {} =>
              Applied(r, S) = apply_event(Applied(r, S \ {LastOf(S)}), LastOf(S))

\* The greatest id of some, as a fold takes it.
LEMMA MaxIsLast ==
  ASSUME NEW n \in Nat, NEW S \in SUBSET (1..n), S # {}
  PROVE  Max(S) = LastOf(S)
  <1>1. LastOf(S) \in S /\ \A i \in S : i <= LastOf(S)
    BY LastIs
  <1>2. Max(S) \in S /\ \A i \in S : i <= Max(S)
    BY <1>1 DEF Max
  <1>3. Max(S) \in 1..n /\ LastOf(S) \in 1..n /\ Max(S) <= LastOf(S) /\ LastOf(S) <= Max(S)
    BY <1>1, <1>2
  <1>4. QED
    BY <1>3

LEMMA ChoosesIds ==
  ASSUME NEW n \in Nat, NEW S \in SUBSET (1..n)
  PROVE  Rows!IsFiniteSet(S) /\ Rows!Chooses(S)
  <1>1. Rows!IsFiniteSet(1..n)
    BY Rows!FS_Interval
  <1>2. Rows!IsFiniteSet(S)
    BY <1>1, Rows!FS_Subset
  <1>3. ASSUME NEW T \in SUBSET S, T # {} PROVE Max(T) \in T
    <2>1. T \in SUBSET (1..n)
      OBVIOUS
    <2>2. QED
      BY <1>3, <2>1, LastIs, MaxIsLast
  <1>4. QED
    BY <1>2, <1>3 DEF Rows!Chooses

LEMMA AppliedIsFold ==
  \A r, S : Applied(r, S) = Rows!Fold(0, r, S)
  BY DEF Applied, Rows!Fold, MapThenFoldSet, Rows!MapThenFoldSet

LEMMA AppliedSteps == LedgerType => Steps
  <1> SUFFICES ASSUME LedgerType, NEW r
               PROVE  /\ Applied(r, {}) = r
                      /\ \A S \in SUBSET DOMAIN log : S # {} =>
                           Applied(r, S) = apply_event(Applied(r, S \ {LastOf(S)}), LastOf(S))
    BY DEF Steps
  <1>1. ASSUME NEW S \in SUBSET DOMAIN log
        PROVE  Applied(r, S) = IF S = {} THEN r ELSE apply_event(Applied(r, S \ {Max(S)}), Max(S))
    <2>1. Len(log) \in Nat /\ S \in SUBSET (1..Len(log))
      BY Ids
    <2>2. Rows!IsFiniteSet(S) /\ Rows!Chooses(S)
      BY <2>1, ChoosesIds
    <2>3. Rows!Fold(0, r, S) = IF S = {} THEN r ELSE apply_event(Rows!Fold(0, r, S \ {Max(S)}), Max(S))
      BY <2>2, Rows!FoldUnfold
    <2>4. QED
      BY <2>3, AppliedIsFold
  <1>2. ASSUME NEW S \in SUBSET DOMAIN log, S # {} PROVE Max(S) = LastOf(S)
    BY <1>2, Ids, MaxIsLast
  <1>3. QED
    BY <1>1, <1>2

\* TRANSITIONS leads from a status to a status.
LEMMA NextStatus ==
  ASSUME NEW status \in VALID_STATUSES, NEW type
  PROVE  TRANSITIONS(status, type) \in VALID_STATUSES
  <1>1. CASE \E next \in VALID_STATUSES : type \in EventsLeadingTo(next)
    <2> DEFINE chosen == CHOOSE next \in VALID_STATUSES : type \in EventsLeadingTo(next)
    <2>1. chosen \in VALID_STATUSES
      BY <1>1
    <2>2. QED
      BY <1>1, <2>1 DEF TRANSITIONS
  <1>2. CASE ~\E next \in VALID_STATUSES : type \in EventsLeadingTo(next)
    BY <1>2 DEF TRANSITIONS
  <1>3. QED
    BY <1>1, <1>2

\* One event.
LEMMA ApplyOne ==
  ASSUME LedgerType, NEW r \in Columns, r.status \in VALID_STATUSES, NEW i \in DOMAIN log
  PROVE  LET q == apply_event(r, i) IN
         /\ q \in Columns /\ q.status \in VALID_STATUSES
         /\ q.status = TRANSITIONS(r.status, log[i].type)
         /\ q.reason = IF log[i].type = "PaymentFailed" /\ i \notin redacted THEN i ELSE r.reason
         /\ q.last_event_id = i /\ q.missed = r.missed
  <1>1. TRANSITIONS(r.status, log[i].type) \in VALID_STATUSES
    BY NextStatus
  <1>2. i \in Id
    BY Ids
  <1>3. QED
    BY <1>1, <1>2 DEF apply_event, Columns

\* Some events.
LEMMA AppliedType ==
  ASSUME LedgerType, NEW r \in Columns, r.status \in VALID_STATUSES, NEW S \in SUBSET DOMAIN log
  PROVE  /\ Applied(r, S) \in Columns /\ Applied(r, S).status \in VALID_STATUSES
         /\ Applied(r, S).missed = r.missed
         /\ Applied(r, S).last_event_id = IF S = {} THEN r.last_event_id ELSE LastOf(S)
  <1> DEFINE P(T) == /\ Applied(r, T) \in Columns /\ Applied(r, T).status \in VALID_STATUSES
                     /\ Applied(r, T).missed = r.missed
                     /\ Applied(r, T).last_event_id = IF T = {} THEN r.last_event_id ELSE LastOf(T)
             W == {T \in SUBSET S : ~P(T)}
  <1> SUFFICES ASSUME W # {} PROVE FALSE
    OBVIOUS
  <1>1. Steps
    BY AppliedSteps
  <1>2. W \in SUBSET SUBSET S /\ Rows!IsFiniteSet(S)
    BY Ids, ChoosesIds
  <1> HIDE DEF W
  <1>3. PICK T \in W : \A U \in W : U \subseteq T => U = T
    BY <1>2, Rows!MinimalSubset
  <1>4. T \in SUBSET S /\ ~P(T)
    BY DEF W
  <1>5. T # {}
    BY <1>1, <1>4 DEF Steps
  <1> DEFINE m == LastOf(T)
             R == T \ {m}
  <1>6. m \in T
    BY <1>4, <1>5, LastEvent
  <1>7. P(R)
    BY <1>3, <1>4, <1>6 DEF W
  <1>8. Applied(r, T) = apply_event(Applied(r, R), m)
    BY <1>1, <1>4, <1>5 DEF Steps
  <1> HIDE DEF m, R
  <1>9. P(T)
    <2>1. Applied(r, R) \in Columns /\ Applied(r, R).status \in VALID_STATUSES
          /\ Applied(r, R).missed = r.missed /\ m \in DOMAIN log
      BY <1>4, <1>6, <1>7
    <2>2. QED
      BY <1>5, <1>8, <2>1, ApplyOne DEF m
  <1>10. QED
    BY <1>4, <1>9

\* The status and the reason a fold arrives at depend on those it starts from.
LEMMA AppliedAgree ==
  ASSUME LedgerType, NEW r \in Columns, r.status \in VALID_STATUSES,
         NEW q \in Columns, q.status = r.status, NEW S \in SUBSET DOMAIN log
  PROVE  /\ Applied(q, S).status = Applied(r, S).status
         /\ q.reason = r.reason => Applied(q, S).reason = Applied(r, S).reason
  <1> DEFINE P(T) == /\ Applied(q, T).status = Applied(r, T).status
                     /\ q.reason = r.reason => Applied(q, T).reason = Applied(r, T).reason
             W == {T \in SUBSET S : ~P(T)}
  <1> SUFFICES ASSUME W # {} PROVE FALSE
    OBVIOUS
  <1>1. Steps
    BY AppliedSteps
  <1>2. W \in SUBSET SUBSET S /\ Rows!IsFiniteSet(S)
    BY Ids, ChoosesIds
  <1> HIDE DEF W
  <1>3. PICK T \in W : \A U \in W : U \subseteq T => U = T
    BY <1>2, Rows!MinimalSubset
  <1>4. T \in SUBSET S /\ ~P(T)
    BY DEF W
  <1>5. T # {}
    BY <1>1, <1>4 DEF Steps
  <1> DEFINE m == LastOf(T)
             R == T \ {m}
  <1>6. m \in T
    BY <1>4, <1>5, LastEvent
  <1>7. P(R)
    BY <1>3, <1>4, <1>6 DEF W
  <1>8. /\ Applied(r, T) = apply_event(Applied(r, R), m)
        /\ Applied(q, T) = apply_event(Applied(q, R), m)
    BY <1>1, <1>4, <1>5 DEF Steps
  <1>9. /\ Applied(r, R) \in Columns /\ Applied(r, R).status \in VALID_STATUSES
        /\ Applied(q, R) \in Columns /\ Applied(q, R).status \in VALID_STATUSES
        /\ m \in DOMAIN log
    BY <1>4, <1>6, AppliedType
  <1> HIDE DEF m, R
  <1>10. P(T)
    BY <1>7, <1>8, <1>9, ApplyOne
  <1>11. QED
    BY <1>4, <1>10

\* What recorded events say does not change, but for redacted payloads.
LEMMA AppliedLater ==
  ASSUME LedgerType, LedgerType', DOMAIN log \subseteq DOMAIN log',
         \A i \in DOMAIN log : log'[i] = log[i], redacted \subseteq redacted',
         NEW r \in Columns, r.status \in VALID_STATUSES, NEW S \in SUBSET DOMAIN log
  PROVE  /\ Applied(r, S)'.status = Applied(r, S).status
         /\ S \cap redacted' = {} => Applied(r, S)'.reason = Applied(r, S).reason
  <1> DEFINE P(T) == /\ Applied(r, T)' \in Columns /\ Applied(r, T)'.status = Applied(r, T).status
                     /\ T \cap redacted' = {} => Applied(r, T)'.reason = Applied(r, T).reason
             W == {T \in SUBSET S : ~P(T)}
  <1> SUFFICES ASSUME W # {} PROVE FALSE
    OBVIOUS
  <1>1. Steps
    BY AppliedSteps
  <1>2. Steps'
    BY AppliedSteps, PTL
  <1>3. W \in SUBSET SUBSET S /\ Rows!IsFiniteSet(S)
    BY Ids, ChoosesIds
  <1> HIDE DEF W
  <1>4. PICK T \in W : \A U \in W : U \subseteq T => U = T
    BY <1>3, Rows!MinimalSubset
  <1>5. T \in SUBSET S /\ ~P(T)
    BY DEF W
  <1>6. T # {}
    BY <1>1, <1>2, <1>5 DEF Steps
  <1> DEFINE m == LastOf(T)
             R == T \ {m}
  <1>7. m \in T
    BY <1>5, <1>6, LastEvent
  <1>8. P(R)
    BY <1>4, <1>5, <1>7 DEF W
  <1>9. Applied(r, T) = apply_event(Applied(r, R), m)
    BY <1>1, <1>5, <1>6 DEF Steps
  <1>10. Applied(r, T)' = apply_event(Applied(r, R), m)'
    BY <1>2, <1>5, <1>6 DEF Steps
  <1>11. /\ Applied(r, R) \in Columns /\ Applied(r, R).status \in VALID_STATUSES
         /\ m \in DOMAIN log
    BY <1>5, <1>7, AppliedType
  <1> HIDE DEF m, R
  <1>12. P(T)
    <2>1. PICK a : a = Applied(r, R)
      OBVIOUS
    <2>2. PICK b : b = Applied(r, R)'
      OBVIOUS
    <2>3. /\ a \in Columns /\ a.status \in VALID_STATUSES /\ b \in Columns /\ b.status = a.status
          /\ T \cap redacted' = {} => b.reason = a.reason
      BY <1>8, <1>11, <2>1, <2>2 DEF R
    <2>4. Applied(r, T) = apply_event(a, m) /\ Applied(r, T)' = apply_event(b, m)'
      BY <1>9, <1>10, <2>1, <2>2 DEF apply_event
    <2>5. apply_event(a, m) \in Columns /\ apply_event(b, m)' \in Columns
      <3>1. TRANSITIONS(a.status, log[m].type) \in VALID_STATUSES /\ m \in Id
        BY <1>11, <2>3, NextStatus, Ids
      <3>2. log'[m] = log[m]
        BY <1>11
      <3>3. QED
        BY <2>3, <3>1, <3>2 DEF apply_event, Columns
    <2>6. apply_event(b, m)'.status = apply_event(a, m).status
      BY <1>11, <2>3 DEF apply_event, Columns
    <2>7. T \cap redacted' = {} => apply_event(b, m)'.reason = apply_event(a, m).reason
      BY <1>7, <1>11, <2>3 DEF apply_event, Columns
    <2>8. QED
      BY <2>4, <2>5, <2>6, <2>7
  <1>13. QED
    BY <1>5, <1>12

UpTo(e, n) == {i \in Of(e, DOMAIN log) : i <= n}

\* A row says what the events up to its watermark say.
RowTrue(e, r) ==
  LET full == Applied(Created, UpTo(e, r.last_event_id)) IN
  r.missed = {} =>
    /\ r.status = full.status
    /\ UpTo(e, r.last_event_id) \cap redacted = {} => r.reason = full.reason

\* A row, or the one a fold of the entity starts from if there is none.
RowInv(e, r) ==
  /\ r \in Columns /\ r.status \in VALID_STATUSES
  /\ r.last_event_id \in Of(e, DOMAIN log) \/ (r = Created /\ Of(e, hot) # {})
  /\ r.missed \subseteq Of(e, Gone)
  /\ RowTrue(e, r)

Stored(e, r) == r = Absent \/ (RowInv(e, r) /\ r.last_event_id \in Of(e, DOMAIN log))

RowsInv ==
  /\ state \in [Entity -> Columns] /\ snap \in [Entity -> Columns]
  /\ \A e \in Entity : Stored(e, state[e]) /\ Stored(e, snap[e]) /\ snap[e].card = 0

IInv == LedgerInv /\ RowsInv

LEMMA Constructed ==
  /\ Created \in Columns /\ Created.status \in VALID_STATUSES /\ Created.last_event_id = 0
  /\ Created.missed = {} /\ Absent \in Columns /\ Absent.status = "none" /\ Absent.card = 0
  /\ Absent.last_event_id = 0
  BY DEF Created, Absent, Columns, VALID_STATUSES

LEMMA StoredStatus ==
  ASSUME NEW e, NEW r, Stored(e, r)
  PROVE  r # Absent <=> r.status \in VALID_STATUSES
  BY Constructed DEF Stored, RowInv, VALID_STATUSES

\* An entity with an event in the table has a row to start from.
LEMMA NewRow ==
  ASSUME LedgerType, NEW e \in Entity, Of(e, hot) # {}
  PROVE  RowInv(e, Created)
  <1>1. UpTo(e, 0) = {}
    BY Ids DEF UpTo, Of
  <1>2. Applied(Created, {}) = Created
    BY AppliedSteps DEF Steps
  <1>3. RowTrue(e, Created)
    BY <1>1, <1>2, Constructed DEF RowTrue
  <1>4. QED
    BY <1>3, Constructed DEF RowInv

\* A row that is brought up to date stays true.
LEMMA FoldedTrue ==
  ASSUME LedgerInv, NEW e \in Entity, NEW r, RowInv(e, r)
  PROVE  /\ RowInv(e, Folded(e, r)) /\ Folded(e, r).last_event_id \in Of(e, DOMAIN log)
         /\ Past(Of(e, hot), r.last_event_id) # {} =>
              Folded(e, r).last_event_id = LastOf(Past(Of(e, hot), r.last_event_id))
  <1> DEFINE n == r.last_event_id
             new == Past(Of(e, hot), n)
             gone == {i \in Of(e, DOMAIN log \ hot) : n < i /\ i < LastOf(new)}
             q == Applied(r, new)
  <1>1. LedgerType /\ hot \subseteq DOMAIN log /\ DOMAIN log \subseteq Nat
    BY Ids DEF LedgerInv, LedgerType
  <1>2. r \in Columns /\ r.status \in VALID_STATUSES /\ n \in Nat
    BY MaintenanceAssumption DEF RowInv, Columns, Id
  <1>3. CASE new = {}
    <2>1. Folded(e, r) = r
      BY <1>3 DEF Folded
    <2>2. r.last_event_id \in Of(e, DOMAIN log)
      <3>1. CASE r = Created /\ Of(e, hot) # {}
        <4>1. \A i \in Of(e, hot) : i > 0
          BY <1>1, Ids DEF Of
        <4>2. n = 0
          BY <3>1, Constructed
        <4>3. new # {}
          BY <3>1, <4>1, <4>2 DEF Past
        <4>4. QED
          BY <1>3, <4>3
      <3>2. QED
        BY <3>1 DEF RowInv
    <2>3. QED
      BY <1>3, <2>1, <2>2
  <1>4. CASE new # {}
    <2>1. new \in SUBSET DOMAIN log /\ new \subseteq Of(e, hot)
      BY <1>1 DEF Past, Of
    <2>2. Folded(e, r) = [q EXCEPT !.missed = r.missed \cup gone]
      BY <1>4 DEF Folded
    <2> DEFINE m == LastOf(new)
    <2>3. m \in new /\ \A i \in new : i <= m
      BY <1>1, <1>4, <2>1, LastEvent
    <2>4. m \in Of(e, DOMAIN log) /\ m > n /\ m \in hot
      BY <1>1, <2>3 DEF Past, Of
    <2>5. /\ q \in Columns /\ q.status \in VALID_STATUSES /\ q.missed = r.missed
          /\ q.last_event_id = m
      BY <1>1, <1>2, <1>4, <2>1, AppliedType
    <2> HIDE DEF q, m
    <2>6. gone \subseteq Of(e, Gone) /\ r.missed \subseteq Of(e, Gone) /\ gone \subseteq Id
      BY <1>1, Ids DEF Gone, Of, RowInv
    <2> DEFINE f == Folded(e, r)
    <2>7. /\ f \in Columns /\ f.status = q.status /\ f.reason = q.reason
          /\ f.last_event_id = m /\ f.missed = r.missed \cup gone
      BY <1>2, <2>2, <2>5, <2>6 DEF Columns
    <2> HIDE DEF f, gone
    <2>8. RowTrue(e, f)
      <3> SUFFICES ASSUME f.missed = {}
                   PROVE  LET full == Applied(Created, UpTo(e, m)) IN
                          /\ f.status = full.status
                          /\ UpTo(e, m) \cap redacted = {} => f.reason = full.reason
        BY <2>7 DEF RowTrue
      <3> DEFINE A == UpTo(e, n)
                 p == Applied(Created, A)
      <3>1. r.missed = {} /\ gone = {}
        BY <2>7
      <3>2. UpTo(e, m) = A \cup new
        <4>1. A \cup new \subseteq UpTo(e, m)
          BY <1>1, <1>2, <2>1, <2>3, <2>4 DEF UpTo, Of
        <4>2. ASSUME NEW i \in UpTo(e, m), i \notin A PROVE i \in new
          <5>1. i \in Of(e, DOMAIN log) /\ i \in Nat /\ i <= m /\ n < i /\ i \in DOMAIN log
            BY <1>1, <1>2, <4>2 DEF UpTo, Of
          <5>2. i = m \/ i < m
            BY <1>1, <2>4, <5>1 DEF Of
          <5>3. i \in hot
            BY <2>4, <3>1, <5>1, <5>2 DEF gone, Of, m
          <5>4. QED
            BY <5>1, <5>3 DEF Past, Of
        <4>3. QED
          BY <4>1, <4>2
      <3>3. A \in SUBSET DOMAIN log
        BY DEF UpTo, Of
      <3>4. Applied(Created, A \cup new) = Applied(p, new)
        <4>1. /\ Len(log) \in Nat /\ A \in SUBSET (1..Len(log)) /\ new \in SUBSET (1..Len(log))
              /\ A \cup new \in SUBSET (1..Len(log))
          BY <1>1, <2>1, <3>3, Ids
        <4>2. /\ Rows!IsFiniteSet(A) /\ Rows!IsFiniteSet(new) /\ Rows!Chooses(A \cup new)
          BY <4>1, ChoosesIds
        <4>3. ASSUME NEW T \in SUBSET new, T # {} PROVE Max(A \cup T) = Max(T) /\ Max(T) \notin A
          <5>1. A \cup T \in SUBSET (1..Len(log)) /\ T \in SUBSET (1..Len(log))
            BY <4>1
          <5>2. LastOf(T) \in T /\ \A i \in T : i <= LastOf(T)
            BY <4>1, <4>3, <5>1, LastIs
          <5>3. LastOf(T) > n /\ LastOf(T) \in Nat
            BY <1>1, <2>1, <5>2 DEF Past
          <5>4. \A i \in A : i <= n /\ i \in Nat
            BY <1>1, <3>3 DEF UpTo
          <5>5. \A i \in A \cup T : i <= LastOf(T)
            BY <1>2, <5>2, <5>3, <5>4
          <5>6. LastOf(A \cup T) = LastOf(T)
            BY <4>1, <5>1, <5>2, <5>5, LastIs
          <5>7. Max(T) = LastOf(T) /\ Max(A \cup T) = LastOf(A \cup T)
            BY <4>1, <4>3, <5>1, MaxIsLast
          <5>8. LastOf(T) \notin A
            BY <1>2, <5>3, <5>4
          <5>9. QED
            BY <5>6, <5>7, <5>8
        <4> HIDE DEF A, new
        <4>4. Rows!Fold(0, Created, A \cup new) = Rows!Fold(0, Rows!Fold(0, Created, A), new)
          BY <4>2, <4>3, Rows!FoldSplit
        <4>5. QED
          BY <4>4, AppliedIsFold
      <3>5. p \in Columns /\ p.status \in VALID_STATUSES
        BY <1>1, <3>3, AppliedType, Constructed
      <3>6. r.status = p.status /\ (A \cap redacted = {} => r.reason = p.reason)
        BY <3>1 DEF RowInv, RowTrue
      <3>7. /\ q.status = Applied(p, new).status
            /\ r.reason = p.reason => q.reason = Applied(p, new).reason
        BY <1>1, <1>2, <2>1, <3>5, <3>6, AppliedAgree DEF q
      <3>8. QED
        BY <2>7, <3>2, <3>4, <3>6, <3>7
    <2>9. f.status \in VALID_STATUSES
      BY <2>5, <2>7
    <2>10. QED
      BY <1>4, <2>4, <2>6, <2>7, <2>8, <2>9 DEF RowInv, f, m
  <1>5. QED
    BY <1>3, <1>4

\* The ledger grows, is archived and redacted under a row.
LEMMA StoredLater ==
  ASSUME LedgerInv, LedgerInv', DOMAIN log \subseteq DOMAIN log',
         \A i \in DOMAIN log : log'[i] = log[i],
         \A i \in DOMAIN log' : i \in DOMAIN log \/ i > Len(log),
         redacted \subseteq redacted', Gone \subseteq Gone',
         NEW e \in Entity, NEW r, Stored(e, r)
  PROVE  Stored(e, r)'
  <1> SUFFICES ASSUME r # Absent PROVE RowInv(e, r)' /\ r.last_event_id \in Of(e, DOMAIN log)'
    BY DEF Stored
  <1> DEFINE n == r.last_event_id
  <1>1. /\ RowInv(e, r) /\ n \in Of(e, DOMAIN log)
    BY DEF Stored
  <1>2. LedgerType /\ LedgerType'
    BY DEF LedgerInv
  <1>3. Of(e, DOMAIN log) \subseteq Of(e, DOMAIN log)' /\ Of(e, Gone) \subseteq Of(e, Gone)'
    BY DEF Of, Gone
  <1>4. n \in DOMAIN log /\ n <= Len(log) /\ n \in Nat /\ Len(log) \in Nat
    BY <1>1, <1>2, Ids DEF Of
  <1>5. UpTo(e, n)' = UpTo(e, n)
    <2>1. \A i \in DOMAIN log' : i <= n => i \in DOMAIN log
      <3>1. \A i \in DOMAIN log' : i \in Nat
        <4>1. Len(log') \in Nat /\ DOMAIN log' = 1..Len(log')
          BY <1>2 DEF LedgerType
        <4>2. QED
          BY <4>1
      <3>2. QED
        BY <1>4, <3>1
    <2>2. QED
      BY <2>1 DEF UpTo, Of
  <1>6. UpTo(e, n) \in SUBSET DOMAIN log
    BY DEF UpTo, Of
  <1> DEFINE A == UpTo(e, n)
  <1>7. /\ Applied(Created, UpTo(e, n))'.status = Applied(Created, UpTo(e, n)).status
        /\ UpTo(e, n)' \cap redacted' = {} =>
             Applied(Created, UpTo(e, n))'.reason = Applied(Created, UpTo(e, n)).reason
    <2>1. PICK S : S = UpTo(e, n)
      OBVIOUS
    <2>2. Applied(Created, S)'.status = Applied(Created, S).status
          /\ (S \cap redacted' = {} => Applied(Created, S)'.reason = Applied(Created, S).reason)
      BY <1>2, <1>6, <2>1, AppliedLater, Constructed
    <2>3. Applied(Created, UpTo(e, n))' = Applied(Created, S)'
      BY <1>5, <2>1 DEF Applied
    <2>4. QED
      BY <1>5, <2>1, <2>2, <2>3
  <1>8. RowTrue(e, r)'
    BY <1>1, <1>5, <1>7 DEF RowInv, RowTrue
  <1>9. QED
    BY <1>1, <1>3, <1>8 DEF RowInv

\* Steps keep what was recorded, redacted and archived.
LEMMA Keeps ==
  ASSUME LedgerInv, [Next]_vars
  PROVE  /\ DOMAIN log \subseteq DOMAIN log' /\ \A i \in DOMAIN log : log'[i] = log[i]
         /\ \A i \in DOMAIN log' : i \in DOMAIN log \/ i > Len(log)
         /\ redacted \subseteq redacted' /\ Gone \subseteq Gone'
  <1>1. hot \subseteq DOMAIN log /\ Len(log) \in Nat /\ DOMAIN log = 1..Len(log)
    BY Ids DEF LedgerInv, LedgerType
  <1>2. ASSUME NEW e \in Entity, NEW t \in EventType, NEW o \in {0, clock}, Record(e, t, o)
        PROVE  /\ DOMAIN log \subseteq DOMAIN log' /\ \A i \in DOMAIN log : log'[i] = log[i]
               /\ \A i \in DOMAIN log' : i \in DOMAIN log \/ i > Len(log)
               /\ redacted \subseteq redacted' /\ Gone \subseteq Gone'
    <2> DEFINE x == [entity |-> e, type |-> t, recorded |-> clock, occurred |-> o,
                     prev |-> LastOf(Of(e, hot))]
    <2>1. log' = Append(log, x) /\ hot' = hot \cup {Len(log) + 1} /\ redacted' = redacted
      BY <1>2 DEF Record
    <2> HIDE DEF x
    <2>2. DOMAIN log' = 1..Len(log) + 1 /\ \A i \in DOMAIN log : log'[i] = log[i]
      BY <1>1, <2>1 DEF LedgerInv, LedgerType
    <2>3. QED
      BY <1>1, <2>1, <2>2 DEF Gone
  <1>3. ASSUME log' = log, hot' \subseteq hot, redacted \subseteq redacted'
        PROVE  /\ DOMAIN log \subseteq DOMAIN log' /\ \A i \in DOMAIN log : log'[i] = log[i]
               /\ \A i \in DOMAIN log' : i \in DOMAIN log \/ i > Len(log)
               /\ redacted \subseteq redacted' /\ Gone \subseteq Gone'
    BY <1>3 DEF Gone
  <1>4. CASE UNCHANGED vars
    BY <1>3, <1>4 DEF vars
  <1>5. CASE ArchiveExport \/ ArchiveCommit \/ ArchiveDies
    BY <1>3, <1>5 DEF ArchiveExport, ArchiveCommit, ArchiveDies
  <1>6. CASE Tick \/ Fold \/ Rebuild \/ RebuildIncremental
    BY <1>3, <1>6 DEF Tick, Fold, Rebuild, RebuildIncremental, l0
  <1>7. ASSUME NEW i \in hot \ redacted, redact_payload(i)
        PROVE  log' = log /\ hot' \subseteq hot /\ redacted \subseteq redacted'
    BY <1>7 DEF redact_payload
  <1>8. ASSUME NEW e \in Entity, create_snapshot(e)
        PROVE  log' = log /\ hot' \subseteq hot /\ redacted \subseteq redacted'
    BY <1>8 DEF create_snapshot, l0
  <1>9. QED
    BY <1>2, <1>3, <1>4, <1>5, <1>6, <1>7, <1>8 DEF Next

LEMMA FoldEventsStored ==
  ASSUME LedgerInv, NEW rows \in [Entity -> Columns], \A e \in Entity : Stored(e, rows[e]),
         NEW e \in Entity
  PROVE  Stored(e, FoldEvents(rows)[e]) /\ FoldEvents(rows)[e] \in Columns
  <1>1. CASE Of(e, hot) = {}
    BY <1>1 DEF FoldEvents
  <1>2. CASE Of(e, hot) # {}
    <2> DEFINE r == IF rows[e] = Absent THEN Created ELSE rows[e]
    <2>1. RowInv(e, r)
      BY <1>2, NewRow DEF Stored, LedgerInv
    <2>2. FoldEvents(rows)[e] = Folded(e, r)
      BY <1>2 DEF FoldEvents
    <2> HIDE DEF r
    <2>3. QED
      BY <2>1, <2>2, FoldedTrue DEF Stored, RowInv
  <1>3. QED
    BY <1>1, <1>2

LEMMA IncrementalStored ==
  ASSUME IInv, RebuildIncremental, NEW e \in Entity
  PROVE  Stored(e, state'[e]) /\ state'[e] \in Columns
  <1>1. state'[e] = IF snap[e] # Absent THEN Folded(e, snap[e])
                    ELSE IF Of(e, hot) # {} THEN Folded(e, Created) ELSE Absent
    BY DEF RebuildIncremental
  <1>2. CASE snap[e] # Absent
    <2>1. RowInv(e, snap[e])
      BY <1>2 DEF IInv, RowsInv, Stored
    <2>2. QED
      BY <1>1, <1>2, <2>1, FoldedTrue DEF Stored, RowInv, IInv
  <1>3. CASE snap[e] = Absent /\ Of(e, hot) # {}
    <2>1. RowInv(e, Created)
      BY <1>3, NewRow DEF IInv, LedgerInv
    <2>2. QED
      BY <1>1, <1>3, <2>1, FoldedTrue DEF Stored, RowInv, IInv
  <1>4. CASE snap[e] = Absent /\ Of(e, hot) = {}
    BY <1>1, <1>4, Constructed DEF Stored
  <1>5. QED
    BY <1>2, <1>3, <1>4

LEMMA SnapshotStored ==
  ASSUME IInv, NEW e \in Entity, state[e] # Absent
  PROVE  Stored(e, Snapshot(e)) /\ Snapshot(e) \in Columns /\ Snapshot(e).card = 0
  <1> DEFINE r == state[e]
             q == Snapshot(e)
  <1>1. r \in Columns /\ RowInv(e, r) /\ r.last_event_id \in Of(e, DOMAIN log)
    BY DEF IInv, RowsInv, Stored
  <1>2. /\ q \in Columns /\ q.card = 0 /\ q.status = r.status /\ q.reason = r.reason
        /\ q.last_event_id = r.last_event_id /\ q.missed = r.missed
    BY <1>1 DEF Snapshot, Columns
  <1> HIDE DEF q
  <1>3. RowTrue(e, q)
    BY <1>1, <1>2 DEF RowInv, RowTrue
  <1>4. QED
    BY <1>1, <1>2, <1>3 DEF Stored, RowInv, q

LEMMA NextRows == IInv /\ [Next]_vars => RowsInv'
  <1> SUFFICES ASSUME IInv, [Next]_vars PROVE RowsInv'
    OBVIOUS
  <1> USE DEF IInv
  <1>1. LedgerInv'
    BY NextLedger
  <1>2. ASSUME NEW e \in Entity, NEW r, Stored(e, r) PROVE Stored(e, r)'
    BY <1>1, <1>2, Keeps, StoredLater
  <1>3. ASSUME state' \in [Entity -> Columns], snap' \in [Entity -> Columns],
               \A e \in Entity : Stored(e, state'[e]) /\ Stored(e, snap'[e]) /\ snap'[e].card = 0
        PROVE  RowsInv'
    <2>1. ASSUME NEW e \in Entity PROVE Stored(e, state[e])' /\ Stored(e, snap[e])'
      <3>1. PICK r : r = state'[e]
        OBVIOUS
      <3>2. PICK q : q = snap'[e]
        OBVIOUS
      <3>3. Stored(e, r)' /\ Stored(e, q)'
        BY <1>2, <1>3, <3>1, <3>2
      <3>4. QED
        BY <3>1, <3>2, <3>3 DEF Stored, RowInv, RowTrue
    <2>2. QED
      BY <1>3, <2>1 DEF RowsInv
  <1>4. CASE UNCHANGED <<state, snap>>
    BY <1>3, <1>4 DEF RowsInv
  <1>5. CASE Fold
    <2>1. state' = FoldEvents(state) /\ snap' = snap
      BY <1>5 DEF Fold
    <2>2. \A e \in Entity : Stored(e, state'[e]) /\ state'[e] \in Columns
      BY <2>1, FoldEventsStored DEF RowsInv
    <2>3. state' \in [Entity -> Columns]
      BY <2>1, <2>2 DEF FoldEvents
    <2>4. QED
      BY <1>3, <2>1, <2>2, <2>3 DEF RowsInv
  <1>6. CASE Rebuild
    <2> DEFINE none == [e \in Entity |-> Absent]
    <2>1. state' = FoldEvents(none) /\ snap' = snap
      BY <1>6 DEF Rebuild
    <2>2. none \in [Entity -> Columns] /\ \A e \in Entity : Stored(e, none[e])
      BY Constructed DEF Stored
    <2>3. \A e \in Entity : Stored(e, state'[e]) /\ state'[e] \in Columns
      BY <2>1, <2>2, FoldEventsStored
    <2>4. state' \in [Entity -> Columns]
      BY <2>1, <2>3 DEF FoldEvents
    <2>5. QED
      BY <1>3, <2>1, <2>3, <2>4 DEF RowsInv
  <1>7. CASE RebuildIncremental
    <2>1. snap' = snap /\ state' = [e \in Entity |-> state'[e]]
      BY <1>7 DEF RebuildIncremental
    <2>2. \A e \in Entity : Stored(e, state'[e]) /\ state'[e] \in Columns
      BY <1>7, IncrementalStored
    <2>3. state' \in [Entity -> Columns]
      BY <2>1, <2>2
    <2>4. QED
      BY <1>3, <2>1, <2>2, <2>3 DEF RowsInv
  <1>8. ASSUME NEW e \in Entity, create_snapshot(e) PROVE RowsInv'
    <2>1. state' = state /\ snap' = [snap EXCEPT ![e] = Snapshot(e)] /\ state[e] # Absent
      BY <1>8 DEF create_snapshot
    <2>2. Stored(e, Snapshot(e)) /\ Snapshot(e) \in Columns /\ Snapshot(e).card = 0
      BY <2>1, SnapshotStored
    <2>3. QED
      BY <1>3, <2>1, <2>2 DEF RowsInv
  <1>9. CASE UNCHANGED vars
    BY <1>4, <1>9 DEF vars
  <1>10. CASE Tick \/ ArchiveExport \/ ArchiveCommit \/ ArchiveDies
    BY <1>4, <1>10 DEF Tick, ArchiveExport, ArchiveCommit, ArchiveDies, l1
  <1>11. ASSUME NEW e \in Entity, NEW t \in EventType, NEW o \in {0, clock}, Record(e, t, o)
         PROVE  RowsInv'
    BY <1>4, <1>11 DEF Record, l1
  <1>12. ASSUME NEW i \in hot \ redacted, redact_payload(i) PROVE RowsInv'
    BY <1>4, <1>12 DEF redact_payload, l1
  <1>13. QED
    BY <1>5, <1>6, <1>7, <1>8, <1>9, <1>10, <1>11, <1>12 DEF Next

\* core/archive.py, core/projection.py and core/snapshot.py together: what the
\* table, the files, the anchors and the rows hold fits, after every step.
THEOREM Invariance == Spec => []IInv
  <1>1. Init => IInv
    <2> SUFFICES ASSUME Init PROVE IInv
      OBVIOUS
    <2>1. LedgerInv
      BY InitLedger
    <2>2. RowsInv
      BY Constructed DEF Init, RowsInv, Stored
    <2>3. QED
      BY <2>1, <2>2 DEF IInv
  <1>2. IInv /\ [Next]_vars => IInv'
    BY NextLedger, NextRows DEF IInv
  <1>3. QED
    BY <1>1, <1>2, PTL DEF Spec

\* Event log, files, anchors and rows keep their types; an event is exported at most once more often
\* than runs have died.
THEOREM Typing == Spec => []TypeInvariant
  <1>1. IInv => TypeInvariant
    <2> SUFFICES ASSUME IInv PROVE TypeInvariant
      OBVIOUS
    <2> USE DEF IInv, LedgerInv
    <2>1. LedgerType
      OBVIOUS
    <2>2. cold \in [Id -> 0..1 + MaxRare]
      <3>1. \A i \in Id : cold[i] \in Nat /\ cold[i] <= crashes + 1
        <4>1. crashes \in Nat
          BY DEF LedgerType
        <4>2. QED
          BY <2>1, <4>1 DEF FileInv, LedgerType
      <3>2. \A i \in Id : cold[i] \in 0..1 + MaxRare
        BY <2>1, <3>1, MaintenanceAssumption DEF LedgerType
      <3>3. QED
        BY <2>1, <3>2 DEF LedgerType
    <2>3. ASSUME NEW e \in Entity PROVE state[e].last_event_id <= Len(log) /\ snap[e].card = 0
      <3>1. state[e] = Absent \/ state[e].last_event_id \in 1..Len(log)
        BY <2>1, Ids DEF RowsInv, Stored, Of
      <3>2. QED
        BY <2>1, <3>1, Ids, Constructed DEF RowsInv
    <2>4. QED
      BY <2>1, <2>2, <2>3 DEF TypeInvariant, LedgerType, RowsInv, Events
  <1>2. QED
    BY <1>1, Invariance, PTL

\* core/projection.py: a row for which no archived event was missing says what all events up to its
\* watermark say, whether it was folded, rebuilt or continued from a snapshot.
THEOREM RowsAreTrue == Spec => []RowsTrue
  <1>1. IInv => RowsTrue
    BY DEF IInv, RowsInv, Stored, RowInv, RowTrue, UpTo, RowsTrue
  <1>2. QED
    BY <1>1, Invariance, PTL

LEMMA StepExplained ==
  IInv /\ [Next]_vars =>
    [Rebuild => \A e \in Mismatches(state, state') :
       \/ Past(Of(e, hot), state[e].last_event_id) # {}
       \/ Of(e, DOMAIN log \ hot) # {}
       \/ Of(e, redacted) # {}]_vars
  <1> SUFFICES ASSUME IInv, Rebuild, NEW e \in Entity, e \in Mismatches(state, state'),
                      Past(Of(e, hot), state[e].last_event_id) = {},
                      Of(e, DOMAIN log \ hot) = {}, Of(e, redacted) = {}
               PROVE  FALSE
    BY DEF Mismatches
  <1> DEFINE none == [x \in Entity |-> Absent]
             n == state[e].last_event_id
  <1>1. /\ LedgerInv /\ LedgerType /\ Stored(e, state[e]) /\ hot \subseteq DOMAIN log
        /\ state[e] \in Columns
    BY DEF IInv, LedgerInv, LedgerType, RowsInv
  <1>2. state'[e] = IF Of(e, hot) = {} THEN Absent ELSE Folded(e, Created)
    <2>1. state' = FoldEvents(none)
      BY DEF Rebuild
    <2>2. QED
      BY <2>1 DEF FoldEvents
  <1>3. Of(e, DOMAIN log) = Of(e, hot)
    BY <1>1 DEF Of
  <1>4. Past(Of(e, hot), 0) = Of(e, hot)
    BY <1>1, Ids DEF Past, Of
  <1>5. CASE state[e] = Absent
    <2>1. Of(e, hot) = {}
      BY <1>4, <1>5, Constructed
    <2>2. QED
      BY <1>2, <1>5, <2>1 DEF Mismatches
  <1>6. CASE state[e] # Absent
    <2>1. n \in Of(e, hot) /\ RowInv(e, state[e])
      BY <1>1, <1>3, <1>6 DEF Stored
    <2> DEFINE f == Folded(e, Created)
    <2>2. RowInv(e, Created)
      BY <1>1, <2>1, NewRow
    <2>3. /\ RowInv(e, f) /\ f.last_event_id \in Of(e, DOMAIN log)
          /\ f.last_event_id = LastOf(Of(e, hot))
      BY <1>1, <1>4, <2>1, <2>2, FoldedTrue, Constructed
    <2> HIDE DEF f
    <2>4. f.missed = {} /\ state[e].missed = {}
      BY <2>1, <2>3 DEF RowInv, Gone
    <2>5. f.last_event_id = n
      <3>1. \A i \in Of(e, hot) : i <= n
        BY <1>1, <2>1, Ids DEF Past, Of
      <3>2. Of(e, hot) \in SUBSET DOMAIN log
        BY <1>1 DEF Of
      <3>3. LastOf(Of(e, hot)) = n
        BY <1>1, <2>1, <3>1, <3>2, LastEvent
      <3>4. QED
        BY <2>3, <3>3
    <2>6. UpTo(e, n) \cap redacted = {}
      BY DEF UpTo, Of
    <2>7. f.status = state[e].status /\ f.reason = state[e].reason
      BY <2>1, <2>3, <2>4, <2>5, <2>6 DEF RowInv, RowTrue
    <2>8. SixColumns(f) = SixColumns(state[e])
      BY <2>5, <2>7 DEF SixColumns
    <2>9. state'[e] = f /\ f # Absent
      <3>1. f.status \in VALID_STATUSES
        BY <2>3 DEF RowInv
      <3>2. f # Absent
        BY <3>1, Constructed DEF VALID_STATUSES
      <3>3. QED
        BY <1>2, <2>1, <3>2 DEF f
    <2>10. QED
      BY <1>6, <2>8, <2>9 DEF Mismatches
  <1>7. QED
    BY <1>5, <1>6

\* core/projection.py, rebuild_projection: drift is reported only for an entity
\* with events no fold had seen, archived events or redacted ones.
THEOREM DriftHasAReason == Spec => DriftExplained
  BY StepExplained, Invariance, PTL DEF Spec, DriftExplained

=============================================================================
