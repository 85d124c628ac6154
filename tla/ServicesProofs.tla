--------------------------- MODULE ServicesProofs ---------------------------
(***************************************************************************)
(* Each of the services keeps what it promises, for every value of the     *)
(* constants: one inductive invariant per service, and from the invariants *)
(* the theorems about the services together, at the end.                   *)
(***************************************************************************)
EXTENDS Services, HitlProofs

-----------------------------------------------------------------------------
(* The circuit breaker *)

LEMMA StateIs ==
  /\ breakerState = "closed" <=> age = Never
  /\ breakerState = "half_open" <=> age = OpenFor
  BY BreakerAssumption DEF breakerState, Never

\* Probes are let through in the half-open state only, and while one is under
\* way it is marked.
BreakerInv ==
  /\ BreakerType
  /\ consecutive <= failed
  /\ age # OpenFor => probing = FALSE /\ probes = {}
  /\ probing = FALSE => probes = {}
  /\ \A c, d \in probes : c = d

LEMMA BreakerHolds == BreakerInit /\ [][BreakerNext]_breakerVars => []BreakerInv
  <1>1. BreakerInit => BreakerInv
    <2> SUFFICES ASSUME BreakerInit PROVE BreakerInv
      OBVIOUS
    <2> USE BreakerAssumption DEF BreakerInit
    <2>1. BreakerType
      <3>1. /\ consecutive \in 0..MaxFailures /\ failed \in 0..MaxFailures
            /\ age \in {Never} \cup 0..OpenFor
            /\ probes \subseteq calls /\ calls \subseteq BreakerCaller
        BY DEF Never
      <3>2. probing \in BOOLEAN
        OBVIOUS
      <3>3. QED
        BY ONLY <3>1, <3>2 DEF BreakerType
    <2>2. probing = FALSE /\ probes = {} /\ consecutive <= failed
      OBVIOUS
    <2>3. QED
      BY ONLY <2>1, <2>2 DEF BreakerInv
  <1>2. BreakerInv /\ [BreakerNext]_breakerVars => BreakerInv'
    <2> SUFFICES ASSUME BreakerInv, [BreakerNext]_breakerVars PROVE BreakerInv'
      OBVIOUS
    <2> USE BreakerAssumption DEF BreakerInv, BreakerType, Never
    <2>1. CASE BreakerTick
      BY <2>1 DEF BreakerTick
    <2>2. ASSUME NEW c \in BreakerCaller, allow_request(c) PROVE BreakerInv'
      BY <2>2, StateIs DEF allow_request
    <2>3. ASSUME NEW c \in BreakerCaller, record_success(c) PROVE BreakerInv'
      <3>1. BreakerType'
        <4>1. /\ consecutive' \in 0..MaxFailures /\ failed' \in 0..MaxFailures
              /\ age' \in {Never} \cup 0..OpenFor
              /\ probes' \subseteq calls' /\ calls' \subseteq BreakerCaller
          BY <2>3 DEF record_success
        <4>2. probing' \in BOOLEAN
          BY <2>3 DEF record_success
        <4>3. QED
          BY ONLY <4>1, <4>2 DEF BreakerType
      <3>2. probing' = FALSE /\ probes' = {} /\ consecutive' <= failed'
        BY <2>3 DEF record_success
      <3>3. QED
        BY ONLY <3>1, <3>2 DEF BreakerInv
    <2>4. ASSUME NEW c \in BreakerCaller, record_failure(c) PROVE BreakerInv'
      <3>1. CASE age = OpenFor
        <4>1. BreakerType'
          <5>1. /\ consecutive' \in 0..MaxFailures /\ failed' \in 0..MaxFailures
                /\ age' \in {Never} \cup 0..OpenFor
                /\ probes' \subseteq calls' /\ calls' \subseteq BreakerCaller
            BY <2>4, <3>1, StateIs DEF record_failure
          <5>2. probing' \in BOOLEAN
            BY <2>4, <3>1, StateIs DEF record_failure
          <5>3. QED
            BY ONLY <5>1, <5>2 DEF BreakerType
        <4>2. probing' = FALSE /\ probes' = {} /\ consecutive' <= failed'
          BY <2>4, <3>1, StateIs DEF record_failure
        <4>3. QED
          BY ONLY <4>1, <4>2 DEF BreakerInv
      <3>2. CASE age # OpenFor
        BY <2>4, <3>2, StateIs DEF record_failure
      <3>3. QED
        BY <3>1, <3>2
    <2>5. CASE UNCHANGED breakerVars
      BY <2>5 DEF breakerVars
    <2>6. QED
      BY <2>1, <2>2, <2>3, <2>4, <2>5 DEF BreakerNext
  <1>3. QED
    BY <1>1, <1>2, PTL

LEMMA OneProbe == BreakerInv => BreakerType /\ OneProbePerOpening
  BY DEF BreakerInv, OneProbePerOpening

-----------------------------------------------------------------------------
(* The intake *)

\* A handler at work has a delivery.
IntakeInv ==
  /\ IntakeType
  /\ \A h \in Handler : handler[h].at # "idle" => handler[h].delivery \in Delivery

LEMMA IntakeHolds == IntakeInit /\ [][IntakeNext]_intakeVars => []IntakeInv
  <1> USE IntakeAssumption DEF Resting
  <1>1. IntakeInit => IntakeInv
    BY DEF IntakeInit, IntakeInv, IntakeType
  <1>2. IntakeInv /\ [IntakeNext]_intakeVars => IntakeInv'
    <2> SUFFICES ASSUME IntakeInv, [IntakeNext]_intakeVars PROVE IntakeInv'
      OBVIOUS
    <2> USE DEF IntakeInv, IntakeType
    <2>1. ASSUME NEW h \in Handler, NEW d \in Delivery, Receive(h, d) PROVE IntakeInv'
      BY <2>1 DEF Receive
    <2>2. ASSUME NEW h \in Handler, LookUp(h) PROVE IntakeInv'
      BY <2>2 DEF LookUp, Acknowledge, At, Rest
    <2>3. ASSUME NEW h \in Handler, InsertRow(h) PROVE IntakeInv'
      BY <2>3 DEF InsertRow, Acknowledge, At, Rest
    <2>4. ASSUME NEW h \in Handler, CommitRow(h) PROVE IntakeInv'
      BY <2>4 DEF CommitRow, At
    <2>5. ASSUME NEW h \in Handler, Answer(h) PROVE IntakeInv'
      BY <2>5 DEF Answer, Acknowledge, Rest
    <2>6. ASSUME NEW h \in Handler, HandlerFails(h) PROVE IntakeInv'
      BY <2>6 DEF HandlerFails, Rest
    <2>7. CASE UNCHANGED intakeVars
      BY <2>7 DEF intakeVars
    <2>8. QED
      BY <2>1, <2>2, <2>3, <2>4, <2>5, <2>6, <2>7 DEF IntakeNext, IntakeProgress
  <1>3. QED
    BY <1>1, <1>2, PTL

-----------------------------------------------------------------------------
(* The watchers *)

\* An entity was noted no later than its watcher was last marked.  Whom a scan
\* has yet to look at was noted a cooldown ago, unless another scan has marked
\* the watcher since this one read it; whom it has notified about it does not
\* look at again.
Fresh(k, w, s) == noted[w][s] = Cooldown \/ w \in scan[k].crossed

ScanInv(k) ==
  /\ ~scan[k].on => scan[k] = NoScan
  /\ scan[k].watcher \notin scan[k].left
  /\ scan[k].sent \cap scan[k].subjects = {}
  /\ \A w \in scan[k].left, s \in Subject : Fresh(k, w, s)
  /\ \A s \in scan[k].subjects : Fresh(k, scan[k].watcher, s)

WatchersInv ==
  /\ WatchersType
  /\ \A w \in Watcher, s \in Subject : noted[w][s] >= since[w]
  /\ \A k \in Scanner : ScanInv(k)

Scans == [on : BOOLEAN, left : SUBSET Watcher, watcher : Watcher \cup {NoWatcher},
          subjects : SUBSET Subject, sent : SUBSET Subject, crossed : SUBSET Watcher]

LEMMA OlderIs ==
  ASSUME NEW n \in 0..Cooldown
  PROVE  /\ Older(n) \in 0..Cooldown
         /\ Older(n) = IF n < Cooldown THEN n + 1 ELSE Cooldown
  BY WatchersAssumption DEF Older, Min2

\* A step of one scan that leaves the marks and the other scans alone.
LEMMA OneScanMoves ==
  ASSUME WatchersInv, NEW k \in Scanner, NEW r \in Scans,
         scan' = [scan EXCEPT ![k] = r],
         UNCHANGED <<seeded, facts, since, noted>>,
         overlaps' \in 0..MaxOverlaps, died' \in 0..MaxScanCrashes,
         r.subjects \cup r.sent # {} => r.watcher # NoWatcher,
         ScanInv(k)'
  PROVE  WatchersInv'
  <1>1. scan' \in [Scanner -> Scans] /\ scan'[k] = r /\ \A j \in Scanner \ {k} : scan'[j] = scan[j]
    BY DEF WatchersInv, WatchersType, Scans
  <1>2. \A j \in Scanner : scan'[j].subjects \cup scan'[j].sent # {} => scan'[j].watcher # NoWatcher
    BY <1>1 DEF WatchersInv, WatchersType
  <1>3. WatchersType'
    BY <1>1, <1>2 DEF WatchersInv, WatchersType, Scans
  <1>4. ASSUME NEW j \in Scanner PROVE ScanInv(j)'
    <2>1. CASE j = k
      BY <2>1
    <2>2. CASE j # k
      BY <1>1, <2>2 DEF WatchersInv, ScanInv, Fresh
    <2>3. QED
      BY <2>1, <2>2
  <1>5. QED
    BY <1>3, <1>4 DEF WatchersInv

LEMMA WatchersHold == WatchersInit /\ [][WatchersNext]_watcherVars => []WatchersInv
  <1> USE WatchersAssumption DEF NoWatcher
  <1>1. WatchersInit => WatchersInv
    <2> SUFFICES ASSUME WatchersInit PROVE WatchersInv
      OBVIOUS
    <2> USE DEF WatchersInit, NoScan
    <2>1. WatchersType
      BY DEF WatchersType
    <2>2. \A w \in Watcher, s \in Subject : noted[w][s] >= since[w]
      OBVIOUS
    <2>3. \A k \in Scanner : ScanInv(k)
      BY DEF ScanInv
    <2>4. QED
      BY <2>1, <2>2, <2>3 DEF WatchersInv
  <1>2. WatchersInv /\ [WatchersNext]_watcherVars => WatchersInv'
    <2> SUFFICES ASSUME WatchersInv, [WatchersNext]_watcherVars PROVE WatchersInv'
      OBVIOUS
    <2> DEFINE Kept == UNCHANGED <<seeded, facts, since, noted, overlaps, died>>
    <2>k. ASSUME NEW k \in Scanner
          PROVE  /\ scan[k] \in Scans /\ ScanInv(k)
                 /\ scan[k].subjects \cup scan[k].sent # {} => scan[k].watcher # NoWatcher
                 /\ overlaps \in 0..MaxOverlaps /\ died \in 0..MaxScanCrashes
      BY DEF WatchersInv, WatchersType, Scans
    <2>1. CASE seed_default_watchers
      BY <2>1 DEF seed_default_watchers, WatchersInv, WatchersType, ScanInv, Fresh
    <2>2. ASSUME NEW s \in Subject, FactsChange(s) PROVE WatchersInv'
      BY <2>2 DEF FactsChange, WatchersInv, WatchersType, ScanInv, Fresh
    <2>3. CASE TimePasses
      <3>1. /\ since' = [w \in Watcher |-> Older(since[w])]
            /\ noted' = [w \in Watcher |-> [s \in Subject |-> Older(noted[w][s])]]
            /\ UNCHANGED <<seeded, facts, scan, overlaps, died>>
            /\ \A k \in Scanner : scan[k] = NoScan
        BY <2>3, <2>k DEF TimePasses, ScanInv
      <3>2. WatchersType'
        BY <3>1, OlderIs DEF WatchersInv, WatchersType
      <3>3. ASSUME NEW w \in Watcher, NEW s \in Subject PROVE noted'[w][s] >= since'[w]
        <4>1. /\ noted[w][s] \in 0..Cooldown /\ since[w] \in 0..Cooldown /\ noted[w][s] >= since[w]
              /\ noted'[w][s] = Older(noted[w][s]) /\ since'[w] = Older(since[w])
          BY <3>1 DEF WatchersInv, WatchersType
        <4>2. QED
          BY <4>1, OlderIs
      <3>4. \A k \in Scanner : ScanInv(k)'
        BY <3>1 DEF ScanInv, NoScan
      <3>5. QED
        BY <3>2, <3>3, <3>4 DEF WatchersInv
    <2>4. ASSUME NEW k \in Scanner, StartScan(k) PROVE WatchersInv'
      <3> DEFINE cool == {w \in seeded : since[w] >= Cooldown}
                 r == [NoScan EXCEPT !.on = TRUE, !.left = cool]
      <3>1. scan' = [scan EXCEPT ![k] = r] /\ UNCHANGED <<seeded, facts, since, noted, died>>
        BY <2>4 DEF StartScan
      <3>2. cool \subseteq Watcher
        BY DEF WatchersInv, WatchersType
      <3>3. /\ r \in Scans /\ scan'[k] = r
            /\ r.on /\ r.left = cool /\ r.watcher = NoWatcher /\ r.subjects = {} /\ r.sent = {} /\ r.crossed = {}
        BY <3>1, <3>2 DEF Scans, NoScan, WatchersInv, WatchersType
      <3>4. overlaps' \in 0..MaxOverlaps
        BY <2>4, <2>k DEF StartScan, Overlap
      <3>5. ASSUME NEW w \in cool, NEW s \in Subject PROVE noted[w][s] = Cooldown
        <4>1. /\ w \in Watcher /\ noted[w][s] \in 0..Cooldown /\ since[w] \in 0..Cooldown
              /\ noted[w][s] >= since[w] /\ since[w] >= Cooldown
          BY DEF WatchersInv, WatchersType
        <4>2. QED
          BY <4>1
      <3> HIDE DEF cool, r
      <3>6. NoWatcher \notin cool
        BY <3>2
      <3>7. ScanInv(k)'
        BY <3>1, <3>3, <3>5, <3>6 DEF ScanInv, Fresh
      <3>8. died' \in 0..MaxScanCrashes
        BY <3>1, <2>k
      <3>9. QED
        BY <3>1, <3>3, <3>4, <3>7, <3>8, OneScanMoves
    <2>5. ASSUME NEW k \in Scanner, MarkFired(k) PROVE WatchersInv'
      <3> DEFINE w == scan[k].watcher
                 next == IF scan[k].subjects = {} THEN NoWatcher ELSE w
      <3>1. /\ w \in Watcher /\ scan[k].sent # {} /\ scan[k].sent \subseteq Subject
            /\ since' = [since EXCEPT ![w] = 0]
            /\ noted' = [noted EXCEPT ![w] = [s \in Subject |-> IF s \in scan[k].sent THEN 0 ELSE noted[w][s]]]
            /\ UNCHANGED <<seeded, facts, overlaps, died>>
        BY <2>5, <2>k DEF MarkFired, Scans
      <3>2. scan'[k] = [scan[k] EXCEPT !.sent = {}, !.watcher = next]
        BY <2>5 DEF MarkFired, Noted
      <3>3. ASSUME NEW j \in Scanner \ {k}
            PROVE  \E c \in SUBSET Watcher : /\ scan'[j] = [scan[j] EXCEPT !.crossed = c]
                                            /\ c = IF scan[j].on THEN scan[j].crossed \cup {w} ELSE scan[j].crossed
        <4>1. scan'[j] = [scan[j] EXCEPT !.crossed = IF scan[j].on THEN scan[j].crossed \cup {w} ELSE scan[j].crossed]
          BY <2>5 DEF MarkFired, Noted
        <4>2. (IF scan[j].on THEN scan[j].crossed \cup {w} ELSE scan[j].crossed) \in SUBSET Watcher
          BY <2>k, <3>1 DEF Scans
        <4>3. QED
          BY <4>1, <4>2
      <3>4. /\ noted' \in [Watcher -> [Subject -> 0..Cooldown]] /\ since' \in [Watcher -> 0..Cooldown]
            /\ \A v \in Watcher, s \in Subject : noted'[v][s] >= since'[v]
        BY <3>1 DEF WatchersInv, WatchersType
      <3>5. ASSUME NEW v \in Watcher, NEW s \in Subject, v # w \/ s \notin scan[k].sent PROVE noted'[v][s] = noted[v][s]
        BY <3>1, <3>5 DEF WatchersInv, WatchersType
      <3>6. ASSUME NEW j \in Scanner
            PROVE  /\ scan'[j] \in Scans /\ ScanInv(j)'
                   /\ scan'[j].subjects \cup scan'[j].sent # {} => scan'[j].watcher # NoWatcher
        <4>1. CASE j = k
          <5>1. /\ scan'[k] \in Scans
                /\ scan'[k].subjects \cup scan'[k].sent # {} => scan'[k].watcher # NoWatcher
            BY <2>k, <3>1, <3>2 DEF Scans
          <5>2. /\ scan'[k].on = scan[k].on /\ scan'[k].left = scan[k].left /\ scan'[k].watcher = next
                /\ scan'[k].subjects = scan[k].subjects /\ scan'[k].sent = {} /\ scan'[k].crossed = scan[k].crossed
            BY <2>k, <3>2 DEF Scans
          <5>3. scan[k].on
            BY <2>k, <3>1 DEF ScanInv, NoScan
          <5>4. scan'[k].watcher \notin scan'[k].left
            BY <2>k, <5>2 DEF ScanInv, Scans
          <5>5. ASSUME NEW v \in scan[k].left, NEW s \in Subject PROVE Fresh(k, v, s)'
            BY <2>k, <3>5, <5>2 DEF ScanInv, Scans, Fresh
          <5>6. ASSUME NEW s \in scan[k].subjects PROVE Fresh(k, next, s)'
            BY <2>k, <3>1, <3>5, <5>2 DEF ScanInv, Scans, Fresh
          <5>7. QED
            BY <4>1, <5>1, <5>2, <5>3, <5>4, <5>5, <5>6 DEF ScanInv
        <4>2. CASE j # k
          <5>0. PICK c \in SUBSET Watcher :
                  /\ scan'[j] = [scan[j] EXCEPT !.crossed = c]
                  /\ c = IF scan[j].on THEN scan[j].crossed \cup {w} ELSE scan[j].crossed
            BY <3>3, <4>2
          <5>1. /\ scan'[j] \in Scans
                /\ scan'[j].on = scan[j].on /\ scan'[j].left = scan[j].left /\ scan'[j].watcher = scan[j].watcher
                /\ scan'[j].subjects = scan[j].subjects /\ scan'[j].sent = scan[j].sent
                /\ scan'[j].crossed = c
                /\ scan'[j].subjects \cup scan'[j].sent # {} => scan'[j].watcher # NoWatcher
            BY <2>k, <5>0 DEF Scans
          <5>2. CASE ~scan[j].on
            <6>1. scan'[j] = NoScan
              BY <2>k, <5>0, <5>2 DEF ScanInv, NoScan
            <6>2. QED
              BY <5>1, <6>1 DEF ScanInv, NoScan
          <5>3. CASE scan[j].on
            <6>1. c = scan[j].crossed \cup {w}
              BY <5>0, <5>3
            <6>2. ASSUME NEW v \in Watcher, NEW s \in Subject, Fresh(j, v, s) PROVE Fresh(j, v, s)'
              BY <3>5, <5>1, <6>1, <6>2 DEF Fresh
            <6>3. scan[j].left \subseteq Watcher /\ scan[j].subjects \subseteq Subject
                  /\ (scan[j].subjects # {} => scan[j].watcher \in Watcher)
              BY <2>k DEF Scans
            <6>4. QED
              BY <2>k, <5>1, <5>3, <6>2, <6>3 DEF ScanInv
          <5>4. QED
            BY <5>2, <5>3
        <4>3. QED
          BY <4>1, <4>2
      <3>7. scan' \in [Scanner -> Scans]
        BY <2>5, <3>6 DEF MarkFired, Noted
      <3>8. WatchersType'
        BY <3>1, <3>4, <3>6, <3>7 DEF WatchersInv, WatchersType, Scans
      <3>9. QED
        BY <3>4, <3>6, <3>8 DEF WatchersInv
    <2>6. ASSUME NEW k \in Scanner, EndScan(k) \/ ScanDies(k) PROVE WatchersInv'
      <3>1. NoScan \in Scans /\ scan' = [scan EXCEPT ![k] = NoScan] /\ UNCHANGED <<seeded, facts, since, noted, overlaps>>
        BY <2>6 DEF EndScan, ScanDies, NoScan, Scans
      <3>2. overlaps' \in 0..MaxOverlaps /\ died' \in 0..MaxScanCrashes
        BY <2>6, <2>k DEF EndScan, ScanDies
      <3>3. scan'[k] = NoScan
        BY <3>1 DEF WatchersInv, WatchersType
      <3>4. ScanInv(k)'
        BY <3>3 DEF ScanInv, NoScan
      <3>5. NoScan.subjects \cup NoScan.sent = {}
        BY DEF NoScan
      <3>6. QED
        BY <3>1, <3>2, <3>4, <3>5, OneScanMoves
    <2>7. ASSUME NEW k \in Scanner, NEW w \in Watcher, NextWatcher(k, w) PROVE WatchersInv'
      <3> DEFINE r == [scan[k] EXCEPT !.left = scan[k].left \ {w},
                                      !.watcher = IF Candidates(w) = {} THEN NoWatcher ELSE w,
                                      !.subjects = Candidates(w)]
      <3>1. w \in scan[k].left /\ scan[k].watcher = NoWatcher /\ scan' = [scan EXCEPT ![k] = r] /\ Kept
        BY <2>7 DEF NextWatcher
      <3>2. Candidates(w) \subseteq Subject
        BY DEF Candidates
      <3>3. /\ r \in Scans /\ scan'[k] = r
            /\ r.on = scan[k].on /\ r.left = scan[k].left \ {w} /\ r.sent = {} /\ r.subjects = Candidates(w)
            /\ r.crossed = scan[k].crossed /\ r.watcher \in {NoWatcher, w}
            /\ r.subjects # {} => r.watcher = w
        BY <2>k, <3>1, <3>2 DEF Scans, WatchersInv, WatchersType
      <3> HIDE DEF r
      <3>4. scan[k].on
        BY <2>k, <3>1 DEF ScanInv, NoScan
      <3>5. ScanInv(k)'
        <4>1. scan'[k].on /\ noted' = noted
          BY <3>1, <3>3, <3>4
        <4>2. scan'[k].watcher \notin scan'[k].left /\ scan'[k].sent \cap scan'[k].subjects = {}
          BY <2>k, <3>1, <3>3 DEF Scans
        <4>3. (\A v \in scan[k].left, s \in Subject : Fresh(k, v, s))'
          BY <2>k, <3>3, <4>1 DEF ScanInv, Fresh
        <4>4. (\A s \in scan[k].subjects : Fresh(k, scan[k].watcher, s))'
          BY <2>k, <3>1, <3>2, <3>3, <4>1 DEF ScanInv, Fresh
        <4>5. QED
          BY <4>1, <4>2, <4>3, <4>4 DEF ScanInv
      <3>6. QED
        BY <2>k, <3>1, <3>3, <3>5, OneScanMoves
    <2>8. ASSUME NEW k \in Scanner, NEW s \in Subject, Pass(k, s) PROVE WatchersInv'
      <3> DEFINE r == [scan[k] EXCEPT !.subjects = scan[k].subjects \ {s},
                                      !.watcher = IF scan[k].subjects = {s} THEN NoWatcher ELSE scan[k].watcher]
      <3>1. s \in scan[k].subjects /\ scan[k].sent = {} /\ scan' = [scan EXCEPT ![k] = r] /\ Kept
        BY <2>8 DEF Pass
      <3>2. /\ r \in Scans /\ scan'[k] = r
            /\ r.on = scan[k].on /\ r.left = scan[k].left /\ r.sent = {} /\ r.subjects = scan[k].subjects \ {s}
            /\ r.crossed = scan[k].crossed /\ r.watcher \in {NoWatcher, scan[k].watcher}
            /\ r.subjects # {} => r.watcher = scan[k].watcher /\ r.watcher # NoWatcher
        BY <2>k, <3>1 DEF Scans, WatchersInv, WatchersType
      <3> HIDE DEF r
      <3>3. scan[k].on
        BY <2>k, <3>1 DEF ScanInv, NoScan
      <3>4. ScanInv(k)'
        <4>1. scan'[k].on /\ noted' = noted
          BY <3>1, <3>2, <3>3
        <4>2. scan'[k].watcher \notin scan'[k].left /\ scan'[k].sent \cap scan'[k].subjects = {}
          BY <2>k, <3>1, <3>2 DEF ScanInv, Scans
        <4>3. (\A v \in scan[k].left, z \in Subject : Fresh(k, v, z))'
          BY <2>k, <3>2, <4>1 DEF ScanInv, Fresh
        <4>4. (\A z \in scan[k].subjects : Fresh(k, scan[k].watcher, z))'
          BY <2>k, <3>1, <3>2, <4>1 DEF ScanInv, Fresh
        <4>5. QED
          BY <4>1, <4>2, <4>3, <4>4 DEF ScanInv
      <3>5. QED
        BY <2>k, <3>1, <3>2, <3>4, OneScanMoves
    <2>9. ASSUME NEW k \in Scanner, NEW s \in Subject, Deliver(k, s) PROVE WatchersInv'
      <3> DEFINE r == [scan[k] EXCEPT !.sent = {s}, !.subjects = scan[k].subjects \ {s}]
      <3>1. s \in scan[k].subjects /\ scan[k].sent = {} /\ scan' = [scan EXCEPT ![k] = r] /\ Kept
        BY <2>9 DEF Deliver
      <3>2. /\ r \in Scans /\ scan'[k] = r
            /\ r.on = scan[k].on /\ r.left = scan[k].left /\ r.sent = {s} /\ r.subjects = scan[k].subjects \ {s}
            /\ r.crossed = scan[k].crossed /\ r.watcher = scan[k].watcher /\ r.watcher # NoWatcher
        BY <2>k, <3>1 DEF Scans, WatchersInv, WatchersType
      <3> HIDE DEF r
      <3>3. scan[k].on
        BY <2>k, <3>1 DEF ScanInv, NoScan
      <3>4. ScanInv(k)'
        <4>1. scan'[k].on /\ noted' = noted
          BY <3>1, <3>2, <3>3
        <4>2. scan'[k].watcher \notin scan'[k].left /\ scan'[k].sent \cap scan'[k].subjects = {}
          BY <2>k, <3>1, <3>2 DEF ScanInv, Scans
        <4>3. (\A v \in scan[k].left, z \in Subject : Fresh(k, v, z))'
          BY <2>k, <3>2, <4>1 DEF ScanInv, Fresh
        <4>4. (\A z \in scan[k].subjects : Fresh(k, scan[k].watcher, z))'
          BY <2>k, <3>1, <3>2, <4>1 DEF ScanInv, Fresh
        <4>5. QED
          BY <4>1, <4>2, <4>3, <4>4 DEF ScanInv
      <3>5. QED
        BY <2>k, <3>1, <3>2, <3>4, OneScanMoves
    <2>10. CASE UNCHANGED watcherVars
      BY <2>10 DEF watcherVars, WatchersInv, WatchersType, ScanInv, Fresh
    <2>11. QED
      BY <2>1, <2>2, <2>3, <2>4, <2>5, <2>6, <2>7, <2>8, <2>9, <2>10 DEF WatchersNext, ScanStep, NotMet, NotDelivered
  <1>3. QED
    BY <1>1, <1>2, PTL

\* Whom a scan notifies was last noted a cooldown ago, or the scans crossed.
LEMMA DeliversInTime ==
  WatchersInv /\ [WatchersNext]_watcherVars
    => [\A k \in Scanner, s \in Subject :
          Deliver(k, s) => noted[scan[k].watcher][s] = Cooldown \/ scan[k].watcher \in scan[k].crossed]_watcherVars
  <1> SUFFICES ASSUME WatchersInv, NEW k \in Scanner, NEW s \in Subject, Deliver(k, s)
               PROVE  noted[scan[k].watcher][s] = Cooldown \/ scan[k].watcher \in scan[k].crossed
    OBVIOUS
  <1>1. s \in scan[k].subjects
    BY DEF Deliver
  <1>2. QED
    BY <1>1 DEF WatchersInv, ScanInv, Fresh

-----------------------------------------------------------------------------
(* The spend guard *)

\* The callers a merchant will pay for.
Coming(m) == {c \in PaidBy(m) : c \in calling \/ c \in ToSet(waiting)}

SpendBound(m) ==
  \E estimate \in Estimate : spent[m] + Cardinality(Coming(m)) * MaxCost <= Most(m, estimate)

SpendInv ==
  /\ SpendType
  /\ calling \cap ToSet(waiting) = {}
  /\ IsFiniteSet(calling) /\ permits + Cardinality(calling) = max_in_flight
  /\ \A m \in SpendMerchant : SpendBound(m)

LEMMA Costs ==
  /\ MaxCost \in Nat /\ 0 * MaxCost = 0
  /\ \A n \in Int : n * MaxCost \in Int /\ (n + 1) * MaxCost = n * MaxCost + MaxCost
  /\ \A m, n \in Nat : m <= n => m * MaxCost <= n * MaxCost /\ m * MaxCost \in Nat
  BY SpendAssumption

LEMMA GreaterOfTwo ==
  ASSUME NEW m \in Int
  PROVE  Max({m, 0}) \in Nat /\ Max({m, 0}) >= m /\ Max({m, 0}) >= 0
  BY DEF Max

LEMMA MostIs ==
  ASSUME NEW m \in SpendMerchant, NEW estimate \in Estimate
  PROVE  /\ Most(m, estimate) \in Nat
         /\ IsFiniteSet(PaidBy(m)) /\ Cardinality(PaidBy(m)) \in Nat
         /\ Budget - estimate + Cardinality(PaidBy(m)) * MaxCost <= Most(m, estimate)
  <1>1. IsFiniteSet(PaidBy(m))
    <2>1. PaidBy(m) \in SUBSET Spender
      BY DEF PaidBy
    <2>2. QED
      BY <2>1, FS_Subset, SpendAssumption
  <1>2. Cardinality(PaidBy(m)) \in Nat
    BY <1>1, FS_CardinalityType
  <1>3. PICK k \in Int : k = Cardinality(PaidBy(m)) * MaxCost
    BY <1>2, Costs
  <1>4. PICK b \in Int : b = Budget - estimate + k
    BY <1>3, SpendAssumption
  <1>5. QED
    BY <1>1, <1>2, <1>3, <1>4, GreaterOfTwo DEF Most

LEMMA ComingIs ==
  ASSUME NEW m \in SpendMerchant, NEW S \in SUBSET PaidBy(m)
  PROVE  /\ IsFiniteSet(S) /\ Cardinality(S) \in Nat
         /\ Cardinality(S) <= Cardinality(PaidBy(m))
         /\ \A T \in SUBSET S : Cardinality(T) \in Nat /\ Cardinality(T) <= Cardinality(S)
         /\ \A c \in S : Cardinality(S) = Cardinality(S \ {c}) + 1
  <1>1. IsFiniteSet(S) /\ Cardinality(S) <= Cardinality(PaidBy(m))
    BY MostIs, FS_Subset, SpendAssumption
  <1>2. Cardinality(S) \in Nat
    BY <1>1, FS_CardinalityType
  <1>3. \A T \in SUBSET S : IsFiniteSet(T) /\ Cardinality(T) <= Cardinality(S)
    BY <1>1, FS_Subset
  <1>4. \A T \in SUBSET S : Cardinality(T) \in Nat
    BY <1>3, FS_CardinalityType
  <1>5. ASSUME NEW c \in S PROVE Cardinality(S) = Cardinality(S \ {c}) + 1
    <2>1. Cardinality(S \ {c}) = Cardinality(S) - 1
      BY <1>1, FS_RemoveElement
    <2>2. QED
      BY <1>2, <2>1
  <1>6. QED
    BY <1>1, <1>2, <1>3, <1>4, <1>5

\* A queue without repetitions, when somebody comes or goes.
LEMMA Queued ==
  ASSUME NEW q \in Seq(Spender), IsInjective(q), NEW c \in Spender, c \notin ToSet(q)
  PROVE  /\ Append(q, c) \in Seq(Spender) /\ IsInjective(Append(q, c))
         /\ ToSet(Append(q, c)) = ToSet(q) \cup {c}
  <1>1. /\ Append(q, c) \in Seq(Spender) /\ DOMAIN Append(q, c) = 1..Len(q) + 1
        /\ DOMAIN q = 1..Len(q) /\ Len(q) \in Nat
        /\ \A i \in 1..Len(q) : Append(q, c)[i] = q[i]
        /\ Append(q, c)[Len(q) + 1] = c
    OBVIOUS
  <1>2. PICK r : r = Append(q, c)
    OBVIOUS
  <1>3. IsInjective(r)
    <2>1. SUFFICES ASSUME NEW i \in DOMAIN r, NEW j \in DOMAIN r, r[i] = r[j] PROVE i = j
      BY DEF IsInjective
    <2>2. CASE i \in 1..Len(q) /\ j \in 1..Len(q)
      BY <1>1, <1>2, <2>1, <2>2 DEF IsInjective
    <2>3. CASE i = Len(q) + 1 /\ j = Len(q) + 1
      BY <2>3
    <2>4. ASSUME NEW k \in 1..Len(q) PROVE r[k] # c
      BY <1>1, <1>2 DEF ToSet
    <2>5. QED
      BY <1>1, <1>2, <2>1, <2>2, <2>3, <2>4
  <1>4. ToSet(r) = ToSet(q) \cup {c}
    BY <1>1, <1>2 DEF ToSet
  <1>5. QED
    BY <1>1, <1>2, <1>3, <1>4

LEMMA Dequeued ==
  ASSUME NEW q \in Seq(Spender), IsInjective(q), q # <<>>
  PROVE  /\ Tail(q) \in Seq(Spender) /\ IsInjective(Tail(q)) /\ Head(q) \in Spender
         /\ Head(q) \notin ToSet(Tail(q))
         /\ ToSet(q) = ToSet(Tail(q)) \cup {Head(q)}
  <1>1. /\ Tail(q) \in Seq(Spender) /\ Head(q) = q[1] /\ Head(q) \in Spender
        /\ Len(q) \in Nat /\ Len(q) >= 1 /\ DOMAIN q = 1..Len(q)
        /\ DOMAIN Tail(q) = 1..Len(q) - 1
        /\ \A i \in 1..Len(q) - 1 : Tail(q)[i] = q[i + 1]
    OBVIOUS
  <1>2. PICK r : r = Tail(q)
    OBVIOUS
  <1>3. \A i \in DOMAIN r : i + 1 \in DOMAIN q /\ r[i] = q[i + 1] /\ i \in Nat /\ i >= 1
    BY <1>1, <1>2
  <1>4. IsInjective(r)
    BY <1>3 DEF IsInjective
  <1>5. Head(q) \notin ToSet(r)
    BY <1>1, <1>3 DEF IsInjective, ToSet
  <1>6. ToSet(q) = ToSet(r) \cup {Head(q)}
    <2>1. ASSUME NEW i \in DOMAIN q, i # 1 PROVE q[i] \in ToSet(r)
      <3>1. i - 1 \in DOMAIN r /\ r[i - 1] = q[i]
        BY <1>1, <1>2, <2>1
      <3>2. QED
        BY <3>1 DEF ToSet
    <2>2. ToSet(r) \subseteq ToSet(q)
      BY <1>3 DEF ToSet
    <2>3. QED
      BY <1>1, <2>1, <2>2 DEF ToSet
  <1>7. QED
    BY <1>1, <1>2, <1>4, <1>5, <1>6

LEMMA InitSpendInv == SpendInit => SpendInv
  <1> SUFFICES ASSUME SpendInit PROVE SpendInv
    OBVIOUS
  <1>1. IsFiniteSet(calling) /\ Cardinality(calling) = 0
    BY FS_EmptySet DEF SpendInit
  <1>2. ToSet(waiting) = {}
    BY DEF SpendInit, ToSet
  <1>3. SpendType
    BY SpendAssumption DEF SpendInit, SpendType, IsInjective
  <1>4. ASSUME NEW m \in SpendMerchant PROVE SpendBound(m)
    <2>1. Coming(m) = {}
      BY <1>2 DEF Coming, SpendInit
    <2>2. Cardinality(Coming(m)) = 0
      BY <2>1, FS_EmptySet
    <2>3. Cardinality(Coming(m)) * MaxCost = 0
      BY <2>2, Costs
    <2>4. PICK estimate \in Estimate : TRUE
      BY SpendAssumption
    <2>5. QED
      BY <2>3, <2>4, MostIs DEF SpendInit, SpendBound
  <1>5. QED
    BY <1>1, <1>2, <1>3, <1>4, SpendAssumption DEF SpendInv, SpendInit

LEMMA AcquireKeeps ==
  ASSUME SpendInv, NEW c \in Spender, NEW estimate \in Estimate, SpendAcquire(c, estimate)
  PROVE  SpendInv'
  <1>1. /\ waiting' = Append(waiting, c) /\ UNCHANGED <<permits, calling, spent>>
        /\ c \notin calling /\ c \notin ToSet(waiting)
        /\ spent[Payer[c]] + estimate <= Budget
    BY DEF SpendAcquire
  <1>2. waiting' \in Seq(Spender) /\ IsInjective(waiting') /\ ToSet(waiting') = ToSet(waiting) \cup {c}
    BY <1>1, Queued DEF SpendInv, SpendType
  <1>3. SpendType' /\ calling' \cap ToSet(waiting') = {}
    BY <1>1, <1>2 DEF SpendInv, SpendType
  <1>4. ASSUME NEW m \in SpendMerchant PROVE SpendBound(m)'
    <2>1. PICK A, B : A = Coming(m) /\ B = Coming(m)'
      OBVIOUS
    <2>2. CASE Payer[c] # m
      <3>1. A = B
        BY <1>1, <1>2, <2>1, <2>2 DEF Coming, PaidBy
      <3>2. SpendBound(m)
        BY DEF SpendInv
      <3>3. QED
        BY <1>1, <2>1, <3>1, <3>2 DEF SpendBound, Most, PaidBy
    <2>3. CASE Payer[c] = m
      <3>1. PICK n \in Nat, x \in Nat : n = Cardinality(PaidBy(m)) /\ x = spent[m]
        BY MostIs DEF SpendInv, SpendType
      <3>2. PICK most \in Nat : most = Most(m, estimate) /\ Budget - estimate + n * MaxCost <= most
        BY MostIs, <3>1
      <3>3. B \in SUBSET PaidBy(m)
        BY <2>1 DEF Coming, PaidBy
      <3>4. PICK k \in Nat : k = Cardinality(B) /\ k <= n
        BY <3>1, <3>3, ComingIs
      <3>5. PICK p, q \in Int : p = k * MaxCost /\ q = n * MaxCost /\ p <= q
        BY <3>4, Costs
      <3>6. x + estimate <= Budget
        BY <1>1, <2>3, <3>1
      <3>7. x + p <= most
        BY <3>2, <3>5, <3>6, SpendAssumption
      <3>8. QED
        BY <1>1, <2>1, <3>1, <3>2, <3>4, <3>5, <3>7 DEF SpendBound, Most, PaidBy
    <2>4. QED
      BY <2>2, <2>3
  <1>5. QED
    BY <1>1, <1>3, <1>4 DEF SpendInv

LEMMA GrantedKeeps ==
  ASSUME SpendInv, SpendGranted
  PROVE  SpendInv'
  <1>1. PICK c : c = Head(waiting)
    OBVIOUS
  <1>2. /\ waiting' = Tail(waiting) /\ permits' = permits - 1 /\ permits > 0
        /\ calling' = calling \cup {c} /\ UNCHANGED spent /\ waiting # <<>>
    BY <1>1 DEF SpendGranted
  <1>3. /\ waiting' \in Seq(Spender) /\ IsInjective(waiting') /\ c \in Spender
        /\ c \notin ToSet(waiting') /\ ToSet(waiting) = ToSet(waiting') \cup {c}
    BY <1>1, <1>2, Dequeued DEF SpendInv, SpendType
  <1>4. SpendType' /\ calling' \cap ToSet(waiting') = {} /\ c \notin calling
    BY <1>2, <1>3, SpendAssumption DEF SpendInv, SpendType
  <1>5. IsFiniteSet(calling') /\ Cardinality(calling') = Cardinality(calling) + 1
    BY <1>2, <1>4, FS_AddElement DEF SpendInv
  <1>6. permits' + Cardinality(calling') = max_in_flight
    <2>1. Cardinality(calling) \in Nat /\ permits \in Nat
      BY FS_CardinalityType, SpendAssumption DEF SpendInv, SpendType
    <2>2. QED
      BY <1>2, <1>5, <2>1 DEF SpendInv
  <1>7. ASSUME NEW m \in SpendMerchant PROVE SpendBound(m)'
    <2>1. PICK A, B : A = Coming(m) /\ B = Coming(m)'
      OBVIOUS
    <2>2. A = B
      BY <1>2, <1>3, <2>1 DEF Coming, PaidBy
    <2>3. SpendBound(m)
      BY DEF SpendInv
    <2>4. QED
      BY <1>2, <2>1, <2>2, <2>3 DEF SpendBound, Most, PaidBy
  <1>8. QED
    BY <1>4, <1>5, <1>6, <1>7 DEF SpendInv

\* A call ends, whatever it did cost.
LEMMA ReleaseKeeps ==
  ASSUME SpendInv, NEW c \in Spender, NEW cost \in 0..MaxCost, SpendDone(c, cost)
  PROVE  SpendInv'
  <1>1. /\ c \in calling /\ calling' = calling \ {c} /\ permits' = permits + 1 /\ UNCHANGED waiting
        /\ spent' = [spent EXCEPT ![Payer[c]] = @ + cost]
        /\ cost \in Nat /\ cost <= MaxCost
        /\ Payer[c] \in SpendMerchant /\ IsFiniteSet(calling) /\ Cardinality(calling) \in Nat
    BY FS_CardinalityType, Costs DEF SpendDone, SpendInv, SpendType, SpendMerchant
  <1>2. IsFiniteSet(calling') /\ Cardinality(calling') = Cardinality(calling) - 1
    BY <1>1, FS_RemoveElement
  <1>3. Cardinality(calling') \in Nat
    BY <1>2, FS_CardinalityType
  <1>4. permits \in 0..max_in_flight /\ permits + Cardinality(calling) = max_in_flight
    BY DEF SpendInv, SpendType
  <1>5. permits' \in 0..max_in_flight /\ permits' + Cardinality(calling') = max_in_flight
    BY <1>1, <1>2, <1>3, <1>4, SpendAssumption
  <1>6. spent' \in [SpendMerchant -> Nat]
    BY <1>1, SpendAssumption DEF SpendInv, SpendType
  <1>7. SpendType' /\ calling' \cap ToSet(waiting') = {}
    BY <1>1, <1>5, <1>6 DEF SpendInv, SpendType
  <1>8. ASSUME NEW m \in SpendMerchant PROVE SpendBound(m)'
    <2>1. PICK A, B : A = Coming(m) /\ B = Coming(m)'
      OBVIOUS
    <2>2. PICK estimate \in Estimate : spent[m] + Cardinality(A) * MaxCost <= Most(m, estimate)
      BY <2>1 DEF SpendInv, SpendBound
    <2>3. PICK x \in Nat, k \in Nat, most \in Nat :
            x = spent[m] /\ k = Cardinality(A) /\ most = Most(m, estimate)
      <3>1. A \in SUBSET PaidBy(m)
        BY <2>1 DEF Coming
      <3>2. Cardinality(A) \in Nat
        BY <3>1, ComingIs
      <3>3. QED
        BY <3>2, MostIs DEF SpendInv, SpendType
    <2>4. A \in SUBSET PaidBy(m) /\ B \in SUBSET A /\ (Payer[c] # m => A = B)
      BY <1>1, <2>1 DEF Coming, PaidBy
    <2>5. Payer[c] = m => c \in A /\ B = A \ {c}
      BY <1>1, <2>1 DEF Coming, PaidBy, SpendInv
    <2>6. PICK l \in Nat : l = Cardinality(B) /\ l <= k /\ (Payer[c] = m => k = l + 1)
      BY <2>3, <2>4, <2>5, ComingIs
    <2>7. PICK p, q \in Nat : p = k * MaxCost /\ q = l * MaxCost /\ q <= p /\ (Payer[c] = m => p = q + MaxCost)
      <3>1. k * MaxCost \in Nat /\ l * MaxCost \in Nat /\ l * MaxCost <= k * MaxCost
        BY <2>6, Costs
      <3>2. Payer[c] = m => k * MaxCost = l * MaxCost + MaxCost
        BY <2>6, Costs
      <3>3. QED
        BY <3>1, <3>2
    <2>8. spent'[m] = x \/ (spent'[m] = x + cost /\ Payer[c] = m)
      BY <1>1, <2>3 DEF SpendInv, SpendType
    <2>9. spent'[m] + q <= most
      BY <1>1, <2>2, <2>3, <2>7, <2>8, Costs
    <2>10. QED
      BY <2>1, <2>3, <2>6, <2>7, <2>9 DEF SpendBound, Most, PaidBy
  <1>9. QED
    BY <1>2, <1>5, <1>7, <1>8 DEF SpendInv

LEMMA SpendHolds == SpendInit /\ [][SpendNext]_spendVars => []SpendInv
  <1>1. SpendInv /\ [SpendNext]_spendVars => SpendInv'
    <2> SUFFICES ASSUME SpendInv, [SpendNext]_spendVars PROVE SpendInv'
      OBVIOUS
    <2>1. ASSUME NEW c \in Spender, NEW estimate \in Estimate, SpendAcquire(c, estimate) PROVE SpendInv'
      BY <2>1, AcquireKeeps
    <2>2. ASSUME NEW c \in Spender, NEW cost \in 0..MaxCost, SpendDone(c, cost) PROVE SpendInv'
      BY <2>2, ReleaseKeeps
    <2>3. CASE UNCHANGED spendVars
      BY <2>3 DEF spendVars, SpendInv, SpendType, SpendBound, Coming, Most, PaidBy
    <2>4. QED
      BY <2>1, <2>2, <2>3, GrantedKeeps DEF SpendNext
  <1>2. QED
    BY <1>1, InitSpendInv, PTL

LEMMA WithinBudget == SpendInv => SpendType /\ OverrunBounded
  BY DEF SpendInv, SpendBound, OverrunBounded, Coming

-----------------------------------------------------------------------------
(* The rate limits *)

Pick(S) == CHOOSE x \in S : TRUE

Sums == INSTANCE Recursion
  WITH Op <- LAMBDA m, n : m + n, Map <- LAMBDA f, t : f[t], Ch <- Pick

Sum(f, S) == MapThenSumSet(LAMBDA t : f[t], S)

LEMMA SumOf ==
  ASSUME NEW f, NEW S, Sums!IsFiniteSet(S), \A t \in S : f[t] \in Nat
  PROVE  /\ Sum(f, S) \in Nat
         /\ S = {} => Sum(f, S) = 0
         /\ \A x \in S : Sum(f, S) = f[x] + Sum(f, S \ {x})
  <1>1. \A T : Sum(f, T) = Sums!Fold(f, 0, T)
    BY DEF Sum, Pick, MapThenSumSet, MapThenFoldSet, Sums!Fold, Sums!MapThenFoldSet
  <1>2. Sums!Chooses(S)
    BY DEF Sums!Chooses, Pick
  <1> HIDE DEF Sum
  <1>3. PICK D, b : D = Nat /\ b = 0
    OBVIOUS
  <1>4. /\ \A T \in SUBSET S : Sums!Fold(f, b, T) \in D
        /\ \A x \in S : Sums!Fold(f, b, S) = f[x] + Sums!Fold(f, b, S \ {x})
    <2>1. b \in D /\ Sums!Closed(f, S, D)
      BY <1>3 DEF Sums!Closed
    <2>2. Sums!Commutes(f, S, D)
      BY <1>3 DEF Sums!Commutes
    <2>3. QED
      BY <1>2, <2>1, <2>2, Sums!FoldAnyLast
  <1>6. S = {} => Sums!Fold(f, b, S) = b
    <2>1. Sums!Fold(f, b, S) = IF S = {} THEN b ELSE f[Pick(S)] + Sums!Fold(f, b, S \ {Pick(S)})
      BY <1>2, Sums!FoldUnfold
    <2>2. QED
      BY <2>1
  <1>5. QED
    BY <1>1, <1>3, <1>4, <1>6

LEMMA SumAgrees ==
  ASSUME NEW f, NEW g, NEW S, Sums!IsFiniteSet(S), \A t \in S : f[t] = g[t]
  PROVE  Sum(f, S) = Sum(g, S)
  <1>1. \A h, T : Sum(h, T) = Sums!Fold(h, 0, T)
    BY DEF Sum, Pick, MapThenSumSet, MapThenFoldSet, Sums!Fold, Sums!MapThenFoldSet
  <1>2. Sums!Chooses(S)
    BY DEF Sums!Chooses, Pick
  <1> HIDE DEF Sum
  <1>3. Sums!Fold(f, 0, S) = Sums!Fold(g, 0, S)
    BY <1>2, Sums!FoldAgrees
  <1>4. QED
    BY <1>1, <1>3

LEMMA SumOfStretch ==
  ASSUME NEW f \in [0..MaxTicks -> Nat], NEW from \in 0..MaxTicks, NEW to \in 0..MaxTicks
  PROVE  /\ Sum(f, from..to) \in Nat
         /\ from > to => Sum(f, from..to) = 0
         /\ from <= to => Sum(f, from..to) = f[to] + Sum(f, from..to - 1)
         /\ Sum(f, from..to - 1) \in Nat
         /\ Sums!IsFiniteSet(from..to - 1)
  <1>1. PICK S : S = from..to
    OBVIOUS
  <1>2. S \subseteq 0..MaxTicks /\ from \in Int /\ to \in Int /\ to - 1 \in Int
    BY <1>1, RateAssumption
  <1>3. \A t \in S : f[t] \in Nat
    BY <1>2
  <1>4. Sums!IsFiniteSet(S) /\ Sums!IsFiniteSet(from..to - 1)
    BY <1>1, <1>2, Sums!FS_Interval
  <1>5. /\ Sum(f, S) \in Nat
        /\ S = {} => Sum(f, S) = 0
        /\ \A x \in S : Sum(f, S) = f[x] + Sum(f, S \ {x})
    BY <1>3, <1>4, SumOf
  <1>6. from > to => S = {}
    BY <1>1, <1>2
  <1>7. from <= to => to \in S /\ S \ {to} = from..to - 1
    BY <1>1, <1>2
  <1>8. from..to - 1 \subseteq S
    BY <1>1, <1>2
  <1>9. Sum(f, from..to - 1) \in Nat
    BY <1>3, <1>4, <1>8, SumOf
  <1>10. QED
    BY <1>1, <1>4, <1>5, <1>6, <1>7, <1>9

Full == Capacity * Scale

LEMMA Products ==
  /\ Scale \in Nat /\ Scale > 0 /\ Full \in Nat
  /\ \A n \in Nat : n * Scale \in Nat /\ (n + 1) * Scale = n * Scale + Scale
  /\ 0 * Scale = 0
  BY RateAssumption DEF Full

\* The tokens a bucket would have if it were asked now.
Left(b, now) ==
  _refill(IF b = NoBucket THEN [tokens |-> Capacity * Scale, last_refill |-> now] ELSE b, now).tokens

Filled(now) == {NoBucket} \cup [tokens : 0..Full, last_refill : 0..now]

LEMMA LeftIs ==
  ASSUME NEW now \in Nat, NEW b \in Filled(now)
  PROVE  /\ Left(b, now) \in 0..Full
         /\ b = NoBucket => Left(b, now) = Full
         /\ b # NoBucket =>
              LET n == b.tokens + (now - b.last_refill) IN Left(b, now) = IF Full <= n THEN Full ELSE n
  <1>1. PICK full \in Nat : full = Full
    BY Products
  <1>2. \A m, n \in Int : Min({m, n}) = IF m <= n THEN m ELSE n
    BY DEF Min
  <1>3. CASE b = NoBucket
    <2>1. Left(b, now) = Min({full, full + (now - now)})
      BY <1>1, <1>3 DEF Left, _refill, Full
    <2>2. Left(b, now) = full
      BY <1>2, <2>1
    <2>3. QED
      BY <1>1, <1>3, <2>2
  <1>4. CASE b # NoBucket
    <2>1. Left(b, now) = Min({full, b.tokens + (now - b.last_refill)})
      BY <1>1, <1>4 DEF Left, _refill, Full
    <2>2. PICK m \in 0..full, l \in 0..now : m = b.tokens /\ l = b.last_refill
      BY <1>1, <1>4 DEF Filled
    <2>3. Left(b, now) = IF full <= m + (now - l) THEN full ELSE m + (now - l)
      BY <1>2, <2>1, <2>2
    <2>4. QED
      BY <1>1, <1>4, <2>2, <2>3
  <1>5. QED
    BY <1>3, <1>4

LEMMA LeftGrows ==
  ASSUME NEW now \in Nat, NEW b \in Filled(now)
  PROVE  Left(b, now + 1) <= Left(b, now) + 1
  <1>1. b \in Filled(now + 1) /\ now + 1 \in Nat
    BY DEF Filled
  <1>2. PICK full \in Nat : full = Full
    BY Products
  <1>3. PICK x, y : x = Left(b, now) /\ y = Left(b, now + 1)
    OBVIOUS
  <1>4. CASE b = NoBucket
    <2>1. x = full /\ y = full
      BY <1>1, <1>2, <1>3, <1>4, LeftIs
    <2>2. QED
      BY <1>2, <1>3, <2>1
  <1>5. CASE b # NoBucket
    <2>1. PICK m \in 0..full, l \in 0..now : m = b.tokens /\ l = b.last_refill
      BY <1>2, <1>5 DEF Filled
    <2>2. x = IF full <= m + (now - l) THEN full ELSE m + (now - l)
      BY <1>2, <1>3, <1>5, <2>1, LeftIs
    <2>3. y = IF full <= m + (now + 1 - l) THEN full ELSE m + (now + 1 - l)
      BY <1>1, <1>2, <1>3, <1>5, <2>1, LeftIs
    <2>4. QED
      BY <1>2, <1>3, <2>1, <2>2, <2>3
  <1>6. QED
    BY <1>4, <1>5

BucketInv(k) ==
  /\ buckets[k] \in Filled(ticks)
  /\ buckets[k] = NoBucket => \A t \in 0..MaxTicks : granted[k][t] = 0
  /\ \A t \in 0..MaxTicks : t > ticks => granted[k][t] = 0

\* What a bucket has left is part of what could be granted since any tick.
StretchInv(k) ==
  \A from \in 0..MaxTicks : from <= ticks =>
    Sum(granted[k], from..ticks) * Scale + Left(buckets[k], ticks) <= Full + (ticks - from)

PastInv(k) ==
  \A from, to \in 0..MaxTicks : from <= to /\ to < ticks =>
    Sum(granted[k], from..to) * Scale <= Full + (to - from)

RateInv ==
  /\ ticks \in 0..MaxTicks
  /\ DOMAIN buckets = BucketKey /\ buckets = [k \in BucketKey |-> buckets[k]]
  /\ granted \in [BucketKey -> [0..MaxTicks -> Nat]]
  /\ \A k \in BucketKey : BucketInv(k) /\ StretchInv(k) /\ PastInv(k)

LEMMA InitRateInv == RateInit => RateInv
  <1> SUFFICES ASSUME RateInit PROVE RateInv
    OBVIOUS
  <1>1. /\ ticks = 0 /\ 0 \in 0..MaxTicks
        /\ granted \in [BucketKey -> [0..MaxTicks -> Nat]]
        /\ buckets = [k \in BucketKey |-> NoBucket]
    BY RateAssumption DEF RateInit
  <1>2. ASSUME NEW k \in BucketKey PROVE BucketInv(k)
    BY <1>2 DEF RateInit, BucketInv, Filled
  <1>3. ASSUME NEW k \in BucketKey PROVE Sum(granted[k], 0..0) = 0
    <2>1. PICK f \in [0..MaxTicks -> Nat] : f = granted[k] /\ f[0] = 0
      BY <1>1 DEF RateInit
    <2> DEFINE z == 0
    <2>6. z \in 0..MaxTicks /\ z <= z
      BY <1>1
    <2>3. Sums!IsFiniteSet({}) /\ z..z - 1 = {}
      BY Sums!FS_EmptySet
    <2> HIDE DEF z
    <2>7. Sum(f, z..z) = f[z] + Sum(f, z..z - 1)
      BY <2>6, SumOfStretch
    <2>2. Sum(f, 0..0) = f[0] + Sum(f, {})
      BY <2>3, <2>7 DEF z
    <2>4. Sum(f, {}) = 0
      BY <2>3, SumOf
    <2>5. QED
      BY <2>1, <2>2, <2>4
  <1>4. ASSUME NEW k \in BucketKey PROVE StretchInv(k)
    <2>1. Left(buckets[k], 0) \in 0..Full
      BY <1>1, <1>2, LeftIs DEF BucketInv
    <2>2. ASSUME NEW from \in 0..MaxTicks, from <= 0
          PROVE  Sum(granted[k], from..0) * Scale + Left(buckets[k], 0) <= Full + (0 - from)
      <3>1. from = 0
        BY <2>2, RateAssumption
      <3>2. Sum(granted[k], from..0) = 0
        BY <1>3, <3>1
      <3>3. QED
        BY <2>1, <3>1, <3>2, Products
    <2>3. QED
      BY <1>1, <2>2 DEF StretchInv
  <1>5. ASSUME NEW k \in BucketKey PROVE PastInv(k)
    BY <1>1, RateAssumption DEF PastInv
  <1>6. QED
    BY <1>1, <1>2, <1>4, <1>5 DEF RateInv

\* Up to now, too, no more was granted than the bucket allows.
LEMMA HeldUpToNow ==
  ASSUME RateInv, NEW k \in BucketKey, NEW from \in 0..MaxTicks, NEW to \in 0..MaxTicks, from <= to, to <= ticks
  PROVE  Sum(granted[k], from..to) * Scale <= Full + (to - from)
  <1>1. CASE to < ticks
    BY <1>1 DEF RateInv, PastInv
  <1>2. CASE to = ticks
    <2>1. Left(buckets[k], ticks) \in 0..Full
      BY LeftIs, RateAssumption DEF RateInv, BucketInv
    <2>2. Sum(granted[k], from..to) \in Nat
      BY SumOfStretch DEF RateInv
    <2>3. PICK p \in Nat, l \in Nat, full \in Nat :
            p = Sum(granted[k], from..to) * Scale /\ l = Left(buckets[k], ticks) /\ full = Full
      <3>1. Full \in Nat
        BY Products
      <3>2. Left(buckets[k], ticks) \in Nat
        BY <2>1, <3>1
      <3>3. Sum(granted[k], from..to) * Scale \in Nat
        BY <2>2, Products
      <3>4. QED
        BY <3>1, <3>2, <3>3
    <2>4. p + l <= full + (ticks - from)
      BY <1>2, <2>3 DEF RateInv, StretchInv
    <2>5. QED
      BY <1>2, <2>3, <2>4
  <1>3. QED
    BY <1>1, <1>2 DEF RateInv

LEMMA TickKeeps ==
  ASSUME RateInv, RateTick
  PROVE  RateInv'
  <1>1. ticks \in Nat /\ ticks + 1 \in 0..MaxTicks /\ ticks' = ticks + 1 /\ UNCHANGED <<buckets, granted>>
    BY RateAssumption DEF RateInv, RateTick
  <1>2. ASSUME NEW k \in BucketKey PROVE BucketInv(k)'
    BY <1>1, <1>2 DEF RateInv, BucketInv, Filled
  <1>3. ASSUME NEW k \in BucketKey PROVE StretchInv(k)'
    <2>1. SUFFICES ASSUME NEW from \in 0..MaxTicks, from <= ticks + 1
                   PROVE  Sum(granted[k], from..ticks + 1) * Scale + Left(buckets[k], ticks + 1) <= Full + (ticks + 1 - from)
      BY <1>1 DEF StretchInv
    <2>2. PICK f \in [0..MaxTicks -> Nat] : f = granted[k] /\ f[ticks + 1] = 0
      BY <1>1 DEF RateInv, BucketInv
    <2>3. PICK full \in Nat, x \in Nat, y \in Nat :
            full = Full /\ x = Left(buckets[k], ticks) /\ y = Left(buckets[k], ticks + 1) /\ y <= full /\ y <= x + 1
      <3>1. buckets[k] \in Filled(ticks) /\ buckets[k] \in Filled(ticks + 1)
        BY <1>1 DEF RateInv, BucketInv, Filled
      <3>2. Left(buckets[k], ticks) \in 0..Full /\ Left(buckets[k], ticks + 1) \in 0..Full
        BY <1>1, <3>1, LeftIs
      <3>3. Left(buckets[k], ticks + 1) <= Left(buckets[k], ticks) + 1
        BY <1>1, <3>1, LeftGrows
      <3>4. QED
        BY <3>2, <3>3, Products
    <2>4. /\ Sum(f, from..ticks + 1) = f[ticks + 1] + Sum(f, from..(ticks + 1) - 1)
          /\ Sum(f, from..(ticks + 1) - 1) \in Nat
      BY <1>1, <2>1, SumOfStretch
    <2>5. (ticks + 1) - 1 = ticks
      BY <1>1
    <2>6. PICK n \in Nat : n = Sum(f, from..ticks) /\ n = Sum(f, from..ticks + 1)
      BY <2>2, <2>4, <2>5
    <2>7. CASE from = ticks + 1
      <3>1. n = 0
        <4>1. ticks \in 0..MaxTicks /\ from > ticks
          BY <1>1, <2>7 DEF RateInv
        <4>2. QED
          BY <2>6, <4>1, SumOfStretch
      <3>2. n * Scale = 0
        BY <3>1, Products
      <3>3. QED
        BY <1>1, <2>2, <2>3, <2>6, <2>7, <3>2
    <2>8. CASE from <= ticks
      <3>1. PICK p \in Nat : p = n * Scale
        BY Products
      <3>2. p + x <= full + (ticks - from)
        BY <2>2, <2>3, <2>6, <2>8, <3>1 DEF RateInv, StretchInv
      <3>3. from \in Nat
        BY RateAssumption
      <3>4. p + y <= full + (ticks + 1 - from)
        BY <1>1, <2>3, <3>2, <3>3
      <3>5. QED
        BY <2>2, <2>3, <2>6, <3>1, <3>4
    <2>9. QED
      BY <1>1, <2>1, <2>7, <2>8, RateAssumption
  <1>4. ASSUME NEW k \in BucketKey PROVE PastInv(k)'
    <2>1. SUFFICES ASSUME NEW from \in 0..MaxTicks, NEW to \in 0..MaxTicks, from <= to, to < ticks + 1
                   PROVE  Sum(granted[k], from..to) * Scale <= Full + (to - from)
      BY <1>1 DEF PastInv
    <2>2. to <= ticks
      BY <1>1, <2>1, RateAssumption
    <2>3. QED
      BY <2>1, <2>2, HeldUpToNow
  <1>5. QED
    BY <1>1, <1>2, <1>3, <1>4 DEF RateInv

LEMMA TakeKeeps ==
  ASSUME RateInv, NEW k \in BucketKey, try_take(k)
  PROVE  RateInv'
  <1>1. PICK now \in 0..MaxTicks, f \in [0..MaxTicks -> Nat] : now = ticks /\ f = granted[k]
    BY DEF RateInv
  <1>2. now \in Nat /\ buckets[k] \in Filled(now)
    BY <1>1, RateAssumption DEF RateInv, BucketInv
  <1>3. PICK full, l \in Nat : full = Full /\ l = Left(buckets[k], now) /\ l <= full
    <2>1. Left(buckets[k], now) \in 0..Full /\ Full \in Nat
      BY <1>2, LeftIs, Products
    <2>2. QED
      BY <2>1
  <1>4. PICK b : b = _refill(_bucket(k), ticks)
    OBVIOUS
  <1>5. b = [tokens |-> l, last_refill |-> now]
    BY <1>1, <1>3, <1>4 DEF _refill, _bucket, NewBucket, Left
  <1>6. ASSUME NEW n \in 0..full
        PROVE  LET c == [tokens |-> n, last_refill |-> now] IN
               c \in Filled(now) /\ c # NoBucket /\ Left(c, now) = n
    <2>1. PICK c : c = [tokens |-> n, last_refill |-> now]
      OBVIOUS
    <2>2. c \in Filled(now) /\ c # NoBucket /\ c.tokens = n /\ c.last_refill = now
      BY <1>2, <1>3, <2>1 DEF Filled, NoBucket
    <2>3. Left(c, now) = IF full <= n + (now - now) THEN full ELSE n + (now - now)
      BY <1>2, <1>3, <2>2, LeftIs
    <2>4. QED
      BY <1>2, <2>1, <2>2, <2>3
  <1>7. PICK given \in {0, 1}, n \in 0..full :
          /\ buckets' = [buckets EXCEPT ![k] = [tokens |-> n, last_refill |-> now]]
          /\ granted' = [granted EXCEPT ![k] = [f EXCEPT ![now] = f[now] + given]]
          /\ n + given * Scale = l
          /\ ticks' = ticks
    <2>1. CASE b.tokens >= Scale
      <3>1. /\ buckets' = [buckets EXCEPT ![k] = [b EXCEPT !.tokens = @ - Scale]]
            /\ granted' = [granted EXCEPT ![k][ticks] = @ + 1]
            /\ ticks' = ticks
        BY <1>4, <2>1 DEF try_take
      <3>2. [b EXCEPT !.tokens = @ - Scale] = [tokens |-> l - Scale, last_refill |-> now]
        BY <1>5
      <3>3. l - Scale \in 0..full /\ l >= Scale
        BY <1>3, <1>5, <2>1, Products
      <3>4. granted' = [granted EXCEPT ![k] = [f EXCEPT ![now] = f[now] + 1]]
        BY <1>1, <3>1 DEF RateInv
      <3>5. (l - Scale) + 1 * Scale = l
        BY <1>3, Products
      <3>6. QED
        BY <3>1, <3>2, <3>3, <3>4, <3>5
    <2>2. CASE ~(b.tokens >= Scale)
      <3>1. buckets' = [buckets EXCEPT ![k] = b] /\ UNCHANGED <<ticks, granted>>
        BY <1>4, <2>2 DEF try_take
      <3>2. [f EXCEPT ![now] = f[now] + 0] = f
        BY <1>1
      <3>3. [granted EXCEPT ![k] = f] = granted
        BY <1>1 DEF RateInv
      <3>4. l + 0 * Scale = l
        BY <1>3, Products
      <3>5. /\ buckets' = [buckets EXCEPT ![k] = [tokens |-> l, last_refill |-> now]]
            /\ granted' = [granted EXCEPT ![k] = [f EXCEPT ![now] = f[now] + 0]]
            /\ l \in 0..full
        BY <1>3, <1>5, <3>1, <3>2, <3>3
      <3>6. QED
        BY <3>1, <3>4, <3>5
    <2>3. QED
      BY <2>1, <2>2
  <1>8. PICK g \in [0..MaxTicks -> Nat] :
          /\ g = granted'[k]
          /\ g[now] = f[now] + given
          /\ \A t \in 0..MaxTicks \ {now} : g[t] = f[t]
    <2>1. f[now] + given \in Nat /\ granted'[k] = [f EXCEPT ![now] = f[now] + given]
      BY <1>7 DEF RateInv
    <2>2. QED
      BY <2>1
  <1>9. /\ buckets'[k] \in Filled(now) /\ buckets'[k] # NoBucket /\ Left(buckets'[k], now) = n
        /\ \A j \in BucketKey \ {k} : buckets'[j] = buckets[j] /\ granted'[j] = granted[j]
        /\ DOMAIN buckets' = BucketKey /\ buckets' = [j \in BucketKey |-> buckets'[j]]
        /\ granted' \in [BucketKey -> [0..MaxTicks -> Nat]]
    <2>1. buckets'[k] = [tokens |-> n, last_refill |-> now]
      BY <1>7 DEF RateInv
    <2>2. DOMAIN buckets' = BucketKey /\ buckets' = [j \in BucketKey |-> buckets'[j]]
      BY <1>7 DEF RateInv
    <2>3. [f EXCEPT ![now] = f[now] + given] \in [0..MaxTicks -> Nat]
      BY <1>7
    <2>4. granted' \in [BucketKey -> [0..MaxTicks -> Nat]]
      BY <1>7, <2>3 DEF RateInv
    <2>5. \A j \in BucketKey \ {k} : buckets'[j] = buckets[j] /\ granted'[j] = granted[j]
      BY <1>7 DEF RateInv
    <2>6. QED
      BY <1>6, <2>1, <2>2, <2>4, <2>5
  <1>10. ASSUME NEW j \in BucketKey, j # k PROVE (BucketInv(j) /\ StretchInv(j) /\ PastInv(j))'
    <2>1. BucketInv(j) /\ StretchInv(j) /\ PastInv(j)
      BY DEF RateInv
    <2>2. buckets'[j] = buckets[j] /\ granted'[j] = granted[j] /\ ticks' = ticks
      BY <1>7, <1>9, <1>10
    <2>3. QED
      BY <2>1, <2>2 DEF BucketInv, StretchInv, PastInv
  <1>11. BucketInv(k)'
    <2>1. \A t \in 0..MaxTicks : t > now => g[t] = 0
      <3>1. \A t \in 0..MaxTicks : t > now => f[t] = 0
        BY <1>1 DEF RateInv, BucketInv
      <3>2. ASSUME NEW t \in 0..MaxTicks, t > now PROVE g[t] = f[t]
        <4>1. t # now
          BY <1>2, <3>2
        <4>2. QED
          BY <1>8, <4>1
      <3>3. QED
        BY <3>1, <3>2
    <2>2. QED
      BY <1>1, <1>7, <1>8, <1>9, <2>1 DEF BucketInv
  <1>12. ASSUME NEW from \in 0..MaxTicks, NEW to \in 0..MaxTicks, to < now
         PROVE  Sum(g, from..to) = Sum(f, from..to)
    <2>1. PICK S : S = from..to
      OBVIOUS
    <2>2. Sums!IsFiniteSet(S) /\ \A t \in S : g[t] = f[t]
      <3>1. from \in Int /\ to \in Int /\ S \subseteq 0..MaxTicks \ {now}
        BY <1>2, <1>12, <2>1, RateAssumption
      <3>2. QED
        BY <1>8, <2>1, <3>1, Sums!FS_Interval
    <2>3. QED
      BY <2>1, <2>2, SumAgrees
  <1>13. StretchInv(k)'
    <2>1. SUFFICES ASSUME NEW from \in 0..MaxTicks, from <= now
                   PROVE  Sum(g, from..now) * Scale + n <= full + (now - from)
      BY <1>1, <1>3, <1>7, <1>8, <1>9 DEF StretchInv
    <2>2. PICK S : S = from..now - 1
      OBVIOUS
    <2>3. /\ Sum(f, from..now) = f[now] + Sum(f, S) /\ Sum(g, from..now) = g[now] + Sum(g, S)
          /\ Sum(f, S) \in Nat /\ Sums!IsFiniteSet(S)
      BY <2>1, <2>2, SumOfStretch
    <2>4. \A t \in S : g[t] = f[t]
      <3>1. S \subseteq 0..MaxTicks \ {now}
        BY <1>2, <2>2, RateAssumption
      <3>2. QED
        BY <1>8, <3>1
    <2>5. Sum(g, S) = Sum(f, S)
      BY <2>3, <2>4, SumAgrees
    <2>6. PICK m \in Nat : m = Sum(f, from..now) /\ Sum(g, from..now) = m + given
      BY <1>7, <1>8, <2>3, <2>5
    <2>7. PICK p \in Nat : p = m * Scale
      BY Products
    <2>8. p + l <= full + (now - from)
      BY <1>1, <1>3, <2>1, <2>6, <2>7 DEF RateInv, StretchInv
    <2>9. (m + given) * Scale = p + given * Scale
      BY <2>7, Products
    <2>10. PICK q \in Nat : q = given * Scale
      BY Products
    <2>11. p + q + n <= full + (now - from)
      BY <1>7, <2>8, <2>10
    <2>12. QED
      BY <2>6, <2>9, <2>10, <2>11
  <1>14. PastInv(k)'
    <2>1. SUFFICES ASSUME NEW from \in 0..MaxTicks, NEW to \in 0..MaxTicks, from <= to, to < now
                   PROVE  Sum(g, from..to) * Scale <= Full + (to - from)
      BY <1>1, <1>7, <1>8 DEF PastInv
    <2>2. QED
      BY <1>1, <1>12, <2>1 DEF RateInv, PastInv
  <1>15. QED
    BY <1>1, <1>7, <1>9, <1>10, <1>11, <1>13, <1>14 DEF RateInv

LEMMA NextRateInv == RateInv /\ [RateNext]_rateVars => RateInv'
  <1> SUFFICES ASSUME RateInv, [RateNext]_rateVars PROVE RateInv'
    OBVIOUS
  <1>1. ASSUME NEW k \in BucketKey, try_take(k) PROVE RateInv'
    BY <1>1, TakeKeeps
  <1>2. CASE UNCHANGED rateVars
    BY <1>2 DEF rateVars, RateInv, BucketInv, StretchInv, PastInv
  <1>3. QED
    BY <1>1, <1>2, TickKeeps DEF RateNext

LEMMA RateHolds == RateInit /\ [][RateNext]_rateVars => []RateInv
  BY InitRateInv, NextRateInv, PTL

LEMMA InvRateType == RateInv => RateType
  <1> SUFFICES ASSUME RateInv PROVE RateType
    OBVIOUS
  <1>1. ASSUME NEW k \in BucketKey
        PROVE  buckets[k] \in [tokens : 0..Capacity * Scale, last_refill : -1..MaxTicks]
    <2>1. buckets[k] \in Filled(ticks) /\ ticks \in 0..MaxTicks
      BY DEF RateInv, BucketInv
    <2>2. 0..ticks \subseteq -1..MaxTicks /\ -1 \in -1..MaxTicks /\ 0 \in 0..Full
      BY <2>1, Products, RateAssumption
    <2>3. QED
      BY <2>1, <2>2 DEF Filled, NoBucket, Full
  <1>2. QED
    BY <1>1 DEF RateInv, RateType

LEMMA InvRateHeld == RateInv => RateHeld
  <1> SUFFICES ASSUME RateInv, NEW k \in BucketKey, NEW from \in 0..MaxTicks, NEW to \in from..MaxTicks
               PROVE  Sum(granted[k], from..to) * Scale <= Full + (to - from)
    BY DEF RateHeld, Sum, Full
  <1>1. PICK f \in [0..MaxTicks -> Nat] : f = granted[k] /\ \A t \in 0..MaxTicks : t > ticks => f[t] = 0
    BY DEF RateInv, BucketInv
  <1>2. from \in Nat /\ to \in 0..MaxTicks /\ from <= to /\ ticks \in 0..MaxTicks /\ ticks \in Nat
    BY RateAssumption DEF RateInv
  <1> DEFINE S == {m \in Nat : m <= MaxTicks => Sum(f, from..m) * Scale <= Full + (IF m >= from THEN m - from ELSE 0)}
  <1>3. ASSUME NEW m \in Nat, m <= ticks PROVE m \in S
    <2>1. CASE from <= m
      BY <1>1, <1>2, <1>3, <2>1, HeldUpToNow, RateAssumption
    <2>2. CASE from > m
      <3>1. m \in 0..MaxTicks
        BY <1>2, <1>3, RateAssumption
      <3>2. Sum(f, from..m) = 0
        BY <2>2, <3>1, SumOfStretch
      <3>3. Sum(f, from..m) * Scale = 0
        BY <3>2, Products
      <3>4. QED
        BY <1>2, <2>2, <3>3, Products
    <2>3. QED
      BY <1>2, <2>1, <2>2
  <1>4. ASSUME NEW m \in Nat, m \in S PROVE m + 1 \in S
    <2>1. CASE m + 1 <= ticks
      BY <1>3, <2>1
    <2>2. CASE m + 1 > ticks
      <3>1. SUFFICES ASSUME m + 1 <= MaxTicks
                     PROVE  Sum(f, from..m + 1) * Scale <= Full + (IF m + 1 >= from THEN m + 1 - from ELSE 0)
        OBVIOUS
      <3>2. m + 1 \in 0..MaxTicks /\ (m + 1) - 1 = m /\ f[m + 1] = 0 /\ m \in 0..MaxTicks
        BY <1>1, <1>2, <2>2, <3>1, RateAssumption
      <3>3. CASE from <= m + 1
        <4>1. Sum(f, from..m + 1) = f[m + 1] + Sum(f, from..(m + 1) - 1) /\ Sum(f, from..(m + 1) - 1) \in Nat
          BY <3>2, <3>3, SumOfStretch
        <4>2. Sum(f, from..m + 1) = Sum(f, from..m) /\ Sum(f, from..m) \in Nat
          BY <3>2, <4>1
        <4>3. PICK p \in Nat, full \in Nat : p = Sum(f, from..m) * Scale /\ full = Full
          BY <4>2, Products
        <4>4. p <= full + (IF m >= from THEN m - from ELSE 0)
          BY <1>4, <3>2, <4>3
        <4>5. QED
          BY <1>2, <3>3, <4>2, <4>3, <4>4
      <3>4. CASE from > m + 1
        <4>1. Sum(f, from..m + 1) = 0
          BY <3>2, <3>4, SumOfStretch
        <4>2. Sum(f, from..m + 1) * Scale = 0
          BY <4>1, Products
        <4>3. QED
          BY <1>2, <3>4, <4>2, Products
      <3>5. QED
        BY <1>2, <3>3, <3>4
    <2>3. QED
      BY <1>2, <2>1, <2>2
  <1>5. 0 \in S
    BY <1>2, <1>3
  <1> HIDE DEF S
  <1>6. to \in S
    BY <1>2, <1>4, <1>5, Sums!SetInduction
  <1>7. QED
    BY <1>1, <1>2, <1>6 DEF S

-----------------------------------------------------------------------------
(* The versions of the policy *)

Limits == [Rule -> Int]
Counted == [metric : {"retry", "contacts"}, occurred : 0..MaxDay]
Seen == 0..MaxCounted
ChainEntries ==
  [rule : Rule \cup {"paused_no_autoretry"}, observed : {NotCounted} \cup Seen, limit : Int, verdict : VERDICTS]
Evaluations == [on : {TRUE}, version : Version, chain : ChainType, asked : AskedType]
DecisionsMade ==
  [version : Version, chain : ChainType, created_at : [day : 0..MaxDay, seen : Seen], executed : BOOLEAN]

\* An entry says what a rule with these limits says.
Sound(e, limits) ==
  \/ e.rule = "paused_no_autoretry" /\ e.verdict = "DENY"
  \/ e.rule \in DOMAIN limits /\ e = Matched(e.rule)
  \/ e.rule \in DOMAIN limits /\ e = Compared(e.rule, limits[e.rule], e.observed)

\* A version has rows, and a chain is what they say.
Stands(version, chain) ==
  /\ rows[CaseType][version] # NoRows
  /\ \A e \in chain : Sound(e, rows[CaseType][version])

RowsType == rows \in [RuledType -> [Version -> Limits \cup {NoRows}]]

PoliciesInv ==
  /\ day \in 0..MaxDay
  /\ RowsType
  /\ shadow \in [RuledType -> SUBSET Version]
  /\ counted \in Seq(Counted) /\ Len(counted) <= MaxCounted
  /\ gate = NoGate \/ (gate \in Evaluations /\ Stands(gate.version, gate.chain))
  /\ decisions \in Seq(DecisionsMade)
  /\ asked \in Seq(AskedType) /\ Len(asked) = Len(decisions)
  /\ \A i \in DOMAIN decisions : Stands(decisions[i].version, decisions[i].chain)

\* Rows are written once.
RowsKept == \A t \in RuledType, v \in Version : rows[t][v] # NoRows => rows'[t][v] = rows[t][v]

LEMMA Greatest ==
  ASSUME NEW n \in Nat, NEW S \in SUBSET (0..n), S # {}
  PROVE  Max(S) \in S /\ \A m \in S : m <= Max(S)
  <1>1. Sums!IsFiniteSet(S) /\ S \in SUBSET Nat
    <2>1. Sums!IsFiniteSet(0..n)
      BY Sums!FS_Interval
    <2>2. Sums!IsFiniteSet(S)
      BY <2>1, Sums!FS_Subset
    <2>3. S \in SUBSET Nat
      OBVIOUS
    <2>4. QED
      BY <2>2, <2>3
  <1>2. PICK x \in S : \A y \in S : y <= x
    BY <1>1, Sums!GreatestElement
  <1>3. \E y \in S : \A m \in S : y >= m
    BY <1>1, <1>2
  <1>4. Max(S) \in S /\ \A m \in S : Max(S) >= m
    BY <1>3 DEF Max
  <1>5. QED
    BY <1>1, <1>4

\* The active version has rows, and no later version of the type has.
LEMMA ActiveIs ==
  ASSUME NEW t \in RuledType
  PROVE  /\ active_policy_version(t) \in 0..MaxVersion
         /\ active_policy_version(t) # 0 =>
              active_policy_version(t) \in Version /\ rows[t][active_policy_version(t)] # NoRows
         /\ \A v \in Version : v > active_policy_version(t) => rows[t][v] = NoRows
  <1>1. PICK S : S = VersionsOf(t) \cup {0}
    OBVIOUS
  <1>2. S \in SUBSET (0..MaxVersion) /\ S # {}
    BY <1>1, PoliciesAssumption DEF VersionsOf, Version
  <1>3. Max(S) \in S /\ \A m \in S : m <= Max(S)
    BY <1>2, Greatest, PoliciesAssumption
  <1>4. PICK a \in 0..MaxVersion : a = Max(S) /\ a = active_policy_version(t)
    BY <1>1, <1>2, <1>3 DEF active_policy_version
  <1>5. ASSUME NEW v \in Version, v > a PROVE v \notin VersionsOf(t)
    <2>1. v \in Int /\ a \in Int
      BY PoliciesAssumption DEF Version
    <2>2. v \in S => v <= a
      BY <1>3, <1>4
    <2>3. v \notin S
      BY <1>5, <2>1, <2>2
    <2>4. QED
      BY <1>1, <2>3
  <1>6. a # 0 => a \in VersionsOf(t)
    BY <1>1, <1>3, <1>4
  <1>7. QED
    BY <1>4, <1>5, <1>6 DEF VersionsOf

LEMMA FromVersionIs ==
  /\ from_version \in 0..MaxVersion
  /\ \A t \in RuledType, v \in Version : v > from_version => rows[t][v] = NoRows
  <1>1. PICK S : S = {active_policy_version(t) : t \in RuledType}
    OBVIOUS
  <1>2. \A t \in RuledType : active_policy_version(t) \in 0..MaxVersion
    BY ActiveIs
  <1>3. S \in SUBSET (0..MaxVersion) /\ S # {}
    BY <1>1, <1>2, PoliciesAssumption
  <1>4. Max(S) \in S /\ \A m \in S : m <= Max(S)
    BY <1>3, Greatest, PoliciesAssumption
  <1>5. PICK f \in 0..MaxVersion : f = Max(S) /\ f = from_version
    BY <1>1, <1>3, <1>4 DEF from_version
  <1>6. ASSUME NEW t \in RuledType, NEW v \in Version, v > f PROVE rows[t][v] = NoRows
    <2>1. PICK a \in 0..MaxVersion : a = active_policy_version(t) /\ a <= f
      BY <1>1, <1>2, <1>4, <1>5
    <2>2. v > a
      BY <1>6, <2>1, PoliciesAssumption DEF Version
    <2>3. QED
      BY <2>1, <2>2, ActiveIs
  <1>7. QED
    BY <1>5, <1>6

\* What stands goes on standing.
LEMMA StandsOn ==
  ASSUME RowsKept, NEW version \in Version, NEW chain, Stands(version, chain)
  PROVE  Stands(version, chain)'
  <1>1. rows'[CaseType][version] = rows[CaseType][version]
    BY PoliciesAssumption DEF Stands, RowsKept
  <1>2. PICK limits : limits = rows[CaseType][version]
    OBVIOUS
  <1>3. limits # NoRows /\ \A e \in chain : Sound(e, limits)
    BY <1>2 DEF Stands
  <1>4. QED
    BY <1>1, <1>2, <1>3 DEF Stands

LEMMA AllStandsOn ==
  ASSUME PoliciesInv, RowsKept, UNCHANGED <<gate, decisions, asked>>
  PROVE  /\ gate' = NoGate \/ (gate' \in Evaluations /\ Stands(gate.version, gate.chain)')
         /\ \A i \in DOMAIN decisions' : Stands(decisions[i].version, decisions[i].chain)'
  <1>1. ASSUME gate # NoGate
        PROVE  gate' \in Evaluations /\ Stands(gate.version, gate.chain)'
    <2>1. PICK v, c : v \in Version /\ v = gate.version /\ c = gate.chain /\ Stands(v, c)
      BY <1>1 DEF PoliciesInv, Evaluations
    <2>2. Stands(v, c)'
      BY <2>1, StandsOn
    <2>3. gate' \in Evaluations
      BY <1>1 DEF PoliciesInv
    <2>4. QED
      BY <2>1, <2>2, <2>3 DEF Stands
  <1>2. ASSUME NEW i \in DOMAIN decisions PROVE Stands(decisions[i].version, decisions[i].chain)'
    <2>0. PICK d \in DecisionsMade : d = decisions[i] /\ Stands(d.version, d.chain)
      BY DEF PoliciesInv
    <2>1. PICK v, c : v \in Version /\ v = d.version /\ c = d.chain /\ Stands(v, c)
      BY <2>0 DEF DecisionsMade
    <2>2. Stands(v, c)'
      BY <2>1, StandsOn
    <2>3. QED
      BY <2>0, <2>1, <2>2 DEF Stands
  <1>3. QED
    BY <1>1, <1>2

LEMMA RulesAre ==
  \A r \in Rule : DEFAULT_POLICY_RULES[r].limit \in Int /\ DEFAULT_POLICY_RULES[r].verdict \in VERDICTS
  BY DEF Rule, DEFAULT_POLICY_RULES, VERDICTS

LEMMA DefaultsAreLimits == DefaultLimits \in Limits
  BY RulesAre DEF DefaultLimits, Limits

LEMMA VerdictIs == \A S : aggregate_verdict(S) \in VERDICTS
  BY DEF aggregate_verdict, VERDICTS

LEMMA CountIs ==
  ASSUME NEW r, NEW now, NEW seen \in Seen
  PROVE  get_windowed_count(r, now, seen) \in Seen
  <1>1. PICK S : S = {i \in 1..seen : /\ counted[i].metric = DEFAULT_POLICY_RULES[r].metric
                                      /\ counted[i].occurred > now - DEFAULT_POLICY_RULES[r].window}
    OBVIOUS
  <1>2. seen \in Nat /\ IsFiniteSet(1..seen) /\ Cardinality(1..seen) = seen
    BY FS_Interval, PoliciesAssumption DEF Seen
  <1>3. IsFiniteSet(S) /\ Cardinality(S) <= seen
    BY <1>1, <1>2, FS_Subset
  <1>4. Cardinality(S) \in Nat
    BY <1>3, FS_CardinalityType
  <1>5. get_windowed_count(r, now, seen) = Cardinality(S)
    BY <1>1 DEF get_windowed_count
  <1>6. QED
    BY <1>2, <1>3, <1>4, <1>5, PoliciesAssumption DEF Seen

\* What the gate says is what the rows say.
LEMMA ChainIs ==
  ASSUME NEW limits \in Limits, NEW action, NEW context, NEW now, NEW seen \in Seen
  PROVE  /\ GateChain(limits, action, context, now, seen) \in ChainType
         /\ \A e \in GateChain(limits, action, context, now, seen) : Sound(e, limits)
  <1> DEFINE pause == reason_entry("paused_no_autoretry", NotCounted, NotCounted, "DENY")
  <1>1. DOMAIN limits = Rule /\ \A r \in Rule : limits[r] \in Int
    BY DEF Limits
  <1>2. pause \in ChainEntries /\ Sound(pause, limits)
    BY DEF reason_entry, ChainEntries, NotCounted, VERDICTS, Sound
  <1>3. ASSUME NEW r \in Rule PROVE Matched(r) \in ChainEntries /\ Matched(r).rule = r
    BY RulesAre DEF Matched, reason_entry, ChainEntries, NotCounted
  <1>4. ASSUME NEW r \in Rule, NEW n \in Seen
        PROVE  /\ Compared(r, limits[r], n) \in ChainEntries
               /\ Compared(r, limits[r], n).rule = r /\ Compared(r, limits[r], n).observed = n
    <2>1. PICK l \in Int : l = limits[r]
      BY <1>1
    <2>2. PICK v \in VERDICTS : v = IF n >= l THEN DEFAULT_POLICY_RULES[r].verdict ELSE "ALLOW"
      BY RulesAre DEF VERDICTS
    <2>3. QED
      BY <2>1, <2>2 DEF Compared, reason_entry, ChainEntries
  <1>5. ASSUME NEW e \in GateChain(limits, action, context, now, seen)
        PROVE  e \in ChainEntries /\ Sound(e, limits)
    <2>1. CASE e = pause
      BY <1>2, <2>1
    <2>2. CASE \E r \in ContextRules(limits, context) : e = Matched(r)
      <3>1. PICK r \in Rule : e = Matched(r)
        BY <1>1, <2>2 DEF ContextRules
      <3>2. QED
        BY <1>1, <1>3, <3>1 DEF Sound
    <2>3. CASE \E r \in MetricRule \cap DOMAIN limits : e = Compared(r, limits[r], get_windowed_count(r, now, seen))
      <3>1. PICK r \in Rule, n \in Seen : e = Compared(r, limits[r], n)
        BY <1>1, <2>3, CountIs
      <3>2. QED
        BY <1>1, <1>4, <3>1 DEF Sound
    <2>4. QED
      BY <2>1, <2>2, <2>3 DEF GateChain
  <1>6. ChainType = SUBSET ChainEntries
    BY DEF ChainType, ChainEntries, Seen
  <1>7. QED
    BY <1>5, <1>6

LEMMA OverridesAreLimits ==
  ASSUME NEW limits \in Limits, NEW o \in Overrides
  PROVE  WithOverrides(limits, o) \in Limits
  BY PoliciesAssumption DEF Limits, WithOverrides

LEMMA InitPoliciesInv == PoliciesInit => PoliciesInv
  BY PoliciesAssumption DEF PoliciesInit, PoliciesInv, RowsType

\* Versions come and nothing else changes.
LEMMA RowsChange ==
  ASSUME PoliciesInv, RowsType', RowsKept, shadow' \in [RuledType -> SUBSET Version],
         UNCHANGED <<day, counted, gate, decisions, asked>>
  PROVE  PoliciesInv'
  BY AllStandsOn DEF PoliciesInv, Stands

LEMMA SeedKeeps ==
  ASSUME PoliciesInv, seed_default_policy
  PROVE  PoliciesInv'
  <1>1. ASSUME NEW t \in RuledType
        PROVE  /\ rows'[t] \in [Version -> Limits \cup {NoRows}]
               /\ \A v \in Version : rows[t][v] # NoRows => rows'[t][v] = rows[t][v]
    <2>1. rows'[t] = IF rows[t][1] = NoRows THEN [rows[t] EXCEPT ![1] = DefaultLimits] ELSE rows[t]
      BY DEF seed_default_policy
    <2>2. rows[t] \in [Version -> Limits \cup {NoRows}]
      BY DEF PoliciesInv, RowsType
    <2>3. QED
      BY <2>1, <2>2, DefaultsAreLimits
  <1>2. rows' = [t \in RuledType |-> rows'[t]]
    BY DEF seed_default_policy
  <1>3. RowsType' /\ RowsKept
    BY <1>1, <1>2 DEF RowsType, RowsKept
  <1>4. UNCHANGED <<day, shadow, counted, gate, decisions, asked>>
    BY DEF seed_default_policy
  <1>5. QED
    BY <1>3, <1>4, RowsChange DEF PoliciesInv

LEMMA CanaryKeeps ==
  ASSUME PoliciesInv, NEW t \in RuledType, NEW o \in Overrides, create_canary_version(t, o)
  PROVE  PoliciesInv'
  <1>1. PICK v : v = active_policy_version(t)
    OBVIOUS
  <1>2. v \in 1..MaxVersion - 1 /\ v \in Version /\ v + 1 \in Version /\ v + 1 > v /\ v # 0
    BY <1>1, PoliciesAssumption DEF create_canary_version, Version
  <1>3. rows[t][v] # NoRows /\ rows[t][v + 1] = NoRows
    BY <1>1, <1>2, ActiveIs
  <1>4. PICK new : new = WithOverrides(rows[t][v], o)
    OBVIOUS
  <1>5. rows[t][v] \in Limits
    BY <1>2, <1>3 DEF PoliciesInv, RowsType
  <1>6. new \in Limits
    BY <1>4, <1>5, OverridesAreLimits
  <1>7. rows' = [rows EXCEPT ![t][v + 1] = new] /\ UNCHANGED <<day, shadow, counted, gate, decisions, asked>>
    BY <1>1, <1>4 DEF create_canary_version
  <1>8. RowsType' /\ RowsKept
    BY <1>2, <1>3, <1>6, <1>7 DEF PoliciesInv, RowsType, RowsKept
  <1>9. QED
    BY <1>7, <1>8, RowsChange DEF PoliciesInv

LEMMA ReplayKeeps ==
  ASSUME PoliciesInv, NEW o \in Overrides, replay_with_policy(o)
  PROVE  PoliciesInv'
  <1>1. PICK f : f = from_version
    OBVIOUS
  <1>2. f \in 1..MaxVersion - 1 /\ f \in Version /\ f + 1 \in Version /\ f + 1 > f
    BY <1>1, PoliciesAssumption DEF replay_with_policy, Version
  <1>3. \A t \in RuledType : rows[t][f + 1] = NoRows
    BY <1>1, <1>2, FromVersionIs
  <1>4. /\ rows' = [t \in RuledType |->
                     IF rows[t][f] = NoRows THEN rows[t]
                     ELSE [rows[t] EXCEPT ![f + 1] = WithOverrides(rows[t][f], o)]]
        /\ shadow' = [t \in RuledType |-> IF rows[t][f] = NoRows THEN shadow[t] ELSE shadow[t] \cup {f + 1}]
        /\ UNCHANGED <<day, counted, gate, decisions, asked>>
    BY <1>1 DEF replay_with_policy
  <1>5. ASSUME NEW t \in RuledType
        PROVE  /\ rows'[t] \in [Version -> Limits \cup {NoRows}]
               /\ \A v \in Version : rows[t][v] # NoRows => rows'[t][v] = rows[t][v]
    <2>1. rows[t] \in [Version -> Limits \cup {NoRows}]
      BY DEF PoliciesInv, RowsType
    <2>2. CASE rows[t][f] = NoRows
      BY <1>4, <2>1, <2>2
    <2>3. CASE rows[t][f] # NoRows
      <3>1. WithOverrides(rows[t][f], o) \in Limits
        BY <1>2, <2>1, <2>3, OverridesAreLimits
      <3>2. PICK new \in Limits : new = WithOverrides(rows[t][f], o)
        BY <3>1
      <3>3. rows'[t] = [rows[t] EXCEPT ![f + 1] = new]
        BY <1>4, <2>3, <3>2
      <3>4. QED
        BY <1>2, <1>3, <2>1, <3>3
    <2>4. QED
      BY <2>2, <2>3
  <1>6. rows' = [t \in RuledType |-> rows'[t]]
    BY <1>4
  <1>7. RowsType' /\ RowsKept
    BY <1>5, <1>6 DEF RowsType, RowsKept
  <1>8. shadow' \in [RuledType -> SUBSET Version]
    BY <1>2, <1>4 DEF PoliciesInv
  <1>9. QED
    BY <1>4, <1>7, <1>8, RowsChange

\* An event more is counted.
LEMMA CountedMore ==
  ASSUME PoliciesInv, NEW x \in Counted, Len(counted) < MaxCounted, counted' = Append(counted, x)
  PROVE  counted' \in Seq(Counted) /\ Len(counted') <= MaxCounted
  BY PoliciesAssumption DEF PoliciesInv

LEMMA CountKeeps ==
  ASSUME PoliciesInv, NEW m \in {"retry", "contacts"}, NEW o \in {0, day}, Count(m, o)
  PROVE  PoliciesInv'
  <1>1. PICK x : x = [metric |-> m, occurred |-> o]
    OBVIOUS
  <1>2. x \in Counted
    BY <1>1, PoliciesAssumption DEF Counted, PoliciesInv
  <1>3. /\ Len(counted) < MaxCounted /\ counted' = Append(counted, x)
        /\ UNCHANGED <<day, rows, shadow, gate, decisions, asked>>
    BY <1>1 DEF Count
  <1>4. RowsKept
    BY <1>3 DEF RowsKept
  <1>5. QED
    BY <1>2, <1>3, <1>4, CountedMore, AllStandsOn DEF PoliciesInv, RowsType, Stands

LEMMA ExecuteKeeps ==
  ASSUME PoliciesInv, NEW k \in DOMAIN decisions, ExecuteDecision(k)
  PROVE  PoliciesInv'
  <1>1. PICK x : x = [occurred |-> day,
                      metric |-> IF asked[k].action \in MONEY_ATTEMPT_ACTIONS THEN "retry" ELSE "contacts"]
    OBVIOUS
  <1>2. x \in Counted
    BY <1>1 DEF Counted, PoliciesInv
  <1>3. /\ Len(counted) < MaxCounted /\ counted' = Append(counted, x)
        /\ UNCHANGED <<day, rows, shadow, gate, asked>>
        /\ decisions' = [decisions EXCEPT ![k].executed = TRUE]
    BY <1>1 DEF ExecuteDecision
  <1>4. PICK d \in DecisionsMade : d = decisions[k]
    BY DEF PoliciesInv
  <1>5. PICK done \in DecisionsMade :
          done = [d EXCEPT !.executed = TRUE] /\ done.version = d.version /\ done.chain = d.chain
    <2>1. PICK done : done = [d EXCEPT !.executed = TRUE]
      OBVIOUS
    <2>2. done \in DecisionsMade /\ done.version = d.version /\ done.chain = d.chain
      BY <2>1 DEF DecisionsMade
    <2>3. QED
      BY <2>1, <2>2
  <1>6. decisions' = [decisions EXCEPT ![k] = done]
    BY <1>3, <1>4, <1>5
  <1>7. /\ decisions' \in Seq(DecisionsMade) /\ DOMAIN decisions' = DOMAIN decisions
        /\ Len(decisions') = Len(decisions)
        /\ \A i \in DOMAIN decisions : decisions'[i] = IF i = k THEN done ELSE decisions[i]
    BY <1>6 DEF PoliciesInv
  <1>8. ASSUME NEW i \in DOMAIN decisions PROVE Stands(decisions[i].version, decisions[i].chain)'
    <2>1. decisions'[i].version = decisions[i].version /\ decisions'[i].chain = decisions[i].chain
      BY <1>4, <1>5, <1>7
    <2>2. QED
      BY <1>3, <2>1 DEF PoliciesInv, Stands
  <1>9. gate' = NoGate \/ (gate' \in Evaluations /\ Stands(gate.version, gate.chain)')
    BY <1>3 DEF PoliciesInv, Stands
  <1>10. QED
    BY <1>2, <1>3, <1>7, <1>8, <1>9, CountedMore DEF PoliciesInv, RowsType

LEMMA EvaluateKeeps ==
  ASSUME PoliciesInv, NEW a \in {"RETRY_NOW", "SEND_PAYMENT_LINK"}, NEW c \in Context,
         NEW n \in {day, day - 1}, Evaluate(a, c, n)
  PROVE  PoliciesInv'
  <1>1. PICK version, seen : version = active_policy_version(CaseType) /\ seen = Len(counted)
    OBVIOUS
  <1>2. version \in Version /\ rows[CaseType][version] # NoRows
    BY <1>1, ActiveIs, PoliciesAssumption DEF Evaluate
  <1>3. PICK limits \in Limits : limits = rows[CaseType][version]
    BY <1>2, PoliciesAssumption DEF PoliciesInv, RowsType
  <1>4. n \in -1..MaxDay /\ seen \in Seen
    BY <1>1, PoliciesAssumption DEF PoliciesInv, Seen
  <1>5. PICK chain \in ChainType : chain = GateChain(limits, a, c, n, seen) /\ \A e \in chain : Sound(e, limits)
    BY <1>4, ChainIs
  <1>6. PICK q \in AskedType : q = [action |-> a, context |-> c, now |-> n, seen |-> seen]
    BY <1>4 DEF AskedType, Seen
  <1>7. /\ gate' = [on |-> TRUE, version |-> version, chain |-> chain, asked |-> q]
        /\ UNCHANGED <<day, rows, shadow, counted, decisions, asked>>
    BY <1>1, <1>3, <1>5, <1>6 DEF Evaluate
  <1>8. gate' \in Evaluations /\ gate'.version = version /\ gate'.chain = chain
    BY <1>2, <1>7 DEF Evaluations
  <1>9. Stands(gate.version, gate.chain)'
    BY <1>2, <1>3, <1>5, <1>7, <1>8 DEF Stands
  <1>10. \A i \in DOMAIN decisions' : Stands(decisions[i].version, decisions[i].chain)'
    BY <1>7 DEF PoliciesInv, Stands
  <1>11. QED
    BY <1>7, <1>8, <1>9, <1>10 DEF PoliciesInv, RowsType

LEMMA RecordKeeps ==
  ASSUME PoliciesInv, RecordDecision
  PROVE  PoliciesInv'
  <1>1. gate \in Evaluations /\ Stands(gate.version, gate.chain)
    BY DEF PoliciesInv, RecordDecision, NoGate
  <1>2. PICK d \in DecisionsMade :
          d = RowOf(gate.version) /\ d.version = gate.version /\ d.chain = gate.chain
    <2>1. Len(counted) \in Seen /\ day \in 0..MaxDay
      BY PoliciesAssumption DEF PoliciesInv, Seen
    <2>2. PICK c \in ChainType, v \in Version : c = gate.chain /\ v = gate.version
      BY <1>1 DEF Evaluations
    <2>3. PICK n \in Seen : n = Len(counted)
      BY <2>1
    <2>4. PICK d : d = [version |-> v, chain |-> c, created_at |-> [day |-> day, seen |-> n], executed |-> FALSE]
      OBVIOUS
    <2>5. d \in DecisionsMade /\ d.version = v /\ d.chain = c
      BY <2>1, <2>4 DEF DecisionsMade
    <2>6. QED
      BY <2>2, <2>3, <2>4, <2>5 DEF RowOf
  <1>3. PICK q \in AskedType : q = gate.asked
    BY <1>1 DEF Evaluations
  <1>4. /\ decisions' = Append(decisions, d) /\ asked' = Append(asked, q) /\ gate' = NoGate
        /\ UNCHANGED <<day, rows, shadow, counted>>
    BY <1>2, <1>3 DEF RecordDecision
  <1>5. /\ decisions' \in Seq(DecisionsMade) /\ asked' \in Seq(AskedType) /\ Len(asked') = Len(decisions')
        /\ \A i \in DOMAIN decisions' : (i \in DOMAIN decisions /\ decisions'[i] = decisions[i]) \/ decisions'[i] = d
    BY <1>4 DEF PoliciesInv
  <1>6. ASSUME NEW i \in DOMAIN decisions' PROVE Stands(decisions[i].version, decisions[i].chain)'
    <2>1. PICK x : x = decisions'[i]
      OBVIOUS
    <2>2. Stands(x.version, x.chain)
      BY <1>1, <1>2, <1>5, <2>1 DEF PoliciesInv
    <2>3. QED
      BY <1>4, <2>1, <2>2 DEF Stands
  <1>7. QED
    BY <1>4, <1>5, <1>6 DEF PoliciesInv, RowsType

LEMMA DayKeeps ==
  ASSUME PoliciesInv, UNCHANGED <<rows, shadow, counted, gate, decisions, asked>>, day' \in 0..MaxDay
  PROVE  PoliciesInv'
  <1>1. RowsKept
    BY DEF RowsKept
  <1>2. QED
    BY <1>1, AllStandsOn DEF PoliciesInv, RowsType, Stands

LEMMA PoliciesHold == PoliciesInit /\ [][PoliciesNext]_policyVars => []PoliciesInv
  <1>1. PoliciesInv /\ [PoliciesNext]_policyVars => PoliciesInv'
    <2> SUFFICES ASSUME PoliciesInv, [PoliciesNext]_policyVars PROVE PoliciesInv'
      OBVIOUS
    <2>1. CASE NextDay \/ UNCHANGED policyVars
      <3>1. UNCHANGED <<rows, shadow, counted, gate, decisions, asked>> /\ day' \in 0..MaxDay
        BY <2>1, PoliciesAssumption DEF NextDay, policyVars, PoliciesInv
      <3>2. QED
        BY <3>1, DayKeeps
    <2>2. ASSUME NEW m \in {"retry", "contacts"}, NEW o \in {0, day}, Count(m, o) PROVE PoliciesInv'
      BY <2>2, CountKeeps
    <2>3. ASSUME NEW a \in {"RETRY_NOW", "SEND_PAYMENT_LINK"}, NEW c \in Context,
                 NEW n \in {day, day - 1}, Evaluate(a, c, n)
          PROVE  PoliciesInv'
      BY <2>3, EvaluateKeeps
    <2>4. ASSUME NEW d \in DOMAIN decisions, ExecuteDecision(d) PROVE PoliciesInv'
      BY <2>4, ExecuteKeeps
    <2>5. ASSUME NEW t \in RuledType, NEW o \in Overrides, create_canary_version(t, o) PROVE PoliciesInv'
      BY <2>5, CanaryKeeps
    <2>6. ASSUME NEW o \in Overrides, replay_with_policy(o) PROVE PoliciesInv'
      BY <2>6, ReplayKeeps
    <2>7. QED
      BY <2>1, <2>2, <2>3, <2>4, <2>5, <2>6, SeedKeeps, RecordKeeps DEF PoliciesNext
  <1>2. QED
    BY <1>1, InitPoliciesInv, PTL

LEMMA PoliciesGive == PoliciesInv => PoliciesType /\ EvidenceStands
  <1> SUFFICES ASSUME PoliciesInv PROVE PoliciesType /\ EvidenceStands
    OBVIOUS
  <1>1. PoliciesType
    BY DEF PoliciesInv, PoliciesType, RowsType, Limits, Counted, DecisionsMade, Evaluations, Seen
  <1>2. EvidenceStands
    BY DEF PoliciesInv, EvidenceStands, Stands, Sound
  <1>3. QED
    BY <1>1, <1>2

\* Entries that allow do not change a verdict.
LEMMA AllowedAside ==
  ASSUME NEW S, NEW T, S \subseteq T, T \subseteq S \cup {"ALLOW"}
  PROVE  aggregate_verdict(S) = aggregate_verdict(T)
  BY DEF aggregate_verdict

\* The rules a replay looks at and the gate does not allow.
LEMMA ReplayAgrees == ReplayIsTheGate
  <1>1. SUFFICES ASSUME NEW d, NEW q, NEW limits, NEW o,
                        q.now = d.created_at.day, q.seen = d.created_at.seen,
                        ~Paused(q.action, q.context),
                        ContextRules(limits, q.context) = {},
                        \A r \in Reached(limits, q.now, q.seen) :
                          rule_applies_to(r, q.context) /\ Relevant(r, q.action),
                        limits = WithOverrides(rows[CaseType][from_version], o)
                 PROVE  ReplayVerdict(d, o) = ChainVerdict(GateChain(limits, q.action, q.context, q.now, q.seen))
    BY DEF ReplayIsTheGate
  <1> DEFINE entry(r) == Compared(r, limits[r], get_windowed_count(r, q.now, q.seen))
             all == MetricRule \cap DOMAIN limits
             heard == {r \in all : rule_applies_to(r, q.context) /\ Relevant(r, q.action)}
  <1>2. GateChain(limits, q.action, q.context, q.now, q.seen) = {entry(r) : r \in heard}
    BY <1>1 DEF GateChain
  <1>3. ReplayChain(limits, d.created_at.day, d.created_at.seen) = {entry(r) : r \in all}
    BY <1>1 DEF ReplayChain
  <1>4. ASSUME NEW r \in all, r \notin heard PROVE entry(r).verdict = "ALLOW"
    <2>1. ~(get_windowed_count(r, q.now, q.seen) >= limits[r])
      BY <1>1, <1>4 DEF Reached
    <2>2. QED
      BY <2>1 DEF Compared, reason_entry
  <1>5. PICK S, T : S = {e.verdict : e \in {entry(r) : r \in heard}} /\ T = {e.verdict : e \in {entry(r) : r \in all}}
    OBVIOUS
  <1>6. S \subseteq T /\ T \subseteq S \cup {"ALLOW"}
    <2> HIDE DEF entry, all
    <2>1. heard \subseteq all
      OBVIOUS
    <2>2. ASSUME NEW v \in T PROVE v \in S \cup {"ALLOW"}
      BY <1>4, <1>5
    <2>3. QED
      BY <1>5, <2>1, <2>2
  <1>7. aggregate_verdict(S) = aggregate_verdict(T)
    BY <1>6, AllowedAside
  <1>8. QED
    BY <1>1, <1>2, <1>3, <1>5, <1>7 DEF ReplayVerdict, ChainVerdict

-----------------------------------------------------------------------------
(* The timing of retries *)

Month == DOMAIN MonthLength

LEMMA OneOfASet ==
  ASSUME NEW S \in SUBSET Int, NEW x \in S, \A y \in S : x <= y
  PROVE  Min(S) = x
  <1>1. \A y \in S : x <= y
    OBVIOUS
  <1>2. PICK y \in S : y = Min(S) /\ \A z \in S : y <= z
    BY DEF Min
  <1>3. QED
    BY <1>2

LEMMA MonthsAre ==
  /\ Month = 1..Len(MonthLength) /\ Len(MonthLength) \in Nat
  /\ \A m \in Month : MonthLength[m] \in 28..31
  BY TimingAssumption DEF Month

\* A month begins when those before it are over.
LEMMA FirstOfIs ==
  /\ FirstOf(1) = 0
  /\ \A m \in Month : FirstOf(m) \in Nat /\ FirstOf(m + 1) = FirstOf(m) + MonthLength[m]
  <1>1. FirstOf(1) = 0
    <2>1. Sums!IsFiniteSet({}) /\ \A t \in {} : MonthLength[t] \in Nat
      BY Sums!FS_EmptySet
    <2>2. Sum(MonthLength, {}) = 0
      BY <2>1, SumOf
    <2>3. 1..1 - 1 = {}
      OBVIOUS
    <2>4. QED
      BY <2>2, <2>3 DEF FirstOf, Sum
  <1>2. ASSUME NEW m \in Month
        PROVE  FirstOf(m) \in Nat /\ FirstOf(m + 1) = FirstOf(m) + MonthLength[m]
    <2>1. PICK S : S = 1..m
      OBVIOUS
    <2>2. S \subseteq Month /\ m \in Nat /\ m \in S /\ 1..(m + 1) - 1 = S /\ 1..m - 1 = S \ {m}
      BY <2>1, MonthsAre
    <2>3. Sums!IsFiniteSet(S)
      BY <2>1, <2>2, Sums!FS_Interval
    <2>4. \A t \in S : MonthLength[t] \in Nat
      BY <2>2, MonthsAre
    <2>5. Sums!IsFiniteSet(S \ {m})
      BY <2>3, Sums!FS_Subset
    <2>6. Sum(MonthLength, S) = MonthLength[m] + Sum(MonthLength, S \ {m})
      BY <2>2, <2>3, <2>4, SumOf
    <2>7. Sum(MonthLength, S \ {m}) \in Nat
      BY <2>4, <2>5, SumOf
    <2>8. FirstOf(m) = Sum(MonthLength, S \ {m}) /\ FirstOf(m + 1) = Sum(MonthLength, S)
      BY <2>2 DEF FirstOf, Sum
    <2>9. QED
      BY <2>2, <2>6, <2>7, <2>8, MonthsAre
  <1>3. QED
    BY <1>1, <1>2

LEMMA MonthsInOrder ==
  ASSUME NEW i \in Month, NEW j \in Month, i < j
  PROVE  FirstOf(i + 1) <= FirstOf(j)
  <1>1. PICK T : T = {k \in Nat : k \in Month /\ i < k /\ ~(FirstOf(i + 1) <= FirstOf(k))}
    OBVIOUS
  <1>2. SUFFICES ASSUME T # {} PROVE FALSE
    BY <1>1, MonthsAre
  <1>3. PICK k \in T : \A y \in T : k <= y
    BY <1>1, <1>2, Sums!LeastElement
  <1>4. k \in Month /\ k \in Nat /\ i \in Nat /\ i < k /\ ~(FirstOf(i + 1) <= FirstOf(k))
    BY <1>1, MonthsAre
  <1>5. k # i + 1
    BY <1>4, FirstOfIs
  <1>6. k - 1 \in Month /\ i < k - 1
    BY <1>4, <1>5, MonthsAre
  <1>7. k - 1 \notin T
    BY <1>3, <1>4
  <1>8. FirstOf(i + 1) <= FirstOf(k - 1)
    BY <1>1, <1>6, <1>7, MonthsAre
  <1>9. FirstOf((k - 1) + 1) = FirstOf(k - 1) + MonthLength[k - 1] /\ FirstOf(k - 1) \in Nat
    BY <1>6, FirstOfIs
  <1>10. i + 1 \in Month
    BY <1>4, MonthsAre
  <1>11. FirstOf(i + 1) \in Nat /\ FirstOf(k) \in Nat
    BY <1>4, <1>10, FirstOfIs
  <1>12. (k - 1) + 1 = k
    BY <1>4
  <1>13. MonthLength[k - 1] \in Nat
    BY <1>6, MonthsAre
  <1>14. QED
    BY <1>4, <1>8, <1>9, <1>11, <1>12, <1>13

LEMMA InMonth ==
  ASSUME NEW m \in Month, NEW t \in Int, FirstOf(m) <= dayOf(t), dayOf(t) < FirstOf(m + 1)
  PROVE  monthOf(t) = m
  <1>1. PICK S : S = {k \in Month : FirstOf(k) <= dayOf(t)}
    OBVIOUS
  <1>2. PICK d \in Int : d = dayOf(t)
    BY DEF dayOf, Day
  <1>3. S \subseteq Int /\ m \in S
    BY <1>1, MonthsAre
  <1>4. ASSUME NEW k \in S, ~(k <= m) PROVE FALSE
    <2>1. k \in Month /\ m < k
      BY <1>1, <1>4, MonthsAre
    <2>2. FirstOf(m + 1) <= FirstOf(k)
      BY <2>1, MonthsInOrder
    <2>3. FirstOf(k) \in Nat /\ FirstOf(m + 1) \in Nat
      BY <2>1, FirstOfIs, MonthsAre
    <2>4. FirstOf(k) <= d
      BY <1>1, <1>2
    <2>5. QED
      BY <1>2, <2>2, <2>3, <2>4
  <1>5. PICK x \in S : x = Max(S) /\ \A y \in S : x >= y
    <2>1. \A y \in S : m >= y
      BY <1>3, <1>4
    <2>2. QED
      BY <1>3, <2>1 DEF Max
  <1>6. x = m
    BY <1>3, <1>4, <1>5
  <1>7. QED
    BY <1>1, <1>5, <1>6 DEF monthOf, Month

\* The month of a moment before the last month, and the months it is between.
LEMMA MonthIs ==
  ASSUME NEW t \in Nat, NEW n \in Month, dayOf(t) < FirstOf(n)
  PROVE  \E m \in Month : /\ m < n /\ monthOf(t) = m
                          /\ FirstOf(m) <= dayOf(t) /\ dayOf(t) < FirstOf(m + 1)
  <1>1. PICK T : T = {k \in Nat : k \in Month /\ dayOf(t) < FirstOf(k)}
    OBVIOUS
  <1>2. n \in T
    BY <1>1, MonthsAre
  <1>3. PICK k \in T : \A y \in T : k <= y
    BY <1>1, <1>2, Sums!LeastElement
  <1>4. PICK d \in Nat : d = dayOf(t)
    BY DEF dayOf, Day
  <1>5. k \in Nat /\ k \in Month /\ d < FirstOf(k) /\ k <= n
    BY <1>1, <1>2, <1>3, <1>4
  <1>6. k # 1
    BY <1>4, <1>5, FirstOfIs
  <1>7. k - 1 \in Month /\ k - 1 \in Nat /\ ~(k <= k - 1) /\ (k - 1) + 1 = k /\ k - 1 < n
    BY <1>5, <1>6, MonthsAre
  <1>8. k - 1 \notin T
    BY <1>3, <1>7
  <1>9. FirstOf(k - 1) \in Nat
    BY <1>7, FirstOfIs
  <1>10. FirstOf(k - 1) <= d
    BY <1>1, <1>4, <1>7, <1>8, <1>9
  <1>11. monthOf(t) = k - 1
    BY <1>4, <1>5, <1>7, <1>10, InMonth
  <1>12. QED
    BY <1>4, <1>5, <1>7, <1>10, <1>11

\* The day a payday has in a month, and the moment it is.
DayOf(best, m) == Min({best, MonthLength[m]})

LEMMA DayIs ==
  ASSUME NEW best \in 1..31, NEW m \in Month
  PROVE  DayOf(best, m) \in 1..MonthLength[m]
  <1>1. PICK l \in 28..31 : l = MonthLength[m]
    BY MonthsAre
  <1>2. Min({best, l}) = IF best <= l THEN best ELSE l
    BY DEF Min
  <1>3. QED
    BY <1>1, <1>2 DEF DayOf

LEMMA PaydayIs ==
  ASSUME NEW best \in 1..31, NEW m \in Month
  PROVE  /\ Payday(best, m) \in Nat
         /\ Payday(best, m) = days(FirstOf(m) + DayOf(best, m) - 1) + hours(10)
         /\ Payday(best, m) % Day = hours(10)
         /\ FirstOf(m) <= dayOf(Payday(best, m)) /\ dayOf(Payday(best, m)) < FirstOf(m + 1)
         /\ monthOf(Payday(best, m)) = m
         /\ dayOfMonth(Payday(best, m)) = DayOf(best, m)
  <1>1. PICK l \in 28..31, f \in Nat : l = MonthLength[m] /\ f = FirstOf(m) /\ FirstOf(m + 1) = f + l
    BY MonthsAre, FirstOfIs
  <1>2. PICK d \in 1..l : d = DayOf(best, m)
    BY <1>1, DayIs
  <1>3. PICK p \in Nat : p = 48 * (f + d - 1) + 20
    BY <1>1, <1>2
  <1>4. p = Payday(best, m)
    BY <1>1, <1>2, <1>3 DEF Payday, DayOf, days, hours, Day
  <1>5. p % 48 = 20 /\ p \div 48 = f + d - 1
    BY <1>3
  <1>6. dayOf(p) = f + d - 1
    BY <1>5 DEF dayOf, Day
  <1>7. f <= f + d - 1 /\ f + d - 1 < f + l
    BY <1>1, <1>2
  <1>8. monthOf(p) = m
    BY <1>1, <1>6, <1>7, InMonth
  <1>9. dayOfMonth(p) = d
    BY <1>1, <1>2, <1>6, <1>8 DEF dayOfMonth
  <1>10. days(FirstOf(m) + DayOf(best, m) - 1) + hours(10) = p
    BY <1>1, <1>2, <1>3 DEF days, hours, Day
  <1>11. QED
    BY <1>1, <1>2, <1>4, <1>5, <1>6, <1>7, <1>8, <1>9, <1>10 DEF hours, Day

\* The payday of a month is its only moment at ten on that day.
LEMMA OnlyPayday ==
  ASSUME NEW best \in 1..31, NEW m \in Month, NEW t \in Nat, monthOf(t) = m,
         t % Day = hours(10), dayOfMonth(t) = Min({best, MonthLength[monthOf(t)]})
  PROVE  t = Payday(best, m)
  <1>1. PICK l \in 28..31, f \in Nat : l = MonthLength[m] /\ f = FirstOf(m)
    BY MonthsAre, FirstOfIs
  <1>2. PICK d \in 1..l : d = DayOf(best, m)
    BY <1>1, DayIs
  <1>3. t \div 48 - f + 1 = d
    BY <1>1, <1>2 DEF dayOfMonth, dayOf, Day, DayOf
  <1>4. t % 48 = 20
    BY DEF Day, hours
  <1>5. t = 48 * (f + d - 1) + 20
    BY <1>1, <1>2, <1>3, <1>4
  <1>6. Payday(best, m) = 48 * (f + d - 1) + 20
    BY <1>1, <1>2, PaydayIs DEF days, hours, Day
  <1>7. QED
    BY <1>5, <1>6

AheadOf(best, now) ==
  {t \in now + 1..now + days(62) :
     /\ t % Day = hours(10)
     /\ dayOfMonth(t) = Min({best, MonthLength[monthOf(t)]})}

\* The payday of a month is the first one ahead of a moment before it, when that
\* of the month of the moment has passed, or is it.
LEMMA FirstAhead ==
  ASSUME NEW best \in 1..31, NEW now \in Nat, NEW k \in Month, NEW m \in Month,
         monthOf(now) = m, FirstOf(m) <= dayOf(now), dayOf(now) < FirstOf(m + 1),
         Payday(best, k) > now, k = m \/ (k = m + 1 /\ Payday(best, m) <= now)
  PROVE  Payday(best, k) = Min(AheadOf(best, now))
  <1>1. PICK p \in Nat : p = Payday(best, k)
    BY PaydayIs
  <1>2. PICK d \in Nat : d = dayOf(now)
    BY DEF dayOf, Day
  <1>3. p <= now + 48 * 62
    <2>1. FirstOf(m) \in Nat /\ FirstOf(k + 1) <= FirstOf(m) + 62
      <3>1. PICK f \in Nat, l \in 28..31 : f = FirstOf(m) /\ l = MonthLength[m] /\ FirstOf(m + 1) = f + l
        BY MonthsAre, FirstOfIs
      <3>2. CASE k = m
        BY <3>1, <3>2
      <3>3. CASE k = m + 1
        <4>1. PICK l2 \in 28..31 : l2 = MonthLength[k] /\ FirstOf(k + 1) = FirstOf(k) + l2
          BY MonthsAre, FirstOfIs
        <4>2. QED
          BY <3>1, <3>3, <4>1
      <3>4. QED
        BY <3>2, <3>3
    <2>2. dayOf(p) < FirstOf(k + 1)
      BY <1>1, PaydayIs
    <2>3. PICK e \in Nat : e = p \div 48 /\ e = dayOf(p)
      BY DEF dayOf, Day
    <2>4. FirstOf(k + 1) \in Nat
      BY MonthsAre, FirstOfIs
    <2>5. e < d + 62
      BY <1>2, <2>1, <2>2, <2>3, <2>4
    <2>6. now \div 48 = d
      BY <1>2 DEF dayOf, Day
    <2>7. QED
      BY <2>3, <2>5, <2>6
  <1>4. p \in AheadOf(best, now)
    <2>1. p % Day = hours(10) /\ monthOf(p) = k /\ dayOfMonth(p) = DayOf(best, k)
      BY <1>1, PaydayIs
    <2>2. dayOfMonth(p) = Min({best, MonthLength[monthOf(p)]})
      BY <2>1 DEF DayOf
    <2>3. p \in now + 1..now + days(62)
      BY <1>1, <1>3 DEF days, Day
    <2>4. QED
      BY <2>1, <2>2, <2>3 DEF AheadOf
  <1>5. ASSUME NEW t \in AheadOf(best, now), ~(p <= t) PROVE FALSE
    <2>1. t \in Nat /\ now < t /\ t < p /\ t % Day = hours(10)
          /\ dayOfMonth(t) = Min({best, MonthLength[monthOf(t)]})
      BY <1>5 DEF AheadOf, days, Day
    <2>2. dayOf(t) <= dayOf(p) /\ d <= dayOf(t) /\ dayOf(t) \in Nat /\ dayOf(p) \in Nat
      BY <1>2, <2>1 DEF dayOf, Day
    <2>3. dayOf(p) < FirstOf(k + 1) /\ FirstOf(k) <= dayOf(p)
      BY <1>1, PaydayIs
    <2>4. FirstOf(m) \in Nat /\ FirstOf(m + 1) \in Nat /\ FirstOf(k) \in Nat /\ FirstOf(k + 1) \in Nat
      BY MonthsAre, FirstOfIs
    <2>5. CASE dayOf(t) < FirstOf(m + 1)
      <3>1. monthOf(t) = m
        BY <1>2, <2>1, <2>2, <2>4, <2>5, InMonth
      <3>2. t = Payday(best, m)
        BY <2>1, <3>1, OnlyPayday
      <3>3. QED
        BY <1>1, <2>1, <3>2
    <2>6. CASE ~(dayOf(t) < FirstOf(m + 1))
      <3>1. k = m + 1
        BY <2>2, <2>3, <2>4, <2>6
      <3>2. FirstOf(k) <= dayOf(t) /\ dayOf(t) < FirstOf(k + 1)
        BY <2>2, <2>3, <2>4, <2>6, <3>1
      <3>3. monthOf(t) = k
        BY <2>1, <3>2, InMonth
      <3>4. t = Payday(best, k)
        BY <2>1, <3>3, OnlyPayday
      <3>5. QED
        BY <1>1, <2>1, <3>4
    <2>7. QED
      BY <2>5, <2>6
  <1>6. PICK S : S = AheadOf(best, now)
    OBVIOUS
  <1>7. S \subseteq Int
    BY <1>6 DEF AheadOf, days, Day
  <1>8. Min(S) = p
    BY <1>4, <1>5, <1>6, <1>7, OneOfASet
  <1>9. QED
    BY <1>1, <1>6, <1>8

LEMMA NextPaydayIs ==
  ASSUME NEW best \in 1..31, NEW now \in AskedAt
  PROVE  /\ NextPayday(best, now) \in Nat
         /\ NextPayday(best, now) = Min(AheadOf(best, now))
  <1>1. now \in Nat /\ now < days(FirstOf(Len(MonthLength))) /\ days(FirstOf(Len(MonthLength))) \in Int
    <2>1. PICK n \in Nat : n = Len(MonthLength)
      BY MonthsAre
    <2>2. PICK f : f = FirstOf(n)
      OBVIOUS
    <2>3. AskedAt \subseteq 0..days(f) - 1
      BY <2>1, <2>2, TimingAssumption
    <2>4. f \in Nat
      <3>1. Sums!IsFiniteSet(1..n - 1)
        BY Sums!FS_Interval
      <3>2. \A t \in 1..n - 1 : MonthLength[t] \in Nat
        BY <2>1, MonthsAre
      <3>3. Sum(MonthLength, 1..n - 1) \in Nat
        BY <3>1, <3>2, SumOf
      <3>4. QED
        BY <2>2, <3>3 DEF FirstOf, Sum
    <2>5. QED
      BY <2>1, <2>2, <2>3, <2>4 DEF days, Day
  <1>2. Len(MonthLength) \in Month
    <2>1. CASE Len(MonthLength) = 0
      <3>1. Sums!IsFiniteSet({}) /\ \A t \in {} : MonthLength[t] \in Nat
        BY Sums!FS_EmptySet
      <3>2. Sum(MonthLength, {}) = 0
        BY <3>1, SumOf
      <3>3. 1..0 - 1 = {}
        OBVIOUS
      <3>4. FirstOf(Len(MonthLength)) = 0
        BY <2>1, <3>2, <3>3 DEF FirstOf, Sum
      <3>5. QED
        BY <1>1, <3>4 DEF days, Day
    <2>2. QED
      BY <2>1, MonthsAre
  <1>3. dayOf(now) < FirstOf(Len(MonthLength)) /\ dayOf(now) \in Nat
    <2>1. PICK f \in Nat : f = FirstOf(Len(MonthLength))
      BY <1>2, FirstOfIs
    <2>2. now < 48 * f
      BY <1>1, <2>1 DEF days, Day
    <2>3. now \div 48 < f /\ now \div 48 \in Nat
      BY <1>1, <2>2
    <2>4. QED
      BY <2>1, <2>3 DEF dayOf, Day
  <1>4. PICK m \in Month : /\ m < Len(MonthLength) /\ monthOf(now) = m
                           /\ FirstOf(m) <= dayOf(now) /\ dayOf(now) < FirstOf(m + 1)
    BY <1>1, <1>2, <1>3, MonthIs
  <1>5. m + 1 \in Month
    BY <1>4, MonthsAre
  <1>6. PICK p, q \in Nat : p = Payday(best, m) /\ q = Payday(best, m + 1)
    BY <1>5, PaydayIs
  <1>7. CASE p <= now
    <2>1. q > now
      <3>1. FirstOf(m + 1) <= dayOf(q) /\ FirstOf(m + 1) \in Nat
        BY <1>5, <1>6, PaydayIs, FirstOfIs
      <3>2. dayOf(now) < dayOf(q)
        BY <1>3, <1>4, <3>1 DEF dayOf, Day
      <3>3. QED
        BY <1>1, <1>6, <3>2 DEF dayOf, Day
    <2>2. NextPayday(best, now) = q
      BY <1>4, <1>6, <1>7 DEF NextPayday
    <2>3. q = Min(AheadOf(best, now))
      BY <1>1, <1>4, <1>5, <1>6, <1>7, <2>1, FirstAhead
    <2>4. QED
      BY <1>6, <2>2, <2>3
  <1>8. CASE ~(p <= now)
    <2>1. NextPayday(best, now) = p
      BY <1>4, <1>6, <1>8 DEF NextPayday
    <2>2. p > now
      BY <1>1, <1>6, <1>8
    <2>3. now \in Nat /\ Payday(best, m) > now
      BY <1>1, <1>6, <2>2
    <2>4. Payday(best, m) = Min(AheadOf(best, now))
      <3>1. PICK k \in Month : k = m /\ Payday(best, k) > now
        BY <2>3
      <3>2. k = m \/ (k = m + 1 /\ Payday(best, m) <= now)
        BY <3>1
      <3>3. Payday(best, k) = Min(AheadOf(best, now))
        BY <1>4, <2>3, <3>1, <3>2, FirstAhead
      <3>4. QED
        BY <3>1, <3>3
    <2>5. p = Min(AheadOf(best, now))
      BY <1>6, <2>4
    <2>6. QED
      BY <1>6, <2>1, <2>5
  <1>9. QED
    BY <1>7, <1>8

LEMMA BestIs ==
  ASSUME NEW doms \in Paydays, BestDays(doms) # {}
  PROVE  Min(BestDays(doms)) \in 1..31
  <1>1. PICK S : S = BestDays(doms)
    OBVIOUS
  <1>2. S \subseteq 1..31 /\ S # {}
    <2>1. PICK D : D = 1..31
      OBVIOUS
    <2>0. doms \in Seq(D)
      BY <2>1, TimingAssumption
    <2>2. \A i \in DOMAIN doms : doms[i] \in 1..31
      <3>1. DOMAIN doms = 1..Len(doms) /\ \A i \in 1..Len(doms) : doms[i] \in D
        BY <2>0
      <3>2. QED
        BY <2>1, <3>1
    <2>3. S \subseteq {doms[i] : i \in DOMAIN doms}
      BY <1>1 DEF BestDays
    <2>4. QED
      BY <1>1, <2>2, <2>3
  <1>3. PICK x \in S : \A y \in S : x <= y
    BY <1>2, Sums!LeastElement
  <1>4. Min(S) = x
    BY <1>2, <1>3, OneOfASet
  <1>5. QED
    BY <1>1, <1>2, <1>4

LEMMA LearnedIs ==
  ASSUME NEW doms \in Paydays, NEW now \in AskedAt, NEW payday \in infer_payday(doms, now)
  PROVE  payday \in Nat /\ payday = Min(AheadOf(Min(BestDays(doms)), now))
         /\ infer_payday(doms, now) = {payday}
  <1>1. BestDays(doms) # {}
    BY DEF infer_payday
  <1>2. PICK best \in 1..31 : best = Min(BestDays(doms))
    BY <1>1, BestIs
  <1>3. infer_payday(doms, now) = {NextPayday(best, now)}
    BY <1>2 DEF infer_payday
  <1>4. QED
    BY <1>2, <1>3, NextPaydayIs

LEMMA RequestedIs ==
  ASSUME ask \in Asks
  PROVE  Requested \in Int
  <1>1. PICK now \in AskedAt, timing \in Timing, doms \in Paydays :
          now = ask.now /\ timing = ask.timing /\ doms = ask.paydays
    BY DEF Asks
  <1>2. now \in Int /\ timing.n \in Int
    <2>1. AskedAt \subseteq Int
      BY TimingAssumption
    <2>2. QED
      BY <1>1, <2>1, TimingAssumption
  <1>3. parse_timing(timing) \in Int
    BY <1>2 DEF parse_timing, hours, days, Day
  <1>4. PICK learned : learned = infer_payday(doms, now)
    OBVIOUS
  <1>5. learned # {} => Min(learned) \in Int
    <2>1. SUFFICES ASSUME NEW p \in learned PROVE Min(learned) \in Int
      OBVIOUS
    <2>2. p \in Nat /\ learned = {p}
      BY <1>4, <2>1, LearnedIs
    <2>3. Min(learned) = p
      BY <2>2, OneOfASet
    <2>4. QED
      BY <2>2, <2>3
  <1>6. Requested = IF timing.unit # "NEXT_PAYDAY" THEN now + parse_timing(timing)
                    ELSE IF learned # {} THEN Min(learned) ELSE now + hours(48)
    BY <1>1, <1>4 DEF Requested
  <1>7. QED
    BY <1>2, <1>3, <1>5, <1>6 DEF hours

TimingInv ==
  /\ ask \in Asks
  /\ due = NotDue \/ due = clamp_to_local_morning(apply_bank_holiday_shift(Requested), ask.zone)

LEMMA AskedIs ==
  ASSUME ask \in Asks
  PROVE  /\ apply_bank_holiday_shift(Requested) \in Int
         /\ ask.zone \in Int
  <1>1. PICK r \in Int : r = Requested
    BY RequestedIs
  <1>2. apply_bank_holiday_shift(r) \in Int
    BY DEF apply_bank_holiday_shift, days, Day
  <1>3. ask.zone \in Int
    <2>1. ask.zone \in Zone \cup {UnknownZone}
      BY DEF Asks
    <2>2. UnknownZone \in Int
      BY SMT DEF UnknownZone
    <2>3. QED
      BY <2>1, <2>2, TimingAssumption
  <1>4. QED
    BY <1>1, <1>2, <1>3

\* Ten o'clock is within working hours, and the clamp finds the first that follows.
LEMMA ClampIs ==
  ASSUME NEW a \in Int, NEW zone \in Int
  PROVE  /\ clamp_to_local_morning(a, zone) \in Int
         /\ zone # UnknownZone =>
              clamp_to_local_morning(a, zone) =
                Min({t \in a..a + Day :
                       \/ t = a /\ InWorkingHours(t, zone)
                       \/ (t + zone) % Day = hours(10)})
  <1>1. PICK S : S = {t \in a..a + Day :
                       \/ t = a /\ InWorkingHours(t, zone)
                       \/ (t + zone) % Day = hours(10)}
    OBVIOUS
  <1>2. S \subseteq Int /\ \A t \in S : a <= t
    BY <1>1 DEF Day
  <1>3. CASE zone = UnknownZone
    BY <1>3 DEF clamp_to_local_morning
  <1>4. CASE zone # UnknownZone /\ InWorkingHours(a, zone)
    <2>1. clamp_to_local_morning(a, zone) = a
      BY <1>4 DEF clamp_to_local_morning
    <2>2. a \in S
      BY <1>1, <1>4 DEF Day
    <2>3. Min(S) = a
      BY <1>2, <2>2, OneOfASet
    <2>4. QED
      BY <1>1, <2>1, <2>3
  <1>5. CASE zone # UnknownZone /\ ~InWorkingHours(a, zone)
    <2>1. PICK l, q, s \in Int : l = a + zone /\ q = l \div 48 /\ s = l % 48
      OBVIOUS
    <2>2. l = 48 * q + s /\ 0 <= s /\ s < 48
      BY <2>1
    <2>3. ~(s \div 2 \in 9..16)
      BY <1>5, <2>1 DEF InWorkingHours, localHour, Day
    <2>4. s # 20
      BY <2>3
    <2>5. PICK t : /\ t \in Int
                   /\ 48 * q + 20 <= l => t = 48 * q + 20 + 48 - zone
                   /\ ~(48 * q + 20 <= l) => t = 48 * q + 20 - zone
      <3>1. CASE 48 * q + 20 <= l
        BY <2>1, <3>1
      <3>2. CASE ~(48 * q + 20 <= l)
        BY <2>1, <3>2
      <3>3. QED
        BY <3>1, <3>2
    <2>6. clamp_to_local_morning(a, zone) = t
      BY <1>5, <2>1, <2>5 DEF clamp_to_local_morning, days, dayOf, hours, Day
    <2>7. a <= t /\ t <= a + 48 /\ (t + zone) % 48 = 20
      BY <2>1, <2>2, <2>5
    <2>8. t \in S
      <3>1. t \in a..a + Day
        BY <2>5, <2>7 DEF Day
      <3>2. (t + zone) % Day = hours(10)
        BY <2>7 DEF Day, hours
      <3>3. QED
        BY <1>1, <3>1, <3>2
    <2>9. ASSUME NEW u \in S PROVE t <= u
      <3>1. u \in Int /\ a <= u /\ (u + zone) % 48 = 20
        BY <1>1, <1>5 DEF Day, hours
      <3>2. PICK r \in Int : u + zone = 48 * r + 20
        BY <3>1
      <3>3. 48 * r + 20 >= 48 * q + s
        BY <2>1, <2>2, <3>1, <3>2
      <3>4. CASE s < 20
        BY <2>1, <2>2, <2>5, <3>1, <3>2, <3>3, <3>4
      <3>5. CASE s > 20
        <4>1. r > q
          BY <2>2, <3>3, <3>5
        <4>2. QED
          BY <2>1, <2>2, <2>5, <3>1, <3>2, <3>5, <4>1
      <3>6. QED
        BY <2>1, <2>4, <3>4, <3>5
    <2>10. Min(S) = t
      BY <1>2, <2>8, <2>9, OneOfASet
    <2>11. QED
      BY <1>1, <2>5, <2>6, <2>10
  <1>6. QED
    BY <1>3, <1>4, <1>5

LEMMA TimingHolds == TimingInit /\ [][TimingNext]_timingVars => []TimingInv
  <1>1. TimingInit => TimingInv
    BY DEF TimingInit, TimingInv
  <1>2. TimingInv /\ [TimingNext]_timingVars => TimingInv'
    <2> SUFFICES ASSUME TimingInv, [TimingNext]_timingVars PROVE TimingInv'
      OBVIOUS
    <2>1. PICK a, z : a = apply_bank_holiday_shift(Requested) /\ z = ask.zone
      OBVIOUS
    <2>2. ask' = ask
      BY DEF TimingNext, schedule_retry, timingVars
    <2>3. apply_bank_holiday_shift(Requested)' = a
      BY <2>1, <2>2 DEF Requested
    <2>4. due' = due \/ due' = clamp_to_local_morning(a, z)
      BY <2>1 DEF TimingNext, schedule_retry, timingVars
    <2>5. QED
      BY <2>1, <2>2, <2>3, <2>4 DEF TimingInv, Asks
  <1>3. QED
    BY <1>1, <1>2, PTL

LEMMA TimingGives == TimingInv => TimingType /\ DueInWorkingHours /\ PaydayAhead
  <1> SUFFICES ASSUME TimingInv PROVE TimingType /\ DueInWorkingHours /\ PaydayAhead
    OBVIOUS
  <1>1. PICK a \in Int, z \in Int : a = apply_bank_holiday_shift(Requested) /\ z = ask.zone
    BY AskedIs DEF TimingInv
  <1>2. due = NotDue \/ due = clamp_to_local_morning(a, z)
    BY <1>1 DEF TimingInv
  <1>3. TimingType
    <2>1. NotDue \in Int
      BY SMT DEF NotDue
    <2>2. due \in Int
      BY <1>2, <2>1, ClampIs
    <2>3. QED
      BY <2>2 DEF TimingInv, TimingType
  <1>4. DueInWorkingHours
    BY <1>1, <1>2, ClampIs DEF DueInWorkingHours
  <1>5. PaydayAhead
    BY LearnedIs DEF PaydayAhead, TimingInv, Asks, AheadOf
  <1>6. QED
    BY <1>3, <1>4, <1>5

-----------------------------------------------------------------------------
(* The services together *)

\* A step of the services is a step of one of them, and none of the others.
LEMMA OneServiceSteps ==
  [ServicesNext]_servicesVars =>
    /\ [IntakeNext]_intakeVars /\ [HitlNext]_hitlVars /\ [WatchersNext]_watcherVars
    /\ [PoliciesNext]_policyVars /\ [TimingNext]_timingVars /\ [BreakerNext]_breakerVars
    /\ [SpendNext]_spendVars /\ [RateNext]_rateVars
  BY DEF ServicesNext, servicesVars

LEMMA EachServiceRuns ==
  ServicesSpec =>
    /\ IntakeInit /\ [][IntakeNext]_intakeVars
    /\ HitlInit /\ [][HitlNext]_hitlVars
    /\ WatchersInit /\ [][WatchersNext]_watcherVars
    /\ PoliciesInit /\ [][PoliciesNext]_policyVars
    /\ TimingInit /\ [][TimingNext]_timingVars
    /\ BreakerInit /\ [][BreakerNext]_breakerVars
    /\ SpendInit /\ [][SpendNext]_spendVars
    /\ RateInit /\ [][RateNext]_rateVars
  <1>1. ServicesInit =>
          /\ IntakeInit /\ HitlInit /\ WatchersInit /\ PoliciesInit
          /\ TimingInit /\ BreakerInit /\ SpendInit /\ RateInit
    BY DEF ServicesInit
  <1>2. QED
    BY <1>1, OneServiceSteps, PTL DEF ServicesSpec

\* The state of every service, from the handlers of the webhooks to the token
\* buckets, stays within its types.
THEOREM ServicesTyped == ServicesSpec => []TypeInvariant
  <1>1. IntakeInv => IntakeType
    BY DEF IntakeInv
  <1>2. WatchersInv => WatchersType
    BY DEF WatchersInv
  <1>3. /\ IntakeType /\ HitlType /\ WatchersType /\ PoliciesType
        /\ TimingType /\ BreakerType /\ SpendType /\ RateType
        => TypeInvariant
    BY DEF TypeInvariant
  <1>4. QED
    BY <1>1, <1>2, <1>3, EachServiceRuns, IntakeHolds, HitlTyped, WatchersHold, PoliciesHold,
       PoliciesGive, TimingHolds, TimingGives, BreakerHolds, OneProbe, SpendHolds, WithinBudget,
       RateHolds, InvRateType, PTL

\* core/hitl.py, resolve_task: a task that was resolved by recording an event
\* has recorded it once, and no other task has.
THEOREM TaskAndItsEvent == ServicesSpec => []TaskAndEvent
  BY EachServiceRuns, TaskIsItsEvent, PTL

\* core/hitl.py, resolve_task: an entity that an operator has found in trouble
\* is recovered at most once until it is in trouble again.
THEOREM RecoveredOncePerTrouble == ServicesSpec => []OneRecoveryPerTrouble
  BY EachServiceRuns, RecoveredOnce, PTL

\* core/gate.py and core/policy.py: rows of a version are written once, so that
\* every entry of a recorded reason chain goes on agreeing with the version that
\* the decision cites, also if that was replaced before the row was written.
THEOREM EvidenceGoesOnStanding == ServicesSpec => []EvidenceStands
  BY EachServiceRuns, PoliciesHold, PoliciesGive, PTL

\* replay/counterfactual.py: a replay says what the gate would have said,
\* whenever it looks at the rules that the gate looks at.
THEOREM ReplayFaithful == ServicesSpec => []ReplayIsTheGate
  BY ReplayAgrees, PTL

\* agent/execute.py, _clamp_to_local_morning: a retry is due at once if the
\* customer's working hours have begun, and at the next ten o'clock otherwise.
THEOREM RetriesInWorkingHours == ServicesSpec => []DueInWorkingHours
  BY EachServiceRuns, TimingHolds, TimingGives, PTL

\* core/projection.py, infer_payday: the payday a retry waits for is the first
\* one ahead, whatever the lengths of the months are.
THEOREM PaydayIsAhead == ServicesSpec => []PaydayAhead
  BY EachServiceRuns, TimingHolds, TimingGives, PTL

\* core/ops.py, allow_request: the breaker lets one probe through for each time it
\* has been open, for any number of callers that report in any order.
THEOREM ProbesAreSingle == ServicesSpec => []OneProbePerOpening
  BY EachServiceRuns, BreakerHolds, OneProbe, PTL

\* core/ops.py, the spend guard: estimates are compared before a call and costs
\* added after it, one need not be the other, and yet the budget of a merchant is
\* overrun by no more than what its callers can cost together, less an estimate.
THEOREM OverrunIsBounded == ServicesSpec => []OverrunBounded
  BY EachServiceRuns, SpendHolds, WithinBudget, PTL

\* core/ops.py, the token buckets: in any stretch of time a key is granted its
\* capacity and what is refilled in the meantime, and no more.
THEOREM RateIsHeld == ServicesSpec => []RateHeld
  BY EachServiceRuns, RateHolds, InvRateHeld, PTL

\* core/watchers.py: a notification whose answer was noted is not repeated
\* within the cooldown, for any number of scans, scans that die and answers that
\* are lost, but by a scan that had read the watcher before it was marked.
THEOREM CooldownIsHeld == ServicesSpec => CooldownHeld
  BY EachServiceRuns, WatchersHold, DeliversInTime, PTL DEF CooldownHeld

=============================================================================
