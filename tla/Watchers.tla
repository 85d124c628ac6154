----------------------------- MODULE Watchers ------------------------------
(***************************************************************************)
(* Watchers over the L1 rows of one merchant (core/watchers.py): a scan    *)
(* reads the watchers once, skips those that fired within their cooldown,  *)
(* and notifies about every entity whose condition is met.  The facts      *)
(* about an entity change between the looks of a scan; the answer to a     *)
(* notification may be lost, although the receiver has got it; the scan    *)
(* may die, also between an answer and the commit of last_fired_at; and    *)
(* nothing keeps two runs of the command from overlapping.  A notification *)
(* and a mark have the time at which their scan started, so that no time   *)
(* need pass during a scan.                                                *)
(***************************************************************************)
EXTENDS Integers

CONSTANTS
  Watcher,      \* the conditions that are seeded, each a metric
  Subject,      \* the entities
  Facts,        \* what may be known of an entity: the inputs of a condition
  Scanner,      \* runs of the command that may overlap
  Cooldown,     \* cooldown_seconds, in ticks
  MaxOverlaps,  \* bound: scans that start while another one runs
  MaxScanCrashes \* bound: scans that die

ASSUME WatchersAssumption ==
  /\ Cooldown \in Nat /\ MaxOverlaps \in Nat /\ MaxScanCrashes \in Nat
  /\ "none" \notin Watcher

VARIABLES
  seeded,       \* the watchers in the database
  facts,        \* the L1 row and the retry count of each entity
  since,        \* ticks since last_fired_at, counted up to Cooldown
  scan,         \* each scan: watchers to come, the current one, its entities to
                \* come, the one it has an answer for, and the watchers that
                \* other scans have marked meanwhile
  noted,        \* ticks since an entity was last notified about by a scan that
                \* lived to note the answer, counted up to Cooldown
  overlaps,     \* scans that started while another one ran
  died          \* scans that died

watcherVars == <<seeded, facts, since, scan, noted, overlaps, died>>

NoWatcher == "none"
NoScan == [on |-> FALSE, left |-> {}, watcher |-> NoWatcher, subjects |-> {}, sent |-> {}, crossed |-> {}]

\* Before anything is known of an entity.
NothingKnown ==
  [retries |-> 0, overdue |-> FALSE, awaiting |-> FALSE, contact_days |-> -1, card_days |-> -1]

WatchersInit ==
  /\ seeded = {}
  /\ facts = [s \in Subject |-> NothingKnown]
  /\ since = [w \in Watcher |-> Cooldown]
  /\ scan = [k \in Scanner |-> NoScan]
  /\ noted = [w \in Watcher |-> [s \in Subject |-> Cooldown]]
  /\ overlaps = 0
  /\ died = 0

-----------------------------------------------------------------------------
(* Conditions *)

\* A promise is overdue if it has a date and that has passed; a row that awaits
\* a promise is stale three days after the last contact; a card is looked at if
\* it expires within 30 days and has not expired.  What is not known, -1 here,
\* trips nothing.
_condition_met(w, f) ==
  CASE w = "retry_count_7d" -> f.retries >= 2
    [] w = "open_ptp_due" -> f.overdue
    [] w = "stale_awaiting" -> f.awaiting /\ f.contact_days >= 3
    [] w = "card_expiring_within_days" -> f.card_days >= 0 /\ f.card_days <= 30

\* Conditions on the row alone are settled when the rows of the watcher are read.
Candidates(w) == {s \in Subject : w = "retry_count_7d" \/ _condition_met(w, facts[s])}

\* The retries are counted when it is the entity's turn.
Met(w, s) == w = "retry_count_7d" => _condition_met(w, facts[s])

Min2(a, b) == IF a < b THEN a ELSE b
Older(n) == Min2(n + 1, Cooldown)

-----------------------------------------------------------------------------
(* Actions *)

\* Idempotent: a condition that is there is left alone.
seed_default_watchers ==
  /\ seeded # Watcher
  /\ seeded' = Watcher
  /\ UNCHANGED <<facts, since, scan, noted, overlaps, died>>

FactsChange(s) ==
  /\ \E f \in Facts : f # facts[s] /\ facts' = [facts EXCEPT ![s] = f]
  /\ UNCHANGED <<seeded, since, scan, noted, overlaps, died>>

TimePasses ==
  /\ \A k \in Scanner : ~scan[k].on
  /\ since' = [w \in Watcher |-> Older(since[w])]
  /\ noted' = [w \in Watcher |-> [s \in Subject |-> Older(noted[w][s])]]
  /\ UNCHANGED <<seeded, facts, scan, overlaps, died>>

\* Another scan is running.
Overlap(k) ==
  IF \E j \in Scanner : j # k /\ scan[j].on
  THEN overlaps < MaxOverlaps /\ overlaps' = overlaps + 1
  ELSE UNCHANGED overlaps

\* The mark of a watcher is renewed also when the watcher is skipped.
StartScan_WithRefresh(k) ==
  /\ ~scan[k].on
  /\ seeded # {}
  /\ scan' = [scan EXCEPT ![k] = [NoScan EXCEPT !.on = TRUE, !.left = {w \in seeded : since[w] >= Cooldown}]]
  /\ since' = [w \in Watcher |-> IF w \in seeded /\ since[w] < Cooldown THEN 0 ELSE since[w]]
  /\ Overlap(k)
  /\ UNCHANGED <<seeded, facts, noted, died>>

\* The watchers are read, with their last_fired_at: those that cool down are
\* skipped, whatever is marked later.
StartScan(k) ==
  /\ ~scan[k].on
  /\ seeded # {}
  /\ scan' = [scan EXCEPT ![k] = [NoScan EXCEPT !.on = TRUE, !.left = {w \in seeded : since[w] >= Cooldown}]]
  /\ Overlap(k)
  /\ UNCHANGED <<seeded, facts, since, noted, died>>

\* The watchers come in the order in which they were seeded.
Place(w) ==
  CASE w = "retry_count_7d" -> 1
    [] w = "open_ptp_due" -> 2
    [] w = "stale_awaiting" -> 3
    [] w = "card_expiring_within_days" -> 4

\* The next watcher: the rows of its entities are read.
NextWatcher(k, w) ==
  /\ w \in scan[k].left /\ scan[k].watcher = NoWatcher
  /\ \A v \in scan[k].left : Place(w) <= Place(v)
  /\ scan' = [scan EXCEPT ![k].left = @ \ {w},
                          ![k].watcher = IF Candidates(w) = {} THEN NoWatcher ELSE w,
                          ![k].subjects = Candidates(w)]
  /\ UNCHANGED <<seeded, facts, since, noted, overlaps, died>>

\* The condition is not met, or the answer is not there in time or is not a
\* success: on with the next entity, whether or not the receiver has got it.
Pass(k, s) ==
  /\ s \in scan[k].subjects /\ scan[k].sent = {}
  /\ scan' = [scan EXCEPT ![k].subjects = @ \ {s},
                          ![k].watcher = IF scan[k].subjects = {s} THEN NoWatcher ELSE @]
  /\ UNCHANGED <<seeded, facts, since, noted, overlaps, died>>

NotMet(k, s) == ~Met(scan[k].watcher, s) /\ Pass(k, s)

NotDelivered(k, s) == Met(scan[k].watcher, s) /\ Pass(k, s)

\* The notification goes out and is answered, before anything is stored.
Deliver(k, s) ==
  /\ s \in scan[k].subjects /\ scan[k].sent = {}
  /\ Met(scan[k].watcher, s)
  /\ scan' = [scan EXCEPT ![k].sent = {s}, ![k].subjects = @ \ {s}]
  /\ UNCHANGED <<seeded, facts, since, noted, overlaps, died>>

\* The scan after an answer was noted.  The scans that are under way have read
\* the watcher before.
Noted(k) ==
  [j \in Scanner |->
     IF j = k THEN [scan[k] EXCEPT !.sent = {}, !.watcher = IF scan[k].subjects = {} THEN NoWatcher ELSE @]
     ELSE [scan[j] EXCEPT !.crossed = IF scan[j].on THEN @ \cup {scan[k].watcher} ELSE @]]

\* The mark is committed when the last entity of the watcher has been told.
MarkFired_AtEnd(k) ==
  /\ scan[k].sent # {}
  /\ since' = [since EXCEPT ![scan[k].watcher] = IF scan[k].subjects = {} THEN 0 ELSE @]
  /\ noted' = [noted EXCEPT ![scan[k].watcher] = [s \in Subject |-> IF s \in scan[k].sent THEN 0 ELSE @[s]]]
  /\ scan' = Noted(k)
  /\ UNCHANGED <<seeded, facts, overlaps, died>>

\* last_fired_at is committed, and the loop goes on with the next entity of the
\* same watcher.
MarkFired(k) ==
  /\ scan[k].sent # {}
  /\ since' = [since EXCEPT ![scan[k].watcher] = 0]
  /\ noted' = [noted EXCEPT ![scan[k].watcher] = [s \in Subject |-> IF s \in scan[k].sent THEN 0 ELSE @[s]]]
  /\ scan' = Noted(k)
  /\ UNCHANGED <<seeded, facts, overlaps, died>>

EndScan(k) ==
  /\ scan[k].on /\ scan[k].left = {} /\ scan[k].watcher = NoWatcher
  /\ scan' = [scan EXCEPT ![k] = NoScan]
  /\ UNCHANGED <<seeded, facts, since, noted, overlaps, died>>

ScanDies(k) ==
  /\ scan[k].on
  /\ died < MaxScanCrashes
  /\ died' = died + 1
  /\ scan' = [scan EXCEPT ![k] = NoScan]
  /\ UNCHANGED <<seeded, facts, since, noted, overlaps>>

ScanStep(k) ==
  \/ StartScan(k) \/ MarkFired(k) \/ EndScan(k)
  \/ \E w \in Watcher : NextWatcher(k, w)
  \/ \E s \in Subject : NotMet(k, s) \/ NotDelivered(k, s) \/ Deliver(k, s)

WatchersNext ==
  \/ seed_default_watchers
  \/ \E s \in Subject : FactsChange(s)
  \/ TimePasses
  \/ \E k \in Scanner : ScanStep(k) \/ ScanDies(k)

-----------------------------------------------------------------------------

WatchersType ==
  /\ seeded \subseteq Watcher
  /\ facts \in [Subject -> Facts \cup {NothingKnown}]
  /\ since \in [Watcher -> 0..Cooldown]
  /\ scan \in [Scanner -> [on : BOOLEAN, left : SUBSET Watcher, watcher : Watcher \cup {NoWatcher},
                           subjects : SUBSET Subject, sent : SUBSET Subject, crossed : SUBSET Watcher]]
  /\ \A k \in Scanner : scan[k].subjects \cup scan[k].sent # {} => scan[k].watcher # NoWatcher
  /\ noted \in [Watcher -> [Subject -> 0..Cooldown]]
  /\ overlaps \in 0..MaxOverlaps
  /\ died \in 0..MaxScanCrashes

\* A notification whose answer was noted is not repeated within the cooldown,
\* whoever dies and whatever answers are lost, except by a scan that was already
\* under way when the watcher was marked.
CooldownHeld ==
  [][\A k \in Scanner, s \in Subject :
       Deliver(k, s) => noted[scan[k].watcher][s] = Cooldown \/ scan[k].watcher \in scan[k].crossed]_watcherVars

\* The receiver answers in time every now and then when it is notified.
Answers(w, s) == SF_watcherVars(\E k \in Scanner : scan[k].watcher = w /\ Deliver(k, s))

\* A condition that stays met is notified about, again and again, to a receiver
\* that answers, however often other entities make its watcher cool down.
EventuallyTold ==
  \A w \in Watcher, s \in Subject :
    Answers(w, s) /\ <>[]_condition_met(w, facts[s]) => []<>(noted[w][s] = 0)

=============================================================================
