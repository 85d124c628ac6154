---------------------------- MODULE RetryTiming ----------------------------
(***************************************************************************)
(* When a retry that the model proposed to schedule is due                 *)
(* (agent/execute.py, infer_payday in core/projection.py): the proposed    *)
(* delay or the next payday, pulled back before a bank holiday and moved   *)
(* to the customer's morning.  Time is counted in half hours from the      *)
(* first of a month, UTC; zones have a fixed offset, as India's has.       *)
(***************************************************************************)
EXTENDS Integers, Sequences, FiniteSetsExt

CONSTANTS
  MonthLength,      \* the lengths of the months, from that one on
  IN_BANK_HOLIDAYS, \* days, counted from 0
  Zone,             \* offsets from UTC
  Timing,           \* what the model may say: a unit and a number
  Paydays,          \* sequences of the days of the month of past successes
  AskedAt           \* when the retry may be scheduled

VARIABLES
  ask,              \* what is known when it is scheduled
  due               \* due_at, or NotDue

timingVars == <<ask, due>>

Day == 48
NotDue == -1000000
UnknownZone == 1000

hours(n) == 2 * n
days(n) == Day * n
dayOf(t) == t \div Day

-----------------------------------------------------------------------------
(* The calendar *)

FirstOf(month) == MapThenSumSet(LAMBDA m : MonthLength[m], 1..month - 1)
monthOf(t) == Max({m \in DOMAIN MonthLength : FirstOf(m) <= dayOf(t)})
dayOfMonth(t) == dayOf(t) - FirstOf(monthOf(t)) + 1

\* A retry is asked for in a month that has a next one.
ASSUME TimingAssumption ==
  /\ MonthLength \in Seq(28..31)
  /\ AskedAt \subseteq 0..days(FirstOf(Len(MonthLength))) - 1
  /\ \A timing \in Timing : timing.n \in Int
  /\ Paydays \subseteq Seq(1..31)
  /\ Zone \subseteq Int

-----------------------------------------------------------------------------
(* The delay *)

\* The delay the model asked for; what it does not know means 24 hours.
parse_timing(timing) ==
  CASE timing.unit = "IMMEDIATE" -> 0
    [] timing.unit = "T_PLUS_H" -> hours(timing.n)
    [] timing.unit = "T_PLUS_D" -> days(timing.n)
    [] OTHER -> hours(24)

\* Days of the month within a day of the anchor, or at the other end of it.
Bucket(doms, anchor) ==
  {i \in DOMAIN doms : LET apart == doms[i] - anchor IN
     apart \in -1..1 \/ apart >= 27 \/ apart <= -27}

\* The smallest day that has been a payday twice.
BestDays(doms) == {d \in {doms[i] : i \in DOMAIN doms} : Cardinality(Bucket(doms, d)) >= 2}

Payday(best, month) == days(FirstOf(month) + Min({best, MonthLength[month]}) - 1) + hours(10)

\* Today counts also at ten sharp.
NextPayday_FromNow(best, now) ==
  LET candidate == Payday(best, monthOf(now)) IN
  IF candidate < now THEN Payday(best, monthOf(now) + 1) ELSE candidate

\* This month's, or the next month's if it has passed.
NextPayday(best, now) ==
  LET candidate == Payday(best, monthOf(now)) IN
  IF candidate <= now THEN Payday(best, monthOf(now) + 1) ELSE candidate

\* As a set, empty if too little is known.
infer_payday(doms, now) ==
  IF Len(doms) < 2 \/ BestDays(doms) = {} THEN {} ELSE {NextPayday(Min(BestDays(doms)), now)}

-----------------------------------------------------------------------------
(* The shift and the clamp *)

Holiday(t) == dayOf(t) \in IN_BANK_HOLIDAYS

\* The day before a holiday, or three days before it.  The day is that of UTC.
apply_bank_holiday_shift(t) ==
  CASE ~Holiday(t) -> t
    [] Holiday(t) /\ ~Holiday(t - days(1)) -> t - days(1)
    [] OTHER -> t - days(3)

localHour(t, zone) == ((t + zone) % Day) \div 2
InWorkingHours(t, zone) == localHour(t, zone) \in 9..16

\* The morning of the same day, also when it has passed.
clamp_to_local_morning_SameDay(t, zone) ==
  IF zone = UnknownZone \/ InWorkingHours(t, zone) THEN t
  ELSE days(dayOf(t + zone)) + hours(10) - zone

\* Ten o'clock local, the same day or the next.
clamp_to_local_morning(t, zone) ==
  IF zone = UnknownZone \/ InWorkingHours(t, zone) THEN t
  ELSE LET target == days(dayOf(t + zone)) + hours(10) IN
       (IF target <= t + zone THEN target + days(1) ELSE target) - zone

-----------------------------------------------------------------------------

Requested ==
  IF ask.timing.unit # "NEXT_PAYDAY" THEN ask.now + parse_timing(ask.timing)
  ELSE LET learned == infer_payday(ask.paydays, ask.now) IN
       IF learned # {} THEN Min(learned) ELSE ask.now + hours(48)

Asks == [now : AskedAt, timing : Timing, zone : Zone \cup {UnknownZone}, paydays : Paydays]

TimingInit ==
  /\ ask \in Asks
  /\ due = NotDue

\* A retry that is queued already is left as it is.
schedule_retry ==
  /\ due = NotDue
  /\ due' = clamp_to_local_morning(apply_bank_holiday_shift(Requested), ask.zone)
  /\ UNCHANGED ask

TimingNext == schedule_retry

TimingType ==
  /\ ask \in Asks
  /\ due \in Int

\* The customer's working hours begin at nine, and whoever would be charged
\* outside of them is charged at the first ten o'clock that follows; the day
\* asked for is never a reason to be charged in the night.
DueInWorkingHours ==
  due # NotDue /\ ask.zone # UnknownZone =>
    LET asked == apply_bank_holiday_shift(Requested) IN
    due = Min({t \in asked..asked + Day :
                 \/ t = asked /\ InWorkingHours(t, ask.zone)
                 \/ (t + ask.zone) % Day = hours(10)})

\* A learned payday is the first one ahead, on a day the customer was paid about
\* or on the last day of a shorter month.
PaydayAhead ==
  due # NotDue /\ ask.timing.unit = "NEXT_PAYDAY" =>
    \A payday \in infer_payday(ask.paydays, ask.now) :
      LET best == Min(BestDays(ask.paydays)) IN
      payday = Min({t \in ask.now + 1..ask.now + days(62) :
                      /\ t % Day = hours(10)
                      /\ dayOfMonth(t) = Min({best, MonthLength[monthOf(t)]})})

=============================================================================
