----------------------------- MODULE RateLimits -----------------------------
(***************************************************************************)
(* The token buckets of core/ops.py: one for the reads and one for the     *)
(* writes of each merchant, made when they are first asked for.  A token   *)
(* is Scale units, and a bucket gains one unit each tick, so that elapsed  *)
(* time may refill part of a token.                                        *)
(***************************************************************************)
EXTENDS Integers, FiniteSetsExt

CONSTANTS
  BucketKey,    \* a merchant, and reads or writes
  Capacity,     \* read_per_minute or write_per_minute
  Scale,        \* units in a token
  MaxTicks      \* bound: ticks of the clock

ASSUME RateAssumption ==
  Capacity \in Nat \ {0} /\ Scale \in Nat \ {0} /\ MaxTicks \in Nat

VARIABLES
  ticks,
  buckets,      \* tokens, in units, and last_refill; or NoBucket
  granted       \* how many requests were granted at each tick: history

rateVars == <<ticks, buckets, granted>>

NoBucket == [tokens |-> 0, last_refill |-> -1]
NewBucket == [tokens |-> Capacity * Scale, last_refill |-> ticks]

RateInit ==
  /\ ticks = 0
  /\ buckets = [k \in BucketKey |-> NoBucket]
  /\ granted = [k \in BucketKey |-> [t \in 0..MaxTicks |-> 0]]

RateTick == ticks < MaxTicks /\ ticks' = ticks + 1 /\ UNCHANGED <<buckets, granted>>

\* The mark of the last refill stays where it was.
_refill_WithoutMark(b, now) ==
  [b EXCEPT !.tokens = Min({Capacity * Scale, b.tokens + (now - b.last_refill)})]

_refill(b, now) ==
  [tokens |-> Min({Capacity * Scale, b.tokens + (now - b.last_refill)}), last_refill |-> now]

_bucket(k) == IF buckets[k] = NoBucket THEN NewBucket ELSE buckets[k]

\* A request takes a token or is refused; either way the bucket is refilled.
try_take(k) ==
  LET b == _refill(_bucket(k), ticks) IN
  IF b.tokens >= Scale
  THEN /\ buckets' = [buckets EXCEPT ![k] = [b EXCEPT !.tokens = @ - Scale]]
       /\ granted' = [granted EXCEPT ![k][ticks] = @ + 1]
       /\ UNCHANGED ticks
  ELSE /\ buckets' = [buckets EXCEPT ![k] = b]
       /\ UNCHANGED <<ticks, granted>>

RateNext == RateTick \/ \E k \in BucketKey : try_take(k)

RateType ==
  /\ ticks \in 0..MaxTicks
  /\ buckets \in [BucketKey -> [tokens : 0..Capacity * Scale, last_refill : -1..MaxTicks]]
  /\ granted \in [BucketKey -> [0..MaxTicks -> Nat]]

\* Over any stretch of time no more requests are granted than the capacity and
\* what was refilled meanwhile, however they are spread.
RateHeld ==
  \A k \in BucketKey : \A from \in 0..MaxTicks : \A to \in from..MaxTicks :
    LET n == MapThenSumSet(LAMBDA t : granted[k][t], from..to) IN
    n * Scale <= Capacity * Scale + (to - from)

=============================================================================
