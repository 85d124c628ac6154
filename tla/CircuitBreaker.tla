--------------------------- MODULE CircuitBreaker ---------------------------
(***************************************************************************)
(* The circuit breaker of core/ops.py, and callers that ask it, make their *)
(* call and report how it ended.  A call may outlast several changes of    *)
(* the breaker's state; a caller that never reports is left out.           *)
(***************************************************************************)
EXTENDS Integers

CONSTANTS
  BreakerCaller,
  Threshold,    \* failure_threshold
  OpenFor,      \* cooldown_seconds, in ticks
  MaxFailures   \* bound: calls that fail

ASSUME BreakerAssumption ==
  Threshold \in Nat \ {0} /\ OpenFor \in Nat \ {0} /\ MaxFailures \in Nat

VARIABLES
  consecutive,  \* _consecutive_failures
  age,          \* ticks since _opened_at, counted up to OpenFor, or Never
  probing,      \* _half_open_probe_in_flight
  calls,        \* the callers whose call is under way
  probes,       \* of these, the ones let through since it last opened
  failed        \* calls that failed

breakerVars == <<consecutive, age, probing, calls, probes, failed>>

Never == -1

BreakerInit ==
  /\ consecutive = 0
  /\ age = Never
  /\ probing = FALSE
  /\ calls = {} /\ probes = {}
  /\ failed = 0

breakerState ==
  CASE age = Never -> "closed"
    [] age = OpenFor -> "half_open"
    [] OTHER -> "open"

BreakerTick ==
  /\ age \in 0..OpenFor - 1
  /\ age' = age + 1
  /\ UNCHANGED <<consecutive, probing, calls, probes, failed>>

\* Every caller in the half-open state goes through.
allow_request_WithoutFlag(c) ==
  /\ c \notin calls
  /\ breakerState # "open"
  /\ calls' = calls \cup {c}
  /\ probes' = IF breakerState = "half_open" THEN probes \cup {c} ELSE probes
  /\ UNCHANGED <<consecutive, age, probing, failed>>

\* allow_request answers yes: the breaker is closed, or nobody else probes.
allow_request(c) ==
  /\ c \notin calls
  /\ \/ breakerState = "closed"
     \/ breakerState = "half_open" /\ ~probing
  /\ calls' = calls \cup {c}
  /\ probing' = (probing \/ breakerState = "half_open")
  /\ probes' = IF breakerState = "half_open" THEN probes \cup {c} ELSE probes
  /\ UNCHANGED <<consecutive, age, failed>>

record_success(c) ==
  /\ c \in calls
  /\ consecutive' = 0
  /\ age' = Never
  /\ probing' = FALSE
  /\ calls' = calls \ {c} /\ probes' = {}
  /\ UNCHANGED failed

\* A probe that fails stays marked as in flight.
record_failure_WithoutReset(c) ==
  /\ c \in calls /\ failed < MaxFailures
  /\ failed' = failed + 1
  /\ calls' = calls \ {c}
  /\ IF breakerState = "half_open"
     THEN age' = 0 /\ probes' = {} /\ UNCHANGED <<consecutive, probing>>
     ELSE /\ consecutive' = consecutive + 1
          /\ IF consecutive' >= Threshold THEN age' = 0 /\ probes' = {} ELSE UNCHANGED <<age, probes>>
          /\ UNCHANGED probing

\* Whoever fails while it is half-open opens it again, the probe or a call that
\* was let through before; a late failure renews the opening.
record_failure(c) ==
  /\ c \in calls /\ failed < MaxFailures
  /\ failed' = failed + 1
  /\ calls' = calls \ {c}
  /\ IF breakerState = "half_open"
     THEN age' = 0 /\ probing' = FALSE /\ probes' = {} /\ UNCHANGED consecutive
     ELSE /\ consecutive' = consecutive + 1
          /\ IF consecutive' >= Threshold THEN age' = 0 /\ probes' = {} ELSE UNCHANGED <<age, probes>>
          /\ UNCHANGED probing

BreakerNext ==
  \/ BreakerTick
  \/ \E c \in BreakerCaller : allow_request(c) \/ record_success(c) \/ record_failure(c)

\* What does not fail for ever: time passes, callers come, calls succeed.
BreakerProgress == BreakerTick \/ \E c \in BreakerCaller : allow_request(c) \/ record_success(c)

BreakerType ==
  /\ consecutive \in 0..MaxFailures /\ failed \in 0..MaxFailures
  /\ age \in {Never} \cup 0..OpenFor
  /\ probing \in BOOLEAN
  /\ probes \subseteq calls /\ calls \subseteq BreakerCaller

\* A service that is suspected to be down gets one call at a time, also when
\* calls from before the opening end meanwhile.
OneProbePerOpening ==
  \A c, d \in probes : breakerState = "half_open" => c = d

\* A breaker that has opened closes again once calls succeed.
ClosesAgain == breakerState # "closed" ~> breakerState = "closed"

=============================================================================
