------------------------------ MODULE Policies ------------------------------
(***************************************************************************)
(* Versions of the policy (core/policy.py), the reason chains Gate-1 draws *)
(* from them (core/gate.py), canary versions (core/rollout.py) and the     *)
(* replay of past decisions under other limits (replay/counterfactual.py). *)
(* Decisions and events are those of one entity; the place of an event in  *)
(* the log is its recorded_at.                                             *)
(***************************************************************************)
EXTENDS Integers, Sequences, FiniteSetsExt, Functions, Domain

CONSTANTS
  RuledType,    \* entity types, each with its own policy rows
  CaseType,     \* the type of the entity
  Context,      \* what may be known of a case, as a set of facts
  Overrides,    \* limits a canary or a replay may set: functions from rules
  MaxVersion,   \* bound: versions
  MaxCounted,   \* bound: retries and contacts recorded
  MaxDecisions, \* bound: decisions
  MaxDay        \* bound: days

ASSUME PoliciesAssumption ==
  /\ CaseType \in RuledType
  /\ \A o \in Overrides : \A r \in DOMAIN o : o[r] \in Int
  /\ MaxVersion \in Nat /\ MaxCounted \in Nat /\ MaxDecisions \in Nat /\ MaxDay \in Nat

VARIABLES
  day,
  rows,         \* limits by type and version: a function from rules, empty if there is none
  shadow,       \* the versions of each type whose source is a replay
  counted,      \* the events the counters count
  gate,         \* the evaluation under way
  decisions,    \* the rows: version, reason chain, created_at, executed
  asked         \* history: what the gate was asked for each row, and saw; no
                \* column has it

policyVars == <<day, rows, shadow, counted, gate, decisions, asked>>

Version == 1..MaxVersion
NoRows == <<>>
NoGate == [on |-> FALSE]

-----------------------------------------------------------------------------
(* Rules *)

\* Windows are in days.  Of the rules that differ in their condition only, one
\* of each kind is kept.
DEFAULT_POLICY_RULES ==
  LET rule(metric, limit, window, verdict, when) ==
        [metric |-> metric, limit |-> limit, window |-> window, verdict |-> verdict, when |-> when]
  IN [retry_ceiling_7d |-> rule("retry", 3, 7, "DENY", {}),
      retry_spacing_24h |-> rule("retry", 1, 1, "DENY", {}),
      emandate_retry_spacing_72h |-> rule("retry", 1, 3, "DENY", {"emandate"}),
      contact_freq_24h |-> rule("contacts", 2, 1, "DENY", {}),
      contact_freq_24h_TRAI |-> rule("contacts", 1, 1, "DENY", {"jurisdiction_IN"}),
      india_emandate_no_autoretry |-> rule("none", 0, 0, "DENY", {"issuer_IN"}),
      fraud_block_require_human |-> rule("none", 0, 0, "REQUIRE_HUMAN", {"fraud_block"})]

Rule == DOMAIN DEFAULT_POLICY_RULES
MetricRule == {r \in Rule : DEFAULT_POLICY_RULES[r].metric # "none"}
DefaultLimits == [r \in Rule |-> DEFAULT_POLICY_RULES[r].limit]

VersionsOf(type) == {v \in Version : rows[type][v] # NoRows}
active_policy_version(type) == Max(VersionsOf(type) \cup {0})

rule_applies_to(r, context) == DEFAULT_POLICY_RULES[r].when \subseteq context

\* The first `seen` events, those of the window of the rule.
get_windowed_count(r, now, seen) ==
  Cardinality({i \in 1..seen :
    /\ counted[i].metric = DEFAULT_POLICY_RULES[r].metric
    /\ counted[i].occurred > now - DEFAULT_POLICY_RULES[r].window})

Relevant(r, action) ==
  LET metric == DEFAULT_POLICY_RULES[r].metric IN
  \/ metric = "retry" /\ action \in MONEY_ATTEMPT_ACTIONS
  \/ metric = "contacts" /\ action \in CUSTOMER_CONTACT_ACTIONS

\* The rules whose count has reached the limit.
Reached(limits, now, seen) ==
  {r \in MetricRule \cap DOMAIN limits : get_windowed_count(r, now, seen) >= limits[r]}

Paused(action, context) == "PAUSED" \in context /\ action \in MONEY_ATTEMPT_ACTIONS

ContextRules(limits, context) ==
  {r \in DOMAIN limits \ MetricRule : rule_applies_to(r, context)}

\* Entries of a reason chain: of a pause and of a context rule, where nothing is
\* counted, and of a rule that compares a count with its limit.
NotCounted == -1

reason_entry(rule, observed, limit, verdict) ==
  [rule |-> rule, observed |-> observed, limit |-> limit, verdict |-> verdict]

Matched(r) == reason_entry(r, NotCounted, NotCounted, DEFAULT_POLICY_RULES[r].verdict)

Compared(r, limit, observed) ==
  reason_entry(r, observed, limit,
               IF observed >= limit THEN DEFAULT_POLICY_RULES[r].verdict ELSE "ALLOW")

\* The rules that do not concern the action leave no entry.
GateChain(limits, action, context, now, seen) ==
  {e \in {reason_entry("paused_no_autoretry", NotCounted, NotCounted, "DENY")} : Paused(action, context)}
  \cup {Matched(r) : r \in ContextRules(limits, context)}
  \cup {Compared(r, limits[r], get_windowed_count(r, now, seen)) :
           r \in {r \in MetricRule \cap DOMAIN limits : rule_applies_to(r, context) /\ Relevant(r, action)}}

ChainVerdict(chain) == aggregate_verdict({e.verdict : e \in chain})

-----------------------------------------------------------------------------
(* Actions *)

PoliciesInit ==
  /\ day = 0
  /\ rows = [t \in RuledType |-> [v \in Version |-> NoRows]]
  /\ shadow = [t \in RuledType |-> {}]
  /\ counted = <<>>
  /\ gate = NoGate
  /\ decisions = <<>>
  /\ asked = <<>>

NextDay == day < MaxDay /\ day' = day + 1 /\ UNCHANGED <<rows, shadow, counted, gate, decisions, asked>>

\* A retry or a contact is recorded, on the day it occurred or later.
Count(metric, occurred) ==
  /\ Len(counted) < MaxCounted
  /\ counted' = Append(counted, [metric |-> metric, occurred |-> occurred])
  /\ UNCHANGED <<day, rows, shadow, gate, decisions, asked>>

\* The commands that seed do so for all types; rows of version 1 that are there
\* are left alone.
seed_default_policy ==
  /\ \E t \in RuledType : rows[t][1] = NoRows
  /\ rows' = [t \in RuledType |->
                IF rows[t][1] = NoRows THEN [rows[t] EXCEPT ![1] = DefaultLimits] ELSE rows[t]]
  /\ UNCHANGED <<day, shadow, counted, gate, decisions, asked>>

\* Gate-1 reads the version in force, its rows, and the counts up to `now`, which
\* the caller has fixed, perhaps the day before.
Evaluate(action, context, now) ==
  LET version == active_policy_version(CaseType) IN
  /\ ~gate.on
  /\ Len(decisions) < MaxDecisions
  /\ version # 0
  /\ gate' = [on |-> TRUE, version |-> version,
              chain |-> GateChain(rows[CaseType][version], action, context, now, Len(counted)),
              asked |-> [action |-> action, context |-> context, now |-> now, seen |-> Len(counted)]]
  /\ UNCHANGED <<day, rows, shadow, counted, decisions, asked>>

\* The row for a chain: created_at, a day and a place in the log, is the moment
\* of the insert, and an event may have been recorded since the counts.
RowOf(version) ==
  [version |-> version, chain |-> gate.chain,
   created_at |-> [day |-> day, seen |-> Len(counted)], executed |-> FALSE]

\* The version is read when the row is written.
RecordDecision_WithNewestVersion ==
  /\ gate.on
  /\ decisions' = Append(decisions, RowOf(active_policy_version(CaseType)))
  /\ asked' = Append(asked, gate.asked)
  /\ gate' = NoGate
  /\ UNCHANGED <<day, rows, shadow, counted>>

RecordDecision ==
  /\ gate.on
  /\ decisions' = Append(decisions, RowOf(gate.version))
  /\ asked' = Append(asked, gate.asked)
  /\ gate' = NoGate
  /\ UNCHANGED <<day, rows, shadow, counted>>

\* What was allowed is carried out, and counts from then on.
ExecuteDecision(d) ==
  /\ ChainVerdict(decisions[d].chain) = "ALLOW" /\ ~decisions[d].executed
  /\ Len(counted) < MaxCounted
  /\ decisions' = [decisions EXCEPT ![d].executed = TRUE]
  /\ counted' = Append(counted,
       [occurred |-> day,
        metric |-> IF asked[d].action \in MONEY_ATTEMPT_ACTIONS THEN "retry" ELSE "contacts"])
  /\ UNCHANGED <<day, rows, shadow, gate, asked>>

WithOverrides(limits, o) == [r \in DOMAIN limits |-> IF r \in DOMAIN o THEN o[r] ELSE limits[r]]

\* The next version of the type, with overrides.  Its sentinel row, which holds
\* the merchants of the canary, matches no context: the version is active for
\* every merchant.  A canary of a type without rules is left out.
create_canary_version(type, o) ==
  LET v == active_policy_version(type) IN
  /\ v \in 1..MaxVersion - 1
  /\ rows' = [rows EXCEPT ![type][v + 1] = WithOverrides(rows[type][v], o)]
  /\ UNCHANGED <<day, shadow, counted, gate, decisions, asked>>

\* The version a replay starts from is the latest of all types.
from_version == Max({active_policy_version(t) : t \in RuledType})

\* The shadow rows are committed before anything is replayed.
replay_with_policy(o) ==
  /\ from_version \in 1..MaxVersion - 1
  /\ rows' = [t \in RuledType |->
                IF rows[t][from_version] = NoRows THEN rows[t]
                ELSE [rows[t] EXCEPT ![from_version + 1] = WithOverrides(rows[t][from_version], o)]]
  /\ shadow' = [t \in RuledType |->
                  IF rows[t][from_version] = NoRows THEN shadow[t]
                  ELSE shadow[t] \cup {from_version + 1}]
  /\ UNCHANGED <<day, counted, gate, decisions, asked>>

Replayed(d) ==
  /\ d.version = from_version
  /\ ChainVerdict(d.chain) # "ALLOW" \/ d.executed

ReplayChain(limits, now, seen) ==
  {Compared(r, limits[r], get_windowed_count(r, now, seen)) : r \in MetricRule \cap DOMAIN limits}

\* The counts are those of today.
ReplayVerdict_WithHindsight(d, o) ==
  ChainVerdict(
    ReplayChain(WithOverrides(rows[CaseType][from_version], o), d.created_at.day, Len(counted)))

\* What the replay of a decision finds: the metric rules alone, all of them,
\* whatever the action was and whether or not they apply to the case.
ReplayVerdict(d, o) ==
  ChainVerdict(
    ReplayChain(WithOverrides(rows[CaseType][from_version], o), d.created_at.day, d.created_at.seen))

PoliciesNext ==
  \/ NextDay
  \/ \E m \in {"retry", "contacts"}, o \in {0, day} : Count(m, o)
  \/ seed_default_policy
  \/ \E a \in {"RETRY_NOW", "SEND_PAYMENT_LINK"}, c \in Context, n \in {day, day - 1} :
       Evaluate(a, c, n)
  \/ RecordDecision
  \/ \E d \in DOMAIN decisions : ExecuteDecision(d)
  \/ \E t \in RuledType, o \in Overrides : create_canary_version(t, o)
  \/ \E o \in Overrides : replay_with_policy(o)

-----------------------------------------------------------------------------
(* Properties *)

ChainType ==
  SUBSET [rule : Rule \cup {"paused_no_autoretry"}, observed : {NotCounted} \cup 0..MaxCounted,
          limit : Int, verdict : VERDICTS]

AskedType ==
  [action : {"RETRY_NOW", "SEND_PAYMENT_LINK"}, context : Context, now : -1..MaxDay, seen : 0..MaxCounted]

PoliciesType ==
  /\ day \in 0..MaxDay
  /\ \A t \in RuledType : \A v \in Version :
       rows[t][v] = NoRows \/ rows[t][v] \in [Rule -> Int]
  /\ shadow \in [RuledType -> SUBSET Version]
  /\ counted \in Seq([metric : {"retry", "contacts"}, occurred : 0..MaxDay])
  /\ gate = NoGate \/ gate \in [on : {TRUE}, version : Version, chain : ChainType, asked : AskedType]
  /\ decisions \in Seq([version : Version, chain : ChainType,
                        created_at : [day : 0..MaxDay, seen : 0..MaxCounted], executed : BOOLEAN])
  /\ asked \in Seq(AskedType) /\ Len(asked) = Len(decisions)

\* The evidence a decision recorded stands: each entry of its chain is of a rule
\* of the version it cites, a count was compared with the limit that the version
\* has, and the verdict follows, whatever versions have come since, also between
\* the look at the rules and the insert.
EvidenceStands ==
  \A i \in DOMAIN decisions : \A e \in decisions[i].chain :
    LET limits == rows[CaseType][decisions[i].version] IN
    \/ e.rule = "paused_no_autoretry" /\ e.verdict = "DENY"
    \/ e.rule \in DOMAIN limits /\ e = Matched(e.rule)
    \/ e.rule \in DOMAIN limits /\ e = Compared(e.rule, limits[e.rule], e.observed)

\* Where the counters decide alone, a replay, which has the row only, says what
\* the gate would have said then under the other limits.  It does not where a
\* context rule or a pause decided, where a rule that does not concern the case
\* has reached its limit, where the gate looked at the windows of the day
\* before, or where an event was recorded between the counts and the row.
ReplayIsTheGate ==
  \A i \in DOMAIN decisions, o \in Overrides :
    LET d == decisions[i]
        q == asked[i]
        limits == WithOverrides(rows[CaseType][from_version], o) IN
    /\ Replayed(d)
    /\ q.now = d.created_at.day /\ q.seen = d.created_at.seen
    /\ ~Paused(q.action, q.context)
    /\ ContextRules(limits, q.context) = {}
    /\ \A r \in Reached(limits, q.now, q.seen) :
         rule_applies_to(r, q.context) /\ Relevant(r, q.action)
    => ReplayVerdict(d, o) = ChainVerdict(GateChain(limits, q.action, q.context, q.now, q.seen))

\* A replay is an experiment on the past (replay/counterfactual.py:3 calls it
\* read-only): no case is decided under the limits it tried out.
ReplayIsReadOnly ==
  \A i \in DOMAIN decisions : decisions[i].version \notin shadow[CaseType]

=============================================================================
