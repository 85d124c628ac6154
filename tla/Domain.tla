------------------------------- MODULE Domain -------------------------------
(***************************************************************************)
(* The closed vocabulary of Instate: actions, event types, statuses and    *)
(* verdicts of core/models.py, and the tables the agent reads to turn one  *)
(* into another.  Names are the strings of the source.                     *)
(***************************************************************************)
EXTENDS FiniteSets

-----------------------------------------------------------------------------
(* Actions (core/models.py) *)

LEGAL_ACTIONS ==
  {"RETRY_NOW", "RETRY_SCHEDULED", "SEND_PAYMENT_LINK", "UPDATE_MANDATE",
   "REQUEST_PAYMENT_METHOD", "AWAIT_PROMISE", "ESCALATE_HUMAN",
   "RETRY_BACKUP_METHOD", "CHECK_METHOD_UPDATED"}

CUSTOMER_CONTACT_ACTIONS ==
  {"SEND_PAYMENT_LINK", "UPDATE_MANDATE", "REQUEST_PAYMENT_METHOD", "AWAIT_PROMISE"}

MONEY_ATTEMPT_ACTIONS == {"RETRY_NOW", "RETRY_SCHEDULED", "RETRY_BACKUP_METHOD"}

\* Actions whose execution can move money at the gateway.
CHARGING_ACTIONS == {"RETRY_NOW", "RETRY_BACKUP_METHOD"}

HARD_DECLINE_ROOT_CAUSES ==
  {"card_expired", "lost_card", "stolen_card", "fraud_block", "mandate_inactive"}

\* The actions the Razorpay adapter sends to the gateway; every other one it
\* refuses by itself ("unsupported action").
GATEWAY_ACTIONS ==
  {"RETRY_NOW", "RETRY_BACKUP_METHOD", "SEND_PAYMENT_LINK",
   "REQUEST_PAYMENT_METHOD", "UPDATE_MANDATE", "CHECK_METHOD_UPDATED"}

\* The event that records that an action was carried out, as a set that is
\* empty for an action without one.
OUTCOME_EVENT(action) ==
  CASE action \in CHARGING_ACTIONS -> {"RetryAttempted"}
    [] action = "RETRY_SCHEDULED" -> {"RetryScheduled"}
    [] action \in {"SEND_PAYMENT_LINK", "REQUEST_PAYMENT_METHOD"} -> {"PaymentLinkSent"}
    [] action \in {"UPDATE_MANDATE", "AWAIT_PROMISE"} -> {"RecoveryActionSent"}
    [] action = "CHECK_METHOD_UPDATED" -> {"MethodCheckCompleted"}
    [] OTHER -> {}

\* Whether the action contacts the customer on a default channel.
HasDefaultChannel(action) == action \in CUSTOMER_CONTACT_ACTIONS

-----------------------------------------------------------------------------
(* The entity state machine (core/models.py, core/projection.py) *)

VALID_STATUSES ==
  {"ACTIVE", "DIAGNOSED", "RETRY_SCHEDULED", "AWAITING_PROMISE",
   "ESCALATED", "RECOVERED", "WRITTEN_OFF", "PAUSED"}

TERMINAL_STATUSES == {"RECOVERED", "WRITTEN_OFF"}

\* Event types that move an entity, by the status they move it to.
EventsLeadingTo(status) ==
  CASE status = "DIAGNOSED" ->
         {"PaymentFailed", "FailureDiagnosed", "RetryFailed", "PaymentMethodChanged",
          "PromiseBroken", "RecoveryReversed", "SubscriptionResumed",
          "CheckoutAbandoned", "InvoiceOverdue"}
    [] status = "RETRY_SCHEDULED" -> {"RetryAttempted", "RetryScheduled"}
    [] status = "RECOVERED" ->
         {"RetrySucceeded", "PromiseHonored", "HumanResolved", "PaymentRecovered"}
    [] status = "AWAITING_PROMISE" -> {"PromiseMade"}
    [] status = "ESCALATED" -> {"EscalatedToHuman"}
    [] status = "WRITTEN_OFF" -> {"WrittenOff"}
    [] status = "PAUSED" -> {"SubscriptionPaused"}
    [] OTHER -> {}

\* The status of an entity after an event of the type: most events move it
\* whatever its status is, the others leave it.
TRANSITIONS(status, type) ==
  IF \E next \in VALID_STATUSES : type \in EventsLeadingTo(next)
  THEN CHOOSE next \in VALID_STATUSES : type \in EventsLeadingTo(next)
  ELSE status

\* The counters of the policy rules are counts of these event types.
RETRY_EVENT_TYPES == {"RetryAttempted", "RetryScheduled", "RetryNow"}
CONTACT_EVENT_TYPES == {"CustomerContacted", "RecoveryActionSent", "PaymentLinkSent"}

\* The actions Gate-2 accepts from a status.
LEGAL_ACTIONS_BY_STATUS(status) ==
  CASE status \in {"ACTIVE", "DIAGNOSED", "RETRY_SCHEDULED"} -> LEGAL_ACTIONS
    [] status = "AWAITING_PROMISE" -> {"AWAIT_PROMISE", "SEND_PAYMENT_LINK", "ESCALATE_HUMAN"}
    [] status = "ESCALATED" -> {"ESCALATE_HUMAN"}
    [] status = "PAUSED" -> {"ESCALATE_HUMAN", "AWAIT_PROMISE"}
    [] OTHER -> {}

-----------------------------------------------------------------------------
(* Verdicts (core/gate.py) *)

VERDICTS == {"DENY", "REQUIRE_HUMAN", "ALLOW"}

\* DENY beats REQUIRE_HUMAN beats ALLOW.
aggregate_verdict(fired) ==
  CASE "DENY" \in fired -> "DENY"
    [] "REQUIRE_HUMAN" \in fired -> "REQUIRE_HUMAN"
    [] OTHER -> "ALLOW"

=============================================================================
