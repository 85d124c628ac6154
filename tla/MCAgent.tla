------------------------------- MODULE MCAgent -------------------------------
(***************************************************************************)
(* Small instances of Agent.  Time is counted in days, and the rules are   *)
(* those of the default policy: one retry attempt a day, three in a week   *)
(* (two here), two contacts a day, and a human for a fraud.                *)
(***************************************************************************)
EXTENDS Agent, TLC

CONSTANTS w1, w2, p1, p2, e1, e2

OneSession == w1 :> p1
Together == w1 :> p1 @@ w2 :> p1
Apart == w1 :> p1 @@ w2 :> p2

row(action, deterministic) == [action |-> action, deterministic |-> deterministic]

DefaultTaxonomy ==
  [cause \in Cause |->
     CASE cause = "network_timeout" -> row("RETRY_NOW", FALSE)
       [] cause = "insufficient_funds" -> row("RETRY_SCHEDULED", FALSE)
       [] cause = "card_expired" -> row("REQUEST_PAYMENT_METHOD", FALSE)
       [] cause = "fraud_block" -> row("ESCALATE_HUMAN", TRUE)
       [] cause = "by_decree" -> row("SEND_PAYMENT_LINK", TRUE)]   \* a row an operator may add

Cap(metric, limit, window) ==
  [metric |-> metric, limit |-> limit, window |-> window, verdict |-> "DENY", causes |-> Cause]

FraudRule == [metric |-> "context", limit |-> 0, window |-> 0, verdict |-> "REQUIRE_HUMAN",
              causes |-> Cause \cap {"fraud_block"}]

DefaultRules == {Cap("retry", 1, 1), Cap("retry", 2, 7), Cap("contacts", 2, 1), FraudRule}

propose(action, channel, confident) ==
  [action |-> action, channel |-> channel, confident |-> confident]

RetryNow == {propose("RETRY_NOW", "none", TRUE)}
RetryLater == {propose("RETRY_SCHEDULED", "none", TRUE)}
Retries == RetryNow \cup RetryLater
Escalations == {propose("ESCALATE_HUMAN", "none", TRUE)}
RetriesAndDoubts == Retries \cup {propose("RETRY_NOW", "none", FALSE)}
Everything == Retries \cup Escalations
                \cup {propose("RETRY_NOW", "none", FALSE), propose("SEND_PAYMENT_LINK", "sms", TRUE)}

\* Sessions are interchangeable when all or none share a process.
Sessions == Permutations(Worker)

=============================================================================
