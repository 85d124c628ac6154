----------------------------- MODULE MCServices -----------------------------
(***************************************************************************)
(* Small instances of the services.                                        *)
(***************************************************************************)
EXTENDS Services, TLC

\* Intake: an MCP client with an id, and webhook deliveries without one, about
\* one entity at one time, for two merchants.
delivery(via, merchant, id) ==
  [via |-> via, merchant |-> merchant, entity |-> "e1", id |-> id, created_at |-> 1]

SomeDeliveries ==
  {delivery("mcp", "m1", "id1"), delivery("webhook", "m1", NoId), delivery("webhook", "m2", NoId)}

\* Watchers: a case is as new, or was retried, waits for a promise that has
\* passed, and its card expires soon.
Troubled == [retries |-> 3, overdue |-> TRUE, awaiting |-> TRUE, contact_days |-> 3, card_days |-> 20]
SomeFacts == {NothingKnown, Troubled}

\* Policies: an Indian e-mandate that the counters alone decide about, and a
\* paused case of fraud with an Indian issuer.  The override lets a second
\* contact a day through.
SomeContexts == {{"jurisdiction_IN", "emandate"}, {"fraud_block"}, {"issuer_IN", "PAUSED"}}
SecondContact == {"contact_freq_24h_TRAI" :> 2}

\* Timing: January to May, with holidays at the end of January and of half of
\* it; London, India, Hawaii.
say(unit, n) == [unit |-> unit, n |-> n]
Months == <<31, 28, 31, 30, 31>>
Holidays == {15, 30, 31}
Zones == {0, 11, -20}
Timings == {say("IMMEDIATE", 0), say("T_PLUS_H", 7), say("T_PLUS_D", 1), say("NEXT_PAYDAY", 0)}
Histories == {<<>>, <<15>>, <<1, 15>>, <<1, 31>>, <<31, 30>>, <<15, 2, 16>>, <<28, 1, 1>>}
Moments == {days(d) + h : d \in {0, 14, 29, 30}, h \in {0, 20, 21, 34, 47}}

\* Spend: two callers of one merchant and one of another.
Payers == [c \in Spender |-> IF c = "c3" THEN "m2" ELSE "m1"]

=============================================================================
