----------------------------- MODULE ExactlyOnce -----------------------------
(***************************************************************************)
(* What the outbox promises of one decided action, seen from outside: the  *)
(* action is announced, the gateway settles it once, performing it or      *)
(* refusing it, and the ledger ends with one receipt that says what the    *)
(* gateway did.  Processes, retries, timeouts, crashes and reconciliation  *)
(* are not visible at this level.                                          *)
(***************************************************************************)
CONSTANT Key          \* idempotency keys, one per decision

VARIABLES phase,      \* phase[k]: where the action stands at the gateway
          receipt     \* receipt[k]: what the ledger says of it

vars == <<phase, receipt>>

Phase == {"absent", "intended", "performed", "refused"}
Receipt == {"none", "completed", "failed"}

Init == /\ phase = [k \in Key |-> "absent"]
        /\ receipt = [k \in Key |-> "none"]

\* The intent becomes durable.
Intend(k) == /\ phase[k] = "absent"
             /\ phase' = [phase EXCEPT ![k] = "intended"]
             /\ UNCHANGED receipt

\* The gateway performs the action, or refuses it, for good.
Settle(k, verdict) == /\ phase[k] = "intended"
                      /\ phase' = [phase EXCEPT ![k] = verdict]
                      /\ UNCHANGED receipt

\* The ledger receives the one receipt, and it is the truth.
Record(k) == /\ receipt[k] = "none"
             /\ \/ phase[k] = "performed" /\ receipt' = [receipt EXCEPT ![k] = "completed"]
                \/ phase[k] = "refused" /\ receipt' = [receipt EXCEPT ![k] = "failed"]
             /\ UNCHANGED phase

Next == \E k \in Key : \/ Intend(k)
                       \/ \E verdict \in {"performed", "refused"} : Settle(k, verdict)
                       \/ Record(k)

Spec == Init /\ [][Next]_vars

=============================================================================
