------------------------------ MODULE Recovery ------------------------------
(***************************************************************************)
(* What the agent promises of one reported failure: it is decided once,    *)
(* and the decision is one of three - a human gets it, a retry is queued,  *)
(* or an action is intended.  A queued retry turns into one intent, and an *)
(* intent into one settled outcome.                                        *)
(***************************************************************************)
VARIABLE phase      \* phase[f]: where the reported failure f stands

Init == phase = << >>

Reported == DOMAIN phase

Move(f, from, to) == /\ f \in Reported /\ phase[f] = from
                     /\ phase' = [phase EXCEPT ![f] = to]

\* The intake records the failure.
Report(f) == /\ f \notin Reported
             /\ phase' = [g \in Reported \cup {f} |-> IF g = f THEN "reported" ELSE phase[g]]

\* The one decision about it.
Decide(f) == \E to \in {"escalated", "scheduled", "intended"} : Move(f, "reported", to)

\* The retry comes due.
Run(f) == Move(f, "scheduled", "intended")

\* The outcome is recorded.
Settle(f) == Move(f, "intended", "settled")

Next == \/ \E f \in DOMAIN phase' : Report(f)
        \/ \E f \in Reported : Decide(f) \/ Run(f) \/ Settle(f)

Spec == Init /\ [][Next]_phase

=============================================================================
