----------------------------- MODULE EventLog -----------------------------
(***************************************************************************)
(* What the readers of the ledger rely on: committed events only ever grow *)
(* in number, none of them changes, every id is used once, and, where the  *)
(* database admits one writer at a time, events become visible in the      *)
(* order of their ids.                                                     *)
(***************************************************************************)
EXTENDS Integers

CONSTANTS Entity,
          EventType,
          MaxId,     \* bound: ids that can be handed out
          Serial     \* does the database admit one writer at a time?

Id == 1..MaxId
Row == [id : Id, entity : Entity, type : EventType]

VARIABLE log         \* the committed rows, as readers see them

Init == log = {}

\* A transaction commits its rows.
Append(batch) ==
  /\ batch \subseteq Row
  /\ \A x, y \in batch : x.id = y.id => x = y
  /\ \A x \in batch, y \in log : x.id # y.id /\ (Serial => x.id > y.id)
  /\ log' = log \cup batch

Next == Append(log' \ log)

Spec == Init /\ [][Next]_log

=============================================================================
