--------------------------- MODULE MCMaintenance ---------------------------
(***************************************************************************)
(* A small instance of Maintenance: events of two entities that are young, *)
(* old and late, archived after one day.                                   *)
(***************************************************************************)
EXTENDS Maintenance, TLC

CONSTANTS e1, e2

\* Nothing tells entities apart.
Entities == Permutations(Entity)

=============================================================================
