------------------------------ MODULE MCOutbox ------------------------------
(***************************************************************************)
(* Small instances of Outbox: two decisions about one entity, and two      *)
(* sessions, in one process or in two.                                     *)
(***************************************************************************)
EXTENDS Outbox, TLC

CONSTANTS k1, k2, w1, w2, e1, p1, p2

\* Two sessions in different processes.
Apart == w1 :> p1 @@ w2 :> p2

\* Two sessions of one process.
Together == w1 :> p1 @@ w2 :> p1

OneEntity == k1 :> e1 @@ k2 :> e1

=============================================================================
