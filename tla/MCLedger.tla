------------------------------ MODULE MCLedger ------------------------------
(***************************************************************************)
(* Small instances of Ledger: two or three sessions, two entities, one     *)
(* source id that is delivered twice and events without one.               *)
(***************************************************************************)
EXTENDS Ledger, TLC

CONSTANTS s1, s2, s3, e1, e2, d1, d2

=============================================================================
