---------------------------- MODULE MCProjection ----------------------------
(***************************************************************************)
(* Small instances of Projection: one session that folds, or two, one      *)
(* entity or two, and a few events that move it in different ways.         *)
(***************************************************************************)
EXTENDS Projection, TLC

CONSTANTS f1, f2, e1, e2

=============================================================================
