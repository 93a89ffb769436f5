---------------------------- MODULE MCReconciler ----------------------------
(* Small instances of the reconciler loop for TLC. *)
EXTENDS Reconciler

CONSTANTS c1, c2
=============================================================================
