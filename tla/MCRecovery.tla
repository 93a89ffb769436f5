----------------------------- MODULE MCRecovery -----------------------------
(* A small instance of restart recovery for TLC. *)
EXTENDS RestartRecovery

CONSTANTS k1, k2

\* Only k1 is ever held; k2, which is not configured, comes and goes as a member.
FocusSpec ==
  Init /\ [][Next /\ held'[k2] = "none"]_vars /\ Fairness
=============================================================================
