---------------------------- MODULE MCMembership ----------------------------
(* Small instances of surface membership for TLC. *)
EXTENDS SurfaceMembership

CONSTANTS k1, k2, bar, den
=============================================================================
