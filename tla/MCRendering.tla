----------------------------- MODULE MCRendering -----------------------------
(* Small instances of rendering for TLC. *)
EXTENDS Rendering

CONSTANTS k1, k2, k3, r1, r2

\* One of three lights may be held, have pending evidence or become unavailable.
\* The first request commands two lights or recalls a scene of all.  The second,
\* of a baseline, commands a single light while the first one, at work on a scene,
\* stands at the guard or later, and finds the house calm.
FocusNext ==
  /\ Next
  /\ view'.protected \cup view'.pending \cup lost' \subseteq {k1}
  /\ call'[r1].pc # "idle" =>
       call'[r1].targets = (IF call'[r1].service = "light" THEN {k1, k2} ELSE Lights)
  /\ call'[r2].pc # "idle" =>
       /\ call'[r2].service = "light" /\ call'[r2].targets = {k2}
       /\ call'[r1].service = "scene" /\ call'[r1].pc \notin {"idle", "owners", "read"}
       /\ view' = [Fresh EXCEPT !.protected = {k1}] /\ lost' = {}

FocusSpec == Init /\ [][FocusNext]_vars
=============================================================================
