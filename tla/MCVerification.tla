--------------------------- MODULE MCVerification ---------------------------
(* Small instances of verification for TLC. *)
EXTENDS Verification, Naturals

CONSTANTS k1, k2, k3, day, white

\* The cabinet's light of main_area is the Eve of the back yard's instance.
SmallDaily == [l \in {k1, k3} |-> day]
SmallScene == [l \in {k1, k2} |-> IF l = k1 THEN day ELSE "off"]

\* At most this many things are out of the ordinary at a time: a light that is
\* held, doubtful, lost or out of the group, or missing evidence.
MaxUnusual == 2

Unusual ==
  {<<l, "held">> : l \in {l \in Lights : hold[l] # "automatic"}}
  \cup {<<l, "lost">> : l \in {l \in Lights : shown[l] = "lost"}}
  \cup {<<l, "doubtful">> : l \in pending}
  \cup {<<l, "out">> : l \in IF members = {} THEN {} ELSE Lights \ members}
  \cup {<<e, "missing">> : e \in {e \in {"members", "actions", "recall", "input"} :
                                    \/ e = "members" /\ members = {}
                                    \/ e = "actions" /\ ~readable
                                    \/ e = "recall" /\ ~recalled
                                    \/ e = "input" /\ blocked}}

\* What the monitor says only matters when the bridge disagrees.
FocusNext == /\ Next
             /\ Cardinality(Unusual') <= MaxUnusual
             /\ recalled' => monitor'

FocusSpec == Init /\ [][FocusNext]_vars
=============================================================================
