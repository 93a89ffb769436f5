-------------------------- MODULE HomeownerControl --------------------------
(***************************************************************************)
(* What homeowner control promises, without layers, families or receipts   *)
(* (docs/adr/0002-layered-operations-off-engine.md): a light is under      *)
(* Manual control, held off by the homeowner, or left to the house.        *)
(* Automations change none of this.  A group OFF first hands its lights    *)
(* back to the house and arms the group; the same group OFF again, with    *)
(* no intent on its lights in between, turns them off for good.            *)
(***************************************************************************)
CONSTANTS Lights, Areas

Intents == {"none", "manual", "manual_off"}

VARIABLES
  intent,   \* what the homeowner last asked of a light
  armed     \* the lights of each area's first OFF ({}: not armed)

controlVars == <<intent, armed>>

ControlInit ==
  /\ intent = [l \in Lights |-> "none"]
  /\ armed = [a \in Areas |-> {}]

Asked(S, what) == intent' = [l \in Lights |-> IF l \in S THEN what ELSE intent[l]]

\* No area stays armed once its lights are touched; others may be forgotten.
DisarmedBy(S, kept) ==
  \A a \in Areas \ kept :
     /\ armed'[a] \in {armed[a], {}}
     /\ armed'[a] \cap S = {}

\* The homeowner picks an appearance for some lights.
Appear(S) ==
  /\ Asked(S, "manual")
  /\ armed' \in [Areas -> SUBSET Lights]
  /\ DisarmedBy(S, {})

\* An OFF of one light releases the Manual it shows, holds the light off, or
\* dismisses what the house was showing on it.
Off(l) ==
  /\ \/ intent[l] = "manual" /\ Asked({l}, "none")
     \/ Asked({l}, "manual_off")
     \/ UNCHANGED intent
  /\ armed' \in [Areas -> SUBSET Lights]
  /\ DisarmedBy({l}, {})

\* The first OFF of an area gives the lights that took part back to the house.
FirstOff(a, members, S) ==
  /\ armed[a] # members
  /\ Asked(S, "none")
  /\ armed' \in [Areas -> SUBSET Lights]
  /\ armed'[a] = members
  /\ DisarmedBy(members, {a})

\* The second one holds them off.
SecondOff(a, members, S) ==
  /\ armed[a] = members
  /\ Asked(S, "manual_off")
  /\ armed' \in [Areas -> SUBSET Lights]
  /\ armed'[a] = members
  /\ DisarmedBy(members, {a})

\* The nightly boundary, a reset, a new configuration or the end of a family
\* session: every area is disarmed, and some lights go back to the house.
Withdraw(S) ==
  /\ Asked(S, "none")
  /\ armed' = [a \in Areas |-> {}]

ControlNext ==
  \/ \E S \in SUBSET Lights : Appear(S) \/ Withdraw(S)
  \/ \E l \in Lights : Off(l)
  \/ \E a \in Areas, members \in SUBSET Lights :
       \E S \in SUBSET members :
          /\ S # {}
          /\ FirstOff(a, members, S) \/ SecondOff(a, members, S)

ControlSpec == ControlInit /\ [][ControlNext]_controlVars
=============================================================================
