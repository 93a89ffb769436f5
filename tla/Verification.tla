---------------------------- MODULE Verification ----------------------------
(***************************************************************************)
(* What the reconciler finds wrong on one surface, and what it commands    *)
(* (legacy/.../engine.py), with the evidence its adapter collects: group   *)
(* members and scene recalls (hue.py), projected ownership (rendering.py), *)
(* overlays and the scene monitor (__init__.py).                           *)
(*                                                                         *)
(* Asked is the list of commands of a check and Clean the absence of       *)
(* issues.  Module Reconciler says when a command is executed; here, one   *)
(* may be whenever a check made at this moment asks for it, which is what  *)
(* the last fence of repair() ensures.                                     *)
(***************************************************************************)
EXTENDS FiniteSets

CONSTANTS
  Lights,      \* lights that are or may become members of the surface's group
  Liquor,      \* the light in the liquor cabinet
  Eve,         \* the back-yard light that a live game colours
  BrightWhite, \* the back-yard lights of the bright-white toggle
  Looks,       \* colours and brightnesses that verification tells apart
  White,       \* the look of home_lighting_liquor_white
  Daily,       \* the static baseline of daily: lights to looks
  Scene,       \* the actions of the owner's scene: lights to looks or "off"
  Surfaces     \* the surfaces among main_area, front_eve, path and backyard

ASSUME VerificationAssumption ==
  /\ "main_area" \in Surfaces => Liquor \in Lights
  /\ White \in Looks /\ {"off", "lost"} \cap Looks = {}
  /\ Daily \in [DOMAIN Daily -> Looks] /\ DOMAIN Daily \subseteq Lights
  /\ Scene \in [DOMAIN Scene -> Looks \cup {"off"}] /\ DOMAIN Scene \subseteq Lights

VARIABLES
  surface,  \* the surface under verification
  owner,    \* the resolver's answer: "scene" is a holiday, a game, or the daily
            \* scene of path and backyard
  door,     \* a door of the liquor cabinet is open
  members,  \* what the bridge says of the group, {} if it cannot be resolved
  hold,     \* Home Lighting Manager's record of each light
  pending,  \* lights with provisional evidence of homeowner intent
  game,     \* a 49ers game is on, and the Manual helper of the back yard is off
  bright,   \* the bright-white toggle is on
  shown,    \* what each light shows, "lost" if it is unavailable
  readable, \* the scene's actions can be read from the bridge
  recalled, \* the newest recall in the group or an equivalent one is the scene's
  monitor,  \* the scene monitor reports the scene as the active one
  blocked   \* suppression(): a transient runs or an input is missing

ownership == <<surface, owner, door, members, hold, pending, game, bright, blocked>>
evidence == <<readable, recalled, monitor>>
vars == <<ownership, shown, evidence>>

\* automatic, of this surface's owner; protected; Manual-OFF; automatic, of
\* another owner; not in the managed scope (no record).
Holds == {"automatic", "manual", "manual_off", "other", "unmanaged"}

OwnersOf(s) ==
  {"scene", "off"}
  \cup (IF s \in {"main_area", "front_eve"} THEN {"daily"} ELSE {})
  \cup (IF s \in {"main_area", "backyard"} THEN {"sync"} ELSE {})
  \cup (IF s # "main_area" THEN {"manual"} ELSE {})
  \cup (IF s = "backyard" THEN {"spa"} ELSE {})

Unmanaged == {"sync", "manual", "spa"}

-----------------------------------------------------------------------------
(* Projected ownership *)

Of(kinds) == {l \in members : hold[l] \in kinds}

\* Evidence about a light without a record is not published.
Pending == (pending \cap members) \ Of({"unmanaged"})

\* The homeowner's lights and those of another automatic owner.
ManualEntities == Of({"manual", "manual_off", "other"})

\* with_legacy_overlay_exclusions.
Overlay ==
  IF surface # "backyard" THEN {}
  ELSE (IF game /\ owner \notin Unmanaged THEN {Eve} ELSE {})
       \cup (IF bright THEN BrightWhite ELSE {})

Protected == ManualEntities \cup Of({"unmanaged"}) \cup Pending \cup Overlay

\* The lights that an open door owns.
Cabinet == IF surface = "main_area" /\ door /\ owner # "sync" THEN {Liquor} ELSE {}

-----------------------------------------------------------------------------
(* verify *)

\* A surface that verification passes over, and one without members.
Skipped == blocked \/ owner \in Unmanaged
Judged == ~Skipped /\ members # {}

Setting(S, look(_)) == {[light |-> l, look |-> look(l)] : l \in S}

\* Mutant of OwnedByNobodyElse: the open door is forgotten.
OwnedByNobodyElseButDoor(S) == S \ Protected

\* Lights of S that the surface's owner may set.
OwnedByNobodyElse(S) == S \ (Protected \cup Cabinet)

HeldOff == Of({"manual_off"}) \ (Pending \cup Cabinet)

\* What single lights are to show: held off by the homeowner, by the owner's
\* static desired state, or white under an open door.
Desired ==
  Setting(HeldOff, LAMBDA l : "off")
  \cup (IF owner # "off" THEN {}
        ELSE Setting(OwnedByNobodyElse(members), LAMBDA l : "off"))
  \cup (IF owner # "daily" THEN {}
        ELSE Setting(OwnedByNobodyElse(DOMAIN Daily) \cap members, LAMBDA l : Daily[l]))
  \cup Setting(Cabinet, LAMBDA l : White)

\* Mutant of Differs: a light that cannot be reached is as it should be.
DiffersIfReachable(d) == shown[d.light] \notin {"lost", d.look}

\* static_diff, up to the tolerance of Hue's rounding.
Differs(d) == shown[d.light] # d.look

\* Baseline commands that the group no longer covers.
Outside == owner = "daily" /\ ~(OwnedByNobodyElse(DOMAIN Daily) \subseteq members)

\* Scenes are compared by on and off alone.
IsOn(look) == look # "off"
Follows(l) == shown[l] # "lost" /\ IsOn(shown[l]) = IsOn(Scene[l])

HasScene == owner = "scene" /\ ~(members \subseteq Protected \cup Cabinet)

\* The newest recall is the scene's, or the monitor says so and nobody but the
\* owner holds a light.
Latest == recalled \/ (monitor /\ ManualEntities = {})

SceneUsable == /\ readable /\ DOMAIN Scene # {} /\ DOMAIN Scene \subseteq members
               /\ Latest

Strayed == {l \in OwnedByNobodyElse(DOMAIN Scene) : ~Follows(l)}

\* A scene is repaired only when all of its lights can be reached and no door
\* is open: otherwise the issue stays without a command.
SceneRepairable ==
  /\ HasScene /\ SceneUsable
  /\ Strayed # {}
  /\ \A l \in Strayed : shown[l] # "lost"
  /\ ~(surface = "main_area" /\ door)

\* The commands of a check.
Asked ==
  IF ~Judged THEN {}
  ELSE {[kind |-> "light", setting |-> d] :
          d \in {d \in Desired : Differs(d) /\ shown[d.light] # "lost"}}
       \cup (IF SceneRepairable THEN {[kind |-> "scene", protected |-> Protected]} ELSE {})

\* A check without an issue.
Clean ==
  \/ Skipped
  \/ /\ members # {}
     /\ ~Outside
     /\ \A d \in Desired : ~Differs(d)
     /\ HasScene => SceneUsable /\ Strayed = {}

-----------------------------------------------------------------------------
(* Repairs *)

SetLight(d) ==
  /\ shown' = [shown EXCEPT ![d.light] = d.look]
  /\ UNCHANGED evidence

SceneOn(S) ==
  shown' = [l \in Lights |-> IF l \in S \cap DOMAIN Scene /\ shown[l] # "lost"
                               THEN Scene[l] ELSE shown[l]]

\* Mutant of SetScene: the whole scene is recalled in any case.
SetSceneWholly(c) == SceneOn(Lights) /\ recalled' = TRUE /\ UNCHANGED <<readable, monitor>>

\* The native recall, or light by light around the protected ones: it ends
\* early when the bridge refuses one or the plan has become obsolete.
SetScene(c) ==
  IF c.protected = {}
    THEN SceneOn(Lights) /\ recalled' = TRUE /\ UNCHANGED <<readable, monitor>>
    ELSE /\ \E S \in SUBSET (DOMAIN Scene \ c.protected) : SceneOn(S)
         /\ UNCHANGED evidence

Repair(c) ==
  /\ c \in Asked
  /\ IF c.kind = "light" THEN SetLight(c.setting) ELSE SetScene(c)
  /\ UNCHANGED ownership

-----------------------------------------------------------------------------
(* The house between two repairs *)

Ownership ==
  /\ \/ owner' \in OwnersOf(surface)
        /\ UNCHANGED <<door, members, hold, pending, game, bright, blocked>>
     \/ \E l \in Lights, h \in Holds : hold' = [hold EXCEPT ![l] = h]
        /\ UNCHANGED <<owner, door, members, pending, game, bright, blocked>>
     \/ \E l \in Lights : pending' \in {pending \cup {l}, pending \ {l}}
        /\ UNCHANGED <<owner, door, members, hold, game, bright, blocked>>
     \/ \E l \in Lights : members' \in {members \cup {l}, members \ {l}, {}}
        /\ UNCHANGED <<owner, door, hold, pending, game, bright, blocked>>
     \/ surface = "main_area" /\ door' = ~door
        /\ UNCHANGED <<owner, members, hold, pending, game, bright, blocked>>
     \/ surface = "backyard" /\ game' = ~game
        /\ UNCHANGED <<owner, door, members, hold, pending, bright, blocked>>
     \/ surface = "backyard" /\ bright' = ~bright
        /\ UNCHANGED <<owner, door, members, hold, pending, game, blocked>>
     \/ blocked' = ~blocked
        /\ UNCHANGED <<owner, door, members, hold, pending, game, bright>>
  /\ UNCHANGED <<surface, shown, evidence>>

LightChanges ==
  /\ \E l \in Lights, x \in Looks \cup {"off", "lost"} : shown' = [shown EXCEPT ![l] = x]
  /\ UNCHANGED <<ownership, evidence>>

EvidenceChanges ==
  /\ \/ readable' = ~readable /\ UNCHANGED <<recalled, monitor>>
     \/ recalled' = ~recalled /\ UNCHANGED <<readable, monitor>>
     \/ monitor' = ~monitor /\ UNCHANGED <<readable, recalled>>
  /\ UNCHANGED <<ownership, shown>>

House == Ownership \/ LightChanges \/ EvidenceChanges

\* An evening somewhere in its middle, with nothing held back yet.
Init ==
  /\ surface \in Surfaces /\ owner \in OwnersOf(surface)
  /\ members = Lights /\ hold = [l \in Lights |-> "automatic"]
  /\ pending = {} /\ door = FALSE /\ game = FALSE /\ bright = FALSE /\ blocked = FALSE
  /\ shown = [l \in Lights |-> "off"]
  /\ readable = TRUE /\ recalled = TRUE /\ monitor = TRUE

Next == House \/ \E c \in Asked : Repair(c)

Spec == Init /\ [][Next]_vars

-----------------------------------------------------------------------------
(* Properties *)

TypeOK ==
  /\ surface \in Surfaces /\ owner \in OwnersOf(surface)
  /\ members \subseteq Lights /\ pending \subseteq Lights
  /\ hold \in [Lights -> Holds]
  /\ shown \in [Lights -> Looks \cup {"off", "lost"}]
  /\ {door, game, bright, blocked, readable, recalled, monitor} \subseteq BOOLEAN

\* Whose a light is, by the priorities of the ownership contract; a recall
\* of another scene may be the homeowner's.
Claim(l) ==
  IF l \in Cabinet THEN "door"
  ELSE IF l \notin members \/ l \in pending THEN "hands off"
  ELSE IF hold[l] = "manual_off" THEN "off"
  ELSE IF hold[l] # "automatic" \/ l \in Overlay THEN "hands off"
  ELSE IF owner = "scene" /\ ~recalled /\ ~monitor THEN "hands off"
  ELSE owner

\* What a light shows is what its claim asks for; a light that cannot be
\* reached shows nothing.
Right(l) ==
  /\ Claim(l) = "door" => shown[l] = White
  /\ Claim(l) = "off" => shown[l] = "off"
  /\ Claim(l) = "daily" /\ l \in DOMAIN Daily => shown[l] = Daily[l]
  /\ Claim(l) = "scene" /\ l \in DOMAIN Scene => Follows(l)

\* The health that the loop reports means something: a check that finds no
\* issue on a surface it does not pass over leaves no light that shows anything
\* but what its owner asks for, over every mixture of holds, evidence, overlays,
\* doors and lost lights.
SilenceMeansRight == Clean /\ ~Skipped => \A l \in Lights : Right(l)

\* No repair touches a light that is the homeowner's, may be about to be, or
\* belongs to another owner: also a scene that lists such a light, and a scene
\* over which another may have been recalled.
HandsOff ==
  [][(\E c \in Asked : Repair(c)) =>
       \A l \in Lights : shown'[l] # shown[l] => Claim(l) # "hands off"]_vars

\* Repairs are independent: one that reached its lights is not asked for again,
\* and none makes another necessary.  Two attempts of the loop (module
\* Reconciler) can therefore only fail for want of evidence or of a light.
RepairsShrink ==
  [][\A c \in Asked : Repair(c) =>
       /\ Asked' \subseteq Asked
       /\ c.kind = "light" \/ c.protected = {} => c \notin Asked']_vars
=============================================================================
