---------------------------- MODULE OwnerResolver ----------------------------
(***************************************************************************)
(* Who owns each surface: script.home_lighting_resolve_owners of           *)
(* packages/home_lighting_manager.yaml, a table of priorities over helpers *)
(* and sensors that every evaluator, the renderer and the reconciler read. *)
(***************************************************************************)
EXTENDS Naturals, FiniteSets, Sequences, FiniteSetsExt

CONSTANT Legacy  \* surfaces whose Manual is a helper, not Home Lighting Manager's

ASSUME ResolverAssumption == Legacy \subseteq {"front_eve", "path", "backyard"}

VARIABLES
  windows,  \* surfaces whose lighting window is on
  key,      \* home_lighting_holiday_key names a supported holiday
  active,   \* home_lighting_holiday_active
  manual,   \* the Manual helpers that are on; main_area's is the aggregate
  sync,     \* the Entertainment areas that stream: "living", "yard"
  spa,      \* spa_gauge_active
  game,     \* sensor.nfl_san_francisco_49ers
  doors     \* the doors of the liquor cabinet that are open

inputs == <<windows, key, active, manual, sync, spa, game, doors>>

Surfaces == {"main_area", "front_eve", "path", "backyard", "pillars"}

\* A claim names an owner while its condition holds; the first one that does wins.
Claim(owner, holds) == IF holds THEN owner ELSE "off"
Highest(claims) ==
  LET holding == {i \in DOMAIN claims : claims[i] # "off"}
  IN IF holding = {} THEN "off" ELSE claims[Min(holding)]

Evening(s) == <<Claim("holiday", active /\ key), Claim("daily", s \in windows)>>

\* The helper counts where Home Lighting Manager does not manage the surface.
Manual(s) == Claim("manual", s \in manual \cap Legacy)
Game == Claim("49ers", game = "IN")
Living == Claim("sync", "living" \in sync)

MainOwner == Highest(<<Living, Game>> \o Evening("main_area"))

Owners ==
  [main_area |-> MainOwner,
   front_eve |-> Highest(<<Manual("front_eve"), Game>> \o Evening("front_eve")),
   path |-> Highest(<<Manual("path")>> \o Evening("path")),
   backyard |-> Highest(<<Claim("sync", "yard" \in sync), Manual("backyard"), Claim("spa", spa)>>
                          \o Evening("backyard")),
   pillars |-> Claim("daily", "pillars" \in windows),
   liquor_cabinet |-> Highest(<<Living, Claim("door", doors # {}),
                                Claim("manual", "liquor_cabinet" \in manual), MainOwner>>)]

\* The whole answer, which the renderer compares: the scenes depend on the
\* holiday alone, and main_area lists the lights its homeowner holds.
Resolved == [owner |-> Owners, scenes |-> key, held |-> "liquor_cabinet" \in manual]

\* Owners of a surface that no evaluator commands.
Structural == {"sync", "manual", "spa"}
=============================================================================
