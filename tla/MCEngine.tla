------------------------------ MODULE MCEngine ------------------------------
(***************************************************************************)
(* Small instances of the ownership engine for TLC.  Piles, arming and     *)
(* families hardly touch each other; a behaviour follows one of these      *)
(* themes and leaves the rest of the engine at rest.                       *)
(***************************************************************************)
EXTENDS OwnershipEngine

CONSTANTS l1, l2, l3, l4, l5, l6, l7, f1, s1, s2, sys, alert, bright, dim

VARIABLE theme

System(id, kind, owner) ==
  [id |-> id, kind |-> kind, owner |-> owner, family |-> None, session |-> None,
   sequence |-> 0, parent |-> None, precedence |-> 0, priority |-> None,
   protects |-> FALSE, removable |-> FALSE, boundary |-> FALSE, look |-> bright]

\* A daily layer, refreshed under a fresh id with another look; a structural
\* barrier; a removable notice that the boundary expires.
Daily   == System(l1, "automatic", sys)
Refresh == [Daily EXCEPT !.id = l2, !.look = dim]
Barrier == [System(l3, "functional", alert) EXCEPT !.priority = 5, !.protects = TRUE]
Notice  == [System(l4, "functional", sys) EXCEPT !.precedence = 7, !.removable = TRUE,
                                                  !.boundary = TRUE]

\* A family effect, its overlay child, and the effect of the next session.
Game  == [System(l5, "automatic", sys) EXCEPT !.family = f1, !.session = s1]
Score == [System(l6, "overlay", sys) EXCEPT !.family = f1, !.session = s1, !.parent = l5]
Next2 == [Game EXCEPT !.id = l7, !.session = s2, !.sequence = 2]

ThemedLayers == {Daily, Refresh, Barrier, Notice, Game, Score, Next2}

\* The layers a theme meets, besides the homeowner's.
LayersOf ==
  [piles |-> {l1, l2, l3, l4}, groups |-> {l4}, families |-> {l1, l5, l6, l7}]

InTheme(E, g) ==
  /\ \A e \in Entities : \A l \in E.pile[e].layers :
        l.id \in LayersOf[theme] \cup {HomeownerId}
        /\ (theme # "piles" => l.look # dim)
  /\ theme = "piles" => E.managed \subseteq {1} /\ E.sessions = {} /\ Armed(E) = {}
  /\ theme = "groups" =>
       g = 1 /\ E.sessions = {} /\ \A e \in Entities : Cardinality(E.pile[e].layers) <= 1
  /\ theme = "families" => g = 1 /\ E.managed \subseteq {1} /\ Armed(E) \subseteq {"bar"}

ThemedInit == EngineInit /\ theme \in DOMAIN LayersOf /\ InTheme(engine, generation)

ThemedSpec ==
  /\ ThemedInit
  /\ [][EngineNext /\ UNCHANGED theme /\ InTheme(engine', generation')]_<<engineVars, theme>>
=============================================================================
