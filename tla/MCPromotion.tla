----------------------------- MODULE MCPromotion -----------------------------
(***************************************************************************)
(* Small instances of the promotion observer for TLC.  A behaviour follows *)
(* one theme: which lights are managed, what the core already holds, and   *)
(* what may happen.  Sequences are counted from the first report of the    *)
(* behaviour; whatever the core holds is older.                            *)
(***************************************************************************)
EXTENDS PromotionObserver

CONSTANTS k1, k2, k3, room, pair, Themes

VARIABLE theme

allVars == <<vars, theme>>

\* One surface, and a group that covers a part of it or is its alias.
House(r, p) == [g \in Aggregates |-> IF g = room THEN r ELSE p]
Full == House({k1, k2, k3}, {k1, k2})
Alias == House({k1, k2}, {k1, k2})
Houses == {Full, House({k1, k2, k3}, {k2, k3}), Alias}

\* Two surfaces that have nothing in common.
TwoHouses == {House({k1, k2}, {k3})}

\* The managed lights below are those of the two groups, and each is on one surface.
ASSUME LightsOnOneSurface ==
  \A t \in Topologies : OnOneSurface(t, t[room] \cup t[pair])

ManagedScopes == {{k1, k2}, {k1, k2, k3}}

Armed(g, S) == [FreshCore EXCEPT !.armed[g] = S]
Owned(S) == Asked(FreshCore, S, "manual", room)

Start ==
  [nested    |-> [house |-> Full, limit |-> 5,
                  cores |-> {Armed(room, {k1, k2, k3}),
                             Asked(Armed(room, {k1, k2, k3}), {k1, k2, k3}, "manual_off", room)}],
   single    |-> [house |-> Alias, limit |-> 4, cores |-> {FreshCore, Owned({k1, k2})}],
   twice     |-> [house |-> Alias, limit |-> 5, cores |-> {FreshCore, Owned({k1, k2})}],
   scenes    |-> [house |-> Alias, limit |-> 4, cores |-> {FreshCore}],
   lifecycle |-> [house |-> Alias, limit |-> 3, cores |-> {Armed(room, {k1, k2})}],
   apart     |-> [house |-> House({k1, k2}, {k3}), limit |-> 4, cores |-> {FreshCore}]]

ThemedInit ==
  /\ theme \in Themes
  /\ topology = Start[theme].house
  /\ managed = topology[room] \cup topology[pair]
  /\ lights = [l \in Leaves |-> "on"]
  /\ obs = FreshObserver(topology)
  /\ core \in Start[theme].cores
  /\ sequence = 0
  /\ newest = [l \in Leaves |-> Nothing]
  /\ uses = [q \in 1..MaxSequence |-> 0]

\* The reports of a theme: nested groups, two OFFs of a group
\* and the night are about OFF.
Switched ==
  CASE theme = "nested" -> (Leaves \X {"off"}) \cup {<<k1, "on">>}
    [] theme \in {"twice", "lifecycle"} -> Leaves \X {"off"}
    [] theme = "scenes" -> (Leaves \X {"on"}) \cup {<<k1, "off">>}
    [] OTHER -> Leaves \X {"on", "off"}
Heard == IF theme = "single" THEN {room} ELSE Aggregates
Told == IF theme \in {"nested", "twice", "lifecycle"} THEN {"off"} ELSE Kinds

People ==
  \/ \E r \in Switched : LeafReport(r[1], r[2], "person", TRUE)
  \/ \E g \in Heard, op \in Told : AggregateReport(g, op, TRUE)

Machines ==
  \/ \E state \in {"on", "off", "gone"}, cause \in Causes \ {"person"} :
        LeafReport(k1, state, cause, TRUE)
  \/ \E op \in Kinds : UserCommand(k1, op) \/ ChainReport(k1, op)

Scenes ==
  \/ \E s \in Surfaces : SceneRecall(s) \/ SceneDisplaced(s)
  \/ \E l \in Leaves : LeafReport(l, "on", "person", FALSE)
  \/ \E g \in Aggregates, op \in Kinds : AggregateReport(g, op, FALSE)

Reporting ==
  \/ People
  \/ theme = "single" /\ Machines
  \/ theme = "scenes" /\ Scenes

ThemedNext ==
  /\ \/ sequence < Start[theme].limit /\ Reporting
     \/ Timers
     \/ Tick
     \/ theme = "lifecycle" /\ Lifecycle
  /\ managed' = topology'[room] \cup topology'[pair]
  /\ UNCHANGED theme

ThemedSpec == ThemedInit /\ [][ThemedNext]_allVars
=============================================================================
