-------------------------- MODULE PromotionObserver --------------------------
(***************************************************************************)
(* How reports of lights become homeowner intent                           *)
(* (promotion_observer.py, attribution_correlation.py, intent_policy.py).  *)
(* Somebody at a Hue switch or in the Hue app leaves no Home Assistant     *)
(* user: lights and groups just report.  The observer keeps such a report  *)
(* of a light for a short while as evidence; it becomes an operation of    *)
(* the ownership core only if reports of groups corroborate it, and until  *)
(* a timer has given a whole group the time to claim it.                   *)
(*                                                                         *)
(* Everything a callback changes is one record: obs, the observer, and     *)
(* core, the operations ledger over the engine (HomeownerOperations) in a  *)
(* house whose automations show nothing.  A callback is one action.  The   *)
(* generation is constant while an observer lives and is left out.         *)
(***************************************************************************)
EXTENDS Integers, FiniteSets

CONSTANTS
  Leaves,       \* the lights
  Aggregates,   \* Hue groups
  Surfaces,     \* the commissioned ones: _SURFACE_GUARDS, _SCENE_RECALL_SOURCES
  Topologies,   \* the memberships that Home Assistant may report
  Scopes,       \* the sets of lights that may be managed: entity_ids
  Precedence,   \* the lights that manual_precedence names
  Burst,        \* EXTERNAL_BURST_WINDOW_SECONDS in ticks
  Hold,         \* SURFACE_GROUP_OFF_ and SCENE_DISPLACEMENT_CORRELATION_SECONDS
  Settle,       \* NIGHTLY_BOUNDARY_SETTLE_SECONDS
  MaxSequence,  \* bound of the model: reports and commands in a behaviour
  None

ASSUME ObserverAssumption ==
  /\ Surfaces \subseteq Aggregates
  /\ None \notin Aggregates
  /\ Topologies \subseteq [Aggregates -> SUBSET Leaves]
  /\ Scopes \subseteq SUBSET Leaves
  /\ Precedence \subseteq Leaves
  /\ {Burst, Hold, Settle, MaxSequence} \subseteq Nat \ {0}
  /\ Burst <= Hold

VARIABLES
  topology, \* what Home Assistant knows of the groups
  managed,  \* entity_ids
  lights,   \* states of the lights: on, off or gone
  obs,      \* PromotingHomeAssistantShadowObserver
  core,     \* OwnershipOperations and its engine
  sequence, \* ShadowRuntime._sequence
  newest,   \* history: the newest report or command of a light, the age of an OFF
  uses      \* history: how often the report of a sequence took part in intent

vars == <<topology, managed, lights, obs, core, sequence, newest, uses>>

Kinds == {"appearance", "off"}

\* _PendingExternalLeaf, a timer of _pending_single_promotions, and an entry of
\* _pending_overlapping_group_promotions with the reports it was made from.
Evidence == [op : Kinds, seq : 1..MaxSequence, age : 0..Hold + 1]
Nothing  == [op |-> "none", seq |-> 0, age |-> 0]
Timer    == [op : Kinds, left : 0..Hold]
NoTimer  == [op |-> "none", left |-> 0]
Deferral == [group : Aggregates, parts : SUBSET (Leaves \X (1..MaxSequence)),
             parent : Aggregates, left : 0..Burst]

\* A window that is open while left is not negative, and what was seen in it.
Window == [left : -1..Hold, leaves : SUBSET Leaves, seen : BOOLEAN]
Closed == [left |-> -1, leaves |-> {}, seen |-> FALSE]

BurstState ==
  [leaves : SUBSET Leaves, groups : SUBSET Aggregates, covered : SUBSET Leaves,
   idle : 0..Burst + 1]
NoBurst == [leaves |-> {}, groups |-> {}, covered |-> {}, idle |-> Burst + 1]

ObserverState ==
  [retained   : [Leaves -> Evidence \cup {Nothing}],  \* _pending_external_leaves
   singles    : [Leaves -> Timer \cup {NoTimer}],     \* _pending_single_promotions
   deferred   : SUBSET Deferral,
   expiry     : -1..Burst,                            \* _pending_evidence_expiry
   cache      : [Aggregates -> SUBSET Leaves],        \* _topology_members
   burst      : BurstState,                           \* _external_correlator
   shown      : SUBSET Leaves,                        \* leaf_entities of _external_burst
   snapshot   : [Aggregates -> SUBSET Leaves],        \* _external_group_burst_topology
   since      : 0..Burst + 1,                         \* _external_group_last_observed_at
   recall     : [Surfaces -> -1..Burst],              \* _scene_recall_settle_until
   displaced  : [Surfaces -> Window],                 \* _scene_displacement_until, _evidence
   recent     : [Surfaces -> Window],                 \* _recent_surface_appearance_evidence
   quarantine : SUBSET Leaves,                        \* _post_boundary_off_entities
   settling   : -1..Settle]                           \* _nightly_boundary_settle_until

CoreState ==
  [latest : [Leaves -> 0..MaxSequence], intent : [Leaves -> {"none", "manual", "manual_off"}],
   scope : [Leaves -> Aggregates \cup {None}], armed : [Aggregates -> SUBSET Leaves]]

-----------------------------------------------------------------------------
(* The core: one receipt, all or nothing *)

\* Mutant of Disarmed: only groups that are covered as a whole.
DisarmedIfCovered(c, S, kept) ==
  [c EXCEPT !.armed = [g \in Aggregates |->
     IF g # kept /\ @[g] \subseteq S THEN {} ELSE @[g]]]

Disarmed(c, S, kept) ==
  [c EXCEPT !.armed = [g \in Aggregates |->
     IF g # kept /\ @[g] \cap S # {} THEN {} ELSE @[g]]]

Asked(c, S, what, g) ==
  [c EXCEPT !.intent = [l \in Leaves |-> IF l \in S THEN what ELSE @[l]],
            !.scope = [l \in Leaves |-> IF l \in S THEN g ELSE @[l]]]

\* An OFF of one light releases the Manual it shows or holds the light off.
SingleOff(c, l) ==
  Asked(Disarmed(c, {l}, None), {l},
        IF c.intent[l] = "manual" THEN "none" ELSE "manual_off", None)

\* The first OFF of a group releases its lights, the second one holds them off.
GroupOff(c, g, S) ==
  IF c.armed[g] = S THEN Asked(Disarmed(c, S, g), S, "manual_off", g)
  ELSE [Asked(Disarmed(c, S, g), S, "none", None) EXCEPT !.armed[g] = S]

Effect(c, op, g, S) ==
  IF op = "appearance" THEN Asked(Disarmed(c, S, None), S, "manual", g)
  ELSE IF g # None THEN GroupOff(c, g, S)
  ELSE SingleOff(c, CHOOSE l \in S : TRUE)

\* OwnershipOperations.apply: no part unless newer than every part's latest one.
Submitted(c, op, g, ok, members, q) ==
  IF ok = {} \/ \E l \in ok : q <= c.latest[l] THEN c
  ELSE [Effect(c, op, g, ok) EXCEPT !.latest = [l \in Leaves |->
          IF l \in members /\ q > @[l] THEN q ELSE @[l]]]

-----------------------------------------------------------------------------
(* Evidence, timers and bursts *)

Held(o) == {l \in Leaves : o.retained[l] # Nothing}

Without(o, S) ==
  [o EXCEPT !.retained = [l \in Leaves |-> IF l \in S THEN Nothing ELSE @[l]]]
Uncalled(o, S) ==
  [o EXCEPT !.singles = [l \in Leaves |-> IF l \in S THEN NoTimer ELSE @[l]]]
LeavesOf(d) == {p[1] : p \in d.parts}
Ungrouped(o, S) == [o EXCEPT !.deferred = {d \in @ : LeavesOf(d) \cap S = {}}]

Cancelled(o, S) == Ungrouped(Uncalled(o, S), S)
Dropped(o, S) == Cancelled(Without(o, S), S)

\* The correlator and the age of the topology snapshot are reset; an expired
\* snapshot is taken again before its content is used.
Retired(o) == [o EXCEPT !.burst = NoBurst, !.since = Burst + 1]
Forgotten(o) == [Retired(o) EXCEPT !.shown = {}]

Managed(S) == S \cap managed
SurfacesOf(o, l) == {s \in Surfaces : l \in o.cache[s]}

OwnedBy(c, s, S) == \A l \in S : c.intent[l] = "manual" /\ c.scope[l] = s

\* Mutant: every report is held for the ordinary burst only.
HoldOfBurst(o, l, op) == Burst

\* _surface_group_off_hold_seconds
HoldOf(o, l, op) ==
  IF op = "off" /\ \E s \in Surfaces :
       LET S == Managed(o.cache[s])
       IN l \in S /\ (core.armed[s] = S \/ OwnedBy(core, s, S))
    THEN Hold ELSE Burst

\* _reset_external_burst_for_cross_surface_leaf
OtherSurface(o, l) ==
  LET before == UNION {SurfacesOf(o, k) : k \in o.shown}
      here == SurfacesOf(o, l)
  IN l \notin o.shown /\ here # {} /\ before # {} /\ here \cap before = {}

Snapshotted(o) ==
  [o EXCEPT !.snapshot = IF o.since > Burst THEN o.cache ELSE @, !.since = 0]

\* A different command supersedes provisional intent; a repeated one renews it.
Retained(o, l, op) ==
  LET old == o.retained[l]
      o1 == IF old.op \notin {"none", op} THEN Cancelled(o, {l}) ELSE o
  IN [o1 EXCEPT !.retained[l] = [op |-> op, seq |-> sequence + 1, age |-> 0],
                !.expiry = IF @ = -1 THEN Burst ELSE @]

\* _prune_pending_external_leaves, at every external report of any light.
Pruned(o) ==
  LET stale == {l \in Held(o) : o.retained[l].age > HoldOf(o, l, o.retained[l].op)}
  IN Uncalled(Without(o, stale), stale)

\* The correlator observes one more report, after the topology was refreshed.
Correlated(o, leaves, groups) ==
  LET b == IF o.burst.idle > Burst THEN NoBurst ELSE o.burst
      c == [leaves |-> b.leaves \cup leaves, groups |-> b.groups \cup groups,
            covered |-> b.covered \cup UNION {topology[g] : g \in groups}, idle |-> 0]
  IN [o EXCEPT !.burst = c, !.shown = c.leaves, !.cache = topology]

\* external_intent_candidate: one light, and a group that contains it.
Qualified(o) ==
  o.burst.groups # {} /\ Cardinality(o.burst.leaves) = 1
  /\ o.burst.leaves \subseteq o.burst.covered

\* A qualified prefix loses its timer when its burst grows.
Revoked(o) == IF Qualified(o) THEN o ELSE Uncalled(o, o.burst.leaves)

Established(o, S) == [o EXCEPT !.quarantine = @ \ S]

-----------------------------------------------------------------------------
(* Promotions.  A step carries the observer, the core and the sequences of *)
(* the reports that took part in accepted intent.                          *)

Step(o, c, taken) == [o |-> o, c |-> c, taken |-> taken]
Waiting(o) == Step(o, core, {})

Parts(o, S) == {<<l, o.retained[l].seq>> : l \in S}
Sequences(parts) == {p[2] : p \in parts}
Earliest(parts) == CHOOSE q \in Sequences(parts) : \A r \in Sequences(parts) : q <= r

\* Evidence of a group OFF or appearance: all members, one kind, close in time.
Coherent(o, S, op, spread) ==
  \A k, l \in S : o.retained[k].op = op /\ o.retained[k].age - o.retained[l].age <= spread

SingleApplied(o, l) ==
  LET e == o.retained[l]
      c == Submitted(core, e.op, None, {l}, {l}, e.seq)
      rest == Without(o, {l})
  IN IF c = core THEN Waiting(rest)
     ELSE Step(Retired(Established(rest, {l})), c, {e.seq})

\* _promote_single_candidate, corroborated by group g.
Single(o, g, members) ==
  LET l == CHOOSE k \in o.burst.leaves : TRUE
      known == Cardinality(Managed(members)) > 1 /\ Managed(o.snapshot[g]) = Managed(members)
      e == o.retained[l]
  IN IF l \notin members \/ e = Nothing THEN Waiting(o)
     ELSE IF ~known THEN SingleApplied(o, l)
     ELSE IF o.singles[l] # NoTimer THEN Waiting(o)
     ELSE Waiting([o EXCEPT !.singles[l] = [op |-> e.op, left |-> HoldOf(o, l, e.op)]])

\* Mutant: the group's reports stay behind as evidence.
GroupAppliedKeeping(o, g, op, parts) ==
  LET S == {p[1] : p \in parts}
      c == Submitted(core, op, g, S, S, Earliest(parts))
  IN IF c = core THEN Waiting(o)
     ELSE Step(Retired(Established(o, S)), c, Sequences(parts))

\* _apply_exact_group_promotion: evidence that was renewed meanwhile stays.
GroupApplied(o, g, op, parts) ==
  LET S == {p[1] : p \in parts}
      c == Submitted(core, op, g, S, S, Earliest(parts))
      rest == Without(o, {l \in S : <<l, o.retained[l].seq>> \in parts})
  IN IF c = core THEN Waiting(rest)
     ELSE Step(Retired(Established(rest, S)), c, Sequences(parts))

\* The second OFF of an armed group.
ArmedReady(o, g, members, clear) ==
  LET S == core.armed[g]
  IN /\ S # {} /\ Managed(members) = S
     /\ IF g \in Surfaces THEN clear /\ Coherent(o, S, "off", Hold)
        ELSE o.burst.leaves = S /\ Coherent(o, S, "off", Hold + 1)

ArmedOff(o, g) ==
  LET S == core.armed[g]
      parts == Parts(o, S)
      c == Submitted(core, "off", g, S, S, Earliest(parts))
      rest == Dropped(o, S)
  IN IF c = core THEN Waiting(rest) ELSE Step(Forgotten(rest), c, Sequences(parts))

\* The OFF of a surface whose lights all show its Manual.
OwnedReady(o, g, members, clear) ==
  LET S == Managed(members)
  IN g \in Surfaces /\ clear /\ OwnedBy(core, g, S) /\ S # {} /\ Coherent(o, S, "off", Hold)

OwnedOff(o, g, S) == GroupApplied(Uncalled(o, S), g, "off", Parts(o, S))

\* resolve_unique_exact_group, or a surface whose managed lights are the burst's.
ExactGroup(o, g) ==
  LET L == o.burst.leaves
      exact == {x \in Aggregates : o.snapshot[x] = L}
  IN /\ Cardinality(L) > 1 /\ L \subseteq o.burst.covered
     /\ \/ exact = {g}
        \/ g \in Surfaces /\ Managed(o.snapshot[g]) = L
           /\ (Cardinality(exact) # 1 \/ exact \cap o.burst.groups = {})

Parents(g, S) == {p \in Aggregates \ {g} : S \subseteq core.armed[p] /\ S # core.armed[p]}

\* _promote_exact_group_candidate: a nested OFF waits for its armed parent.  (Its
\* veto of nested groups can never apply: an exact group has all of the burst.)
Exact(o, g) ==
  LET L == o.burst.leaves
      o1 == Uncalled(o, L)
      op == o1.retained[CHOOSE l \in L : TRUE].op
      parts == Parts(o1, L)
      known == \E d \in o1.deferred : d.group = g /\ d.parts = parts
      new(p) == [group |-> g, parts |-> parts, left |-> Burst, parent |-> p]
  IN IF ~ExactGroup(o, g) THEN Waiting(o)
     ELSE IF op = "none" \/ ~Coherent(o1, L, op, Burst) THEN Waiting(o1)
     ELSE IF op # "off" \/ Parents(g, L) = {} THEN GroupApplied(o1, g, op, parts)
     ELSE IF known THEN Waiting(o1)
     ELSE Waiting([o1 EXCEPT !.deferred = @ \cup {new(CHOOSE p \in Parents(g, L) : TRUE)}])

-----------------------------------------------------------------------------
(* A surface whose scene is displaced without a recall *)

\* What an appearance report of light or group x adds to a window of surface s.
Seen(w, s, x, leaf) ==
  [w EXCEPT !.leaves = IF leaf THEN @ \cup {x} ELSE @, !.seen = @ \/ x = s]

Concerned(o, s, x) ==
  LET S == Managed(o.cache[s]) IN Cardinality(S) > 1 /\ x \in S \cup {s}

\* _record_recent_surface_appearance
Noted(o, x, leaf) ==
  [o EXCEPT !.recent = [s \in Surfaces |->
     IF ~Concerned(o, s, x) THEN @[s]
     ELSE [Seen(IF @[s].left >= 0 THEN @[s] ELSE Closed, s, x, leaf) EXCEPT !.left = Hold]]]

Witnessed(o, x, leaf) ==
  [o EXCEPT !.displaced = [s \in Surfaces |->
     IF @[s].left < 0 THEN Closed
     ELSE IF Concerned(o, s, x) THEN Seen(@[s], s, x, leaf) ELSE @[s]]]

Corroborated(o, x) ==
  {s \in Surfaces : /\ o.displaced[s].left >= 0 /\ Concerned(o, s, x)
                    /\ o.displaced[s].seen
                    /\ 4 * Cardinality(o.displaced[s].leaves)
                         >= 3 * Cardinality(Managed(o.cache[s]))}

\* _promote_displaced_surface_appearance.  A light is on at most one surface.
Displaced(o, x, leaf, clear, now) ==
  LET o1 == IF clear THEN Witnessed(o, x, leaf) ELSE o
      s == CHOOSE t \in Corroborated(o1, x) : TRUE
      S == Managed(o1.cache[s])
      c == Submitted(core, "appearance", s, {l \in S : now[l] = "on"}, S, sequence + 2)
  IN IF ~clear \/ Corroborated(o1, x) = {} \/ c = core THEN Waiting(o1)
     ELSE Step(Forgotten([Established(Dropped(o1, S), S) EXCEPT !.displaced[s] = Closed]), c, {})

-----------------------------------------------------------------------------
(* Callbacks *)

Becomes(step) ==
  /\ obs' = step.o
  /\ core' = step.c
  /\ uses' = [q \in 1..MaxSequence |-> uses[q] + IF q \in step.taken THEN 1 ELSE 0]

Numbered(n) == sequence + n <= MaxSequence /\ sequence' = sequence + n

NowAsked(S, op) ==
  newest' = [l \in Leaves |-> IF l \in S THEN [op |-> op, seq |-> sequence', age |-> 0]
                              ELSE newest[l]]

\* Mutant: the quarantine after 01:59 is not looked at.
AutomaticButQuarantine(o, l, op, cause) ==
  \/ cause # "person"
  \/ o.settling >= 0
  \/ op = "appearance" /\ \E s \in SurfacesOf(o, l) : o.recall[s] >= 0

\* classify_intent over the causal facts: renderer receipts, Hue dynamics, Sync
\* and unavailability are the cause; the rest is known here.
Automatic(o, l, op, cause) ==
  \/ cause # "person"
  \/ o.settling >= 0
  \/ l \in o.quarantine
  \/ op = "appearance" /\ \E s \in SurfacesOf(o, l) : o.recall[s] >= 0

Causes == {"person", "telemetry", "witnessed", "outage"}

\* A light reports without user or parent context.
LeafReport(l, state, cause, clear) ==
  LET op == IF state = "off" /\ cause # "outage" THEN "off" ELSE "appearance"
      now == [lights EXCEPT ![l] = state]
      o0 == IF cause = "witnessed" /\ op = "appearance" THEN Established(obs, {l}) ELSE obs
      automatic == Automatic(o0, l, op, cause)
      o1 == Snapshotted(IF OtherSurface(o0, l) THEN Forgotten(o0) ELSE o0)
      o2 == Pruned(IF automatic THEN Dropped(o1, {l}) ELSE Retained(o1, l, op))
      o3 == IF op = "off" THEN o2 ELSE Noted(o2, l, ~automatic)
      o4 == Revoked(Correlated(o3, {l}, {}))
      step == IF automatic THEN Waiting(o3)
              ELSE IF op = "off" \/ Qualified(o4) THEN Waiting(o4)
              ELSE Displaced(o4, l, TRUE, clear, now)
  IN /\ l \in managed
     /\ state = "gone" => cause = "outage"
     /\ lights[l] = "gone" => cause = "outage"
     /\ Numbered(IF step.c = core THEN 1 ELSE 2)
     /\ lights' = now
     /\ NowAsked({l}, IF automatic THEN "none" ELSE op)
     /\ Becomes(step)
     /\ UNCHANGED <<topology, managed>>

\* What the cache says of group g when it reports: a surface refreshes all of it,
\* another group only its own members, and only if the cache has none.
Looked(o, g) ==
  IF g \in Surfaces THEN [o EXCEPT !.cache = topology]
  ELSE IF o.cache[g] = {} THEN [o EXCEPT !.cache[g] = topology[g]]
  ELSE o

\* A group reports; clear: no Sync session and no guard on its surface.
AggregateReport(g, op, clear) ==
  LET o0 == Looked(obs, g)
      members == o0.cache[g]
      o1 == Pruned(Snapshotted(o0))
      o2 == IF op = "off" THEN o1 ELSE Noted(o1, g, FALSE)
      o3 == Revoked(Correlated(o2, {}, {g}))
      shift == IF op = "off" THEN Waiting(o3) ELSE Displaced(o3, g, FALSE, clear, lights)
      step == IF op = "off" /\ ArmedReady(o3, g, members, clear) THEN ArmedOff(o3, g)
              ELSE IF op = "off" /\ OwnedReady(o3, g, members, clear)
                THEN OwnedOff(o3, g, Managed(members))
              ELSE IF Qualified(o3) THEN Single(o3, g, members)
              ELSE IF shift.c # core THEN shift
              ELSE Exact(shift.o, g)
  IN /\ topology[g] # {}
     /\ Numbered(IF shift.c # core /\ step = shift THEN 2 ELSE 1)
     /\ Becomes(step)
     /\ UNCHANGED <<topology, managed, lights, newest>>

\* A homeowner uses Home Assistant; pending evidence and timers stay as they are.
UserCommand(l, op) ==
  LET c == Submitted(core, op, None, {l}, {l}, sequence + 1)
  IN /\ l \in managed /\ lights[l] # "gone"
     /\ Numbered(1)
     /\ lights' = [lights EXCEPT ![l] = IF op = "off" THEN "off" ELSE "on"]
     /\ NowAsked({l}, op)
     /\ Becomes(Step(Established(obs, {l}), c, {}))
     /\ UNCHANGED <<topology, managed>>

\* An automation's command carries a parent context: it only ends evidence.
ChainReport(l, op) ==
  /\ l \in managed /\ lights[l] # "gone"
  /\ Numbered(1)
  /\ lights' = [lights EXCEPT ![l] = IF op = "off" THEN "off" ELSE "on"]
  /\ NowAsked({l}, "none")
  /\ Becomes(Waiting(Dropped(obs, {l})))
  /\ UNCHANGED <<topology, managed>>

\* A newer scene recall of a surface, while its guard and Sync are off.
SceneRecall(s) ==
  LET S == Managed(topology[s])
      o == Forgotten(Dropped([obs EXCEPT !.cache = topology, !.displaced[s] = Closed,
                                         !.recall[s] = Burst], S))
      ok == {l \in S : lights[l] # "gone"}
      c == Submitted(core, "appearance", s, ok, S, sequence + 1)
  IN /\ S # {}
     /\ Numbered(1)
     /\ NowAsked(ok, "appearance")
     /\ Becomes(Step(IF c = core THEN o ELSE Established(o, ok), c, {}))
     /\ UNCHANGED <<topology, managed, lights>>

\* The active scene of a surface ends under the same timestamp.
SceneDisplaced(s) ==
  /\ Becomes(Waiting([obs EXCEPT !.displaced[s] =
       [(IF obs.recent[s].left >= 0 THEN obs.recent[s] ELSE Closed) EXCEPT !.left = Hold]]))
  /\ UNCHANGED <<topology, managed, lights, sequence, newest>>

-----------------------------------------------------------------------------
(* Timers and time *)

SingleFires(l) ==
  LET timer == obs.singles[l]
      o == Uncalled(obs, {l})
  IN /\ timer # NoTimer /\ timer.left = 0
     /\ Becomes(IF o.retained[l].op = timer.op THEN SingleApplied(o, l) ELSE Waiting(o))
     /\ UNCHANGED <<topology, managed, lights, sequence, newest>>

\* Mutant: the lights' present states are not looked at.
StillNestedOnly(d) ==
  LeavesOf(d) \subseteq core.armed[d.parent] /\ LeavesOf(d) # core.armed[d.parent]

StillNested(d) ==
  /\ LeavesOf(d) \subseteq core.armed[d.parent] /\ LeavesOf(d) # core.armed[d.parent]
  /\ \A l \in LeavesOf(d) : lights[l] = "off"

GroupFires(d) ==
  LET o == [obs EXCEPT !.deferred = @ \ {d}]
  IN /\ d.left = 0
     /\ Becomes(IF StillNested(d) THEN GroupApplied(o, d.group, "off", d.parts)
                ELSE Waiting(o))
     /\ UNCHANGED <<topology, managed, lights, sequence, newest>>

\* Evidence that a timer still holds does not expire.
Expirable(o) ==
  LET busy == {l \in Leaves : o.singles[l] # NoTimer} \cup UNION {LeavesOf(d) : d \in o.deferred}
  IN {l \in Held(o) \ busy : o.retained[l].age >= HoldOf(o, l, o.retained[l].op)}

\* Mutant: the expiry runs once.
ExpiredOnce(o) == [Without(o, Expirable(o)) EXCEPT !.expiry = -1]

Expired(o) ==
  LET rest == Without(o, Expirable(o))
  IN [rest EXCEPT !.expiry = IF Held(rest) = {} THEN -1 ELSE Burst]

ExpiryFires ==
  /\ obs.expiry = 0
  /\ Becomes(Waiting(Expired(obs)))
  /\ UNCHANGED <<topology, managed, lights, sequence, newest>>

Due ==
  \/ obs.expiry = 0
  \/ \E l \in Leaves : obs.singles[l] # NoTimer /\ obs.singles[l].left = 0
  \/ \E d \in obs.deferred : d.left = 0

Older(e) == IF e.op = "none" \/ e.age > Hold THEN e ELSE [e EXCEPT !.age = @ + 1]
Later(n) == IF n > Burst THEN n ELSE n + 1

Sooner(n) == IF n < 0 THEN n ELSE n - 1
Nearer(t) == [t EXCEPT !.left = @ - 1]
Narrower(w) == IF w.left <= 0 THEN Closed ELSE Nearer(w)

\* Time passes when every timer that is due has run.
Tick ==
  /\ ~Due
  /\ obs' = [obs EXCEPT
       !.retained = [l \in Leaves |-> Older(@[l])],
       !.singles = [l \in Leaves |-> IF @[l] = NoTimer THEN NoTimer ELSE Nearer(@[l])],
       !.deferred = {Nearer(d) : d \in @},
       !.expiry = Sooner(@), !.burst.idle = Later(@), !.since = Later(@),
       !.recall = [s \in Surfaces |-> Sooner(@[s])],
       !.displaced = [s \in Surfaces |-> Narrower(@[s])],
       !.recent = [s \in Surfaces |-> Narrower(@[s])],
       !.settling = Sooner(@)]
  /\ newest' = [l \in Leaves |-> IF newest[l].op = "off" THEN Older(newest[l]) ELSE newest[l]]
  /\ UNCHANGED <<topology, managed, lights, core, sequence, uses>>

-----------------------------------------------------------------------------
(* Lifecycle *)

Cleared(o) ==
  [Forgotten(Dropped(o, Leaves)) EXCEPT !.expiry = -1,
     !.displaced = [s \in Surfaces |-> Closed], !.recent = [s \in Surfaces |-> Closed]]

Relinquished(c) ==
  [Asked(c, Leaves, "none", None) EXCEPT !.armed = [g \in Aggregates |-> {}]]

\* _boundary_managed_entities
Nightly(o) == Precedence \cup UNION {o.cache[s] : s \in Surfaces}

NightlyBoundary ==
  /\ Becomes(Step([Cleared(obs) EXCEPT !.quarantine = Nightly(obs), !.settling = Settle],
                  Relinquished(core), {}))
  /\ UNCHANGED <<topology, managed, lights, sequence, newest>>

Reset ==
  /\ Becomes(Step([Cleared(obs) EXCEPT !.quarantine = Nightly(obs),
                                       !.recall = [s \in Surfaces |-> -1]],
                  [Relinquished(core) EXCEPT !.latest = [l \in Leaves |-> 0]], {}))
  /\ UNCHANGED <<topology, managed, lights, sequence, newest>>

\* Hue edits a surface and SurfaceMembership adopts it: _managed_membership_changed.
\* A removed light is no longer a member then, and its surface's windows stay.
MembershipChanges(t, scope) ==
  LET affected == (managed \ scope) \cup (scope \ managed)
      o == Forgotten(Dropped([obs EXCEPT !.cache = t], affected))
      touched == {s \in Surfaces : t[s] \cap affected # {} /\ obs.displaced[s].left >= 0}
      shut(w) == [s \in Surfaces |-> IF s \in touched THEN Closed ELSE w[s]]
      c == Asked(core, managed \ scope, "none", None)
  IN /\ affected # {}
     /\ topology' = t /\ managed' = scope
     /\ Becomes(Step([o EXCEPT !.quarantine = @ \cap scope, !.displaced = shut(@),
                               !.recent = shut(@)],
                     [c EXCEPT !.armed = [g \in Aggregates |-> {}]], {}))
     /\ UNCHANGED <<lights, sequence, newest>>

\* A group that is not commissioned is edited in the Hue app.
Regroup(t) ==
  /\ t # topology
  /\ \A s \in Surfaces : t[s] = topology[s]
  /\ topology' = t
  /\ UNCHANGED <<managed, lights, obs, core, sequence, newest, uses>>

-----------------------------------------------------------------------------
(* The observer *)

FreshObserver(t) ==
  [retained |-> [l \in Leaves |-> Nothing], singles |-> [l \in Leaves |-> NoTimer],
   deferred |-> {}, expiry |-> -1, cache |-> t, burst |-> NoBurst, shown |-> {},
   snapshot |-> t, since |-> Burst + 1, recall |-> [s \in Surfaces |-> -1],
   displaced |-> [s \in Surfaces |-> Closed], recent |-> [s \in Surfaces |-> Closed],
   quarantine |-> {}, settling |-> -1]

FreshCore ==
  [latest |-> [l \in Leaves |-> 0], intent |-> [l \in Leaves |-> "none"],
   scope |-> [l \in Leaves |-> None], armed |-> [g \in Aggregates |-> {}]]

Init ==
  /\ topology \in Topologies
  /\ managed \in Scopes
  /\ lights = [l \in Leaves |-> "on"]
  /\ obs = FreshObserver(topology)
  /\ core = FreshCore
  /\ sequence = 0
  /\ newest = [l \in Leaves |-> Nothing]
  /\ uses = [q \in 1..MaxSequence |-> 0]

Reports ==
  \/ \E l \in Leaves, state \in {"on", "off", "gone"}, cause \in Causes, clear \in BOOLEAN :
        LeafReport(l, state, cause, clear)
  \/ \E g \in Aggregates, op \in Kinds, clear \in BOOLEAN : AggregateReport(g, op, clear)
  \/ \E l \in Leaves, op \in Kinds : UserCommand(l, op) \/ ChainReport(l, op)
  \/ \E s \in Surfaces : SceneRecall(s) \/ SceneDisplaced(s)

Timers ==
  \/ \E l \in Leaves : SingleFires(l)
  \/ \E d \in obs.deferred : GroupFires(d)
  \/ ExpiryFires

Lifecycle ==
  \/ NightlyBoundary
  \/ Reset
  \/ \E t \in Topologies : Regroup(t) \/ \E scope \in Scopes : MembershipChanges(t, scope)

Next == Reports \/ Timers \/ Tick \/ Lifecycle

Spec == Init /\ [][Next]_vars

-----------------------------------------------------------------------------
(* Properties *)

TypeOK ==
  /\ topology \in Topologies /\ managed \in Scopes
  /\ lights \in [Leaves -> {"on", "off", "gone"}]
  /\ obs \in ObserverState /\ core \in CoreState
  /\ sequence \in 0..MaxSequence
  /\ newest \in [Leaves -> [op : Kinds \cup {"none"}, seq : 0..MaxSequence, age : 0..Hold + 1]]
  /\ uses \in [1..MaxSequence -> Nat]

\* One report of a light takes part in accepted intent at most once: as a single
\* command, in a group or in a deferred group, whichever timers it has met.  The
\* ledger alone does not ensure it, since a group has its earliest sequence.
PromotedOnce == \A q \in DOMAIN uses : uses[q] <= 1

\* A promotion of evidence, however late its timer fires, includes only lights whose
\* newest report or command asks for it: nothing is promoted that an opposite report,
\* an automation or the homeowner in Home Assistant has overtaken.  It is not about
\* Displaced, which takes all lights of a surface that are on for those three quarters
\* of them that reported, and counts no report of any light as used.
NewestReportRules ==
  [][uses' # uses =>
       \A l \in Leaves : core'.latest[l] # core.latest[l] =>
         newest'[l].op = (IF core'.intent[l] = "manual" THEN "appearance" ELSE "off")]_vars

\* Every managed light is on one surface: so it is in a house whose surfaces share no
\* light and whose configuration names none outside of them.
OnOneSurface(t, S) ==
  \A l \in S : \E s \in Surfaces : l \in t[s] /\ \A r \in Surfaces : l \in t[r] => r = s
OneSurface == OnOneSurface(topology, managed)

\* While an armed surface's lights report OFF one after the other, as slowly as
\* its hold allows, nothing drops or ages their reports: unless they took part in
\* the first OFF, the surface's own OFF then holds all of them off.  It takes a
\* house with OneSurface: a group that reaches beyond the surface can drop them.
SecondOffComplete(s) ==
  /\ core.armed[s] # {} /\ core.armed[s] = Managed(topology[s])
  /\ \A l \in core.armed[s] :
       /\ newest[l].op = "off" /\ newest[l].age < Hold
       /\ newest[l].seq > core.latest[l] /\ uses[newest[l].seq] = 0
SecondOffLands ==
  [][\A s \in Surfaces : SecondOffComplete(s) /\ AggregateReport(s, "off", TRUE) =>
       \A l \in core.armed[s] : core'.intent[l] = "manual_off"]_vars

\* After 01:59 the late reports of the shutdown never become intent: no light in
\* quarantine changes by a promotion of evidence, until something vouches for the
\* light.  A displaced scene vouches: its other lights were not in quarantine, and the
\* ones that are on are promoted with them (Displaced counts no report as used).
QuarantineHolds ==
  [][uses' # uses => \A l \in obs.quarantine : core'.intent[l] = core.intent[l]]_vars

\* Provisional evidence keeps renderers off its light, so it must end by itself
\* when the lights fall silent: while any is left, an expiry is scheduled.
ExpiryScheduled == Held(obs) # {} => obs.expiry >= 0

\* promotion_observer.py: "Independent bursts may still have valid timers for
\* other leaves": what a person does on one surface cancels no command that
\* waits for its timer on another.
UnrelatedReportsSpare ==
  [][\A k, l \in Leaves, state \in {"on", "off"} :
       /\ SurfacesOf(obs, k) # {} /\ SurfacesOf(obs, l) # {}
       /\ SurfacesOf(obs, k) \cap SurfacesOf(obs, l) = {}
       /\ LeafReport(k, state, "person", TRUE)
       => obs'.singles[l] = obs.singles[l]]_vars

Control == INSTANCE HomeownerControl WITH
  Lights <- Leaves, Areas <- Aggregates, intent <- core.intent, armed <- core.armed

\* Everything that reports, timers and the lifecycle do to homeowner intent is a
\* step of homeowner control: a callback submits at most one operation, a group
\* is applied with the lights it is armed for, and what it touches disarms the
\* groups that share a light, whatever Hue makes of their members meanwhile.
CoreImplementsControl == [][core' # core => Control!ControlNext]_vars
=============================================================================
