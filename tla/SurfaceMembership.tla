------------------------- MODULE SurfaceMembership -------------------------
(***************************************************************************)
(* Which lights are managed while the process runs (custom_components/     *)
(* home_lighting_manager/ha_observer.py).  Every managed surface is a Hue  *)
(* group; whenever the observer looks at the topology it adopts new        *)
(* members at once and lets removals wait for a second, equal report       *)
(* SURFACE_MEMBERSHIP_REMOVAL_CONFIRM_SECONDS later.  All surfaces share   *)
(* one confirmation timer.  A light that leaves the managed scope loses    *)
(* its ownership layers, so a gap in the bridge's reports must not take    *)
(* a light out of scope.                                                   *)
(*                                                                         *)
(* Events and refreshes run on the event loop, each in one go.  The        *)
(* timer's confirm is a plain function without @callback, which Home       *)
(* Assistant runs in an executor thread: the loop may read and adopt a     *)
(* newer topology between its reading and its reconciliation.              *)
(***************************************************************************)
EXTENDS Integers, FiniteSets

CONSTANTS
  Surfaces,    \* MANAGED_SURFACE_GROUPS
  Lights,
  Configured,  \* shadow_entities
  Confirm,     \* SURFACE_MEMBERSHIP_REMOVAL_CONFIRM_SECONDS, in ticks
  Nothing

ASSUME MembershipAssumption ==
  /\ Configured \subseteq Lights
  /\ Confirm \in Nat \ {0}
  /\ Nothing \notin Nat

VARIABLES
  reported,  \* the members Home Assistant shows for a group; {} if it shows none
  members,   \* _surface_members_by_group
  seen,      \* _surface_seen_members
  pending,   \* _pending_surface_membership, with the age of its first report
  timer,     \* ticks until the confirmation, Nothing when none is scheduled
  unread,    \* a group's event, or the refresh after start-up, is still to come
  thread,    \* where confirm stands in its executor thread
  missing,   \* history: for how long the readings applied have lacked a light
  behind     \* history: surfaces on which confirm has applied an overtaken reading

vars == <<reported, members, seen, pending, timer, unread, thread, missing, behind>>

\* No confirmation runs; one has read nothing yet; what one has read.
Idle == [pc |-> "idle"]
Fired == [pc |-> "fired"]
Holding(shown) == [pc |-> "read", shown |-> shown]

\* A light the latest report names; ages are counted up to Confirm only.
Present == Nothing
Older(age) == IF age = Nothing \/ age = Confirm THEN age ELSE age + 1

Managed == (Configured \ seen) \cup UNION {members[g] : g \in Surfaces}

-----------------------------------------------------------------------------
(* One reading of the topology *)

\* A reading keeps the surface if the group shows nothing (exclusions applied).
\* "shown" is what the groups showed when it was made.
Read(shown, g) == shown[g] # {}

SameAsPending(shown, g) == pending[g] # Nothing /\ pending[g].observed = shown[g]

\* Mutant: whatever is missing when the delay is over is removed.
ConfirmedByDelay(shown, g) == pending[g] # Nothing /\ pending[g].age >= Confirm

Confirmed(shown, g) == SameAsPending(shown, g) /\ pending[g].age >= Confirm

\* Additions, or no change at all, are adopted at once.
Adopted(shown, g) ==
  Read(shown, g) /\ (members[g] \subseteq shown[g] \/ Confirmed(shown, g))

MembersAfter(shown, g) == IF Adopted(shown, g) THEN shown[g] ELSE members[g]

PendingAfter(shown, g) ==
  IF Adopted(shown, g) THEN Nothing
  ELSE IF ~Read(shown, g) \/ SameAsPending(shown, g) THEN pending[g]
  ELSE [observed |-> shown[g], age |-> 0]

RemovalPending(shown) == \E g \in Surfaces : Read(shown, g) /\ ~Adopted(shown, g)

\* _schedule_membership_confirmation: at most one timer for all surfaces.
Scheduled(shown) == IF RemovalPending(shown) /\ timer = Nothing THEN Confirm ELSE timer

\* _reconcile_surface_membership, without the timer
Reconciled(shown) ==
  /\ members' = [g \in Surfaces |-> MembersAfter(shown, g)]
  /\ pending' = [g \in Surfaces |-> PendingAfter(shown, g)]
  /\ seen' = seen \cup UNION {members'[g] : g \in Surfaces}
  /\ missing' = [g \in Surfaces |-> [l \in Lights |->
       IF l \in shown[g] THEN Present
       ELSE IF Read(shown, g) /\ missing[g][l] = Present THEN 0
       ELSE missing[g][l]]]
  /\ UNCHANGED reported

-----------------------------------------------------------------------------
(* Actions *)

\* The bridge, or the Hue integration, changes what a group shows.
Report(g, lights) ==
  /\ lights # reported[g]
  /\ reported' = [reported EXCEPT ![g] = lights]
  /\ unread' = TRUE
  /\ UNCHANGED <<members, seen, pending, timer, thread, missing, behind>>

\* _refresh_topology_cache on the event loop: at start-up and in its delayed
\* refreshes, and at every unattributed external event.
Refresh ==
  /\ Reconciled(reported) /\ timer' = Scheduled(reported)
  /\ unread' = FALSE /\ behind' = {}
  /\ UNCHANGED thread

\* The group's state_changed event, whatever else has changed by then.
HandleReport == unread /\ Refresh

\* confirm clears the handle of its timer,
ConfirmFires ==
  /\ timer = 0 /\ thread = Idle
  /\ timer' = Nothing /\ thread' = Fired
  /\ UNCHANGED <<reported, members, seen, pending, unread, missing, behind>>

\* reads the topology,
ConfirmReads ==
  /\ thread = Fired
  /\ thread' = Holding(reported)
  /\ UNCHANGED <<reported, members, seen, pending, timer, unread, missing, behind>>

\* Mutant of ConfirmApplies: what is still pending is not scheduled again.
ConfirmAppliesOnce ==
  /\ thread.pc = "read"
  /\ Reconciled(thread.shown) /\ thread' = Idle
  /\ behind' = {g \in Surfaces : Adopted(thread.shown, g) /\ thread.shown[g] # reported[g]}
  /\ UNCHANGED <<timer, unread>>

\* and applies what it has read, whatever the loop has adopted since.
ConfirmApplies ==
  /\ thread.pc = "read"
  /\ Reconciled(thread.shown) /\ timer' = Scheduled(thread.shown) /\ thread' = Idle
  /\ behind' = {g \in Surfaces : Adopted(thread.shown, g) /\ thread.shown[g] # reported[g]}
  /\ UNCHANGED unread

\* A tick is long: events are handled, due timers fire and confirm ends within it.
Tick ==
  /\ ~unread /\ timer # 0 /\ thread = Idle
  /\ timer' = IF timer = Nothing THEN Nothing ELSE timer - 1
  /\ pending' = [g \in Surfaces |-> IF pending[g] = Nothing THEN Nothing
                                    ELSE [pending[g] EXCEPT !.age = Older(@)]]
  /\ missing' = [g \in Surfaces |-> [l \in Lights |-> Older(missing[g][l])]]
  /\ UNCHANGED <<reported, members, seen, unread, thread, behind>>

\* _seed_surface_membership has just run: persisted members and those already
\* reported, and among what was seen before some that are members no more.
Init ==
  /\ reported \in [Surfaces -> SUBSET Lights]
  /\ members \in [Surfaces -> SUBSET Lights]
  /\ \A g \in Surfaces : reported[g] \subseteq members[g]
  /\ seen \in {S \cup UNION {members[g] : g \in Surfaces} : S \in SUBSET Lights}
  /\ pending = [g \in Surfaces |-> Nothing]
  /\ timer = Nothing
  /\ unread = TRUE /\ thread = Idle /\ behind = {}
  /\ missing = [g \in Surfaces |-> [l \in Lights |->
                 IF l \in members[g] THEN Present ELSE Confirm]]

Next ==
  \/ \E g \in Surfaces, lights \in SUBSET Lights : Report(g, lights)
  \/ HandleReport \/ Refresh \/ ConfirmFires \/ ConfirmReads \/ ConfirmApplies \/ Tick

Spec == Init /\ [][Next]_vars

\* Events are delivered, due timers fire, confirm goes on, and no burst of events
\* stops the clock.
FairSpec ==
  /\ Spec /\ WF_vars(HandleReport) /\ SF_vars(Tick)
  /\ WF_vars(ConfirmFires) /\ WF_vars(ConfirmReads) /\ WF_vars(ConfirmApplies)

-----------------------------------------------------------------------------
(* Properties *)

Ages == (0..Confirm) \cup {Nothing}
Threads == {Idle, Fired} \cup {Holding(shown) : shown \in [Surfaces -> SUBSET Lights]}

\* Type invariant; what is pending is always a removal, and members were seen.
TypeOK ==
  /\ {reported, members} \subseteq [Surfaces -> SUBSET Lights]
  /\ UNION {members[g] : g \in Surfaces} \subseteq seen /\ seen \subseteq Lights
  /\ timer \in Ages /\ unread \in BOOLEAN /\ behind \subseteq Surfaces
  /\ thread \in Threads
  /\ missing \in [Surfaces -> [Lights -> Ages]]
  /\ \A g \in Surfaces : pending[g] # Nothing =>
       /\ pending[g] \in [observed : (SUBSET Lights) \ {{}}, age : 0..Confirm]
       /\ ~(members[g] \subseteq pending[g].observed)

\* A surface drops a light only if every reading of it that was applied during the
\* last Confirm lacked that light: a gap, a partial list while Hue starts up, or a
\* confirmation that the loop has overtaken, never takes a light out and with it what
\* the homeowner asked of it.
OnlyConfirmedRemovals ==
  [][\A g \in Surfaces : \A l \in members[g] \ members'[g] :
       missing'[g][l] = Confirm]_vars

\* A report that stays is adopted in the end: however additions, gaps, other removals
\* and the confirmation's thread overlap on the shared timer, no removal is left
\* pending for good.  Only a surface on which the thread has undone what the loop
\* adopted since waits for the next event.
StableReportAdopted ==
  \A g \in Surfaces, S \in (SUBSET Lights) \ {{}} :
    <>[](reported[g] = S /\ g \notin behind) => <>[](members[g] = S)
=============================================================================
