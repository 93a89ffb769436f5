-------------------------- MODULE RestartRecovery --------------------------
(***************************************************************************)
(* What survives a restart (custom_components/home_lighting_manager:       *)
(* ha_observer.py, persistence.py, recovery.py, shadow.py restore).  The   *)
(* observer writes evidence to Home Assistant's Store: its generation, the *)
(* homeowner layers, the surface membership and the time of the save.  A   *)
(* new process reads it back, advances the generation, keeps Manual only   *)
(* across a short restart that does not cross 01:59, and checkpoints       *)
(* before it listens.  The process may crash between any two steps.        *)
(*                                                                         *)
(* One surface is modelled.  A light holds at most one homeowner layer     *)
(* (OwnershipEngine!OneLayerPerOwner); its appearance is left out.         *)
(***************************************************************************)
EXTENDS Integers, FiniteSets

CONSTANTS
  Lights,
  Configured,     \* shadow_entities
  Day,            \* ticks from one 01:59 to the next
  MaxDowntime,    \* RESTART_MANUAL_MAX_DOWNTIME, in ticks
  MaxNow,         \* bound of the model: last tick
  MaxGeneration,  \* bound of the model: last generation
  Nothing

ASSUME RecoveryAssumption ==
  /\ Configured \subseteq Lights
  /\ {Day, MaxDowntime} \subseteq Nat \ {0}
  /\ {MaxNow, MaxGeneration} \subseteq Nat

Kinds == {"none", "manual", "manual_off"}

VARIABLES
  now,         \* the wall clock
  due,         \* the 01:59 handler of this tick has not run yet
  process,     \* "down", "starting" (the first checkpoint is awaited) or "up"
  generation,  \* of the process, 0 when down
  held,        \* the homeowner layer of each light
  members,     \* _surface_members_by_group
  seen,        \* _surface_seen_members
  owed,        \* a save task has been created and has not run yet
  queue,       \* the payload handed to the Store and not written yet
  disk,        \* the payload on disk
  since,       \* history: when the homeowner asked for what is held
  used,        \* history: generations of processes that have listened
  torn,        \* history: a process went down at 01:59 with its expiry unsaved
  retired      \* history: lights whose removal is on disk, not observed since

vars == <<now, due, process, generation, held, members, seen, owed, queue, disk,
          since, used, torn, retired>>

Nobody == [l \in Lights |-> "none"]

Payload ==
  [generation : 1..MaxGeneration, saved : 0..MaxNow, layers : [Lights -> Kinds],
   since : [Lights -> 0..MaxNow], members : SUBSET Lights, seen : SUBSET Lights]

ASSUME NothingAssumption == Nothing \notin Payload

\* A surface light, once seen, is managed only while it is a member.
Managed == (Configured \ seen) \cup members

Boundary(t) == t > 0 /\ t % Day = 0

\* _crossed_nightly_boundary: a 01:59 after start and no later than end.
Crossed(start, end) == \E b \in (start + 1)..end : Boundary(b)

\* Mutant: a short restart across 01:59 keeps Manual.
SurvivesAnyHour(saved) == saved <= now /\ now - saved < MaxDowntime

\* _manual_ownership_survives_restart
Survives(saved) ==
  saved <= now /\ now - saved < MaxDowntime /\ ~Crossed(saved, now)

-----------------------------------------------------------------------------
(* Saving *)

\* Mutant: only Manual appearances are serialized.
ExportWithoutOff(layers, ages, mem, known, gen) ==
  [generation |-> gen, saved |-> now, since |-> ages, members |-> mem, seen |-> known,
   layers |-> [l \in Lights |-> IF layers[l] = "manual_off" THEN "none" ELSE layers[l]]]

\* async_save exports the payload when it runs; the Store keeps the newest.
Export(layers, ages, mem, known, gen) ==
  [generation |-> gen, saved |-> now, layers |-> layers, since |-> ages,
   members |-> mem, seen |-> known]

\* The three ways a step ends: it awaits async_save at once, creates a task for
\* it, or leaves it to the heartbeat.
SaveNow ==
  /\ queue' = Export(held', since', members', seen', generation)
  /\ UNCHANGED owed
SaveLater == owed' = TRUE /\ UNCHANGED queue
NoSave == UNCHANGED <<owed, queue>>

\* The task created by _checkpoint_ownership.
RunSave ==
  /\ process = "up" /\ owed
  /\ owed' = FALSE
  /\ queue' = Export(held, since, members, seen, generation)
  /\ UNCHANGED <<now, due, process, generation, held, members, seen, disk,
                 since, used, torn, retired>>

\* _async_persistence_heartbeat, every minute.
Heartbeat ==
  /\ process = "up"
  /\ UNCHANGED <<held, since, members, seen>>
  /\ SaveNow
  /\ UNCHANGED <<now, due, process, generation, disk, used, torn, retired>>

\* Lights whose removal a payload records, unless they have been observed again.
Retired(p) == (retired \cup (p.seen \ p.members)) \ members

\* Store.async_save: the file is replaced as a whole.
Write ==
  /\ process # "down" /\ queue # Nothing
  /\ disk' = queue
  /\ queue' = Nothing
  /\ retired' = Retired(queue)
  /\ UNCHANGED <<now, due, process, generation, held, members, seen, owed, since,
                 used, torn>>

-----------------------------------------------------------------------------
(* Starting *)

StoredMembers == IF disk = Nothing THEN {} ELSE disk.members
StoredSeen == IF disk = Nothing THEN {} ELSE disk.seen

NextGeneration == IF disk = Nothing THEN 1 ELSE disk.generation + 1

\* Mutant: membership as the bridge reports it now.
SeededByObserved(observed) == observed

\* _seed_surface_membership: additions at once, removals only later.
Seeded(observed) == StoredMembers \cup observed

\* Mutant: what had been seen is forgotten with the process.
SeenAfterForgetting(observed) == Seeded(observed)

SeenAfter(observed) == Seeded(observed) \cup StoredMembers \cup StoredSeen

\* Whether what was saved is evidence for this process: _manual_recovery_evidence.
Trustworthy == disk # Nothing /\ Survives(disk.saved)

\* recover_layer: a homeowner layer without evidence is left to the house.
Recovered(l) == IF Trustworthy THEN disk.layers[l] ELSE "none"

\* ShadowRuntime.restore
Restored(scope) == [l \in Lights |-> IF l \in scope THEN Recovered(l) ELSE "none"]

\* async_start up to its checkpoint; the bridge may not have reported yet.
Boot(observed) ==
  /\ process = "down"
  /\ NextGeneration <= MaxGeneration
  /\ process' = "starting"
  /\ generation' = NextGeneration
  /\ members' = Seeded(observed)
  /\ seen' = SeenAfter(observed)
  /\ held' = Restored((Configured \ seen') \cup members')
  /\ since' = [l \in Lights |-> IF held'[l] = "none" THEN 0 ELSE disk.since[l]]
  /\ queue' = Export(held', since', members', seen', generation')
  /\ retired' = retired \ observed
  /\ UNCHANGED <<now, due, owed, disk, used, torn>>

\* Mutant: listening does not wait for the checkpoint.
ListenEarly ==
  /\ process = "starting"
  /\ process' = "up"
  /\ used' = used \cup {generation}
  /\ UNCHANGED <<now, due, generation, held, members, seen, owed, queue, disk,
                 since, torn, retired>>

\* The checkpoint has been written; listeners and timers are registered.
Listen ==
  /\ process = "starting" /\ queue = Nothing
  /\ process' = "up"
  /\ used' = used \cup {generation}
  /\ UNCHANGED <<now, due, generation, held, members, seen, owed, queue, disk,
                 since, torn, retired>>

\* Nothing a handler has begun is still to be done or written.
Settled == ~due /\ ~owed /\ queue = Nothing

\* Nothing in memory survives; the write in progress is lost as a whole.
Gone ==
  /\ process' = "down" /\ generation' = 0
  /\ torn' = (torn \/ (Boundary(now) /\ ~Settled))
  /\ held' = Nobody /\ since' = [l \in Lights |-> 0]
  /\ members' = {} /\ seen' = {}
  /\ owed' = FALSE /\ queue' = Nothing /\ due' = FALSE

Crash == process # "down" /\ Gone /\ UNCHANGED <<now, disk, used, retired>>

\* _async_stop_event, and the Store's final write.
Stop ==
  /\ process = "up"
  /\ disk' = Export(held, since, members, seen, generation)
  /\ retired' = Retired(disk')
  /\ Gone
  /\ UNCHANGED <<now, used>>

-----------------------------------------------------------------------------
(* Running *)

Hold(new) ==
  /\ process = "up"
  /\ held' = new
  /\ since' = [l \in Lights |-> IF new[l] = "none" THEN 0
                                ELSE IF new[l] = held[l] THEN since[l] ELSE now]
  /\ UNCHANGED <<now, process, generation, members, seen, disk, used, torn, retired>>

\* Homeowner intent saves at once, or through a task when it was promoted later.
Intend(l, kind) ==
  /\ l \in Managed /\ kind # held[l]
  /\ Hold([held EXCEPT ![l] = kind])
  /\ SaveNow \/ SaveLater
  /\ UNCHANGED due

\* async_reset_homeowner_control
Reset == Hold(Nobody) /\ SaveNow /\ UNCHANGED due

\* _handle_nightly_boundary
NightlyBoundary ==
  /\ due
  /\ Hold(Nobody)
  /\ SaveLater
  /\ due' = FALSE

\* Confirmed surface membership (SurfaceMembership tells when); removed lights
\* lose what they hold.  It is checkpointed unless Home Assistant is starting.
Membership(new) ==
  /\ process = "up" /\ new # members
  /\ members' = new
  /\ seen' = seen \cup new
  /\ held' = [l \in Lights |-> IF l \in (Configured \ seen') \cup new THEN held[l]
                               ELSE "none"]
  /\ since' = [l \in Lights |-> IF held'[l] = "none" THEN 0 ELSE since[l]]
  /\ SaveLater \/ NoSave
  /\ retired' = retired \ new
  /\ UNCHANGED <<now, due, process, generation, disk, used, torn>>

\* A tick is long: start-up, save tasks, writes and the 01:59 handler are not.
Tick ==
  /\ now < MaxNow
  /\ process # "starting" /\ ~due /\ ~owed /\ queue = Nothing
  /\ now' = now + 1
  /\ due' = (process = "up" /\ Boundary(now'))
  /\ UNCHANGED <<process, generation, held, members, seen, owed, queue, disk,
                 since, used, torn, retired>>

\* The machine comes back with a clock that has not been set.
ClockLost ==
  /\ process = "down" /\ now > 0
  /\ now' = 0
  /\ UNCHANGED <<due, process, generation, held, members, seen, owed, queue, disk,
                 since, used, torn, retired>>

Init ==
  /\ now = 0 /\ due = FALSE
  /\ process = "down" /\ generation = 0
  /\ held = Nobody /\ since = [l \in Lights |-> 0]
  /\ members = {} /\ seen = {} /\ retired = {}
  /\ owed = FALSE /\ queue = Nothing /\ disk = Nothing
  /\ used = {} /\ torn = FALSE

Next ==
  \/ \E observed \in SUBSET Lights : Boot(observed)
  \/ Listen \/ Crash \/ Stop \/ Write \/ RunSave \/ Heartbeat
  \/ \E l \in Lights, kind \in Kinds : Intend(l, kind)
  \/ \E new \in (SUBSET Lights) \ {{}} : Membership(new)
  \/ Reset \/ NightlyBoundary \/ Tick \/ ClockLost

Spec == Init /\ [][Next]_vars

\* The process may stop at any time, but the event loop makes progress while it
\* runs: created tasks run, the Store writes, and the heartbeat timer fires.
Fairness == WF_vars(RunSave) /\ WF_vars(Write) /\ WF_vars(Heartbeat)

FairSpec == Spec /\ Fairness

-----------------------------------------------------------------------------
(* Properties *)

\* Type invariant; nothing the process holds is dated after the running clock.
TypeOK ==
  /\ now \in 0..MaxNow /\ due \in BOOLEAN /\ owed \in BOOLEAN
  /\ process \in {"down", "starting", "up"}
  /\ generation \in 0..MaxGeneration
  /\ held \in [Lights -> Kinds] /\ since \in [Lights -> 0..MaxNow]
  /\ {members, seen, retired} \subseteq SUBSET Lights
  /\ {queue, disk} \subseteq Payload \cup {Nothing}
  /\ used \subseteq 1..MaxGeneration /\ torn \in BOOLEAN
  /\ \A l \in Lights : since[l] <= now

\* Ordinary Manual and Manual-OFF never outlive a 01:59, by the running clock or
\* across any number of restarts (SCENARIO_CONTRACT section 6, SCENARIO 13.5).
\* A process that goes down during 01:59 before its expiry is on disk may leave a
\* save dated 01:59 that holds the old Manual: that counts as made after 01:59.
NoManualPastBoundary ==
  ~torn /\ process # "down" /\ ~due =>
    \A l \in Lights : held[l] # "none" => ~Crossed(since[l], now)

\* A generation identifies one listening process: whatever crashes, a process
\* that begins to listen has a generation above those of all that ever did.
GenerationAdvances ==
  [][process = "starting" /\ process' = "up" => \A g \in used : g < generation]_vars

\* A light whose removal from the surface has reached the disk stays out of
\* scope, over restarts and though shadow_entities still lists it, until the
\* bridge reports it again.
RetiredStaysOut == process # "down" => retired \cap Managed = {}

\* A qualifying short restart keeps every persisted Manual and Manual-OFF, though
\* the bridge has reported nothing or only a part of the surface yet.
ShortRestartKeepsManual ==
  [][process = "down" /\ process' = "starting" /\ disk # Nothing
     => IF disk.saved <= now /\ now - disk.saved < MaxDowntime /\ ~Crossed(disk.saved, now)
          THEN held' = disk.layers ELSE held' = Nobody]_vars

\* While the process keeps running, what the homeowner asked of a light, once it
\* is no longer changed, is what the disk says in the end and from then on: no
\* save that was begun earlier is written over it.
IntentBecomesDurable ==
  \A l \in Lights :
    <>[](process = "up") /\ <>[][held'[l] = held[l]]_held
    => <>[](disk # Nothing /\ disk.layers[l] = held[l])
=============================================================================
