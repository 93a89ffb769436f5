# Home Lighting Manager: TLA+ models, checks and proofs

Home Lighting Manager decides who owns each light of a house (the homeowner, an
automation, or nobody) and renders that ownership on a Philips Hue bridge through
Home Assistant. This directory models the parts of it whose correctness depends on
the order of events: the ownership engine, the homeowner's operations, the
promotion of reports to intent, rendering and command attribution, restarts,
surface membership, drift verification and the repair loop, the schedule with its
evaluators, and the liquor cabinet.

Paths below are relative to the repository; `HLM/` stands for
`custom_components/home_lighting_manager/`, `LR/` for
`legacy/custom_components/home_lighting_reconciliation/`.

## 1. Inventory

| Part | Code | State it keeps | Operations |
|---|---|---|---|
| Ownership engine | `HLM/engine.py`, `model.py` | per light an ordered pile of layers; live, suppressed and ended family sessions; armed group-OFF sequences; managed scope; revision and generation | push, activate_automatic, admit_manual, push_manual_off, releases, apply_off, apply_group_off, start/suppress/end family, boundary, evening activation, reset, scope change |
| Homeowner operations | `HLM/operations.py`, `shadow.py` | the receipt ledger: newest sequence per light, a bounded window of identities, the retired floor | apply, reset_homeowner_control |
| Effective projection | `HLM/projection.py` | none (computed from the engine) | the records renderers compare |
| Renderer bridge | `LR/rendering.py`, `hue.py` | only the locals of a call, across its awaits | render |
| Command attribution | `HLM/ha_observer.py`, `__init__.py`, guard script and automation in `packages/home_lighting_manager.yaml` | guard boolean of a surface, attribution receipts with a TTL | arm and re-arm, mark, look up, expire |
| Persistence and recovery | `HLM/persistence.py`, `recovery.py`, `ha_observer.py`, `shadow.py` | the stored payload, generation, time of the save | start, checkpoint, heartbeat, save tasks, stop |
| Surface membership | `HLM/ha_observer.py` | members per Hue group, everything ever seen, pending removals, one timer | seed, refresh, confirm |
| Observation, burst correlation, intent promotion | `HLM/ha_observer.py`, `intent_policy.py`, `attribution_correlation.py`, `promotion_observer.py` | external-event window, scheduled promotions, group candidates, armed groups, provisional evidence, quarantine after 01:59 | classify, schedule, promote, expire |
| Reconciler | `LR/runtime.py`, `__init__.py` | the generation, the current task, pending, health and issues | schedule, debounce, inspect, repair, react to state changes, close |
| Drift verification, scene evidence | `LR/engine.py`, `hue.py` | none | compare states and scenes with what owners ask for |
| Owner resolver, evaluators, schedule | `packages/home_lighting_manager.yaml` | windows, holiday key and flag, legacy Manual helpers, the running scripts | resolve owners, evaluate a surface, the five triggers of the schedule |
| Liquor cabinet | `automations/liquor_cabinet_display_lighting.yaml` | the snapshot helpers, a queue of door events | capture, white, restore, release |
| Spa sessions, 49ers | `automations/spa_gauge_session_manager.yaml`, `49ers_live_game_lighting.yaml` | the session's helper | call an evaluator, after a delay or every minute |
| Spa gauge colours, pool, Powerwall | `automations/*.yaml` | none that others read | choose and flash colours |
| Diagnostics | `LR/sensor.py` | none | presentation |

How they interact: a state change in Home Assistant reaches the observer, which
looks up attribution receipts and the guard, consults the intent policy, and turns
what a person did into an *operation*; operations run in one synchronous
transaction over the engine; the projection of the engine is published; the
evaluators ask the renderer to show what an automation wants, minus what the
projection protects; the renderer arms the guard and registers receipts so that
its own consequences are recognised; the reconciler, after each change on a
surface, compares the lights with what their owner asks for and repairs. Homeowner
layers and membership are saved and read back by the next process.

What makes it hard: every handler is atomic up to its next `await`, and every
await lets the others in. Events arrive late, twice, out of order and without
provenance; the bridge reports nothing or only a part while starting; timers race
what they wait for; the process may stop between a change and its save.

What makes each part correct:

- *engine*: one layer per owner, bounded piles that are never reordered, layers of
  live sessions only, disjoint armed sequences, suppression that is not lifted
  silently, no change behind a captured work token;
- *operations*: nothing applied twice, newer intent wins, an armed group is
  untouched between its two OFFs, dismissing a family dismisses it everywhere and
  nothing else;
- *renderer*: nothing is sent to a light the homeowner owns, may be about to own,
  or that is unavailable; nothing is sent that would not be recognised as own;
- *recovery*: generations grow, a removed light stays out, Manual survives a short
  restart and never 01:59, intent reaches the disk;
- *membership*: removals are confirmed, additions are adopted, stable reports win;
- *reconciler*: it ends, retries a bounded number of times, and never judges or
  repairs on obsolete evidence;
- *promotion*: at most one promotion per event and light, the right target, and no
  late machine telemetry taken for a person;
- *verification*: silence means that everything is right, and no repair touches what
  is not the owner's;
- *schedule and evaluators*: helpers agree with the clock after any restart, and a
  house at rest shows what its owners want;
- *liquor cabinet*: an open door is lit, and a visit leaves what it found.

`PROJECT.json` lists every hazard at its line with the property that would catch it.

## 2. Modules

A module's actions are the code's public operations or, for coroutines, the
stretches of code from one await to the next. Operators whose comment begins with
"Mutant" are deliberately wrong variants of a neighbouring definition; nothing in
the specifications uses them. `PROJECT.json` pairs each with the property that
fails when it takes the definition's place.

**OwnershipEngine** is `engine.py`. `engine` is the object's state as one record.
A Python list of layers is a `Pile`: a set of layers and the strict order of their
ids from the bottom. A method that raises is an action that is not enabled. A
revision is not counted: `moved` says whether it moved since the outstanding
WorkToken was captured, which is all a token can tell. Homeowner layers, whose ids
are fresh UUIDs, share the id `HomeownerId`, which loses nothing because a pile
holds at most one (`OneLayerPerOwner`, proved). The limit of 256 lights is left out.

**HomeownerOperations** extends it with `operations.py` and the reset of
`shadow.py`. `Refuse`, `Spend` and `Accept` are the three ways `apply` can end.
`Receipts` is the set of operations that may reach `apply`, each any number of
times and in any order, which stands for repeated, delayed and reordered reports.
`history` and `intruded` are history variables for the properties.

**HomeownerControl** is the abstract specification of homeowner intent: none,
Manual or Manual-OFF per light, and the two-stage group OFF, without layers,
families or receipts. HomeownerOperations refines it (`ImplementsControl`): the
homeowner slot of a pile is the intent, armed groups are armed areas.

**Rendering** is `render` and its Hue path with the guard script, the marker
service and the lookup of receipts. `pc` names the await a call stands at. Each
homeowner mutation bumps the published revision and carries a reason that is
"invalidating" (listed in `projection_current`) or "quiet". The values of owners and
scripts are left out: finding them changed abandons a call, which `Abandon` may do
at any await. The two marker calls of a scene are one step.

**RestartRecovery** is one surface's homeowner layers and membership in memory, in
the Store's queue and on disk. `due` is a 01:59 handler that has not run, `owed` a
save task that has not run. A tick is long: handlers, tasks and writes finish
within it, and the clock may be lost while the process is down. `torn` remembers
that a process went down at 01:59 before the expiry was saved, see section 5.

**SurfaceMembership** is the topology refresh: what Hue shows, what is managed, and
the pending removals with the one confirmation timer all surfaces share. The
exclusions of `_group_members_by_id` are taken as applied. Events and refreshes run on
the event loop, each in one step. The timer's `confirm` (`HLM/ha_observer.py:689`) is a
plain function without `@callback`, which Home Assistant runs in an executor thread: it
clears its handle, reads the topology and reconciles in three steps (`ConfirmFires`,
`ConfirmReads`, `ConfirmApplies`), with the loop at work between them. `missing` and
`behind` are history variables: for how long the readings that were applied have lacked
a light, and the surfaces on which `confirm` applied what the loop had replaced.

**Reconciler** is the loop of `runtime.py` for one surface, with the adapter's
inspection, repair and event filter. `task` is the running task; `schedule` replaces
it, and the cancelled one unwinds later (`Unwind`), which is where the comparison of
tokens in `finally` matters. The generation is therefore not a number: a task is the
current one or an unwinding one. `Heard` are the events `changed` lets through,
`Quiet` those it does not. A refused marker ends the pass when the repair is a light's
and passes the turn to the next repair when it is a scene's (`Mark`); which of them a
repair is, the model does not tell apart. What verification computes is reduced to the repairs it
asks for (`wrong`) and to issues without a repair (`other`).

**PromotionObserver** is how reports become intent: `promotion_observer.py` with the
correlator, the classifier and the callbacks of `ha_observer.py` that feed it. The
observer is one record `obs`, one field per attribute; `core` is what the operations
ledger and the engine keep of homeowner intent when no automation shows anything
(intent, its group, armed groups, newest sequence per light). A callback has no await
before it is done and is one action; the timers are actions that run when their
count is zero, and `Tick` waits for them. `LeafReport` and `AggregateReport` are
`_record_external_topology` for a light and for a group, in the order of its gates:
armed group, owned surface, single light, displaced scene, exact group.
Why a report is a machine's (receipt, dynamics, Sync, unavailability) is its `cause`;
what the observer itself knows (01:59 settling, quarantine, a settling scene recall)
is computed. The quarantine after 01:59 and a reset is `Nightly`: the lights of the
legacy precedence (`Precedence`) and the members the surfaces have in the observer's
topology, which a group's report first completes for its own surface. Left out: the generation, which is constant while an observer lives;
shutdown; the keys that suppress a second evaluation of an identical group candidate,
which the ledger would refuse; the correlator's limits of 128 events and 256 entities;
the legacy precedence. Groups are assumed to be among the observed entities.

Its core implements HomeownerControl as well (`CoreImplementsControl`), which joins
the observer to the promise that HomeownerOperations keeps.

**Verification** is one surface as `verify` sees it: what its group contains, whose
each light is by Home Lighting Manager's projection, the overlays, the cabinet's door,
what the lights show, and the evidence about the owner's scene. `Asked` is the list of
commands of a check and `Clean` the absence of issues; a repair executes a command that
a check made now would ask for, which the last fence of `repair` ensures (module
Reconciler says when a repair is tried). `Right` is written from the ownership contract
and not from the code: it says of every light whose it is, by priority, and what that
one wants. Colours are compared for static settings and not for scenes, as in the code;
Hue's rounding tolerance is left out. The main area's owner is never "manual" in the
resolver's answer, so the branch `LR/engine.py:120` for it is unreachable and absent.

**OwnerResolver** is `script.home_lighting_resolve_owners`: the priority tables as
lists of claims, of which the highest that holds names the owner. Holidays are one
holiday; a scene is named by its owner.

**Evening** is what changes those inputs and what reacts: the schedule's run, the
evaluator scripts and the automations that call them. A run is a caller, a stage and the
resolver's answer on which a render was asked for; `mode: restart` replaces a run, and
who waited for a restarted script goes on. A step is what happens between two awaits. A
render compares the resolver's whole answer (`LR/rendering.py:231`), with every Manual
helper and the list of protected lights; the model's answer, `Resolved`, is coarser, and
the same code also gives up for the guard, the projection and the surface's members.
`Abandon` therefore may end any render, and must end one whose `Resolved` has changed. A
surface is dark at the start-up's check of the Manual helpers when its group is off
(`Dark`): the main area's group is on with the cabinet or with a light that is held.
Four phases are the times between the schedule's triggers. `shows` is the owner whose
appearance a surface was commanded last. `owed` and `rebuilt` are history variables: a
surface whose last command was abandoned or that somebody else has changed, and a
start-up that came to reconstruct the helpers. `reconcile_windows`, which sets five
helpers in parallel, and the two marker calls are one step each. Assumed: a phase lasts
longer than a run, so that only a start-up, which may come at any moment, meets the next
trigger; and Home Assistant's stop is orderly, so that helpers are restored as they were
(after a crash they may be up to fifteen minutes old).

**LiquorCabinet** extends it with the cabinet's automation, its queue and the snapshot
helpers, as one look. `visit` is a history variable: the look that the homeowner had
when the first door opened, as long as nobody else decides about the light.

**HomeownerOperationsProofs**, **RenderingProofs**, **RestartRecoveryProofs**,
**SurfaceMembershipProofs**, **ReconcilerProofs**, **PromotionObserverProofs**,
**VerificationProofs** and **LiquorCabinetProofs** hold the theorems, each about the
module it is named after; the first also about OwnershipEngine, the last also about
Evening and OwnerResolver.

**MCEngine, MCOperations, MCReset, MCRendering, MCRecovery, MCMembership,
MCReconciler, MCPromotion, MCVerification, MCEvening** give the constants small values; the `.cfg` files pick among them.
Where aspects of a component hardly touch each other, the instance follows one
*theme* per behaviour (`VARIABLE theme`, chosen in the initial state): the layers,
receipts or groups of that theme vary and the others rest. That keeps all of a
component's questions in one run without multiplying them.

## 3. Runs

| Run | Instance and bounds | Shows |
|---|---|---|
| `engine` | theme *piles*: one light, `MaxLayers` 3, four offered layers (one a refresh of another under a new id, one a barrier, one that the boundary expires); theme *groups*: three lights, three groups of any membership, `MaxGroups` 2; theme *families*: one family, two session names, `MaxSequence` 3, one remembered ended session | `EngineTypeOK`, `OneLayerPerOwner`, `SlotsKept`, `ArmingSound`, `SessionsSound`, `SuppressionKept`, `NoSilentChange`. Piles of different lights do not interact, so one light is enough; three slots for the offered layers plus the homeowner's overflow; the third armed group evicts the oldest; names are reused and the memory of ended sessions overflows. |
| `operations` | two lights; theme *ledger*: four receipts over three identities, a window of two; theme *arming*: two overlapping groups with changing members and single commands between; theme *families*: two stacked families shared by two lights, suppressed by the homeowner only; theme *placement*: one light, a barrier, a ranked layer, receipts with and without the legacy hint; theme *shielded*: two lights that share a family whose layer on one of them is a barrier, with a ranked layer above it | `NoReplay`, `NewestIntentWins`, `ArmedUninterrupted`, `DismissalExact`, `AcceptedAppearanceShows`, `ImplementsControl`. A window smaller than the number of identities makes a receipt leave it and come back. |
| `reset_ledger` | two lights, one generation | violation: `ResetInvalidatesEarlier` (finding 1) |
| `rendering` | three lights, of which one may be held, pending or unavailable; a call (a light command for two lights or a scene of three) and, beside a scene, a second call for one light, as a baseline makes seven; TTL 1, two mutations | `NoProtectedDispatch`, `DispatchAttributed`. A scene sent light by light outlasts guard and receipts; the second call re-arms the guard at any await of the first and the other way round; two mutations at any awaits, the second hiding the first. |
| `recovery` | one light that may be held, one that is only a member, days of two ticks, downtime limit two, `MaxNow` 3, `MaxGeneration` 2, `Fairness` | `NoManualPastBoundary`, `RetiredStaysOut`, `GenerationAdvances`, `ShortRestartKeepsManual`, `IntentBecomesDurable`. Two boundaries, a restart on either side of one, and a clock that falls behind. |
| `membership` | two surfaces, two lights, a confirmation delay of two ticks, `FairSpec` | `OnlyConfirmedRemovals`, `StableReportAdopted`. Two removals share the timer; lights move between surfaces; reports come and are adopted between the steps of the confirmation's thread. |
| `reconciler` | two repairs, a managed and an unmanaged owner, the pillars' window, `FairSpec` | `BudgetKept`, `NoEventLost`, `PendingMeansRunning`, `RepairIsCurrent`, `Quiesces`. Nothing is bounded but the constants. Two repairs suffice: the second is found before, and sent after, the first. |
| `promotion` | a surface and a group that is its alias or part of it, two or three lights; burst window one tick, hold two; theme *nested*: the part's OFF under an armed surface, five reports; *twice*: two OFFs of a surface, five; *single*: a light of a surface whose own group reports, with commands, automations, outages, four; *scenes*: recalls, displacement, guard, four; *lifecycle*: 01:59, reset, membership, three | `PromotedOnce`, `ExpiryScheduled`, `NewestReportRules`, `SecondOffLands`, `QuarantineHolds`, `CoreImplementsControl`. Five reports are two rounds of a two-light surface, or three lights and both groups; a hold of two ticks lets evidence outlive the burst it came in. |
| `promotion_spare` | two surfaces without a common light, burst two ticks, hold three | violation: `UnrelatedReportsSpare` (finding 2) |
| `verification` | three lights; the main area with the cabinet's light, and the back yard with the game's and the bright-white lights; a baseline of two lights and a scene of one on and one off; at most two things out of the ordinary at a time | `SilenceMeansRight`, `HandsOff`, `RepairsShrink`. Claims on one light are compared in pairs, so two unusual things beside door, overlays and owner meet every precedence. |
| `evening` | theme *clock*: a day from its beginning, three steps of restarts and errors, the first of which may be the homeowner's on a legacy helper; *surfaces*: five steps of Sync, spa, game, release, the main area's Manual and renders that are abandoned although the owners are unchanged; *visits*: six steps of doors, Sync and the homeowner's look; *cabinet*: four steps of these, scenes, restarts, refused commands and abandoned renders; one legacy surface, a queue of three | `HelpersFollowClock`, `OwnersShown`, `OpenDoorIsLit`, `LookReturned`. Three restarts meet two triggers in a row; six steps are a visit that is begun again while the last one is still queued; the queue overflows. |
| `cabinet_stale` | the same, visits | violation: `SnapshotEndsWithVisit` (finding 3) |

Bounds that exist only in the models: `MaxSequence` and `MaxGeneration` (engine,
operations), `MaxRevision` (rendering), `MaxNow` and `MaxGeneration` (recovery),
`MaxSequence` (promotion), `MaxTouches` (evening), `MaxUnusual` (verification), and the
restrictions of `FocusSpec` in `MCRendering`, `MCRecovery` and `MCVerification` and of
the themes in `MCPromotion` and `MCEvening`. All other constants are limits of the code
given small values. Deadlock is checked in every run; in `MCEvening` a house at rest
whose steps are used up, or that stays stopped, rests for ever by a stuttering step,
and every other end of a run would be a deadlock.

Every type invariant but those of OwnershipEngine is left out of the runs, which spend
their time on the other properties. They were checked with TLC on these instances, and
all are proved (section 4).

### Fairness

`RestartRecovery!Fairness`: weak fairness of `RunSave`, `Write` and `Heartbeat`. The
event loop runs created tasks, Home Assistant's Store writes what it was handed, and
the heartbeat is a recurring timer; a crash may still happen at any time, and
`IntentBecomesDurable` speaks of a process that eventually stays up.
`SurfaceMembership!FairSpec`: weak fairness of `HandleReport` (events are delivered),
`ConfirmFires` (timers fire), `ConfirmReads` and `ConfirmApplies` (a thread that has
begun ends), strong fairness of `Tick` (no burst of events
stops time, although each burst disables the tick while it is handled).
`Reconciler!FairSpec`: weak fairness of `Loop`, that is, the sleeps end and the
awaited services return. Nothing is assumed about `Echo`, `Unwind` or `Fail`.
The other specifications state no fairness and no liveness.

### Findings

1. `reset_ledger`: `reset_homeowner_control` says it invalidates pre-reset
   operations; it replaces the ledger within the same generation, so a receipt
   accepted before the reset is accepted once more (`HLM/shadow.py:219`).
2. `promotion_spare`: independent bursts may still have valid timers for other
   leaves (comment at `HLM/promotion_observer.py:496`). A report on any surface
   prunes old evidence of all lights, and cancels the timers of what it prunes
   (`HLM/promotion_observer.py:1717`). A light whose timer was started by a late
   group report, when its evidence was already old, loses it to a report from
   another surface; without that report the command would have been accepted.
3. `cabinet_stale`: the cabinet's automation captures once until both doors close, says
   its first line. The branch of the last closing door requires Sync to be off
   (`automations/liquor_cabinet_display_lighting.yaml:116`) and nothing else ends a
   snapshot: doors that close during Sync leave it valid, the next visit captures
   nothing, and its end gives back the look of the earlier visit.

## 4. Proofs

The first half of `HomeownerOperationsProofs` proves, for all lights, groups, families,
offered layers and limits, everything that is stated of the engine, as theorems of `EngineSpec`:

- `EngineTypes`, `SingleSlot`, `ArmedGroupsSound`, `FamiliesSound` for the invariants
  `EngineTypeOK`, `OneLayerPerOwner`, `ArmingSound`, `SessionsSound`;
- `RevisionTellsAll`, `LayersKeepTheirSlots`, `SuppressionsPersist` for the action
  properties `NoSilentChange`, `SlotsKept`, `SuppressionKept`.

The first inductive invariant is `EngineInv`: the generation is a natural number and the
engine is `Good`, that is, it has its type, every pile is a list, no pile holds two
layers of one identity, and homeowner layers carry the homeowner's id and are not
removable. The type invariant is not inductive alone: an update in place replaces every
layer that matches the new one's id or identity by one layer with the old id, so that
with two matching layers the order relation would lose its meaning; that there is at
most one match is `OneLayerPerOwner` together with the guard of `push`. Conversely
`OneLayerPerOwner` needs the ids to be distinct. The proof has one lemma for each way a
pile is built (dropping layers, inserting before blockers, updating in place, admitting
a homeowner layer) and one for each operator on the engine's record; the steps of
`EngineNext` then cite them.

`ArmingGood` adds to `ArmingSound` that any armed groups have a first one in the
dictionary's order. Without it the eviction at `MaxGroups` might find no oldest group,
and the capacity would not be inductive; stated of every set of armed groups, it is
kept by dropping and by appending a group, without an induction over their number.
`SessionsGood` adds to `SessionsSound` that a family has one live session and that its
name and sequence are the last ones issued, which is what tells a restarted session from
the one that it replaces in `SuppressionKept`. The only assumption used is
`ConstantsAssumption`, which TLC evaluates in every engine run.

Its second half proves, for all receipts, in any order and any number, and
for any window, everything that is stated of the operations, as theorems of `Spec`:

- `OperationTypes`, `ReceiptsApplyOnce`, `NewestIntentStands`,
  `ArmedGroupsUndisturbed` for `TypeOK`, `NoReplay`, `NewestIntentWins`,
  `ArmedUninterrupted`;
- `DismissalsExact`, `AppearancesShow` for `DismissalExact`,
  `AcceptedAppearanceShows`;
- `ControlImplemented`: `Spec => ImplementsControl`, the refinement.

`OpsInv` is the engine's three invariants (`EngineSound`), `Ledgered` and
`Uninterrupted`. `Ledgered` says why nothing is applied twice: every receipt of the
history is still in the window of `_seen`, or its position is at or below the floor
that the window left (`Answers`); and the position of an accepted one is recorded for
all its members (`Records`). `Uninterrupted` says that no light of an armed group is
among those that intent has reached since. What the operations share is proved once,
about the engine's tables before and after each operator: `TogetherTables` (a group
OFF), `OffTables` (an OFF of a light), `AppliedAppearanceTables`; and that all other
steps leave the homeowner's slots and the armed groups alone or only withdraw from them
(`LeftAlone`). `DismissalExact` then is that the sessions an operation suppresses are
the ones hit by what was showing before it; `AcceptedAppearanceShows`, that a homeowner
layer inserted above all but a barrier is the topmost eligible one. The refinement maps
an accepted appearance to `Appear`, an OFF of a light to `Off`, a group OFF to
`FirstOff` or `SecondOff`, refused and spent receipts to stutters, and the rest of the
house to `Withdraw` or a stutter. It needs that a pile has at most one homeowner layer,
that these are never removable, and that at most one layer of a pile is exposed.
`OperationsAssumption` and `ConstantsAssumption` are used; TLC evaluates them in the
operations run. Its second conjunct, that a receipt names finitely many lights, lets a
single light be recognised by its cardinality.

`RenderingProofs` proves, for all lights, any number of requests in flight and whatever
happens at their awaits, `TypeInvariant`, `NoCommandToProtected`
(`Spec => NoProtectedDispatch`) and `CommandsAttributed` (`DispatchAttributed`).
`PlanSound` relates a request's plan to what it read at the beginning: what it may
command, what it has still to send and, when a scene is recalled whole, all of the
scene's lights, are free of what was protected or pending then. The fence before each
command compares that reading with the present, so the plan is safe now.
`CommandsAttributed` holds of any number of requests on one surface, which re-arm its
guard, off and on, under one another (`packages/home_lighting_manager.yaml:591`; a
baseline sends seven at once, :457). `shaken` records the lights that a re-arming comes
across between their registration and their report; they are all that the property
excepts, and TLC shows that neither exception can be spared. `ReceiptsLive` is the
second invariant: a receipt is registered after the guard is armed and lives longer, so
that, but for shaken lights, it is alive as long as the guard is; and between the OFF
and the ON of a re-arming everything in use is shaken, which is why the guard that comes
back vouches for nothing registered before. The assumption used is `RenderingAssumption`, evaluated in the
rendering run.

`RestartRecoveryProofs` proves, for all lights, lengths of a day and downtime limits,
all safety properties of restarts: `TypeInvariant`, `ManualExpires`
(`NoManualPastBoundary`), `RetiredLightsStayOut` (`RetiredStaysOut`),
`GenerationsAdvance` (`GenerationAdvances`) and `ShortRestartsKeepManual`
(`ShortRestartKeepsManual`). `RecoveryInv` says the same thing of the three places
where state lives, the memory, the Store's queue and the disk. `Expiry`: what outlived a
01:59 is about to be replaced, by the handler that is due or by the save that is owed,
before the clock moves on; the torn window of section 5 is its only exception.
`Scope`: only lights that the next process will manage hold anything in a payload, and
nothing in it is younger than the payload. `Generations`: a generation is on disk before
its process listens, so a crash at any await of the start leaves no used generation
behind that the disk does not know. `Retirement`: a retired light is known and no
member in all three places. `Idleness` is what a process that is down does not have.
Besides `RecoveryAssumption` the proof uses `NothingAssumption` (`Nothing` is no
payload); TLC evaluates both in the recovery run.

`SurfaceMembershipProofs` proves, for all surfaces, lights and delays, `TypeInvariant`
and `RemovalsConfirmed` (`OnlyConfirmedRemovals`). What is inductive is `MissingAsLong`:
a light that a pending report lacks has been missing for at least as long as that
report is pending, because a reading that shows it again replaces the pending one. It
asks only that a reading is applied, not that it is current, so the reading that
`confirm` holds in its thread may be as old as it likes. The
assumption used is `MembershipAssumption`, evaluated in the membership run.

`ReconcilerProofs` proves, for all sets of repairs and owners, the safety properties
of the loop as theorems of `Spec`:

- `LoopTypes`, `TwoAttempts`, `EventsServed`, `PendingTruthful` for `TypeOK`,
  `BudgetKept`, `NoEventLost`, `PendingMeansRunning`;
- `RepairsCurrent` for the action property `RepairIsCurrent`.

`LoopInv` adds three facts to the type. `TaskShape` ties the await to what the task
works on. `BudgetSpent` is the reason why two attempts are enough: an attempt sends a
repair at most once, so a repair that is still ahead of the task was sent at most
once per earlier attempt, and the third attempt only verifies. `PassIsFresh` says
that an event is unserved only until its own pass begins, because scheduling
replaces the task; `NoEventLost` and the last conjunct of `RepairIsCurrent` follow.
The proof treats alike all steps of the house that are quiet, schedule or close
(`HouseMoves`), all steps that end a pass (`DoneInv`), that choose the next repair
(`RepairInv`, `WithdrawInv`) and that move on within a repair (`OnwardInv`). The
assumption used is `ReconcilerAssumption`, evaluated in the reconciler run.

`PromotionObserverProofs` proves, for all lights, groups, topologies and windows:

- `TypeInvariant`: `Spec => []TypeOK`;
- `EvidenceExpires`: `Spec => []ExpiryScheduled`;
- `IntentIsControl`: `Spec => CoreImplementsControl`;
- `ShutdownIsNotIntent`: `Spec => QuarantineHolds`;
- `ReportsCountOnce`: `Spec => []PromotedOnce`;
- `NewestReportsRule`: `Spec => NewestReportRules`;
- `SecondOffsLand`: `Spec /\ []OneSurface => SecondOffLands`.

A callback is a chain of small operators on the observer's record, so the proof has one
lemma per operator and cites them link by link. `ExpiryScheduled` is not inductive:
time may only count the expiry down to zero because a due timer runs before the next
tick, and a scheduled expiry must be a number not below -1 for evidence that arrives to
find it set or to set it; `Scheduled` adds that. The next three rest on `ObserverInv`:
the types, and `Quiet`, that no light in quarantine has evidence and no waiting group
contains one. `Quiet` holds because everything is dropped before 01:59 and a reset fill
the quarantine, and a report of such a light is automatic; so whatever is promoted
later, by a timer or a group, names no such light. For the core, `EffectTook` says what
an accepted receipt does to intent and to armed groups, `TookIsControl` that this is a
step of HomeownerControl, and `StepSoundness` that a callback submits one receipt at
most. That the sequence of a group is one of its reports' needs the least element of a
set of numbers (`LeastNatural`, from the well-foundedness of the naturals).

`ReportsCountOnce` and `NewestReportsRule` rest on `Account`, an invariant (`Counting`)
that TLC checked on the promotion run's instance before it was proved. The ledger
refuses a receipt whose sequence is not later than what it last accepted for a light,
and a group's receipt carries the earliest sequence of its parts. So the ledger alone
does not stop the later parts from being used again; the account says why they never
are:

- `Ordered` is about the evidence itself. No sequence is ahead of the counter (`Numbers`)
  or two lights' (`Unique`); what the current burst or a group's own lights still hold as
  single evidence is not older than the group's earliest part (`BurstIsLater`); a group
  that waits lies within the burst it shares evidence with (`Prefixes`); and of two groups
  that share a part, one was found before the other and goes on with it (`Nested`).
- `Unused`: single evidence that is left was not used. `OnceMore`: a group that waits with
  a used part is one that the ledger refuses (`Spent`) or that its timer finds no longer
  nested (`Loose`). `Once`: no report was used twice, and none that was not made.
- `ArmedIsOff` and `ManualSpends`: an armed light is not Manual, and a light of a waiting
  group becomes Manual only through an intent that overtook the group. Without them an
  armed group could take a light back that has its own intent.
- `Known`, `Newest`, `NewestOfGroups`: evidence that the ledger would accept asks for
  what the newest report of its light asks for, and a waiting group's lights that are
  still off were last reported or commanded off.

Most callbacks only drop evidence, which keeps every part (`ShrunkAccount`); the rest are
an accepted receipt (`TakingKeeps`), a group that starts to wait (`DeferralCounts`) and
a report or command that is newer than everything else (`OvertakenCounts`,
`RenewedCounts`). The assumption used is `ObserverAssumption`, evaluated in the
promotion run.

`SecondOffsLand` is `Spec /\ []OneSurface => SecondOffLands`: in a house whose managed
lights are each on one surface the reports of an armed surface's lights last until its
second OFF. Without `OneSurface` it is false (section 5). The instances of the promotion
runs satisfy it, which the ASSUME of MCPromotion lets TLC evaluate. The invariant is
`Holding`, on top of the account:

- `Placed`: bursts stay on one surface, since a light of another one begins a new burst,
  and the observer's cache has the surfaces' members. `Grouped`: a light is armed by one
  group only, with lights of its own surface, and all lights of a surface that is armed as
  a whole (`Whole`) were last asked by the same receipt.
- `Kept`: of a surface that is armed as a whole, the newest report of a light that is an
  OFF within the hold, later than the light's intent and unused (`Needed`), is its
  evidence. This is what `ArmedReady` will find.
- `Recent` is why refusals do no harm. A group's receipt that the ledger refuses takes its
  lights' evidence along without using it; but evidence of such a surface is later than
  what armed it, and so are the parts of a group that waits, unless they are nobody's
  evidence any more. So what is refused was not needed.
- `Same`: evidence that counts is the newest report itself, age included, so that both grow
  old together. `GoneIsSilent`: a light that is not there has no OFF to lose, so that a
  scene recall that finds all lights of a surface gone, and drops their evidence without a
  receipt, drops nothing needed.

`StepLasts` says this of a step's observer and core; `TakenLasts` is the accepted receipt,
`SparedLasts` the step that drops only what is not needed, `GroupAppliedLasts` the group
whose receipt may be refused. `SecondOffAccepted` then finds the evidence complete and its
receipt newer than everything the lights were asked before.

`VerificationProofs` proves, for all lights, baselines, scenes and surfaces, everything
that is stated of verification:

- `TypeInvariant`, `SilenceIsRight`: `Spec => []TypeOK`, `Spec => []SilenceMeansRight`;
- `RepairsKeepHandsOff`, `RepairsAreIndependent`: `Spec => HandsOff`,
  `Spec => RepairsShrink`.

The only inductive invariant needed is the type. `SilenceMeansRight` then holds in every
state: a case distinction over the claims of a light, in each of which the absence of
issues names the setting that was compared. For the action properties, `Changed` and
`Unprotected` say which lights a repair can change, and `SettingsShrink` and
`SceneShrinks` that one that reached its lights leaves no setting and no scene to ask
for that was not asked for before. The assumption
used is `VerificationAssumption`, evaluated in the verification run.

`LiquorCabinetProofs` proves, for any looks, any legacy helpers and any queue in which
an event can wait, everything that is stated of an evening, as theorems of `Spec`:

- `TypeInvariant`: `Spec => []TypeOK`;
- `HelpersOnTime`, `OwnersAreShown`, `OpenDoorsAreLit`, `LooksReturn` for
  `HelpersFollowClock`, `OwnersShown`, `OpenDoorIsLit`, `LookReturned`.

`Typed` is the first inductive invariant. The type alone would let a run be anywhere; a
run of the schedule is what is left of its program (`Track`), a script waits for a
caller that has it under way, and a house that is stopped runs nothing. What the
resolver answers is proved once as tables (`OwnersTable`), and which surface each
position of a script still reaches as `ReachIs`. Then:

- `HelpersInTime` says for every program of the schedule and every position in it which
  helpers are already right. A start-up computes the windows, tonight and the active
  holiday from the clock; a trigger relies on what the ones before it left. `RunsLate`,
  that the schedule waits for a script only near the end of a program, tells a run that
  a step of a script resumes from one that still has helpers to set.
- `ShownOrComing`: a surface that is not `owed` shows what its owner wants, or somebody
  will still reach it (`Coming`): a run of a script that has not passed it (`RunWill`), a
  delayed caller (`DelayWill`) or the rest of the schedule's program (`ScheduleWill`).
  Whoever changes an input starts a script that reaches every surface whose owner
  changes; a script that takes over from another reaches what that one would have, or the
  surface becomes owed.
- `Lit` is the same for the cabinet with an open door, where an opening in the queue and
  a run of the automation that is about to whiten count as well. It needs `RestoresAlone`:
  while the light is given back, a door that is open has its event in the queue, and a
  door that opens now cannot be dropped.
- `VisitKept` says where the homeowner's look is, for each thing that the automation still
  has to do: in the snapshot, in the run's own variable, or untouched on the light. Its
  parts tie this to doors that the automation has not noticed yet (`Unseen`) and to the
  event that is last in the queue, which is what the automation will find true in the end.

The automation reads the doors and not the event, so that its events may be several
movements late; neither invariant holds without the parts about the queue. The
assumption `CabinetAssumption` asks for a queue that lets at least one event wait beside the
run (`max: 20` in `automations/liquor_cabinet_display_lighting.yaml`): with one place every
movement during a run would be dropped, and `RestoresAlone` would fail. It is
evaluated in the evening run.

Every invariant and every action property of the passing runs is proved. Only model-checked
are `IntentBecomesDurable`, `StableReportAdopted` and `Quiesces`, which need fairness and
ENABLED. No module declares a RECURSIVE operator.

## 5. Not modelled, and known limits

- Validation of corrupted stored payloads, colours and other appearance values,
  diagnostics and history: data the properties do not tell apart.
- HTTP exchange with the bridge and scene evidence: input. Rendering takes any
  outcome of it, Reconciler any verdict about it.
- Components meet in four places: HomeownerOperations runs the engine; it and
  PromotionObserver implement the same HomeownerControl; Evening and LiquorCabinet read
  OwnerResolver; and Verification stands behind the `wrong` and `other` of Reconciler.
  Elsewhere a neighbour is any behaviour: Rendering publishes any set of pending
  lights, HomeownerOperations takes receipts in any order.
- The spa gauge's colours, the pool and Powerwall alerts and the celebration flash of a
  game choose colours for some seconds.
- *A displaced scene.* When three quarters of a surface's lights report after its scene
  was displaced, every light of it that is on is promoted
  (`HLM/promotion_observer.py:1366-1369`), those without a report of their own included.
  The promotion counts no report as used, so `PromotedOnce`, `NewestReportRules` and
  `QuarantineHolds` say nothing of it; `CoreImplementsControl` does.
- *A covered Manual.* An appearance is placed light by light. When a light's turn comes,
  a barrier of a family that shows only on a later member is still eligible, and Manual
  is placed below it (`HLM/engine.py:154`); the later member's turn suppresses the
  family everywhere (`HLM/operations.py:199`), the barrier is ineligible from then on,
  and an ordinary layer above it shows instead of the appearance that was accepted.
  ADR 0002:41 and `test_ineligible_structural_barrier_cannot_keep_manual_below_ordinary_owner`
  in `tests/test_phase1_architectural_review.py` say that an ineligible barrier must not
  do that, of barriers that were ineligible before the operation; and the comment at
  `HLM/operations.py:172` promises one pre-operation snapshot for every member, which
  the placement does not use.
  The proof of `AcceptedAppearanceShows` failed on this case; theme *shielded* has it,
  and the property excuses exactly the lights that an eligible barrier covered when
  their turn came.
- *The last mutation reason.* ADR 0003:93 says that newer ownership cancels the remaining
  work; `projection_current` (`LR/rendering.py:95`) looks at the last reason only, so a
  quiet mutation after an invalidating one hides it when the records are equal again,
  and the plan made before both is still sent. `NoProtectedDispatch` holds all the same,
  because equal records protect the same lights.
- *A confirmation that is overtaken.* Between the reading of `confirm` and its
  reconciliation the loop may adopt a newer topology. What the thread then adds back
  stays: it looks like an addition, for which no timer is scheduled, so that the surface
  has a member it no longer reports until its next event. TLC finds the behaviour as soon
  as `StableReportAdopted` does not excuse `behind`. A light is not lost this way
  (`OnlyConfirmedRemovals` has no excuse). Reading and reconciling are each one step;
  that two reconciliations interleave line by line is not modelled.
- *Additions that wait.* A report that adds members and lacks one waits as a whole for
  the removal's confirmation (`HLM/ha_observer.py:629`), although the docstring
  (`:598`) says that additions are adopted immediately; a light that moves in from
  another surface may leave the managed scope meanwhile.
- *A start-up that never reconstructs.* The schedule's run at start-up waits at most
  thirty seconds for the sun and is cancelled by the next trigger; windows and holiday
  then stay as the last process left them until the boundary. `HelpersFollowClock`
  excludes it by `rebuilt`.
- *A command that nobody repeats.* A render is abandoned when any owner of the house,
  any of the seven Manual helpers or a protected light has changed since it began, or
  when the guard is off, the projection has changed or the surface's members are
  unresolved or unavailable (`LR/rendering.py:231-284`), and a caller that restarts an
  evaluator takes over only its own surfaces; Sync's start stops the evaluator it
  started last. `OwnersShown` excludes such surfaces by `owed` until the next command:
  it speaks of the last commands that were sent. For the main area and the front eve the
  reconciler repairs them; the daily scenes of path and back yard are only as good as
  the evidence of their recall (`LR/engine.py:230`).
- *A visit that overlaps its own end.* A door that reopens while the restore is still
  running, with an evaluator in between that whitens the light first, captures that
  white as the homeowner's look. `LookReturned` excludes it by `visit`.
- *A recalled scene.* The cabinet gives a look back by recalling the whole scene of the
  main area (`automations/liquor_cabinet_display_lighting.yaml:182`), and the homeowner
  recalls scenes of it: the other lights of the area then show the scene, whatever its
  owner. `OwnersShown` excludes the area by `owed` until its next command.
- *A scene and then a light.* The cabinet repeats the last recalled scene of the
  main area although the homeowner has set its light since; `Found` excludes visits
  that begin so.
- *A full queue.* The cabinet's automation drops the twenty-first event and nothing makes
  up for it; visits with a dropped event are excused.
- *01:59 while down.* The start-up clears a legacy Manual helper only if its surface is
  dark (`packages/home_lighting_manager.yaml:1958`), so that of the evening before
  survives with lights that are on; section 6 of the ownership contract gives the
  evening back at 01:59. Home Lighting Manager's own layers do expire
  (`NoManualPastBoundary`).
- *The gauge after a restart.* A restart within the three seconds in which a spa session
  ends leaves the gauge's automation disabled; the model has the owners and not the
  gauge.
- *The 01:59 window.* A save stamped 01:59 but made before the boundary handler's own
  save counts as made after the boundary (`HLM/ha_observer.py:1264`). If the process
  goes down in that window, Manual is restored the next morning.
  `NoManualPastBoundary` excludes exactly these behaviours, by `torn`.
- *A pass that verifies nothing.* Owners that change during an inspection block all
  surfaces of the pass and leave no issue (`LR/__init__.py:246`). Every watched input
  cancels the pass as well, but the pillars' window is resolved and not watched: if
  only that changes while the bridge answers, the pass reports healthy although
  nothing was verified, and nothing schedules another. `Judge` has this behaviour; no
  property forbids it.
- *Receipts under a re-armed guard.* ADR 0004:26 lets a receipt apply for the whole
  TTL; a report that is looked up while a later call re-arms the same guard, off and
  on, drops the light's receipts (`HLM/ha_observer.py:439`, `Report`), and a call whose
  lights were registered under the old guard may send them under the new one, which
  outlives their receipts. Requests that share a surface do this to one another;
  `DispatchAttributed` excepts the lights concerned, by `shaken`, and no others.
- *A repair that is no longer needed.* The discrepancy is rechecked before the marker
  service and the owner resolver are awaited and not after (`LR/__init__.py:308`), so
  a light that healed meanwhile is repaired all the same (`Check` and `Send`).
- *The nested-group veto never applies.* It wants a candidate that is a proper part of
  an armed group whose lights are all in the burst (`HLM/promotion_observer.py:1438`),
  but an exact candidate has all of the burst. The deferral that follows it does the
  work; `Exact` has no such branch.
- *Managed lights outside of the surfaces.* `shadow_entities` may name lights that no
  surface has (`HLM/ha_observer.py:578`). A Hue group of such a light and one of an armed
  surface's lights shares a burst with the surface: when the ledger refuses its OFF, because
  the homeowner has commanded the outside light meanwhile, the surface light's OFF report
  is dropped with it (`GroupApplied`), and the surface's second OFF no longer finds the
  light's report and does not hold the surface off. TLC finds nine steps to it with lights
  k1, k2 on the surface and k2, k3 in the group. `SecondOffLands` is claimed for houses with
  `OneSurface`.
- *A deferral is shorter than the hold.* A nested OFF waits two seconds for its armed
  parent, whose own OFF may collect reports for eight. When the parent is slower, the
  nested group is applied first and disarms it.
- *A removed light leaves a window open.* `_managed_membership_changed` closes the
  windows of surfaces by their new members (`HLM/promotion_observer.py:317`), so the
  surface a light was removed from keeps its displacement window.
- *The end of evidence is only half shown.* `ExpiryScheduled` says that an expiry is
  scheduled while evidence is left; that it then ends needs fairness of time and was
  too large to check.
- *A closed loop stays pending.* `close` cancels the task and nobody clears
  `pending_reconciliation`; `PendingMeansRunning` speaks of a running system.

## 6. Plan

Nothing that can be proved of the properties is left open; what needs fairness stays with
TLC. What is not modelled, and why, is in section 5.
