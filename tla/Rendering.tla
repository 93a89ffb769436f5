----------------------------- MODULE Rendering -----------------------------
(***************************************************************************)
(* Physical rendering of one surface                                       *)
(* (legacy/.../rendering.py and hue.py) against the ownership that Home    *)
(* Lighting Manager publishes and the attribution of its own commands      *)
(* (ha_observer.py, script.home_lighting_rearm_ha_guard).                  *)
(*                                                                         *)
(* render is a coroutine: between two awaits it runs alone, at an await    *)
(* everything else may happen.  One action is the code from one await to   *)
(* the next, and "pc" names the await a request stands at.  The resolver's *)
(* owner and the loaded scripts are compared at every fence together with  *)
(* the projection; the model leaves out their values and lets a request be *)
(* abandoned at any await instead.                                         *)
(***************************************************************************)
EXTENDS Integers, FiniteSets

CONSTANTS
  Lights,      \* the managed members of the surface, all of them light.hue
  Requests,    \* render calls in flight at the same time
  Ttl,         \* guard auto-clear and attribution TTL (8 s), in ticks
  MaxRevision, \* bound of the model: ownership mutations
  Off          \* a guard that is off, a marker that is absent

ASSUME RenderingAssumption == Ttl \in Nat \ {0} /\ MaxRevision \in Nat /\ Off \notin Nat

Services == {"light", "scene"}
Modes == {"light", "native", "selective"}

VARIABLES
  view,       \* what HLM publishes: effective_ownership and pending entities
  lost,       \* lights that are unavailable
  guard,      \* age of the surface's guard, or Off
  mark,       \* age of the newest attribution receipt of a light, or Off
  echo,       \* commanded lights whose state change has not been reported yet
  call,       \* the render requests
  shaken      \* history: lights whose receipts a re-arming has come across

vars == <<view, lost, guard, mark, echo, call, shaken>>
world == <<view, lost, guard, mark, echo, shaken>>

View ==
  [protected : SUBSET Lights,   \* records with "protected", owned by somebody else
   pending   : SUBSET Lights,   \* pending_intent_entities
   revision  : Nat,
   reason    : {"quiet", "invalidating"}]  \* is last_mutation_reason a listed one?

\* The awaits: the owner resolver (three times), the Hue bridge, the re-arming
\* script's OFF and ON, valid(), the marker service, and the command itself.
Pcs == {"idle", "owners", "read", "rearm", "rearming", "planned",
        "check", "mark", "recheck", "sent"}

Fresh == [protected |-> {}, pending |-> {}, revision |-> 0, reason |-> "quiet"]

\* A call that has not begun.
Idle == [pc |-> "idle", service |-> "light", targets |-> {}, initial |-> Fresh,
         allowed |-> {}, mode |-> "light", todo |-> {}, now |-> {}]

-----------------------------------------------------------------------------
(* The fences *)

\* Mutant of ProjectionCurrent: provisional evidence does not count.
ProjectionCurrentWithoutPending(initial) ==
  /\ view.protected = initial.protected
  /\ view.revision = initial.revision \/ view.reason # "invalidating"

\* projection_current: the same executable ownership, and either the same
\* revision or a last mutation whose reason is not an invalidating one.
ProjectionCurrent(initial) ==
  /\ view.protected = initial.protected
  /\ view.pending = initial.pending
  /\ view.revision = initial.revision \/ view.reason # "invalidating"

\* Mutant of Valid: the guard may have run out.
ValidWithoutGuard(r) == ProjectionCurrent(call[r].initial)

\* valid(), without the owners and scripts.
Valid(r) == ProjectionCurrent(call[r].initial) /\ guard # Off

Eligible(r) == call[r].allowed \ lost

Waiting(r, await) == call[r].pc = await

Return(r) == call' = [call EXCEPT ![r] = Idle]

-----------------------------------------------------------------------------
(* render *)

Begin(r, service, targets) ==
  /\ Waiting(r, "idle")
  /\ call' = [call EXCEPT ![r] = [Idle EXCEPT !.pc = "owners", !.initial = view,
                !.service = service, !.targets = targets]]
  /\ UNCHANGED world

\* The owner or the scripts have changed, the plan is obsolete, an answer is
\* unusable or a call fails.
Abandon(r) == ~Waiting(r, "idle") /\ Return(r) /\ UNCHANGED world

Resolve(r) ==
  /\ Waiting(r, "owners")
  /\ IF ProjectionCurrent(call[r].initial)
       THEN call' = [call EXCEPT ![r].pc = "read"]
       ELSE Return(r)
  /\ UNCHANGED world

\* Members and actions have been read, and the owners once more.
Plan(r) ==
  LET allowed == Lights \ (view.protected \cup view.pending \cup lost)
  IN /\ Waiting(r, "read")
     /\ IF ProjectionCurrent(call[r].initial) /\ allowed # {}
          THEN call' = [call EXCEPT ![r].pc = "rearm", ![r].allowed = allowed]
          ELSE Return(r)
     /\ UNCHANGED world

\* Lights that other requests are about to command, or that have still to report.
InUse(r) == echo \cup UNION {call[q].todo \cup call[q].now : q \in Requests \ {r}}

\* script.home_lighting_rearm_ha_guard switches the guard off, then on, whatever
\* other requests have under way.
RearmOff(r) ==
  /\ Waiting(r, "rearm")
  /\ guard' = Off
  /\ shaken' = InUse(r)
  /\ call' = [call EXCEPT ![r].pc = "rearming"]
  /\ UNCHANGED <<view, lost, mark, echo>>

\* A guard that another request has switched on stays on: its countdown starts
\* when it comes on.
RearmOn(r) ==
  /\ Waiting(r, "rearming")
  /\ guard' = IF guard = Off THEN 0 ELSE guard
  /\ call' = [call EXCEPT ![r].pc = "planned"]
  /\ UNCHANGED <<view, lost, mark, echo, shaken>>

\* Mutant of RecallsWhole: only availability decides.
RecallsWholeIfReachable(r) == call[r].targets \cap lost = {}

\* A whole scene is recalled only if it touches no protected or unavailable
\* light and every managed light is to follow it.
RecallsWhole(r) ==
  /\ call[r].targets \cap (view.protected \cup view.pending \cup lost) = {}
  /\ Lights \subseteq Eligible(r)

Choose(r) ==
  LET todo == call[r].targets \cap Eligible(r)
      mode == IF call[r].service = "light" THEN "light"
              ELSE IF RecallsWhole(r) THEN "native" ELSE "selective"
  IN /\ Waiting(r, "planned")
     /\ IF Valid(r) /\ todo # {}
          THEN call' = [call EXCEPT ![r].mode = mode, ![r].todo = todo,
                          ![r].now = IF mode = "light" THEN {} ELSE todo,
                          ![r].pc = IF mode = "selective" THEN "mark" ELSE "check"]
          ELSE Return(r)
     /\ UNCHANGED world

\* Lights still to be handled after some of them were skipped or sent.
Continue(r, done, next) ==
  IF call[r].todo \subseteq done THEN Return(r)
  ELSE call' = [call EXCEPT ![r].todo = @ \ done, ![r].pc = next]

Check(r) ==
  /\ Waiting(r, "check")
  /\ \/ ~Valid(r) /\ Return(r)
     \/ /\ Valid(r) /\ call[r].mode = "light"
        /\ \E l \in call[r].todo :
             IF l \in Eligible(r)
               THEN call' = [call EXCEPT ![r].pc = "mark", ![r].now = {l}]
               ELSE Continue(r, {l}, "check")
     \/ /\ Valid(r) /\ call[r].mode = "native"
        /\ IF call[r].targets \cap lost = {}
             THEN call' = [call EXCEPT ![r].pc = "mark"]
             ELSE Return(r)
  /\ UNCHANGED world

\* The marker service refuses unless the surface's guard is on.
Mark(r) ==
  /\ Waiting(r, "mark")
  /\ \/ guard = Off /\ Return(r) /\ UNCHANGED <<mark, shaken>>
     \/ /\ guard # Off
        /\ mark' = [l \in Lights |-> IF l \in call[r].now THEN 0 ELSE mark[l]]
        /\ shaken' = shaken \ call[r].now
        /\ call' = [call EXCEPT ![r].pc = "recheck"]
  /\ UNCHANGED <<view, lost, guard, echo>>

\* The command is sent in the same step that found the plan still valid.
Send(r, S) ==
  /\ echo' = echo \cup S
  /\ call' = [call EXCEPT ![r].pc = "sent", ![r].now = S]

Recheck(r) ==
  /\ Waiting(r, "recheck")
  /\ \/ ~Valid(r) /\ Return(r) /\ UNCHANGED echo
     \/ /\ Valid(r) /\ call[r].mode = "light"
        /\ IF call[r].now \subseteq Eligible(r)
             THEN Send(r, call[r].now)
             ELSE Continue(r, call[r].now, "check") /\ UNCHANGED echo
     \/ /\ Valid(r) /\ call[r].mode = "native"
        /\ IF call[r].targets \cap lost = {}
             THEN Send(r, call[r].targets)
             ELSE Return(r) /\ UNCHANGED echo
     \/ /\ Valid(r) /\ call[r].mode = "selective"
        /\ \E l \in call[r].todo :
             IF l \in lost THEN Continue(r, {l}, "recheck") /\ UNCHANGED echo
             ELSE Send(r, {l})
  /\ UNCHANGED <<view, lost, guard, mark, shaken>>

Finish(r) ==
  /\ Waiting(r, "sent")
  /\ Continue(r, call[r].now, IF call[r].mode = "selective" THEN "recheck" ELSE "check")
  /\ UNCHANGED world

-----------------------------------------------------------------------------
(* Home Lighting Manager and the house *)

\* A homeowner operation publishes its result before anything else runs.
Publish(protected, reason) ==
  /\ view.revision < MaxRevision
  /\ view' = [view EXCEPT !.protected = protected, !.revision = @ + 1, !.reason = reason]
  /\ UNCHANGED <<lost, guard, mark, echo, call, shaken>>

\* Manual or Manual-OFF appears on a light, is released from it, or is merely
\* confirmed (an OFF of a light that is already held off).
SingleOperation(l) ==
  \/ Publish(view.protected \cup {l}, "quiet")
  \/ Publish(view.protected \ {l}, "quiet")

\* A first group OFF, the boundary, a reset or a scope change.
Release(S) == Publish(view.protected \ S, "invalidating")

\* Provisional evidence is published without a mutation.
Suspect(l) ==
  /\ view' = [view EXCEPT !.pending = IF l \in @ THEN @ \ {l} ELSE @ \cup {l}]
  /\ UNCHANGED <<lost, guard, mark, echo, call, shaken>>

Availability(l) ==
  /\ lost' = IF l \in lost THEN lost \ {l} ELSE lost \cup {l}
  /\ UNCHANGED <<view, guard, mark, echo, call, shaken>>

\* _active_guard_for_ha_consequence: a report without a live receipt drops the
\* light's receipts and counts as somebody else's.
Report(l) ==
  /\ l \in echo
  /\ echo' = echo \ {l}
  /\ mark' = IF guard # Off THEN mark ELSE [mark EXCEPT ![l] = Off]
  /\ UNCHANGED <<view, lost, guard, call, shaken>>

\* Service calls inside the house and the bridge's state reports are quick:
\* time passes only while requests wait for the bridge.
Quick == echo = {} /\ \A r \in Requests : call[r].pc \in {"idle", "read", "sent"}

Older(age) == IF age = Off \/ age + 1 > Ttl THEN Off ELSE age + 1

Tick ==
  /\ Quick
  /\ guard # Off \/ \E l \in Lights : mark[l] # Off
  /\ guard' = IF guard = Off \/ guard + 1 = Ttl THEN Off ELSE guard + 1
  /\ mark' = [l \in Lights |-> Older(mark[l])]
  /\ UNCHANGED <<view, lost, echo, call, shaken>>

\* A homeowner may already own lights when the first request comes.
Init ==
  /\ view \in {[Fresh EXCEPT !.protected = S] : S \in SUBSET Lights}
  /\ lost = {} /\ echo = {} /\ shaken = {}
  /\ guard = Off
  /\ mark = [l \in Lights |-> Off]
  /\ call = [r \in Requests |-> Idle]

Render(r) ==
  \/ \E service \in Services, targets \in (SUBSET Lights) \ {{}} :
        Begin(r, service, targets)
  \/ Abandon(r) \/ Resolve(r) \/ Plan(r) \/ RearmOff(r) \/ RearmOn(r)
  \/ Choose(r) \/ Check(r) \/ Mark(r) \/ Recheck(r) \/ Finish(r)

House ==
  \/ \E l \in Lights : SingleOperation(l) \/ Suspect(l) \/ Availability(l) \/ Report(l)
  \/ \E S \in SUBSET Lights : Release(S)
  \/ Tick

Next == House \/ \E r \in Requests : Render(r)

Spec == Init /\ [][Next]_vars

-----------------------------------------------------------------------------
(* Properties *)

Age == (0..Ttl) \cup {Off}

TypeOK ==
  /\ view \in View
  /\ {lost, echo, shaken} \subseteq SUBSET Lights
  /\ guard \in (0..(Ttl - 1)) \cup {Off}
  /\ mark \in [Lights -> Age]
  /\ call \in [Requests -> [pc : Pcs, service : Services, targets : SUBSET Lights,
                            initial : View, allowed : SUBSET Lights, mode : Modes,
                            todo : SUBSET Lights, now : SUBSET Lights]]

Sends(r) == call[r].pc = "recheck" /\ call'[r].pc = "sent"

\* No command ever reaches a light that the homeowner owns or may be about to
\* own at the moment it is sent, nor one that is unavailable, whatever happened
\* during the awaits of the call; a whole scene is recalled only if no light of
\* it is such a light.
NoProtectedDispatch ==
  [][\A r \in Requests : Sends(r) =>
       call'[r].now \cap (view.protected \cup view.pending \cup lost) = {}]_vars

\* Home Lighting Manager knows its own commands: each leaves while the guard is on
\* and a receipt of its light is alive, also late on a scene that is sent light by
\* light after one registration, and the light's report is not taken for somebody
\* else's.  Only lights are excepted across whose registration, or report, another
\* request has re-armed the guard: requests that share a surface, as the seven of
\* a baseline do, cost each other nothing else.
DispatchAttributed ==
  [][/\ \A r \in Requests : Sends(r) =>
          guard # Off /\ \A l \in call'[r].now \ shaken : mark[l] # Off
     /\ \A l \in (echo \ echo') \ shaken : guard # Off /\ mark[l] # Off]_vars
=============================================================================
