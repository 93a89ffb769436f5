----------------------------- MODULE Reconciler -----------------------------
(***************************************************************************)
(* The debounce/retry loop that verifies one surface and repairs it        *)
(* (legacy/.../runtime.py) with the inspection, the repair and the event   *)
(* filter that its adapter supplies (legacy/.../__init__.py).              *)
(*                                                                         *)
(* The loop is a task that "schedule" replaces: the old one is cancelled   *)
(* at the await it stands at and unwinds later.  One action is the code    *)
(* from one await to the next, and "pc" names the await.                   *)
(***************************************************************************)
EXTENDS Integers, FiniteSets

CONSTANTS
  Commands,   \* the repairs verification can ask for on this surface
  Owners,     \* the owners of the surface and of its lights
  Unmanaged,  \* those that keep the loop's hands off: sync, manual, spa
  None        \* no command

ASSUME ReconcilerAssumption == Unmanaged \subseteq Owners /\ None \notin Commands

VARIABLES
  phase,      \* "starting" until Home Assistant has started; "stopped"
  owner,      \* the resolver's answer for the surface and for the pillars
  blocked,    \* suppression(): a running transient, a missing input, or "no"
  wrong,      \* the repairs that the lights' states call for
  other,      \* an issue without a command: "gap" is the scene recall that the
              \* bridge may only be late to confirm, "stuck" anything else
  guard,      \* the surface's guard
  echo,       \* an own repair has not shown in the group's state yet
  task,       \* the running task
  unwinding,  \* a cancelled task has not run its "finally" yet
  diag,       \* pending_reconciliation and health
  unserved,   \* history: an event the loop listens to came after the newest pass began
  sent        \* history: how often each repair was sent since the last schedule

vars == <<phase, owner, blocked, wrong, other, guard, echo, task, unwinding,
          diag, unserved, sent>>
world == <<phase, owner, blocked, wrong, other, guard, echo>>

\* The awaits: the delay; the first and the last owner resolution of inspect;
\* in repair the re-arming script's OFF and ON, the resolution after it, the
\* marker service, the resolution after that, the command; the retry delay.
Pcs == {"none", "debounce", "noting", "judging", "rearm", "rearming", "checking",
        "marking", "sending", "sent", "pause"}

MaxAttempt == 2   \* for attempt in range(3)

Ownership == [surface : Owners, pillars : BOOLEAN]
Unknown == CHOOSE o \in Ownership : TRUE

Task ==
  [pc : Pcs, attempt : 0..MaxAttempt, repaired : BOOLEAN,
   noted : Ownership, judged : Ownership,
   todo : SUBSET Commands, now : Commands \cup {None}]
Diagnosis == [pending : BOOLEAN, health : {"healthy", "repaired", "degraded"}]

\* A new task.  "now" is the command being repaired, None in the loop's own
\* inspection; "judged" is the owners the attempt's commands were found under.
Fresh == [pc |-> "debounce", attempt |-> 0, repaired |-> FALSE, noted |-> Unknown,
          judged |-> Unknown, todo |-> {}, now |-> None]
Gone == [Fresh EXCEPT !.pc = "none"]

At(await) == task.pc = await

-----------------------------------------------------------------------------
(* The loop *)

\* Mutant of Scheduled: a task that is running is left to finish.
ScheduledUnlessRunning ==
  /\ task' = IF At("none") THEN Fresh ELSE task
  /\ UNCHANGED unwinding
  /\ diag' = [diag EXCEPT !.pending = TRUE]
  /\ sent' = [c \in Commands |-> 0]

\* schedule: the running task is cancelled and a new one begins.
Scheduled ==
  /\ task' = Fresh
  /\ unwinding' = (unwinding \/ ~At("none"))
  /\ diag' = [diag EXCEPT !.pending = TRUE]
  /\ sent' = [c \in Commands |-> 0]

Done(health) ==
  /\ task' = Gone
  /\ diag' = [pending |-> FALSE, health |-> health]

\* Mutant of Settled: the last task to leave clears the flag, whoever it is.
SettledAlways(stale) == FALSE

\* finally: pending_reconciliation belongs to the current generation.
Settled(stale) == IF stale THEN diag.pending ELSE FALSE

\* A cancelled task leaves; its token is an old one.
Unwind ==
  /\ unwinding
  /\ unwinding' = FALSE
  /\ diag' = [diag EXCEPT !.pending = Settled(TRUE)]
  /\ UNCHANGED <<world, task, unserved, sent>>

\* An unusable answer, an unloaded script or a failing service.
Fail ==
  /\ task.pc \notin {"none", "debounce", "pause"}
  /\ Done("degraded")
  /\ UNCHANGED <<world, unwinding, unserved, sent>>

\* Mutant of Wake: a pass without a repair is not counted.
WakeUncounted ==
  /\ \/ At("debounce") /\ task' = [task EXCEPT !.pc = "noting"]
     \/ At("pause") /\ task' = [task EXCEPT !.pc = "noting",
                         !.attempt = IF task.repaired THEN @ + 1 ELSE @]
  /\ UNCHANGED <<world, unwinding, diag, unserved, sent>>

\* The next pass, after the delay or the retry delay.
Wake ==
  /\ \/ At("debounce") /\ task' = [task EXCEPT !.pc = "noting"]
     \/ At("pause") /\ task' = [task EXCEPT !.pc = "noting", !.attempt = @ + 1]
  /\ UNCHANGED <<world, unwinding, diag, unserved, sent>>

\* inspect, up to the Hue requests.
Note ==
  /\ At("noting")
  /\ task' = [task EXCEPT !.pc = "judging", !.noted = owner]
  /\ unserved' = (unserved /\ task.now # None)
  /\ UNCHANGED <<world, unwinding, diag, sent>>

\* Owners that differ from those noted before the Hue requests block every
\* surface of the pass.
Skips == owner # task.noted \/ blocked # "no" \/ owner.surface \in Unmanaged
Found == IF Skips THEN {} ELSE wrong
Gap == ~Skips /\ wrong = {} /\ other = "gap"
Issues == \/ ~Skips /\ (wrong # {} \/ other # "none")
          \/ owner = task.noted /\ blocked = "missing"

\* Mutant of GivesUp: one pass too many.
GivesUpLate == task.attempt > MaxAttempt \/ (Found = {} /\ ~Gap)

\* The third pass only verifies; an issue without a command is not waited for,
\* except the one that the bridge may still resolve by itself.
GivesUp == task.attempt = MaxAttempt \/ (Found = {} /\ ~Gap)

\* The next of the commands C, under the owners o, or the retry delay.  Owners that
\* are not compared any more are forgotten.
Repair(C, o) ==
  IF C = {}
    THEN task' = [task EXCEPT !.pc = "pause", !.noted = Unknown, !.judged = Unknown,
                              !.todo = {}, !.now = None]
    ELSE \E c \in C : task' = [task EXCEPT !.pc = "noting", !.noted = Unknown,
                                           !.judged = o, !.todo = C \ {c}, !.now = c]

Judge ==
  /\ At("judging") /\ task.now = None
  /\ \/ ~Issues /\ Done(IF task.repaired THEN "repaired" ELSE "healthy")
     \/ Issues /\ GivesUp /\ Done("degraded")
     \/ Issues /\ ~GivesUp /\ Repair(Found, owner) /\ UNCHANGED diag
  /\ UNCHANGED <<world, unwinding, unserved, sent>>

\* repair returns without having sent anything.
Withdraw == Repair(task.todo, task.judged)

\* repair inspects once more.
Rejudge ==
  /\ At("judging") /\ task.now # None
  /\ IF owner = task.judged /\ task.now \in Found
       THEN task' = [task EXCEPT !.pc = "rearm", !.noted = Unknown]
       ELSE Withdraw
  /\ UNCHANGED <<world, unwinding, diag, unserved, sent>>

Rearm ==
  /\ \/ At("rearm") /\ guard' = FALSE /\ task' = [task EXCEPT !.pc = "rearming"]
     \/ At("rearming") /\ guard' = TRUE /\ task' = [task EXCEPT !.pc = "checking"]
  /\ UNCHANGED <<phase, owner, blocked, wrong, other, echo, unwinding, diag, unserved, sent>>

\* Mutant of StillOurs: only suppression is looked at again.
StillOursUnlessBlocked == blocked = "no"

StillOurs == owner = task.judged /\ blocked = "no"

Check ==
  /\ At("checking")
  /\ IF StillOurs /\ task.now \in wrong
       THEN task' = [task EXCEPT !.pc = "marking"]
       ELSE Withdraw
  /\ UNCHANGED <<world, unwinding, diag, unserved, sent>>

\* The marker service raises unless the guard is on.  A light's repair passes that
\* on and ends the pass; a scene's catches it, and the next repair has its turn.
Mark ==
  /\ At("marking")
  /\ \/ guard /\ task' = [task EXCEPT !.pc = "sending"] /\ UNCHANGED diag
     \/ ~guard /\ Done("degraded")
     \/ ~guard /\ Withdraw /\ UNCHANGED diag
  /\ UNCHANGED <<world, unwinding, unserved, sent>>

\* The command is followed, or it is lost on the way to the light.
Dispatch(c) ==
  /\ task' = [task EXCEPT !.pc = "sent"]
  /\ sent' = [sent EXCEPT ![c] = @ + 1]
  /\ \/ wrong' = wrong \ {c} /\ echo' = TRUE
     \/ UNCHANGED <<wrong, echo>>

Send ==
  /\ At("sending")
  /\ IF StillOurs
       THEN Dispatch(task.now)
       ELSE Withdraw /\ UNCHANGED <<wrong, echo, sent>>
  /\ UNCHANGED <<phase, owner, blocked, other, guard, unwinding, diag, unserved>>

Sent ==
  /\ At("sent")
  /\ IF task.todo = {}
       THEN task' = [task EXCEPT !.pc = "pause", !.repaired = TRUE, !.judged = Unknown,
                                 !.now = None]
       ELSE \E c \in task.todo :
              task' = [task EXCEPT !.pc = "noting", !.repaired = TRUE,
                                   !.todo = @ \ {c}, !.now = c]
  /\ UNCHANGED <<world, unwinding, diag, unserved, sent>>

Loop == Wake \/ Note \/ Judge \/ Rejudge \/ Rearm \/ Check \/ Mark \/ Send \/ Sent

-----------------------------------------------------------------------------
(* The events that changed() lets through, and those it does not *)

Quiet == UNCHANGED <<task, unwinding, diag, unserved, sent>>

\* An event outside the loop that schedules a pass.
Heard ==
  IF phase = "running"
    THEN Scheduled /\ unserved' = TRUE
    ELSE Quiet

Start ==
  /\ phase = "starting"
  /\ phase' = "running"
  /\ Scheduled
  /\ unserved' = TRUE
  /\ UNCHANGED <<owner, blocked, wrong, other, guard, echo>>

\* close: the running task is cancelled and no other follows.
Stop ==
  /\ phase = "running"
  /\ phase' = "stopped"
  /\ task' = Gone
  /\ unwinding' = (unwinding \/ ~At("none"))
  /\ UNCHANGED <<owner, blocked, wrong, other, guard, echo, diag, unserved, sent>>

\* A window, a helper, a sync box, a door, or what Home Lighting Manager publishes.
OwnerChanges ==
  /\ \E o \in Owners \ {owner.surface} : owner' = [owner EXCEPT !.surface = o]
  /\ Heard
  /\ UNCHANGED <<phase, blocked, wrong, other, guard, echo>>

\* The pillars' window is resolved with the others and listened to by nobody.
PillarsChange ==
  /\ owner' = [owner EXCEPT !.pillars = ~@]
  /\ Quiet
  /\ UNCHANGED <<phase, blocked, wrong, other, guard, echo>>

\* A transient or an evaluator begins or ends, an input is lost or found.  The loop
\* hears of it, but for the sensor of the last recall while the guard is on.
SuppressionChanges ==
  /\ \E b \in {"no", "transient", "missing"} \ {blocked} : blocked' = b
  /\ Heard \/ (guard /\ {blocked, blocked'} = {"no", "missing"} /\ Quiet)
  /\ UNCHANGED <<phase, owner, wrong, other, guard, echo>>

\* A light changes at somebody else's hands.  The loop hears of it only if the
\* group's state changes, and not while the guard is on.
LightChanges ==
  /\ \E c \in Commands :
       wrong' = IF c \in wrong THEN wrong \ {c} ELSE wrong \cup {c}
  /\ Quiet \/ (~guard /\ Heard)
  /\ UNCHANGED <<phase, owner, blocked, other, guard, echo>>

\* Scene evidence and availability change.  A light that returns is heard; what
\* shows in the group's state or in the scene monitor, unless the guard is on.
EvidenceChanges ==
  /\ \E e \in {"none", "gap", "stuck"} \ {other} : other' = e
  /\ IF other = "stuck" THEN Heard ELSE Quiet \/ (~guard /\ Heard)
  /\ UNCHANGED <<phase, owner, blocked, wrong, guard, echo>>

\* The auto-clear automation, and renders of the evaluators.
GuardSwitches ==
  /\ guard' = ~guard
  /\ Quiet
  /\ UNCHANGED <<phase, owner, blocked, wrong, other, echo>>

\* The group's state shows the own repair: ignored under the guard, an event
\* like any other without it.
Echo ==
  /\ echo
  /\ echo' = FALSE
  /\ IF guard THEN Quiet ELSE Heard
  /\ UNCHANGED <<phase, owner, blocked, wrong, other, guard>>

House == \/ Start \/ Stop \/ OwnerChanges \/ PillarsChange \/ SuppressionChanges
         \/ LightChanges \/ EvidenceChanges \/ GuardSwitches

Init ==
  /\ phase = "starting"
  /\ owner \in Ownership
  /\ blocked = "no" /\ wrong \in SUBSET Commands /\ other = "none"
  /\ guard = FALSE /\ echo = FALSE
  /\ task = Gone /\ unwinding = FALSE
  /\ diag = [pending |-> FALSE, health |-> "degraded"]
  /\ unserved = FALSE
  /\ sent = [c \in Commands |-> 0]

Next == Loop \/ Fail \/ Unwind \/ Echo \/ House

Spec == Init /\ [][Next]_vars

\* Every await of the task returns.
FairSpec == Spec /\ WF_vars(Loop)

-----------------------------------------------------------------------------
(* Properties *)

TypeOK ==
  /\ phase \in {"starting", "running", "stopped"}
  /\ owner \in Ownership
  /\ blocked \in {"no", "transient", "missing"}
  /\ wrong \subseteq Commands
  /\ other \in {"none", "gap", "stuck"}
  /\ {guard, echo, unwinding, unserved} \subseteq BOOLEAN
  /\ task \in Task
  /\ diag \in Diagnosis
  /\ sent \in [Commands -> Nat]

\* README: at most two attempts.  Whatever fails or is ignored between them, no
\* repair is sent more than twice before the next event schedules the loop.
BudgetKept == \A c \in Commands : sent[c] <= 2

\* The loop never rests on a good verdict that is older than an event it
\* listens to: an event during any await of a pass, or while a cancelled task
\* is still unwinding, leads to a pass that began after it.
NoEventLost ==
  diag.health \in {"healthy", "repaired"} /\ ~diag.pending => ~unserved

\* pending_reconciliation tells the truth: it is set exactly while a task of
\* the current generation is on its way.
PendingMeansRunning == phase = "running" => (diag.pending <=> task.pc # "none")

\* A repair is sent only under the owners for which it was found, on a surface
\* that nothing blocks, and with no event since the pass that found it began:
\* also if owners, transients or inputs changed and changed back in between.
RepairIsCurrent ==
  [][At("sending") /\ task'.pc = "sent" =>
       owner = task.judged /\ blocked = "no" /\ ~unserved]_vars

\* Never a persistent reassert loop: once the house is quiet, the loop comes to
\* rest, although its own repairs may be ignored, may schedule it again, and
\* the evidence may never arrive.
Quiesces == <>[][~House]_vars => <>[](phase = "running" => ~diag.pending)
=============================================================================
