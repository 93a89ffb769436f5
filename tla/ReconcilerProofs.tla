-------------------------- MODULE ReconcilerProofs --------------------------
(***************************************************************************)
(* Proofs about the reconciler loop, for every set of repairs and owners.  *)
(***************************************************************************)
EXTENDS Reconciler, TLAPS

-----------------------------------------------------------------------------
(* The inductive invariant *)

\* Where a task stands tells what it is working on.
TaskShape ==
  /\ task.now \notin task.todo
  /\ task.now = None =>
       task.todo = {} /\ task.pc \in {"none", "debounce", "noting", "judging", "pause"}
  /\ task.now # None =>
       task.pc \notin {"none", "debounce", "pause"} /\ task.attempt < MaxAttempt
  /\ task.pc = "pause" => task.attempt < MaxAttempt
  /\ task.pc = "debounce" => task.attempt = 0

\* The repairs that the current attempt still has before it.
Ahead == task.todo \cup (IF task.pc = "sent" THEN {} ELSE {task.now})

\* Each attempt so far has sent a repair at most once, and the current one has
\* not sent those it still has before it.
BudgetSpent ==
  \A c \in Commands :
    /\ task.pc = "none" => sent[c] <= MaxAttempt
    /\ task.pc # "none" => sent[c] <= task.attempt + 1
    /\ c \in Ahead => sent[c] <= task.attempt
    /\ task.pc # "none" /\ task.pc # "pause" /\ task.now = None => sent[c] <= task.attempt

\* An event is unserved only while its own pass has not begun, or after that
\* pass has ended in failure.
PassIsFresh ==
  /\ unserved =>
       task.pc \in {"none", "debounce"} \/ (task.pc = "noting" /\ task.now = None)
  /\ unserved /\ ~diag.pending => diag.health = "degraded"

LoopInv == TypeOK /\ TaskShape /\ BudgetSpent /\ PassIsFresh /\ PendingMeansRunning

-----------------------------------------------------------------------------
(* Steps *)

LEMMA UnknownOwners ==
  ASSUME owner \in Ownership
  PROVE  Unknown \in Ownership
  BY DEF Unknown

\* A task that has just begun or has gone.
LEMMA FreshTask ==
  ASSUME owner \in Ownership
  PROVE  /\ Fresh \in Task /\ Gone \in Task
         /\ Fresh.pc = "debounce" /\ Fresh.attempt = 0 /\ Fresh.todo = {} /\ Fresh.now = None
         /\ Gone.pc = "none" /\ Gone.attempt = 0 /\ Gone.todo = {} /\ Gone.now = None
  <1>1. Unknown \in Ownership
    BY UnknownOwners
  <1>2. Fresh \in Task
    BY <1>1 DEF Fresh, Task, Pcs, MaxAttempt
  <1>3. /\ Fresh.pc = "debounce" /\ Fresh.attempt = 0
        /\ Fresh.todo = {} /\ Fresh.now = None
    BY DEF Fresh
  <1>4. /\ Gone \in Task
        /\ Gone.pc = "none" /\ Gone.attempt = Fresh.attempt
        /\ Gone.todo = Fresh.todo /\ Gone.now = Fresh.now
    BY <1>2 DEF Gone, Task, Pcs
  <1> QED BY <1>2, <1>3, <1>4

\* A new task starts from nothing.
LEMMA ScheduledInv ==
  ASSUME LoopInv, Scheduled, unserved' = TRUE, phase' = "running",
         owner' \in Ownership
  PROVE  /\ task' = Fresh /\ task' \in Task
         /\ unwinding' \in BOOLEAN
         /\ diag' \in Diagnosis
         /\ sent' \in [Commands -> Nat]
         /\ TaskShape' /\ BudgetSpent' /\ PassIsFresh' /\ PendingMeansRunning'
  <1>1. owner \in Ownership /\ task' = Fresh
    BY DEF Scheduled, LoopInv, TypeOK
  <1>4. /\ task' \in Task
        /\ task'.pc = "debounce" /\ task'.attempt = 0 /\ task'.todo = {} /\ task'.now = None
        /\ diag'.pending = TRUE
    BY <1>1, FreshTask DEF Scheduled, LoopInv, TypeOK, Diagnosis
  <1>5. \A c \in Commands : sent'[c] = 0
    BY DEF Scheduled
  <1>6. TaskShape'
    BY <1>4 DEF TaskShape
  <1>7. BudgetSpent'
    BY <1>4, <1>5 DEF BudgetSpent, MaxAttempt
  <1>8. PassIsFresh' /\ PendingMeansRunning'
    BY <1>4 DEF PassIsFresh, PendingMeansRunning
  <1>9. /\ unwinding' \in BOOLEAN
        /\ diag' \in Diagnosis
        /\ sent' \in [Commands -> Nat]
    BY DEF Scheduled, LoopInv, TypeOK, Diagnosis
  <1> QED BY <1>1, <1>4, <1>6, <1>7, <1>8, <1>9

\* What a quiet step leaves alone is all the loop's invariant is about.
LEMMA QuietInv ==
  ASSUME LoopInv, Quiet, phase' = phase
  PROVE  /\ task' \in Task
         /\ unwinding' \in BOOLEAN
         /\ diag' \in Diagnosis
         /\ sent' \in [Commands -> Nat] /\ unserved' \in BOOLEAN
         /\ TaskShape' /\ BudgetSpent' /\ PassIsFresh' /\ PendingMeansRunning'
  BY DEF LoopInv, Quiet, TypeOK, TaskShape, BudgetSpent, Ahead, PassIsFresh, PendingMeansRunning

\* Whatever the house does is quiet, schedules the loop, or closes it.
LEMMA HouseMoves ==
  ASSUME LoopInv, House \/ Echo
  PROVE  /\ owner' \in Ownership
         /\ blocked' \in {"no", "transient", "missing"}
         /\ wrong' \subseteq Commands
         /\ other' \in {"none", "gap", "stuck"}
         /\ {guard', echo'} \subseteq BOOLEAN
         /\ phase' \in {"starting", "running", "stopped"}
         /\ \/ Quiet /\ phase' = phase
            \/ Scheduled /\ unserved' = TRUE /\ phase' = "running"
            \/ Stop
  <1> USE DEF LoopInv, TypeOK
  <1>1. CASE Start
    BY <1>1 DEF Start
  <1>2. CASE Stop
    BY <1>2 DEF Stop
  <1>3. CASE OwnerChanges
    BY <1>3 DEF OwnerChanges, Heard, Ownership
  <1>4. CASE PillarsChange
    BY <1>4 DEF PillarsChange, Ownership
  <1>5. CASE SuppressionChanges
    BY <1>5 DEF SuppressionChanges, Heard
  <1>6. CASE LightChanges
    BY <1>6 DEF LightChanges, Heard
  <1>7. CASE EvidenceChanges
    BY <1>7 DEF EvidenceChanges, Heard
  <1>8. CASE GuardSwitches
    BY <1>8 DEF GuardSwitches
  <1>9. CASE Echo
    BY <1>9 DEF Echo, Heard
  <1> QED BY <1>1, <1>2, <1>3, <1>4, <1>5, <1>6, <1>7, <1>8, <1>9 DEF House

\* The house keeps the invariant.
LEMMA HouseInv ==
  ASSUME LoopInv, House \/ Echo
  PROVE  LoopInv'
  <1>1. CASE Quiet /\ phase' = phase
    BY <1>1, HouseMoves, QuietInv DEF LoopInv, TypeOK
  <1>2. CASE Scheduled /\ unserved' = TRUE /\ phase' = "running"
    BY <1>2, HouseMoves, ScheduledInv DEF LoopInv, TypeOK
  <1>3. CASE Stop
    <2>2. /\ task' \in Task /\ task'.pc = "none" /\ task'.attempt = 0
          /\ task'.todo = {} /\ task'.now = None
      BY <1>3, FreshTask DEF Stop, LoopInv, TypeOK
    <2>3. TypeOK'
      BY <1>3, <2>2, HouseMoves DEF Stop, LoopInv, TypeOK
    <2>4. sent' = sent /\ diag' = diag /\ unserved' = unserved /\ phase' = "stopped"
      BY <1>3 DEF Stop
    <2>5. \A c \in Commands : sent[c] <= MaxAttempt
      BY DEF LoopInv, TypeOK, Task, BudgetSpent, TaskShape, Ahead, MaxAttempt, Pcs
    <2>6. TaskShape' /\ PassIsFresh' /\ PendingMeansRunning'
      BY <2>2, <2>4 DEF LoopInv, TaskShape, PassIsFresh, PendingMeansRunning
    <2>7. BudgetSpent'
      BY <2>2, <2>4, <2>5, ReconcilerAssumption DEF BudgetSpent, Ahead
    <2> QED BY <2>3, <2>6, <2>7 DEF LoopInv
  <1> QED BY <1>1, <1>2, <1>3, HouseMoves

\* Whatever ends a pass leaves a task that is gone.
LEMMA DoneInv ==
  ASSUME LoopInv, NEW health, Done(health), task.pc # "none",
         health \in {"healthy", "repaired", "degraded"},
         health = "degraded" \/ ~unserved,
         UNCHANGED <<world, unwinding, unserved, sent>>
  PROVE  LoopInv'
  <1>1. /\ task' \in Task /\ task'.pc = "none" /\ task'.attempt = 0
        /\ task'.todo = {} /\ task'.now = None
        /\ diag' \in Diagnosis /\ diag'.pending = FALSE /\ diag'.health = health
    BY FreshTask DEF Done, LoopInv, TypeOK, Diagnosis
  <1>2. \A c \in Commands : sent[c] <= MaxAttempt
    BY DEF LoopInv, TypeOK, Task, BudgetSpent, TaskShape, Ahead, MaxAttempt, Pcs
  <1>3. sent' = sent /\ unserved' = unserved /\ phase' = phase
    BY DEF world
  <1>4. TypeOK'
    BY <1>1 DEF LoopInv, TypeOK, world
  <1>5. TaskShape' /\ PassIsFresh' /\ PendingMeansRunning'
    BY <1>1, <1>3 DEF TaskShape, PassIsFresh, PendingMeansRunning
  <1>6. BudgetSpent'
    BY <1>1, <1>2, <1>3, ReconcilerAssumption DEF BudgetSpent, Ahead
  <1> QED BY <1>4, <1>5, <1>6 DEF LoopInv

\* The task goes on to one of the commands it still has before it, or pauses.
LEMMA RepairInv ==
  ASSUME LoopInv, NEW C \in SUBSET Commands, NEW o \in Ownership, Repair(C, o),
         \A c \in C : sent[c] <= task.attempt,
         task.attempt < MaxAttempt, task.pc # "none", ~unserved,
         UNCHANGED <<world, unwinding, diag, unserved, sent>>
  PROVE  LoopInv'
  <1>1. /\ sent' = sent /\ unserved' = unserved /\ phase' = phase /\ diag' = diag
        /\ task \in Task
    BY DEF world, LoopInv, TypeOK
  <1>2. /\ task' \in Task
        /\ task'.attempt = task.attempt
        /\ \/ task'.pc = "pause" /\ task'.todo = {} /\ task'.now = None
           \/ \E c \in C : task'.pc = "noting" /\ task'.todo = C \ {c} /\ task'.now = c
    <2>1. CASE C = {}
      BY <1>1, <2>1, UnknownOwners DEF Repair, Task, Pcs, LoopInv, TypeOK
    <2>2. CASE C # {}
      <3>1. PICK c \in C : task' = [task EXCEPT !.pc = "noting", !.noted = Unknown,
                                       !.judged = o, !.todo = C \ {c}, !.now = c]
        BY <2>2 DEF Repair
      <3>2. task' \in Task
        BY <1>1, <3>1, UnknownOwners DEF Task, Pcs, LoopInv, TypeOK
      <3>3. /\ task'.attempt = task.attempt /\ task'.pc = "noting"
            /\ task'.todo = C \ {c} /\ task'.now = c
        BY <1>1, <3>1 DEF Task
      <3> QED BY <3>2, <3>3
    <2> QED BY <2>1, <2>2
  <1>3. TypeOK'
    BY <1>2 DEF LoopInv, TypeOK, world
  <1>4. TaskShape'
    BY <1>2, ReconcilerAssumption DEF TaskShape
  <1>5. \A c \in Commands : sent[c] <= task.attempt + 1
    BY DEF LoopInv, BudgetSpent
  <1>6. BudgetSpent'
    BY <1>1, <1>2, <1>5, ReconcilerAssumption DEF BudgetSpent, Ahead
  <1>7. PassIsFresh' /\ PendingMeansRunning'
    BY <1>1, <1>2 DEF LoopInv, PassIsFresh, PendingMeansRunning
  <1> QED BY <1>3, <1>4, <1>6, <1>7 DEF LoopInv

\* A step that only moves the task on within the repair of its command.
LEMMA OnwardInv ==
  ASSUME LoopInv, NEW pc \in Pcs \ {"none", "debounce", "pause", "sent"},
         task.pc \notin {"none", "debounce", "pause", "sent"}, task.now # None,
         task' \in {[task EXCEPT !.pc = pc], [task EXCEPT !.pc = pc, !.noted = Unknown]},
         UNCHANGED <<phase, owner, blocked, other, unwinding, diag, sent>>,
         guard' \in BOOLEAN, wrong' = wrong, echo' = echo, unserved' = unserved
  PROVE  LoopInv'
  <1>1. /\ task' \in Task /\ task'.pc = pc /\ task'.attempt = task.attempt
        /\ task'.todo = task.todo /\ task'.now = task.now
    BY UnknownOwners DEF LoopInv, TypeOK, Task
  <1>2. TypeOK'
    BY <1>1 DEF LoopInv, TypeOK
  <1>3. TaskShape' /\ PassIsFresh' /\ PendingMeansRunning'
    BY <1>1 DEF LoopInv, TaskShape, PassIsFresh, PendingMeansRunning
  <1>4. BudgetSpent'
    BY <1>1 DEF LoopInv, BudgetSpent, Ahead
  <1> QED BY <1>2, <1>3, <1>4 DEF LoopInv

\* A repair that sends nothing.
LEMMA WithdrawInv ==
  ASSUME LoopInv, Withdraw, task.now # None, task.pc \notin {"none", "noting", "debounce"},
         UNCHANGED <<world, unwinding, diag, unserved, sent>>
  PROVE  LoopInv'
  <1>1. /\ task.todo \in SUBSET Commands /\ task.judged \in Ownership
        /\ task.attempt < MaxAttempt /\ ~unserved
        /\ \A c \in task.todo : sent[c] <= task.attempt
    BY DEF LoopInv, TypeOK, Task, TaskShape, PassIsFresh, BudgetSpent, Ahead
  <1> QED BY <1>1, RepairInv DEF Withdraw

\* The steps of the loop keep the invariant.
LEMMA PassInv ==
  ASSUME LoopInv, Fail \/ Unwind \/ Wake \/ Note \/ Judge
  PROVE  LoopInv'
  <1> USE DEF At
  <1>1. CASE Fail
    BY <1>1, DoneInv DEF Fail
  <1>2. CASE Unwind
    <2>1. diag' = diag
      BY <1>2 DEF Unwind, Settled, LoopInv, TypeOK, Diagnosis
    <2> QED BY <1>2, <2>1 DEF Unwind, world, LoopInv, TypeOK, TaskShape, BudgetSpent, Ahead,
                              PassIsFresh, PendingMeansRunning
  <1>3. CASE Wake
    <2>1. /\ task \in Task /\ task.now = None /\ task.todo = {}
          /\ task.pc \in {"debounce", "pause"}
          /\ sent' = sent /\ unserved' = unserved /\ phase' = phase /\ diag' = diag
      BY <1>3 DEF Wake, world, LoopInv, TypeOK, TaskShape
    <2>2. /\ task' \in Task /\ task'.pc = "noting" /\ task'.now = None /\ task'.todo = {}
          /\ task'.attempt = IF task.pc = "pause" THEN task.attempt + 1 ELSE 0
      <3>1. CASE task.pc = "debounce"
        BY <1>3, <2>1, <3>1 DEF Wake, LoopInv, TaskShape, Task, Pcs
      <3>2. CASE task.pc = "pause"
        <4>1. task' = [task EXCEPT !.pc = "noting", !.attempt = @ + 1]
          BY <1>3, <3>2 DEF Wake
        <4>2. task.attempt \in 0..1
          BY <2>1, <3>2 DEF LoopInv, TaskShape, Task, MaxAttempt
        <4>3. task.attempt + 1 \in 0..2
          BY <4>2
        <4> QED BY <2>1, <3>2, <4>1, <4>3 DEF Task, Pcs, MaxAttempt
      <3> QED BY <2>1, <3>1, <3>2
    <2>3. TypeOK'
      BY <1>3, <2>2 DEF Wake, world, LoopInv, TypeOK
    <2>4. TaskShape' /\ PassIsFresh' /\ PendingMeansRunning'
      BY <2>1, <2>2 DEF LoopInv, TaskShape, PassIsFresh, PendingMeansRunning
    <2>5. \A c \in Commands : sent[c] <= task'.attempt
      BY <2>1, <2>2 DEF LoopInv, TypeOK, TaskShape, BudgetSpent
    <2>6. BudgetSpent'
      <3>1. task'.attempt \in Nat /\ \A c \in Commands : sent[c] \in Nat
        BY <2>2 DEF Task, MaxAttempt, LoopInv, TypeOK
      <3> QED BY <2>1, <2>2, <2>5, <3>1 DEF BudgetSpent
    <2> QED BY <2>3, <2>4, <2>6 DEF LoopInv
  <1>4. CASE Note
    <2>1. /\ task \in Task /\ task.pc = "noting" /\ owner \in Ownership
          /\ sent' = sent /\ phase' = phase /\ diag' = diag
          /\ unserved' = (unserved /\ task.now # None)
      BY <1>4 DEF Note, world, LoopInv, TypeOK
    <2>2. /\ task' \in Task /\ task'.pc = "judging" /\ task'.attempt = task.attempt
          /\ task'.todo = task.todo /\ task'.now = task.now
      BY <1>4, <2>1 DEF Note, Task, Pcs
    <2>3. unserved' = FALSE
      BY <2>1 DEF LoopInv, PassIsFresh, TypeOK
    <2>4. TypeOK'
      BY <1>4, <2>2, <2>3 DEF Note, world, LoopInv, TypeOK
    <2>5. TaskShape' /\ PassIsFresh' /\ PendingMeansRunning'
      BY <2>1, <2>2, <2>3 DEF LoopInv, TaskShape, PassIsFresh, PendingMeansRunning
    <2>6. BudgetSpent'
      BY <2>1, <2>2 DEF LoopInv, BudgetSpent, Ahead
    <2> QED BY <2>4, <2>5, <2>6 DEF LoopInv
  <1>5. CASE Judge
    <2>1. /\ task.pc = "judging" /\ ~unserved /\ owner \in Ownership
          /\ Found \in SUBSET Commands
          /\ \A c \in Commands : sent[c] <= task.attempt
      BY <1>5 DEF Judge, Found, LoopInv, TypeOK, PassIsFresh, BudgetSpent
    <2>2. CASE Repair(Found, owner) /\ ~GivesUp /\ UNCHANGED <<world, unwinding, diag, unserved, sent>>
      <3>1. task.attempt < MaxAttempt
        BY <2>2 DEF GivesUp, LoopInv, TypeOK, Task, MaxAttempt
      <3> QED BY <2>1, <2>2, <3>1, RepairInv
    <2>3. CASE Done("degraded")
      BY <1>5, <2>1, <2>3, DoneInv DEF Judge
    <2>4. CASE Done(IF task.repaired THEN "repaired" ELSE "healthy")
      BY <1>5, <2>1, <2>4, DoneInv DEF Judge
    <2> QED BY <1>5, <2>2, <2>3, <2>4 DEF Judge
  <1> QED BY <1>1, <1>2, <1>3, <1>4, <1>5

\* The steps of a repair keep the invariant.
LEMMA RepairStepsInv ==
  ASSUME LoopInv, Rejudge \/ Rearm \/ Check \/ Mark \/ Send \/ Sent
  PROVE  LoopInv'
  <1> USE DEF At
  <1>1. task.pc \in {"judging", "rearm", "rearming", "checking", "marking", "sending", "sent"}
        /\ task.now # None /\ task \in Task /\ ~unserved
    BY DEF Rejudge, Rearm, Check, Mark, Send, Sent, LoopInv, TypeOK, TaskShape, PassIsFresh
  <1>2. CASE Rejudge
    BY <1>1, <1>2, OnwardInv, WithdrawInv DEF Rejudge, Pcs, world, LoopInv, TypeOK
  <1>3. CASE Rearm
    BY <1>1, <1>3, OnwardInv DEF Rearm, Pcs
  <1>4. CASE Check
    BY <1>1, <1>4, OnwardInv, WithdrawInv DEF Check, Pcs, world, LoopInv, TypeOK
  <1>5. CASE Mark
    <2>1. CASE guard
      BY <1>1, <1>5, <2>1, OnwardInv DEF Mark, Pcs, world, LoopInv, TypeOK
    <2>2. CASE ~guard
      BY <1>1, <1>5, <2>2, DoneInv, WithdrawInv DEF Mark, world
    <2> QED BY <2>1, <2>2
  <1>6. CASE Send
    <2>1. CASE StillOurs
      <3>1. /\ task' = [task EXCEPT !.pc = "sent"]
            /\ sent' = [sent EXCEPT ![task.now] = @ + 1]
            /\ wrong' \subseteq Commands /\ echo' \in BOOLEAN
            /\ UNCHANGED <<phase, owner, blocked, other, guard, unwinding, diag, unserved>>
        BY <1>6, <2>1 DEF Send, Dispatch, LoopInv, TypeOK
      <3>2. /\ task' \in Task /\ task'.pc = "sent" /\ task'.attempt = task.attempt
            /\ task'.todo = task.todo /\ task'.now = task.now
            /\ task.now \in Commands /\ task.attempt \in Nat
        BY <1>1, <3>1 DEF Task, Pcs, MaxAttempt
      <3>3. /\ sent \in [Commands -> Nat] /\ sent' \in [Commands -> Nat]
            /\ \A c \in Commands : sent'[c] = IF c = task.now THEN sent[c] + 1 ELSE sent[c]
        BY <3>1, <3>2 DEF LoopInv, TypeOK
      <3>4. TypeOK'
        BY <3>1, <3>2, <3>3 DEF LoopInv, TypeOK
      <3>5. TaskShape' /\ PassIsFresh' /\ PendingMeansRunning'
        BY <1>1, <3>1, <3>2 DEF LoopInv, TaskShape, PassIsFresh, PendingMeansRunning
      <3>6. /\ sent[task.now] <= task.attempt /\ task.now \notin task.todo
            /\ \A c \in task.todo : sent[c] <= task.attempt
            /\ \A c \in Commands : sent[c] <= task.attempt + 1
            /\ task.todo \subseteq Commands
        BY <1>1, <1>6, <3>2 DEF Send, LoopInv, BudgetSpent, TaskShape, Ahead, Task
      <3>7. BudgetSpent'
        BY <1>1, <3>2, <3>3, <3>6 DEF BudgetSpent, Ahead
      <3> QED BY <3>4, <3>5, <3>7 DEF LoopInv
    <2>2. CASE ~StillOurs
      BY <1>1, <1>6, <2>2, WithdrawInv DEF Send, world
    <2> QED BY <2>1, <2>2
  <1>7. CASE Sent
    <2>1. /\ sent' = sent /\ unserved' = unserved /\ phase' = phase /\ diag' = diag
          /\ task.pc = "sent"
      BY <1>7 DEF Sent, world
    <2>2. /\ task' \in Task
          /\ task'.attempt = task.attempt
          /\ \/ task'.pc = "pause" /\ task'.todo = {} /\ task'.now = None /\ task.todo = {}
             \/ \E c \in task.todo :
                  task'.pc = "noting" /\ task'.todo = task.todo \ {c} /\ task'.now = c
      <3>1. CASE task.todo = {}
        BY <1>1, <1>7, <3>1, UnknownOwners DEF Sent, Task, Pcs, LoopInv, TypeOK
      <3>2. CASE task.todo # {}
        <4>1. PICK c \in task.todo :
                task' = [task EXCEPT !.pc = "noting", !.repaired = TRUE,
                                     !.todo = @ \ {c}, !.now = c]
          BY <1>7, <3>2 DEF Sent
        <4>2. task' \in Task
          BY <1>1, <4>1 DEF Task, Pcs
        <4>3. /\ task'.attempt = task.attempt /\ task'.pc = "noting"
              /\ task'.todo = task.todo \ {c} /\ task'.now = c
          BY <1>1, <4>1 DEF Task
        <4> QED BY <4>2, <4>3
      <3> QED BY <3>1, <3>2
    <2>3. /\ \A c \in task.todo : sent[c] <= task.attempt
          /\ \A c \in Commands : sent[c] <= task.attempt + 1
          /\ task.todo \subseteq Commands /\ task.attempt < MaxAttempt
      BY <1>1, <2>1 DEF LoopInv, BudgetSpent, TaskShape, Ahead, Task
    <2>4. TypeOK'
      BY <1>7, <2>2 DEF Sent, world, LoopInv, TypeOK
    <2>5. TaskShape'
      BY <2>2, <2>3, ReconcilerAssumption DEF TaskShape
    <2>6. BudgetSpent'
      BY <2>1, <2>2, <2>3, ReconcilerAssumption DEF BudgetSpent, Ahead
    <2>7. PassIsFresh' /\ PendingMeansRunning'
      BY <1>1, <2>1, <2>2 DEF LoopInv, PassIsFresh, PendingMeansRunning
    <2> QED BY <2>4, <2>5, <2>6, <2>7 DEF LoopInv
  <1> QED BY <1>2, <1>3, <1>4, <1>5, <1>6, <1>7

LEMMA InitInv == Init => LoopInv
  <1> SUFFICES ASSUME Init PROVE LoopInv
    OBVIOUS
  <1>1. /\ task = Gone /\ task \in Task /\ task.pc = "none" /\ task.attempt = 0
        /\ task.todo = {} /\ task.now = None
    BY FreshTask DEF Init
  <1>2. TypeOK
    BY <1>1 DEF Init, TypeOK, Diagnosis
  <1>3. TaskShape /\ PassIsFresh /\ PendingMeansRunning
    BY <1>1 DEF Init, TaskShape, PassIsFresh, PendingMeansRunning
  <1>4. BudgetSpent
    BY <1>1, ReconcilerAssumption DEF Init, BudgetSpent, Ahead, MaxAttempt
  <1> QED BY <1>2, <1>3, <1>4 DEF LoopInv

LEMMA StepInv == LoopInv /\ [Next]_vars => LoopInv'
  <1> SUFFICES ASSUME LoopInv, [Next]_vars PROVE LoopInv'
    OBVIOUS
  <1>1. CASE UNCHANGED vars
    BY <1>1 DEF vars, LoopInv, TypeOK, TaskShape, BudgetSpent, Ahead, PassIsFresh,
                PendingMeansRunning
  <1>2. CASE Next
    BY <1>2, PassInv, RepairStepsInv, HouseInv DEF Next, Loop
  <1> QED BY <1>1, <1>2

LEMMA InvHolds == Spec => []LoopInv
  BY InitInv, StepInv, PTL DEF Spec

-----------------------------------------------------------------------------
(* Theorems *)

\* Every reachable state of the loop has its type: no event, failure or
\* cancellation leaves the task or the diagnosis half written.
THEOREM LoopTypes == Spec => []TypeOK
  <1>1. LoopInv => TypeOK
    BY DEF LoopInv
  <1> QED BY <1>1, InvHolds, PTL

\* However many repairs there are, and whatever fails, is withdrawn or ignored,
\* none is sent more than twice before the next event schedules the loop.
THEOREM TwoAttempts == Spec => []BudgetKept
  <1>1. LoopInv => BudgetKept
    <2> SUFFICES ASSUME LoopInv, NEW c \in Commands PROVE sent[c] <= 2
      BY DEF BudgetKept
    <2> QED BY DEF LoopInv, TypeOK, Task, TaskShape, BudgetSpent, Ahead, MaxAttempt, Pcs
  <1> QED BY <1>1, InvHolds, PTL

\* The loop never rests on a good verdict that is older than an event it
\* listens to, for every set of repairs and owners.
THEOREM EventsServed == Spec => []NoEventLost
  <1>1. LoopInv => NoEventLost
    BY DEF LoopInv, PassIsFresh, NoEventLost
  <1> QED BY <1>1, InvHolds, PTL

\* pending_reconciliation is set exactly while a current task is on its way.
THEOREM PendingTruthful == Spec => []PendingMeansRunning
  <1>1. LoopInv => PendingMeansRunning
    BY DEF LoopInv
  <1> QED BY <1>1, InvHolds, PTL

\* A repair is sent only under the owners and for the pass that found it, on a
\* surface that nothing blocks.
THEOREM RepairsCurrent == Spec => RepairIsCurrent
  <1>1. LoopInv /\ [Next]_vars =>
          [At("sending") /\ task'.pc = "sent" =>
             owner = task.judged /\ blocked = "no" /\ ~unserved]_vars
    <2> SUFFICES ASSUME LoopInv, Next, task.pc = "sending", task'.pc = "sent"
                 PROVE  owner = task.judged /\ blocked = "no" /\ ~unserved
      BY DEF At
    <2>1. ~unserved
      BY DEF LoopInv, PassIsFresh
    <2>2. CASE House \/ Echo
      <3>1. task' # task
        OBVIOUS
      <3>2. Scheduled \/ Stop
        BY <2>2, <3>1, HouseMoves DEF Quiet
      <3> QED BY <3>2, FreshTask DEF Scheduled, Stop, LoopInv, TypeOK
    <2>3. CASE Loop \/ Fail \/ Unwind
      <3>1. CASE Send
        <4>1. CASE StillOurs
          BY <2>1, <4>1 DEF StillOurs
        <4>2. CASE ~StillOurs
          BY <3>1, <4>2 DEF Send, Withdraw, Repair, LoopInv, TypeOK, Task
        <4> QED BY <4>1, <4>2
      <3>2. CASE Fail
        BY <3>2, FreshTask DEF Fail, Done, LoopInv, TypeOK
      <3>3. CASE Unwind
        BY <3>3 DEF Unwind
      <3> QED BY <2>3, <3>1, <3>2, <3>3 DEF Loop, Wake, Note, Judge, Rejudge, Rearm, Check,
                                            Mark, Sent, At
    <2> QED BY <2>2, <2>3 DEF Next
  <1> QED BY <1>1, InvHolds, PTL DEF Spec, RepairIsCurrent
=============================================================================
