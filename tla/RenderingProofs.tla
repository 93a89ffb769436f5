-------------------------- MODULE RenderingProofs --------------------------
(***************************************************************************)
(* Proofs about rendering, for every set of lights, every number of        *)
(* requests in flight and whatever happens at their awaits.                *)
(***************************************************************************)
EXTENDS Rendering, TLAPS

-----------------------------------------------------------------------------
(* The inductive invariant *)

Call ==
  [pc : Pcs, service : Services, targets : SUBSET Lights, initial : View,
   allowed : SUBSET Lights, mode : Modes, todo : SUBSET Lights, now : SUBSET Lights]

\* Awaits of a request that has a plan, and of one whose way to send is chosen.
Planned == {"rearm", "rearming", "planned", "check", "mark", "recheck", "sent"}
Chosen == {"check", "mark", "recheck", "sent"}

\* The lights that the homeowner owned, or was about to own, when c began.
Foreign(c) == c.initial.protected \cup c.initial.pending

\* A plan keeps away from the lights that were foreign when the request began:
\* those it may command, those it has still to send, and, for a scene recalled
\* whole, all lights of the scene.
PlanSound(c) ==
  /\ c.pc \in Planned => c.allowed \cap Foreign(c) = {}
  /\ c.pc \in Chosen => c.todo \subseteq c.allowed
  /\ c.pc \in Chosen /\ c.mode = "light" => c.now \subseteq c.allowed
  /\ c.pc \in Chosen /\ c.mode = "native" =>
       /\ c.targets \cap Foreign(c) = {}
       /\ c.todo = c.targets /\ c.now = c.targets
  /\ c.pc = "mark" /\ c.mode = "selective" => c.now = c.todo

RenderInv == TypeOK /\ \A r \in Requests : PlanSound(call[r])

\* The lights that a request has registered and not sent yet.
Registered(c) == IF c.mode = "light" THEN c.now ELSE c.todo

AtSending(r) == call[r].pc \in {"recheck", "sent"}

\* The receipt of a light is younger than the guard: the guard runs out first.
Live(l) == guard # Off /\ mark[l] # Off /\ mark[l] <= guard

\* Receipts live as long as the guard, but for lights that a re-arming has come
\* across; between the two steps of a re-arming that is every light in use.
ReceiptsLive ==
  /\ guard # Off =>
       \A r \in Requests : AtSending(r) => \A l \in Registered(call[r]) \ shaken : Live(l)
  /\ \A l \in echo \ shaken : Live(l)
  /\ guard = Off /\ (\E q \in Requests : call[q].pc = "rearming") =>
       \A r \in Requests : AtSending(r) => Registered(call[r]) \subseteq shaken

-----------------------------------------------------------------------------
(* Requests *)

\* The parts of the world that have a type.
WorldTyped ==
  /\ view \in View /\ {lost, echo, shaken} \subseteq SUBSET Lights
  /\ guard \in (0..(Ttl - 1)) \cup {Off} /\ mark \in [Lights -> Age]

LEMMA Parts ==
  RenderInv <=> /\ WorldTyped /\ call \in [Requests -> Call]
                /\ \A r \in Requests : PlanSound(call[r])
  BY DEF RenderInv, TypeOK, WorldTyped, Call

\* The call of one request is replaced by another sound one.
LEMMA Replaced ==
  ASSUME RenderInv, NEW r \in Requests, NEW c \in Call, PlanSound(c),
         call' = [call EXCEPT ![r] = c], WorldTyped'
  PROVE  RenderInv'
  <1>1. call' \in [Requests -> Call] /\ \A q \in Requests : PlanSound(call'[q])
    BY Parts
  <1> QED BY <1>1 DEF RenderInv, TypeOK, WorldTyped, Call

\* A call that has ended.
LEMMA IdleSound ==
  Idle \in Call /\ PlanSound(Idle)
  <1>1. Fresh \in View
    BY DEF Fresh, View
  <1>2. Idle \in Call
    BY <1>1 DEF Idle, Call, Pcs, Services, Modes
  <1> QED BY <1>2 DEF Idle, PlanSound, Planned, Chosen

LEMMA ReturnInv ==
  ASSUME RenderInv, NEW r \in Requests, Return(r), WorldTyped'
  PROVE  RenderInv'
  BY IdleSound, Replaced DEF Return

\* As long as the fence holds, what is foreign now was foreign at the beginning.
LEMMA FenceHolds ==
  ASSUME NEW c \in Call, ProjectionCurrent(c.initial)
  PROVE  view.protected \cup view.pending = Foreign(c)
  BY DEF ProjectionCurrent, Foreign

LEMMA BeginInv ==
  ASSUME RenderInv, NEW r \in Requests, NEW service \in Services,
         NEW targets \in SUBSET Lights, Begin(r, service, targets)
  PROVE  RenderInv'
  <1> DEFINE c == [Idle EXCEPT !.pc = "owners", !.initial = view,
                               !.service = service, !.targets = targets]
  <1>1. c \in Call /\ c.pc = "owners"
    BY IdleSound, Parts DEF Call, Pcs, WorldTyped
  <1>2. PlanSound(c)
    BY <1>1 DEF PlanSound, Planned, Chosen
  <1>3. call' = [call EXCEPT ![r] = c] /\ WorldTyped'
    BY Parts DEF Begin, world, WorldTyped, View, Age
  <1> HIDE DEF c
  <1> QED BY <1>1, <1>2, <1>3, Replaced

\* A request that goes on to another await of the same stage.
LEMMA MovesOn ==
  ASSUME RenderInv, NEW r \in Requests, NEW pc \in Pcs,
         call' = [call EXCEPT ![r].pc = pc], WorldTyped',
         pc \in Planned => call[r].pc \in Planned,
         pc \in Chosen => call[r].pc \in Chosen,
         pc = "mark" => call[r].mode # "selective"
  PROVE  RenderInv'
  <1> DEFINE c == [call[r] EXCEPT !.pc = pc]
  <1>1. call[r] \in Call /\ PlanSound(call[r])
    BY Parts
  <1>2. /\ c \in Call /\ c.pc = pc /\ c.targets = call[r].targets
        /\ c.initial = call[r].initial /\ c.allowed = call[r].allowed
        /\ c.mode = call[r].mode /\ c.todo = call[r].todo /\ c.now = call[r].now
    BY <1>1 DEF Call
  <1>3. PlanSound(c)
    BY <1>1, <1>2 DEF PlanSound, Foreign
  <1>4. call' = [call EXCEPT ![r] = c]
    BY Parts
  <1> HIDE DEF c
  <1> QED BY <1>2, <1>3, <1>4, Replaced

LEMMA ResolveInv ==
  ASSUME RenderInv, NEW r \in Requests, Resolve(r)
  PROVE  RenderInv'
  <1>1. WorldTyped'
    BY Parts DEF Resolve, world, WorldTyped, View, Age
  <1>2. CASE ProjectionCurrent(call[r].initial)
    BY <1>1, <1>2, MovesOn DEF Resolve, Pcs, Planned, Chosen
  <1>3. CASE ~ProjectionCurrent(call[r].initial)
    BY <1>1, <1>3, ReturnInv DEF Resolve
  <1> QED BY <1>2, <1>3

LEMMA PlanInv ==
  ASSUME RenderInv, NEW r \in Requests, Plan(r)
  PROVE  RenderInv'
  <1> DEFINE allowed == Lights \ (view.protected \cup view.pending \cup lost)
             c == [call[r] EXCEPT !.pc = "rearm", !.allowed = allowed]
  <1>1. WorldTyped'
    BY Parts DEF Plan, world, WorldTyped, View, Age
  <1>2. CASE ProjectionCurrent(call[r].initial) /\ allowed # {}
    <2>1. call' = [call EXCEPT ![r] = c] /\ call[r] \in Call
      BY <1>2, Parts DEF Plan
    <2>2. /\ c \in Call /\ c.pc = "rearm" /\ c.allowed = allowed
          /\ c.initial = call[r].initial
      BY <2>1 DEF Call, Pcs
    <2>3. PlanSound(c)
      BY <1>2, <2>1, <2>2, FenceHolds DEF PlanSound, Chosen, Foreign
    <2> HIDE DEF c
    <2> QED BY <1>1, <2>1, <2>2, <2>3, Replaced
  <1>3. CASE ~(ProjectionCurrent(call[r].initial) /\ allowed # {})
    BY <1>1, <1>3, ReturnInv DEF Plan
  <1> QED BY <1>2, <1>3

LEMMA RearmInv ==
  ASSUME RenderInv, NEW r \in Requests, RearmOff(r) \/ RearmOn(r)
  PROVE  RenderInv'
  <1>1. InUse(r) \subseteq Lights
    BY Parts DEF InUse, WorldTyped, Call
  <1>2. WorldTyped'
    BY <1>1, Parts, RenderingAssumption DEF RearmOff, RearmOn, WorldTyped, View, Age
  <1> QED
    BY <1>2, MovesOn DEF RearmOff, RearmOn, Waiting, Pcs, Planned, Chosen

LEMMA ChooseInv ==
  ASSUME RenderInv, NEW r \in Requests, Choose(r)
  PROVE  RenderInv'
  <1> DEFINE todo == call[r].targets \cap Eligible(r)
             mode == IF call[r].service = "light" THEN "light"
                     ELSE IF RecallsWhole(r) THEN "native" ELSE "selective"
             c == [call[r] EXCEPT !.mode = mode, !.todo = todo,
                     !.now = IF mode = "light" THEN {} ELSE todo,
                     !.pc = IF mode = "selective" THEN "mark" ELSE "check"]
  <1>1. WorldTyped' /\ call[r] \in Call /\ PlanSound(call[r]) /\ call[r].pc = "planned"
    BY Parts DEF Choose, Waiting, world, WorldTyped, View, Age
  <1>2. CASE Valid(r) /\ todo # {}
    <2>1. call' = [call EXCEPT ![r] = c]
      BY <1>2, Parts DEF Choose
    <2>2. mode \in Modes /\ todo \in SUBSET Lights
      BY <1>1 DEF Modes, Call
    <2>3. /\ c \in Call /\ c.mode = mode /\ c.todo = todo
          /\ c.now = (IF mode = "light" THEN {} ELSE todo)
          /\ c.pc = (IF mode = "selective" THEN "mark" ELSE "check")
          /\ c.initial = call[r].initial /\ c.allowed = call[r].allowed
          /\ c.targets = call[r].targets
      <3> HIDE DEF mode, todo
      <3> QED BY <1>1, <2>2 DEF Call, Pcs
    <2>4. todo \subseteq call[r].allowed /\ call[r].allowed \cap Foreign(call[r]) = {}
      BY <1>1 DEF Eligible, PlanSound, Planned
    <2>5. mode = "native" => todo = call[r].targets /\ call[r].targets \cap Foreign(call[r]) = {}
      <3>1. view.protected \cup view.pending = Foreign(call[r])
        BY <1>1, <1>2, FenceHolds DEF Valid
      <3> QED BY <1>1, <3>1 DEF RecallsWhole, Call
    <2>6. PlanSound(c)
      <3> HIDE DEF c, mode, todo
      <3> QED BY <2>3, <2>4, <2>5 DEF PlanSound, Foreign, Planned, Chosen
    <2> HIDE DEF c
    <2> QED BY <1>1, <2>1, <2>3, <2>6, Replaced
  <1>3. CASE ~(Valid(r) /\ todo # {})
    BY <1>1, <1>3, ReturnInv DEF Choose
  <1> QED BY <1>2, <1>3

\* Fewer lights remain; a scene recalled whole has none left.
LEMMA ContinueInv ==
  ASSUME RenderInv, NEW r \in Requests, NEW done, NEW next \in {"check", "recheck"},
         call[r].pc \in Chosen, Continue(r, done, next), WorldTyped',
         call[r].mode = "native" => call[r].todo \subseteq done
  PROVE  RenderInv'
  <1> DEFINE c == [call[r] EXCEPT !.todo = call[r].todo \ done, !.pc = next]
  <1>1. call[r] \in Call /\ PlanSound(call[r])
    BY Parts
  <1>2. CASE ~(call[r].todo \subseteq done)
    <2>1. call' = [call EXCEPT ![r] = c]
      BY <1>2, Parts DEF Continue
    <2>2. /\ c \in Call /\ c.pc = next /\ c.todo = call[r].todo \ done
          /\ c.initial = call[r].initial /\ c.allowed = call[r].allowed
          /\ c.targets = call[r].targets /\ c.mode = call[r].mode /\ c.now = call[r].now
      BY <1>1 DEF Call, Pcs
    <2>3. PlanSound(c)
      <3> HIDE DEF c
      <3> QED BY <1>1, <1>2, <2>2 DEF PlanSound, Foreign, Planned, Chosen
    <2> HIDE DEF c
    <2> QED BY <2>1, <2>2, <2>3, Replaced
  <1>3. CASE call[r].todo \subseteq done
    BY <1>3, ReturnInv DEF Continue
  <1> QED BY <1>2, <1>3

\* The lights of the next command are chosen among those that remain, or stay
\* the same.
LEMMA NowChosen ==
  ASSUME RenderInv, NEW r \in Requests, NEW S \in SUBSET Lights, NEW pc \in {"mark", "sent"},
         call[r].pc \in Chosen,
         call' = [call EXCEPT ![r].pc = pc, ![r].now = S], WorldTyped',
         call[r].mode = "light" => S \subseteq call[r].allowed,
         call[r].mode = "native" => S = call[r].targets,
         call[r].mode = "selective" => pc = "sent"
  PROVE  RenderInv'
  <1> DEFINE c == [call[r] EXCEPT !.pc = pc, !.now = S]
  <1>1. call[r] \in Call /\ PlanSound(call[r])
    BY Parts
  <1>2. call' = [call EXCEPT ![r] = c]
    BY Parts
  <1>3. /\ c \in Call /\ c.pc = pc /\ c.now = S /\ c.todo = call[r].todo
        /\ c.initial = call[r].initial /\ c.allowed = call[r].allowed
        /\ c.targets = call[r].targets /\ c.mode = call[r].mode
    BY <1>1 DEF Call, Pcs
  <1> HIDE DEF c
  <1>4. PlanSound(c)
    BY <1>1, <1>3 DEF PlanSound, Foreign, Planned, Chosen
  <1> QED BY <1>2, <1>3, <1>4, Replaced

LEMMA CheckInv ==
  ASSUME RenderInv, NEW r \in Requests, Check(r)
  PROVE  RenderInv'
  <1>1. WorldTyped' /\ call[r] \in Call /\ PlanSound(call[r]) /\ call[r].pc = "check"
    BY Parts DEF Check, Waiting, world, WorldTyped, View, Age
  <1>2. CASE Return(r)
    BY <1>1, <1>2, ReturnInv
  <1>3. ASSUME call[r].mode = "light", NEW l \in call[r].todo, l \in Eligible(r),
               call' = [call EXCEPT ![r].pc = "mark", ![r].now = {l}]
        PROVE  RenderInv'
    <2>1. {l} \in SUBSET Lights /\ {l} \subseteq call[r].allowed
      BY <1>1, <1>3 DEF PlanSound, Chosen, Call
    <2>2. call[r].pc \in Chosen /\ call[r].mode # "native" /\ call[r].mode # "selective"
      BY <1>1, <1>3 DEF Chosen
    <2> QED BY <1>1, <1>3, <2>1, <2>2, NowChosen
  <1>4. ASSUME call[r].mode = "light", NEW l \in call[r].todo, Continue(r, {l}, "check")
        PROVE  RenderInv'
    BY <1>1, <1>4, ContinueInv DEF Chosen
  <1>5. ASSUME call[r].mode = "native", call' = [call EXCEPT ![r].pc = "mark"]
        PROVE  RenderInv'
    BY <1>1, <1>5, MovesOn DEF Pcs, Planned, Chosen
  <1> QED BY <1>2, <1>3, <1>4, <1>5 DEF Check

LEMMA MarkInv ==
  ASSUME RenderInv, NEW r \in Requests, Mark(r)
  PROVE  RenderInv'
  <1>1. /\ call[r].pc = "mark" /\ UNCHANGED <<view, lost, guard, echo>>
        /\ shaken' \subseteq shaken
    BY DEF Mark, Waiting
  <1>2. mark' \in [Lights -> Age]
    BY Parts, RenderingAssumption DEF Mark, WorldTyped, Age
  <1>3. WorldTyped'
    BY <1>1, <1>2, Parts DEF WorldTyped, View, Age
  <1>4. CASE Return(r)
    BY <1>3, <1>4, ReturnInv
  <1>5. CASE call' = [call EXCEPT ![r].pc = "recheck"]
    BY <1>1, <1>3, <1>5, MovesOn DEF Pcs, Planned, Chosen
  <1> QED BY <1>4, <1>5 DEF Mark

LEMMA SendInv ==
  ASSUME RenderInv, NEW r \in Requests, NEW S \in SUBSET Lights, Send(r, S),
         call[r].pc = "recheck", UNCHANGED <<view, lost, guard, mark, shaken>>,
         call[r].mode = "light" => S \subseteq call[r].allowed,
         call[r].mode = "native" => S = call[r].targets
  PROVE  RenderInv'
  <1>1. WorldTyped'
    BY Parts DEF Send, WorldTyped, View, Age
  <1> QED BY <1>1, NowChosen DEF Send, Chosen

LEMMA RecheckInv ==
  ASSUME RenderInv, NEW r \in Requests, Recheck(r)
  PROVE  RenderInv'
  <1>1. /\ call[r] \in Call /\ PlanSound(call[r]) /\ call[r].pc = "recheck"
        /\ UNCHANGED <<view, lost, guard, mark, shaken>>
    BY Parts DEF Recheck, Waiting
  <1>2. UNCHANGED echo => WorldTyped'
    BY <1>1, Parts DEF WorldTyped, View, Age
  <1>3. CASE Return(r) /\ UNCHANGED echo
    BY <1>2, <1>3, ReturnInv
  <1>4. ASSUME call[r].mode = "light", Send(r, call[r].now)
        PROVE  RenderInv'
    BY <1>1, <1>4, SendInv DEF PlanSound, Chosen, Call
  <1>5. ASSUME call[r].mode = "light", Continue(r, call[r].now, "check"), UNCHANGED echo
        PROVE  RenderInv'
    BY <1>1, <1>2, <1>5, ContinueInv DEF Chosen
  <1>6. ASSUME call[r].mode = "native", Send(r, call[r].targets)
        PROVE  RenderInv'
    BY <1>1, <1>6, SendInv DEF Call
  <1>7. ASSUME call[r].mode = "selective", NEW l \in call[r].todo,
               Continue(r, {l}, "recheck"), UNCHANGED echo
        PROVE  RenderInv'
    BY <1>1, <1>2, <1>7, ContinueInv DEF Chosen
  <1>8. ASSUME call[r].mode = "selective", NEW l \in call[r].todo, Send(r, {l})
        PROVE  RenderInv'
    BY <1>1, <1>8, SendInv DEF Call
  <1> QED BY <1>3, <1>4, <1>5, <1>6, <1>7, <1>8 DEF Recheck

LEMMA FinishInv ==
  ASSUME RenderInv, NEW r \in Requests, Finish(r)
  PROVE  RenderInv'
  <1>1. WorldTyped' /\ call[r] \in Call /\ PlanSound(call[r]) /\ call[r].pc = "sent"
    BY Parts DEF Finish, Waiting, world, WorldTyped, View, Age
  <1>2. call[r].mode = "native" => call[r].todo \subseteq call[r].now
    BY <1>1 DEF PlanSound, Chosen
  <1> QED BY <1>1, <1>2, ContinueInv DEF Finish, Chosen

LEMMA RenderStep ==
  ASSUME RenderInv, NEW r \in Requests, Render(r)
  PROVE  RenderInv'
  <1>1. CASE Abandon(r)
    <2>1. WorldTyped' /\ Return(r)
      BY <1>1, Parts DEF Abandon, world, WorldTyped, View, Age
    <2> QED BY <2>1, ReturnInv
  <1>2. ASSUME NEW service \in Services, NEW targets \in (SUBSET Lights) \ {{}},
               Begin(r, service, targets)
        PROVE  RenderInv'
    BY <1>2, BeginInv
  <1> QED
    BY <1>1, <1>2, ResolveInv, PlanInv, RearmInv, ChooseInv, CheckInv, MarkInv,
       RecheckInv, FinishInv DEF Render

-----------------------------------------------------------------------------
(* The house *)

\* The house leaves the requests alone.
LEMMA HouseStep ==
  ASSUME RenderInv, House
  PROVE  RenderInv'
  <1>0. WorldTyped
    BY Parts
  <1>1. ASSUME NEW S \in SUBSET Lights, NEW reason \in {"quiet", "invalidating"},
               Publish(S, reason)
        PROVE  WorldTyped' /\ UNCHANGED call
    <2>1. view' = [view EXCEPT !.protected = S, !.revision = view.revision + 1,
                               !.reason = reason]
      BY <1>0, <1>1 DEF Publish
    <2>2. view' \in View
      <3>1. view.revision + 1 \in Nat
        BY <1>0 DEF WorldTyped, View
      <3> QED BY <1>0, <2>1, <3>1 DEF WorldTyped, View
    <2> QED BY <1>0, <1>1, <2>2 DEF Publish, WorldTyped, Age
  <1>2. ASSUME NEW l \in Lights, SingleOperation(l)
        PROVE  WorldTyped' /\ UNCHANGED call
    <2>1. view.protected \cup {l} \in SUBSET Lights /\ view.protected \ {l} \in SUBSET Lights
      BY <1>0 DEF WorldTyped, View
    <2> QED BY <1>0, <1>1, <1>2, <2>1 DEF SingleOperation
  <1>3. ASSUME NEW S \in SUBSET Lights, Release(S)
        PROVE  WorldTyped' /\ UNCHANGED call
    <2>1. view.protected \ S \in SUBSET Lights
      BY <1>0 DEF WorldTyped, View
    <2> QED BY <1>0, <1>1, <1>3, <2>1 DEF Release
  <1>4. ASSUME NEW l \in Lights, Suspect(l)
        PROVE  WorldTyped' /\ UNCHANGED call
    BY <1>0, <1>4 DEF Suspect, WorldTyped, View, Age
  <1>5. ASSUME NEW l \in Lights, Availability(l)
        PROVE  WorldTyped' /\ UNCHANGED call
    BY <1>0, <1>5 DEF Availability, WorldTyped, View, Age
  <1>6. ASSUME NEW l \in Lights, Report(l)
        PROVE  WorldTyped' /\ UNCHANGED call
    BY <1>0, <1>6 DEF Report, WorldTyped, View, Age
  <1>7. ASSUME Tick
        PROVE  WorldTyped' /\ UNCHANGED call
    <2>1. guard' \in (0..(Ttl - 1)) \cup {Off}
      BY <1>0, <1>7, RenderingAssumption DEF Tick, WorldTyped
    <2>2. \A age \in Age : Older(age) \in Age
      BY RenderingAssumption DEF Older, Age
    <2>3. mark' \in [Lights -> Age]
      BY <1>0, <1>7, <2>2 DEF Tick, WorldTyped
    <2>4. UNCHANGED <<view, lost, echo, call, shaken>>
      BY <1>0, <1>7 DEF Tick
    <2> QED BY <1>0, <2>1, <2>3, <2>4 DEF WorldTyped, View, Age
  <1>8. WorldTyped' /\ UNCHANGED call
    BY <1>2, <1>3, <1>4, <1>5, <1>6, <1>7, Zenon DEF House
  <1> QED BY <1>8 DEF RenderInv, TypeOK, WorldTyped, PlanSound, Call

LEMMA InitInv ==
  Init => RenderInv
  <1> SUFFICES ASSUME Init
               PROVE  RenderInv
    OBVIOUS
  <1>1. view \in View
    BY DEF Init, Fresh, View
  <1>2. WorldTyped
    BY <1>1 DEF Init, WorldTyped, Age
  <1>3. call \in [Requests -> Call] /\ \A r \in Requests : PlanSound(call[r])
    BY IdleSound DEF Init
  <1> QED BY <1>2, <1>3, Parts

LEMMA StepInv ==
  RenderInv /\ [Next]_vars => RenderInv'
  <1>1. ASSUME RenderInv, UNCHANGED vars
        PROVE  RenderInv'
    BY <1>1, Parts DEF vars, RenderInv, TypeOK, WorldTyped, PlanSound, Call, View, Age
  <1> QED BY <1>1, RenderStep, HouseStep DEF Next

LEMMA InvHolds == Spec => []RenderInv
  BY InitInv, StepInv, PTL DEF Spec

-----------------------------------------------------------------------------
(* Commands *)

\* What continues stands at an await again with fewer lights, or has returned.
LEMMA Continued ==
  ASSUME RenderInv, NEW r \in Requests, NEW done, NEW next \in {"check", "recheck"},
         Continue(r, done, next)
  PROVE  \/ call'[r].pc = "idle"
         \/ /\ call'[r].pc = next /\ call'[r].todo = call[r].todo \ done
            /\ call'[r].mode = call[r].mode /\ call'[r].now = call[r].now
  <1>1. call \in [Requests -> Call]
    BY Parts
  <1> QED BY <1>1 DEF Continue, Return, Idle, Call

\* What is sent.
LEMMA Sent ==
  ASSUME RenderInv, NEW r \in Requests, NEW S, Send(r, S)
  PROVE  /\ call'[r].pc = "sent" /\ call'[r].now = S
         /\ call'[r].todo = call[r].todo /\ call'[r].mode = call[r].mode
  <1>1. call \in [Requests -> Call]
    BY Parts
  <1> QED BY <1>1 DEF Send, Call

\* A step of a request changes no other one.
LEMMA OthersRest ==
  ASSUME RenderInv, NEW r \in Requests, Render(r), NEW q \in Requests, q # r
  PROVE  call'[q] = call[q]
  <1>1. call \in [Requests -> Call]
    BY Parts
  <1>2. ASSUME NEW service, NEW targets, Begin(r, service, targets)
        PROVE  call'[q] = call[q]
    BY <1>1, <1>2 DEF Begin
  <1>3. CASE Abandon(r) \/ Resolve(r) \/ Plan(r) \/ RearmOff(r) \/ RearmOn(r)
    BY <1>1, <1>3 DEF Abandon, Return, Resolve, Plan, RearmOff, RearmOn
  <1>4. CASE Choose(r)
    BY <1>1, <1>4 DEF Choose, Return
  <1>5. CASE Check(r) \/ Mark(r) \/ Finish(r)
    BY <1>1, <1>5 DEF Check, Mark, Finish, Return, Continue
  <1>6. CASE Recheck(r)
    BY <1>1, <1>6 DEF Recheck, Return, Continue, Send
  <1> QED BY <1>2, <1>3, <1>4, <1>5, <1>6 DEF Render

\* Where the steps before the recheck lead.
LEMMA Elsewhere ==
  ASSUME RenderInv, NEW r \in Requests, Render(r),
         ~RearmOff(r), ~Recheck(r), ~Mark(r), ~Finish(r)
  PROVE  call'[r].pc \notin {"recheck", "sent", "rearming"}
  <1>1. call \in [Requests -> Call] /\ Idle.pc = "idle"
    BY Parts DEF Idle
  <1>2. ASSUME NEW service, NEW targets, Begin(r, service, targets)
        PROVE  call'[r].pc = "owners"
    BY <1>1, <1>2 DEF Begin, Idle
  <1>3. CASE Abandon(r) \/ Resolve(r) \/ RearmOn(r)
    BY <1>1, <1>3 DEF Abandon, Return, Resolve, RearmOn, Call
  <1>4. CASE Plan(r)
    BY <1>1, <1>4 DEF Plan, Return, Call
  <1>5. CASE Choose(r)
    <2> DEFINE mode == IF call[r].service = "light" THEN "light"
                       ELSE IF RecallsWhole(r) THEN "native" ELSE "selective"
    <2>1. mode \in {"light", "native", "selective"}
      OBVIOUS
    <2>2. \/ Return(r)
          \/ call' = [call EXCEPT ![r].mode = mode, ![r].todo = call[r].targets \cap Eligible(r),
                        ![r].now = IF mode = "light" THEN {} ELSE call[r].targets \cap Eligible(r),
                        ![r].pc = IF mode = "selective" THEN "mark" ELSE "check"]
      BY <1>5 DEF Choose
    <2> HIDE DEF mode
    <2> QED BY <1>1, <2>1, <2>2 DEF Return, Call
  <1>6. CASE Check(r)
    <2>1. ASSUME NEW l, Continue(r, {l}, "check")
          PROVE  call'[r].pc \notin {"recheck", "sent", "rearming"}
      BY <2>1, Continued
    <2>2. CASE Return(r) \/ call' = [call EXCEPT ![r].pc = "mark"]
      BY <1>1, <2>2 DEF Return, Call
    <2>3. ASSUME NEW l, call' = [call EXCEPT ![r].pc = "mark", ![r].now = {l}]
          PROVE  call'[r].pc \notin {"recheck", "sent", "rearming"}
      BY <1>1, <2>3 DEF Call
    <2> QED BY <1>6, <2>1, <2>2, <2>3 DEF Check
  <1> QED BY <1>2, <1>3, <1>4, <1>5, <1>6 DEF Render

\* A command is sent by the step that found the plan still valid, to lights that
\* the plan allows and that are available.
LEMMA SendsValid ==
  ASSUME RenderInv, Next, NEW r \in Requests, Sends(r)
  PROVE  /\ Recheck(r) /\ Valid(r) /\ UNCHANGED <<view, lost, guard, mark, shaken>>
         /\ call'[r].now \cap (Foreign(call[r]) \cup lost) = {}
         /\ call'[r].now \subseteq Registered(call[r])
  <1>1. /\ call[r] \in Call /\ PlanSound(call[r]) /\ call[r].pc = "recheck"
        /\ call'[r].pc = "sent"
    BY Parts DEF Sends
  <1>2. Recheck(r)
    <2>1. ~House
      BY <1>1 DEF House, SingleOperation, Release, Publish, Suspect, Availability, Report, Tick
    <2>2. PICK q \in Requests : Render(q)
      BY <2>1 DEF Next
    <2>3. q = r
      BY <1>1, <2>2, OthersRest
    <2>4. ~RearmOff(r) /\ ~Mark(r) /\ ~Finish(r)
      BY <1>1 DEF RearmOff, Mark, Finish, Waiting
    <2> QED BY <1>1, <2>2, <2>3, <2>4, Elsewhere
  <1>3. UNCHANGED <<view, lost, guard, mark, shaken>>
    BY <1>2 DEF Recheck
  <1>4. ~Return(r)
    BY <1>1, Parts DEF Return, Idle
  <1>5. \A done : ~Continue(r, done, "check") /\ ~Continue(r, done, "recheck")
    BY <1>1, Continued
  <1>6. /\ Valid(r)
        /\ \/ call[r].mode = "light" /\ call[r].now \subseteq Eligible(r) /\ Send(r, call[r].now)
           \/ /\ call[r].mode = "native" /\ call[r].targets \cap lost = {}
              /\ Send(r, call[r].targets)
           \/ call[r].mode = "selective" /\ \E l \in call[r].todo \ lost : Send(r, {l})
    BY <1>2, <1>4, <1>5 DEF Recheck
  <1>7. PICK S \in SUBSET Lights :
          /\ Send(r, S) /\ S \cap lost = {}
          /\ \/ call[r].mode = "light" /\ S = call[r].now /\ S \subseteq call[r].allowed
             \/ call[r].mode = "native" /\ S = call[r].targets /\ S \cap Foreign(call[r]) = {}
             \/ call[r].mode = "selective" /\ S \subseteq call[r].todo
    <2>1. CASE call[r].mode = "light" /\ call[r].now \subseteq Eligible(r) /\ Send(r, call[r].now)
      BY <1>1, <2>1 DEF Eligible, PlanSound, Chosen, Call
    <2>2. CASE /\ call[r].mode = "native" /\ call[r].targets \cap lost = {}
               /\ Send(r, call[r].targets)
      BY <1>1, <2>2 DEF PlanSound, Chosen, Call
    <2>3. ASSUME call[r].mode = "selective", NEW l \in call[r].todo \ lost, Send(r, {l})
          PROVE  /\ Send(r, {l}) /\ {l} \cap lost = {} /\ {l} \in SUBSET Lights
                 /\ {l} \subseteq call[r].todo
      BY <1>1, <2>3 DEF Call
    <2> QED BY <1>6, <2>1, <2>2, <2>3
  <1>8. call'[r].now = S
    BY <1>7, Sent
  <1>9. call[r].allowed \cap Foreign(call[r]) = {} /\ call[r].todo \subseteq call[r].allowed
    BY <1>1 DEF PlanSound, Planned, Chosen
  <1>10. call[r].mode = "native" => call[r].todo = call[r].targets
    BY <1>1 DEF PlanSound, Chosen
  <1> QED BY <1>2, <1>3, <1>6, <1>7, <1>8, <1>9, <1>10 DEF Registered

\* Every reachable state has its type, and every plan in flight keeps away from
\* what was the homeowner's when its request began.
THEOREM TypeInvariant == Spec => []TypeOK
  <1>1. RenderInv => TypeOK
    BY DEF RenderInv
  <1> QED BY <1>1, InvHolds, PTL

\* No command reaches a light that the homeowner owns, may be about to own, or
\* that is unavailable at the moment it is sent, however many requests render
\* the surface and whatever happens while they wait (HueRenderer.render).
THEOREM NoCommandToProtected == Spec => NoProtectedDispatch
  <1>1. ASSUME RenderInv, [Next]_vars
        PROVE  \A r \in Requests : Sends(r) =>
                 call'[r].now \cap (view.protected \cup view.pending \cup lost) = {}
    <2> SUFFICES ASSUME NEW r \in Requests, Sends(r)
                 PROVE  call'[r].now \cap (view.protected \cup view.pending \cup lost) = {}
      OBVIOUS
    <2>1. Next
      BY <1>1 DEF vars, Sends
    <2>2. Valid(r) /\ call'[r].now \cap (Foreign(call[r]) \cup lost) = {}
      BY <1>1, <2>1, SendsValid
    <2>3. view.protected \cup view.pending = Foreign(call[r])
      BY <1>1, <2>2, Parts, FenceHolds DEF Valid
    <2> QED BY <2>2, <2>3
  <1> QED BY <1>1, InvHolds, PTL DEF Spec, NoProtectedDispatch

-----------------------------------------------------------------------------
(* Receipts *)

\* Receipts stay as they are, and no request has more lights registered.
LEMMA ReceiptsKept ==
  ASSUME ReceiptsLive, UNCHANGED <<guard, mark, shaken>>,
         \A l \in echo' \ shaken : Live(l),
         \A r \in Requests : AtSending(r)' =>
           AtSending(r) /\ Registered(call'[r]) \subseteq Registered(call[r]),
         \A r \in Requests : call'[r].pc = "rearming" => call[r].pc = "rearming"
  PROVE  ReceiptsLive'
  <1>1. \A l : Live(l)' <=> Live(l)
    BY DEF Live
  <1>2. \A r \in Requests : Registered(call[r])' = Registered(call'[r])
    BY DEF Registered
  <1>3. guard' # Off => \A r \in Requests : AtSending(r)' =>
          \A l \in Registered(call'[r]) \ shaken' : Live(l)'
    BY <1>1 DEF ReceiptsLive
  <1>4. \A l \in echo' \ shaken' : Live(l)'
    BY <1>1
  <1>5. guard' = Off /\ (\E q \in Requests : call'[q].pc = "rearming") =>
          \A r \in Requests : AtSending(r)' => Registered(call'[r]) \subseteq shaken'
    BY DEF ReceiptsLive
  <1> QED BY <1>2, <1>3, <1>4, <1>5 DEF ReceiptsLive

\* As time passes no receipt dies before the guard.
LEMMA ReceiptsAge ==
  ASSUME RenderInv, ReceiptsLive, Tick
  PROVE  ReceiptsLive'
  <1>1. /\ UNCHANGED <<echo, call, shaken>> /\ echo = {}
        /\ \A q \in Requests : call[q].pc # "rearming"
        /\ guard \in (0..(Ttl - 1)) \cup {Off} /\ mark \in [Lights -> Age]
        /\ call \in [Requests -> Call]
    BY Parts DEF Tick, Quick, WorldTyped
  <1>2. ASSUME guard' # Off, NEW r \in Requests, AtSending(r),
               NEW l \in Registered(call[r]) \ shaken
        PROVE  Live(l)'
    <2>1. guard # Off /\ guard' = guard + 1 /\ guard + 1 # Ttl
      BY <1>1, <1>2, RenderingAssumption DEF Tick
    <2>2. mark[l] # Off /\ mark[l] <= guard
      BY <1>2, <2>1 DEF ReceiptsLive, Live
    <2>3. l \in Lights
      BY <1>1, <1>2 DEF Registered, Call
    <2>4. mark'[l] = Older(mark[l])
      BY <2>3 DEF Tick
    <2>5. guard \in 0..(Ttl - 1) /\ mark[l] \in 0..Ttl
      BY <1>1, <2>1, <2>2, <2>3 DEF Age
    <2> QED BY <1>2, <2>1, <2>2, <2>4, <2>5, RenderingAssumption DEF Older, Live
  <1>3. \A r \in Requests : /\ AtSending(r)' <=> AtSending(r)
                            /\ Registered(call[r])' = Registered(call[r])
    BY <1>1 DEF AtSending, Registered
  <1> QED BY <1>1, <1>2, <1>3 DEF ReceiptsLive

\* A re-arming comes across whatever is in use.
LEMMA ReceiptsShaken ==
  ASSUME RenderInv, ReceiptsLive, NEW q \in Requests, RearmOff(q)
  PROVE  ReceiptsLive'
  <1>1. call \in [Requests -> Call] /\ guard' = Off /\ echo' = echo /\ shaken' = InUse(q)
    BY Parts DEF RearmOff
  <1>2. ASSUME NEW r \in Requests, AtSending(r)'
        PROVE  Registered(call[r])' \subseteq InUse(q)
    <2>1. call'[r] = call[r] /\ r # q
      BY <1>1, <1>2 DEF RearmOff, AtSending, Call
    <2> QED BY <2>1 DEF Registered, InUse
  <1>3. echo \subseteq InUse(q)
    BY DEF InUse
  <1> QED BY <1>1, <1>2, <1>3 DEF ReceiptsLive

\* Every light in use is already known to be shaken when the guard comes back.
LEMMA ReceiptsRearmed ==
  ASSUME RenderInv, ReceiptsLive, NEW q \in Requests, RearmOn(q)
  PROVE  ReceiptsLive'
  <1>1. /\ call[q].pc = "rearming" /\ UNCHANGED <<mark, echo, shaken>>
        /\ \A r \in Requests : /\ AtSending(r)' => call'[r] = call[r] /\ AtSending(r)
                               /\ call'[r].pc = "rearming" => call[r].pc = "rearming"
    BY Parts DEF RearmOn, Waiting, AtSending, Call
  <1>2. CASE guard # Off
    <2>1. guard' = guard
      BY <1>2 DEF RearmOn
    <2> QED BY <1>1, <2>1, ReceiptsKept DEF ReceiptsLive
  <1>3. CASE guard = Off
    <2>1. guard' # Off
      BY <1>3, RenderingAssumption DEF RearmOn
    <2>2. echo \subseteq shaken
      BY <1>3 DEF ReceiptsLive, Live
    <2>3. \A r \in Requests : AtSending(r)' => Registered(call[r])' \subseteq shaken
      BY <1>1, <1>3 DEF ReceiptsLive, Registered
    <2> QED BY <1>1, <2>1, <2>2, <2>3 DEF ReceiptsLive
  <1> QED BY <1>2, <1>3

\* A registration gives its lights fresh receipts under the guard.
LEMMA ReceiptsFresh ==
  ASSUME RenderInv, ReceiptsLive, NEW q \in Requests, Mark(q)
  PROVE  ReceiptsLive'
  <1>1. /\ call \in [Requests -> Call] /\ PlanSound(call[q]) /\ call[q].pc = "mark"
        /\ UNCHANGED <<guard, echo>> /\ mark \in [Lights -> Age]
        /\ guard \in (0..(Ttl - 1)) \cup {Off}
    BY Parts DEF Mark, Waiting, WorldTyped
  <1>2. CASE Return(q) /\ UNCHANGED <<mark, shaken>>
    <2>1. \A r \in Requests : call'[r] = call[r] \/ call'[r].pc = "idle"
      BY <1>1, <1>2 DEF Return, Idle
    <2> QED BY <1>1, <1>2, <2>1, ReceiptsKept DEF ReceiptsLive, AtSending
  <1>3. CASE /\ guard # Off /\ shaken' = shaken \ call[q].now
             /\ mark' = [l \in Lights |-> IF l \in call[q].now THEN 0 ELSE mark[l]]
             /\ call' = [call EXCEPT ![q].pc = "recheck"]
    <2>1. \A l \in Lights : l \in call[q].now \/ Live(l) => Live(l)'
      BY <1>1, <1>3, RenderingAssumption DEF Live
    <2>2. Registered(call'[q]) = call[q].now
      BY <1>1, <1>3 DEF Registered, PlanSound, Chosen, Call, Modes
    <2>3. ASSUME NEW r \in Requests, AtSending(r)', NEW l \in Registered(call[r])' \ shaken'
          PROVE  Live(l)'
      <3>1. l \in Registered(call'[r]) /\ l \in Lights
        <4>1. call' \in [Requests -> Call]
          BY MarkInv DEF RenderInv, TypeOK, Call
        <4> QED BY <2>3, <4>1 DEF Registered, Call
      <3>2. CASE l \in call[q].now
        BY <2>1, <3>1, <3>2
      <3>3. CASE l \notin call[q].now
        <4>1. r # q
          BY <2>2, <3>1, <3>3
        <4>2. call'[r] = call[r]
          BY <1>1, <1>3, <4>1
        <4>3. AtSending(r) /\ l \in Registered(call[r]) \ shaken
          BY <1>3, <2>3, <3>1, <3>3, <4>2 DEF AtSending
        <4> QED BY <1>3, <2>1, <3>1, <4>3 DEF ReceiptsLive
      <3> QED BY <3>2, <3>3
    <2>4. ASSUME NEW l \in echo' \ shaken'
          PROVE  Live(l)'
      <3>1. l \in Lights /\ (l \in call[q].now \/ l \in echo \ shaken)
        BY <1>1, <1>3, <2>4, Parts DEF WorldTyped
      <3> QED BY <2>1, <3>1 DEF ReceiptsLive
    <2> QED BY <1>1, <1>3, <2>3, <2>4 DEF ReceiptsLive
  <1> QED BY <1>2, <1>3 DEF Mark

\* What is sent was registered, and nothing more is registered by sending.
LEMMA ReceiptsSpent ==
  ASSUME RenderInv, ReceiptsLive, [Next]_vars, NEW q \in Requests, Recheck(q) \/ Finish(q)
  PROVE  ReceiptsLive'
  <1>1. /\ call \in [Requests -> Call] /\ AtSending(q) /\ Render(q)
        /\ UNCHANGED <<guard, mark, shaken>> /\ PlanSound(call[q])
    BY Parts DEF Recheck, Finish, Waiting, world, AtSending, Render
  <1>2. ASSUME Return(q)
        PROVE  call'[q].pc = "idle"
    BY <1>1, <1>2 DEF Return, Idle
  <1>3. ASSUME NEW done, NEW next \in {"check", "recheck"}, Continue(q, done, next),
               next = "recheck" => call[q].mode = "selective"
        PROVE  /\ call'[q].pc \in {"idle", "check", "recheck"}
               /\ AtSending(q)' => Registered(call'[q]) \subseteq Registered(call[q])
    BY <1>3, Continued DEF Registered, AtSending
  <1>4. ASSUME NEW S, Send(q, S), call[q].mode = "light" => S = call[q].now
        PROVE  call'[q].pc = "sent" /\ Registered(call'[q]) = Registered(call[q])
    BY <1>4, Sent DEF Registered
  <1>5. /\ call'[q].pc # "rearming"
        /\ AtSending(q)' => Registered(call'[q]) \subseteq Registered(call[q])
    <2>1. CASE Recheck(q)
      BY <1>2, <1>3, <1>4, <2>1 DEF Recheck, AtSending
    <2>2. CASE Finish(q)
      BY <1>3, <2>2 DEF Finish
    <2> QED BY <1>1, <2>1, <2>2
  <1>6. \A r \in Requests \ {q} : call'[r] = call[r]
    BY <1>1, OthersRest
  <1>7. \A l \in echo' \ shaken : Live(l)
    <2>1. CASE echo' = echo
      BY <2>1 DEF ReceiptsLive
    <2>2. CASE echo' # echo
      <3>1. PICK S : Send(q, S)
        BY <1>1, <2>2 DEF Recheck, Finish, world
      <3>2. Sends(q) /\ call'[q].now = S /\ echo' = echo \cup S
        BY <1>1, <2>2, <3>1, Sent DEF Sends, Send, Recheck, Finish, Waiting, world
      <3>3. S \subseteq Registered(call[q]) /\ guard # Off
        BY <1>1, <3>2, SendsValid DEF Next, Valid
      <3> QED BY <1>1, <3>2, <3>3 DEF ReceiptsLive
    <2> QED BY <2>1, <2>2
  <1> QED BY <1>1, <1>5, <1>6, <1>7, ReceiptsKept DEF AtSending

LEMMA ReceiptsStep ==
  ASSUME RenderInv, ReceiptsLive, [Next]_vars
  PROVE  ReceiptsLive'
  <1>1. CASE UNCHANGED <<guard, mark, echo, call, shaken>>
    BY <1>1, ReceiptsKept DEF ReceiptsLive, AtSending
  <1>2. ASSUME NEW l \in Lights, Report(l)
        PROVE  ReceiptsLive'
    <2>1. CASE guard # Off
      <3>1. UNCHANGED <<guard, mark, call, shaken>> /\ echo' \subseteq echo
        BY <1>2, <2>1 DEF Report
      <3> QED BY <3>1, ReceiptsKept DEF ReceiptsLive, AtSending
    <2>2. CASE guard = Off
      <3>1. echo \subseteq shaken
        BY <2>2 DEF ReceiptsLive, Live
      <3>2. UNCHANGED <<guard, call, shaken>> /\ echo' \subseteq echo
        BY <1>2 DEF Report
      <3> QED BY <2>2, <3>1, <3>2 DEF ReceiptsLive, AtSending, Registered
    <2> QED BY <2>1, <2>2
  <1>3. ASSUME NEW q \in Requests, Render(q)
        PROVE  ReceiptsLive'
    <2>1. CASE RearmOff(q) \/ RearmOn(q) \/ Mark(q) \/ Recheck(q) \/ Finish(q)
      BY <2>1, ReceiptsShaken, ReceiptsRearmed, ReceiptsFresh, ReceiptsSpent
    <2>2. CASE ~(RearmOff(q) \/ RearmOn(q) \/ Mark(q) \/ Recheck(q) \/ Finish(q))
      <3>1. UNCHANGED <<guard, mark, echo, shaken>>
        BY <1>3, <2>2 DEF Render, Begin, Abandon, Resolve, Plan, Choose, Check, world
      <3>2. call'[q].pc \notin {"recheck", "sent", "rearming"}
        BY <1>3, <2>2, Elsewhere
      <3>3. \A r \in Requests \ {q} : call'[r] = call[r]
        BY <1>3, OthersRest
      <3> QED BY <3>1, <3>2, <3>3, ReceiptsKept DEF ReceiptsLive, AtSending
    <2> QED BY <2>1, <2>2
  <1>4. CASE Tick
    BY <1>4, ReceiptsAge
  <1>5. ASSUME House, ~Tick, \A l \in Lights : ~Report(l)
        PROVE  UNCHANGED <<guard, mark, echo, call, shaken>>
    BY <1>5 DEF House, SingleOperation, Release, Publish, Suspect, Availability
  <1> QED BY <1>1, <1>2, <1>3, <1>4, <1>5 DEF Next, vars

\* However many requests render a surface, as the seven of a baseline do, each
\* command leaves while the guard is on and a receipt of its light lives, also late
\* on a scene that is sent light by light after one registration, and its report is
\* known as its echo; a re-arming of the shared guard costs no more than the
\* receipts of the lights it comes across.
THEOREM CommandsAttributed == Spec => DispatchAttributed
  <1>1. Init => ReceiptsLive
    BY DEF Init, ReceiptsLive, AtSending, Idle
  <1>2. RenderInv /\ ReceiptsLive /\ [Next]_vars => ReceiptsLive'
    BY ReceiptsStep
  <1>3. ASSUME RenderInv, ReceiptsLive, [Next]_vars
        PROVE  /\ \A r \in Requests : Sends(r) =>
                    guard # Off /\ \A l \in call'[r].now \ shaken : mark[l] # Off
               /\ \A l \in (echo \ echo') \ shaken : guard # Off /\ mark[l] # Off
    <2>1. ASSUME NEW r \in Requests, Sends(r)
          PROVE  guard # Off /\ \A l \in call'[r].now \ shaken : mark[l] # Off
      <3>1. Next
        BY <1>3, <2>1 DEF vars, Sends
      <3>2. guard # Off /\ call'[r].now \subseteq Registered(call[r]) /\ AtSending(r)
        BY <1>3, <2>1, <3>1, SendsValid DEF Valid, Sends, AtSending
      <3> QED BY <1>3, <3>2 DEF ReceiptsLive, Live
    <2>2. \A l \in (echo \ echo') \ shaken : guard # Off /\ mark[l] # Off
      BY <1>3 DEF ReceiptsLive, Live
    <2> QED BY <2>1, <2>2
  <1> QED BY <1>1, <1>2, <1>3, InvHolds, PTL DEF Spec, DispatchAttributed
=============================================================================
