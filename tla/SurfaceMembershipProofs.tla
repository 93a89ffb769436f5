---------------------- MODULE SurfaceMembershipProofs ----------------------
(***************************************************************************)
(* Proofs about surface membership, for every set of surfaces and lights   *)
(* and every confirmation delay.                                           *)
(***************************************************************************)
EXTENDS SurfaceMembership, TLAPS

-----------------------------------------------------------------------------
(* The inductive invariant *)

\* A light that a pending report lacks has been missing for as long.
MissingAsLong ==
  \A g \in Surfaces : pending[g] # Nothing =>
    \A l \in Lights \ pending[g].observed :
      missing[g][l] # Present /\ missing[g][l] >= pending[g].age

MembershipInv == TypeOK /\ MissingAsLong

-----------------------------------------------------------------------------
(* Steps *)

LEMMA InitInv ==
  Init => MembershipInv
  <1> SUFFICES ASSUME Init
               PROVE  MembershipInv
    OBVIOUS
  <1>1. UNION {members[g] : g \in Surfaces} \subseteq seen /\ seen \subseteq Lights
    BY DEF Init
  <1>2. missing \in [Surfaces -> [Lights -> Ages]]
    BY MembershipAssumption DEF Init, Ages, Present
  <1>3. thread \in Threads /\ behind \subseteq Surfaces
    BY DEF Init, Threads
  <1> QED BY <1>1, <1>2, <1>3 DEF Init, MembershipInv, TypeOK, MissingAsLong, Ages

\* Ages count up to the confirmation delay.
LEMMA Aging ==
  ASSUME NEW age \in Ages
  PROVE  /\ Older(age) \in Ages /\ (Older(age) = Nothing <=> age = Nothing)
         /\ age \in 0..Confirm => Older(age) \in 0..Confirm
         /\ \A other \in 0..Confirm : age # Nothing /\ age >= other =>
              Older(other) \in 0..Confirm /\ Older(age) >= Older(other)
  BY MembershipAssumption DEF Older, Ages

\* What the invariant says of one surface's pending report.
PendingSound(g) ==
  pending[g] # Nothing =>
    /\ pending[g] \in [observed : (SUBSET Lights) \ {{}}, age : 0..Confirm]
    /\ ~(members[g] \subseteq pending[g].observed)
    /\ \A l \in Lights \ pending[g].observed :
         missing[g][l] # Present /\ missing[g][l] >= pending[g].age

LEMMA Parts ==
  ASSUME MembershipInv
  PROVE  /\ {reported, members} \subseteq [Surfaces -> SUBSET Lights]
         /\ UNION {members[g] : g \in Surfaces} \subseteq seen /\ seen \subseteq Lights
         /\ timer \in Ages /\ unread \in BOOLEAN /\ behind \subseteq Surfaces
         /\ thread \in Threads
         /\ missing \in [Surfaces -> [Lights -> Ages]]
         /\ \A g \in Surfaces : PendingSound(g)
  BY DEF MembershipInv, TypeOK, MissingAsLong, PendingSound

\* One reading of the topology, however old it is when it is applied.
LEMMA ReconciledInv ==
  ASSUME MembershipInv, NEW shown \in [Surfaces -> SUBSET Lights], Reconciled(shown),
         timer' \in Ages, unread' \in BOOLEAN, behind' \subseteq Surfaces,
         thread' \in Threads
  PROVE  MembershipInv'
  <1> USE DEF Reconciled
  <1>0. /\ {reported, members} \subseteq [Surfaces -> SUBSET Lights] /\ seen \subseteq Lights
        /\ missing \in [Surfaces -> [Lights -> Ages]]
        /\ \A g \in Surfaces : PendingSound(g)
    BY Parts
  <1>1. /\ members' \in [Surfaces -> SUBSET Lights]
        /\ \A g \in Surfaces : members'[g] = MembersAfter(shown, g)
    BY <1>0 DEF MembersAfter
  <1>2. UNION {members'[g] : g \in Surfaces} \subseteq seen' /\ seen' \subseteq Lights
    BY <1>0, <1>1
  <1>3. ASSUME NEW g \in Surfaces, NEW l \in Lights
        PROVE  /\ missing'[g][l] \in Ages
               /\ l \notin shown[g] /\ missing[g][l] # Present =>
                    missing'[g][l] = missing[g][l]
               /\ l \notin shown[g] /\ Read(shown, g) => missing'[g][l] # Present
    BY <1>0, MembershipAssumption DEF Ages, Present, Read
  <1>4. missing' \in [Surfaces -> [Lights -> Ages]]
    BY <1>3
  <1>5. ASSUME NEW g \in Surfaces
        PROVE  PendingSound(g)'
    <2> SUFFICES ASSUME pending'[g] # Nothing
                 PROVE  PendingSound(g)'
      BY DEF PendingSound
    <2>1. ~Adopted(shown, g) /\ members'[g] = members[g] /\ pending'[g] = PendingAfter(shown, g)
      BY <1>1 DEF PendingAfter, MembersAfter
    <2>2. CASE ~Read(shown, g) \/ SameAsPending(shown, g)
      <3>1. pending'[g] = pending[g] /\ pending[g] # Nothing
        BY <2>1, <2>2 DEF PendingAfter
      <3>2. \A l \in Lights \ pending[g].observed : l \notin shown[g]
        BY <2>2 DEF Read, SameAsPending
      <3>3. PendingSound(g)
        BY <1>0
      <3> QED BY <1>3, <2>1, <3>1, <3>2, <3>3 DEF PendingSound, Present
    <2>3. CASE Read(shown, g) /\ ~SameAsPending(shown, g)
      <3>1. pending'[g] = [observed |-> shown[g], age |-> 0]
        BY <2>1, <2>3 DEF PendingAfter
      <3>2. ~(members[g] \subseteq shown[g]) /\ shown[g] # {} /\ shown[g] \subseteq Lights
        BY <1>0, <2>1, <2>3 DEF Adopted, Read
      <3>3. \A l \in Lights \ shown[g] : missing'[g][l] # Present /\ missing'[g][l] >= 0
        BY <1>3, <2>3 DEF Ages, Present
      <3>4. 0 \in 0..Confirm
        BY MembershipAssumption
      <3>5. pending'[g] \in [observed : (SUBSET Lights) \ {{}}, age : 0..Confirm]
        BY <3>1, <3>2, <3>4
      <3>6. pending'[g].observed = shown[g] /\ pending'[g].age = 0
        BY <3>1
      <3> QED BY <2>1, <3>2, <3>3, <3>5, <3>6 DEF PendingSound, Present
    <2> QED BY <2>2, <2>3
  <1>6. reported' = reported
    OBVIOUS
  <1> HIDE DEF Reconciled
  <1> QED BY <1>0, <1>1, <1>2, <1>4, <1>5, <1>6
       DEF MembershipInv, TypeOK, MissingAsLong, PendingSound

LEMMA TickInv ==
  ASSUME MembershipInv, Tick
  PROVE  MembershipInv'
  <1>0. /\ {reported, members} \subseteq [Surfaces -> SUBSET Lights]
        /\ UNION {members[g] : g \in Surfaces} \subseteq seen /\ seen \subseteq Lights
        /\ timer \in Ages /\ unread \in BOOLEAN /\ behind \subseteq Surfaces
        /\ thread \in Threads
        /\ missing \in [Surfaces -> [Lights -> Ages]]
        /\ \A g \in Surfaces : PendingSound(g)
    BY Parts
  <1>1. timer' \in Ages
    <2>1. CASE timer = Nothing
      BY <2>1 DEF Ages, Tick
    <2>2. CASE timer \in 0..Confirm
      <3>1. timer # 0 /\ timer' = timer - 1
        BY <2>2, MembershipAssumption DEF Tick
      <3> QED BY <2>2, <3>1, MembershipAssumption DEF Ages
    <2> QED BY <1>0, <2>1, <2>2 DEF Ages
  <1>2. \A g \in Surfaces, l \in Lights : missing'[g][l] = Older(missing[g][l])
    BY DEF Tick
  <1>3. missing' \in [Surfaces -> [Lights -> Ages]]
    BY <1>0, Aging DEF Tick
  <1>4. ASSUME NEW g \in Surfaces
        PROVE  PendingSound(g)'
    <2> SUFFICES ASSUME pending'[g] # Nothing
                 PROVE  PendingSound(g)'
      BY DEF PendingSound
    <2>1. /\ pending[g] # Nothing /\ members'[g] = members[g]
          /\ pending'[g] = [pending[g] EXCEPT !.age = Older(pending[g].age)]
      BY DEF Tick
    <2>2. pending[g] \in [observed : (SUBSET Lights) \ {{}}, age : 0..Confirm]
      BY <1>0, <2>1 DEF PendingSound
    <2>3. Older(pending[g].age) \in 0..Confirm
      BY <2>2, Aging, MembershipAssumption DEF Ages
    <2>4. pending'[g].observed = pending[g].observed /\ pending'[g].age = Older(pending[g].age)
      BY <2>1, <2>2
    <2>5. \A l \in Lights \ pending[g].observed :
            missing'[g][l] # Present /\ missing'[g][l] >= Older(pending[g].age)
      BY <1>0, <1>2, <2>1, <2>2, Aging DEF PendingSound, Present
    <2>6. pending'[g] \in [observed : (SUBSET Lights) \ {{}}, age : 0..Confirm]
      BY <2>1, <2>2, <2>3
    <2> QED BY <1>0, <2>1, <2>4, <2>5, <2>6 DEF PendingSound, Present
  <1>5. UNCHANGED <<reported, members, seen, unread, thread, behind>>
    BY DEF Tick
  <1> QED BY <1>0, <1>1, <1>3, <1>4, <1>5
       DEF MembershipInv, TypeOK, MissingAsLong, PendingSound

\* What confirm holds is a reading.
LEMMA ShownTyped ==
  ASSUME MembershipInv, thread.pc = "read"
  PROVE  thread.shown \in [Surfaces -> SUBSET Lights]
  <1>1. Idle.pc # "read" /\ Fired.pc # "read"
    BY DEF Idle, Fired
  <1>2. PICK shown \in [Surfaces -> SUBSET Lights] : thread = Holding(shown)
    BY <1>1, Parts DEF Threads
  <1> QED BY <1>2 DEF Holding

LEMMA StepInv ==
  MembershipInv /\ [Next]_vars => MembershipInv'
  <1> SUFFICES ASSUME MembershipInv, [Next]_vars
               PROVE  MembershipInv'
    OBVIOUS
  <1>1. ASSUME NEW g \in Surfaces, NEW lights \in SUBSET Lights, Report(g, lights)
        PROVE  MembershipInv'
    BY <1>1 DEF Report, MembershipInv, TypeOK, MissingAsLong
  <1>2. CASE HandleReport \/ Refresh
    <2>1. Scheduled(reported) \in Ages /\ reported \in [Surfaces -> SUBSET Lights]
      BY Parts, MembershipAssumption DEF Scheduled, Ages
    <2> QED BY <1>2, <2>1, Parts, ReconciledInv DEF HandleReport, Refresh
  <1>3. CASE ConfirmFires \/ ConfirmReads
    <2>1. /\ timer' \in Ages /\ thread' \in Threads
          /\ UNCHANGED <<reported, members, seen, pending, unread, missing, behind>>
      BY <1>3, Parts DEF ConfirmFires, ConfirmReads, Threads, Ages
    <2> QED BY <2>1 DEF MembershipInv, TypeOK, MissingAsLong
  <1>4. CASE ConfirmApplies
    <2>1. thread.shown \in [Surfaces -> SUBSET Lights]
      BY <1>4, ShownTyped DEF ConfirmApplies
    <2>2. Scheduled(thread.shown) \in Ages
      BY Parts, MembershipAssumption DEF Scheduled, Ages
    <2>3. timer' \in Ages /\ unread' \in BOOLEAN /\ behind' \subseteq Surfaces /\ thread' \in Threads
      BY <1>4, <2>2, Parts DEF ConfirmApplies, Threads
    <2> QED BY <1>4, <2>1, <2>3, ReconciledInv DEF ConfirmApplies
  <1>5. CASE UNCHANGED vars
    BY <1>5 DEF vars, MembershipInv, TypeOK, MissingAsLong
  <1> QED BY <1>1, <1>2, <1>3, <1>4, <1>5, TickInv DEF Next

LEMMA InvHolds == Spec => []MembershipInv
  BY InitInv, StepInv, PTL DEF Spec

-----------------------------------------------------------------------------
(* Theorems *)

\* Every reachable state has its type; what waits for confirmation is a removal.
THEOREM TypeInvariant == Spec => []TypeOK
  <1>1. MembershipInv => TypeOK
    BY DEF MembershipInv
  <1> QED BY <1>1, InvHolds, PTL

\* A surface drops a light only if every reading of it that was applied during the
\* last Confirm lacked that light, also when the loop reads and adopts something else
\* while confirm is under way in its thread (_reconcile_surface_membership).
THEOREM RemovalsConfirmed == Spec => OnlyConfirmedRemovals
  <1>1. ASSUME MembershipInv, [Next]_vars
        PROVE  \A g \in Surfaces : \A l \in members[g] \ members'[g] :
                 missing'[g][l] = Confirm
    <2> SUFFICES ASSUME NEW g \in Surfaces, NEW l \in members[g], l \notin members'[g]
                 PROVE  missing'[g][l] = Confirm
      OBVIOUS
    <2>1. PICK shown \in [Surfaces -> SUBSET Lights] : Reconciled(shown)
      <3>1. CASE HandleReport \/ Refresh
        BY <1>1, <3>1, Parts DEF HandleReport, Refresh
      <3>2. CASE ConfirmApplies
        BY <1>1, <3>2, ShownTyped DEF ConfirmApplies
      <3> QED
        BY <1>1, <3>1, <3>2 DEF Next, vars, Report, ConfirmFires, ConfirmReads, Tick
    <2>2. Confirmed(shown, g) /\ l \notin shown[g] /\ l \in Lights
      BY <1>1, <2>1, Parts DEF Reconciled, MembersAfter, Adopted
    <2>3. /\ missing[g][l] \in Ages /\ missing[g][l] # Present
          /\ missing[g][l] >= pending[g].age /\ pending[g].age >= Confirm
      BY <1>1, <2>2 DEF Confirmed, SameAsPending, MembershipInv, TypeOK, MissingAsLong
    <2>4. missing[g][l] \in 0..Confirm /\ pending[g].age \in 0..Confirm
      BY <1>1, <2>2, <2>3 DEF Ages, Present, Confirmed, SameAsPending, MembershipInv, TypeOK
    <2>5. missing[g][l] = Confirm
      BY <2>3, <2>4, MembershipAssumption
    <2> QED BY <1>1, <2>1, <2>2, <2>3, <2>5 DEF Reconciled, MembershipInv, TypeOK
  <1> QED BY <1>1, InvHolds, PTL DEF Spec, OnlyConfirmedRemovals
=============================================================================
