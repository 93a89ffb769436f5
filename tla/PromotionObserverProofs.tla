------------------------ MODULE PromotionObserverProofs ------------------------
(***************************************************************************)
(* What the promotion observer guarantees for all lights, groups,          *)
(* topologies and windows.  First, provisional evidence is never left      *)
(* without a scheduled expiry.  Then, from an invariant that relates the   *)
(* quarantine of 01:59 to the evidence and the groups that wait: the types *)
(* of the observer, the shutdown's late reports that never become intent,  *)
(* and every step being one of homeowner control.  Then, from an account   *)
(* of the reports that are still evidence and of those that the ledger has *)
(* taken: no report counts twice, and what is promoted late is what the    *)
(* newest reports ask for.  Last, for houses whose lights are each on one  *)
(* surface: the reports of an armed surface last until its second OFF.     *)
(***************************************************************************)
EXTENDS PromotionObserver, TLAPS, WellFoundedInduction, FiniteSetTheorems

\* What the proof needs of an observer: attributes, of which the evidence is a
\* function of the lights and the expiry a number of ticks; and the property.
Scheduled(o) ==
  /\ o = [f \in DOMAIN o |-> o[f]]
  /\ {"retained", "expiry"} \subseteq DOMAIN o
  /\ o.retained = [l \in Leaves |-> o.retained[l]]
  /\ o.expiry \in Int /\ o.expiry >= -1
  /\ Held(o) # {} => o.expiry >= 0

-----------------------------------------------------------------------------
(* Operators that leave evidence alone or drop it *)

LEMMA WithoutKeeps ==
  ASSUME NEW o, Scheduled(o), NEW S
  PROVE  Scheduled(Without(o, S))
  BY DEF Scheduled, Without, Held

LEMMA UncalledKeeps ==
  ASSUME NEW o, Scheduled(o), NEW S
  PROVE  Scheduled(Uncalled(o, S))
  BY DEF Scheduled, Uncalled, Held

LEMMA UngroupedKeeps ==
  ASSUME NEW o, Scheduled(o), NEW S
  PROVE  Scheduled(Ungrouped(o, S))
  BY DEF Scheduled, Ungrouped, Held

LEMMA CancelledKeeps ==
  ASSUME NEW o, Scheduled(o), NEW S
  PROVE  Scheduled(Cancelled(o, S))
  BY UncalledKeeps, UngroupedKeeps DEF Cancelled

LEMMA DroppedKeeps ==
  ASSUME NEW o, Scheduled(o), NEW S
  PROVE  Scheduled(Dropped(o, S))
  BY WithoutKeeps, CancelledKeeps DEF Dropped

LEMMA RetiredKeeps ==
  ASSUME NEW o, Scheduled(o)
  PROVE  Scheduled(Retired(o))
  BY DEF Scheduled, Retired, Held

LEMMA EstablishedKeeps ==
  ASSUME NEW o, Scheduled(o), NEW S
  PROVE  Scheduled(Established(o, S))
  BY DEF Scheduled, Established, Held

LEMMA ForgottenKeeps ==
  ASSUME NEW o, Scheduled(o)
  PROVE  Scheduled(Forgotten(o))
<1> DEFINE r == Retired(o)
<1>1. Scheduled(r)
  BY RetiredKeeps
<1> HIDE DEF r
<1>2. Scheduled([r EXCEPT !.shown = {}])
  BY <1>1 DEF Scheduled, Held
<1> QED BY <1>2 DEF Forgotten, r

LEMMA SnapshottedKeeps ==
  ASSUME NEW o, Scheduled(o)
  PROVE  Scheduled(Snapshotted(o))
  BY DEF Scheduled, Snapshotted, Held

LEMMA PrunedKeeps ==
  ASSUME NEW o, Scheduled(o)
  PROVE  Scheduled(Pruned(o))
BY WithoutKeeps, UncalledKeeps DEF Pruned

LEMMA RetainedKeeps ==
  ASSUME NEW o, Scheduled(o), NEW l, NEW op
  PROVE  Scheduled(Retained(o, l, op))
<1> DEFINE p == IF o.retained[l].op \notin {"none", op} THEN Cancelled(o, {l}) ELSE o
           e == [op |-> op, seq |-> sequence + 1, age |-> 0]
<1>1. Scheduled(p)
  BY CancelledKeeps
<1> DEFINE x == IF p.expiry = -1 THEN Burst ELSE p.expiry
           r == [p EXCEPT !.retained[l] = e, !.expiry = IF @ = -1 THEN Burst ELSE @]
<1>2. x \in Int /\ x >= 0
  BY <1>1, ObserverAssumption DEF Scheduled
<1> HIDE DEF p, e
<1>3. /\ r = [f \in DOMAIN r |-> r[f]]
      /\ DOMAIN r = DOMAIN p
      /\ r.retained = [p.retained EXCEPT ![l] = e]
      /\ r.expiry = x
  BY <1>1 DEF Scheduled
<1>4. r.retained = [k \in Leaves |-> r.retained[k]]
  BY <1>1, <1>3 DEF Scheduled
<1> HIDE DEF r, x
<1>5. Scheduled(r)
  BY <1>1, <1>2, <1>3, <1>4 DEF Scheduled
<1> QED BY <1>5 DEF Retained, p, e, r

LEMMA CorrelatedKeeps ==
  ASSUME NEW o, Scheduled(o), NEW leaves, NEW groups
  PROVE  Scheduled(Correlated(o, leaves, groups))
  BY DEF Scheduled, Correlated, Held

LEMMA RevokedKeeps ==
  ASSUME NEW o, Scheduled(o)
  PROVE  Scheduled(Revoked(o))
  BY UncalledKeeps DEF Revoked

LEMMA NotedKeeps ==
  ASSUME NEW o, Scheduled(o), NEW x, NEW leaf
  PROVE  Scheduled(Noted(o, x, leaf))
  BY DEF Scheduled, Noted, Held

LEMMA WitnessedKeeps ==
  ASSUME NEW o, Scheduled(o), NEW x, NEW leaf
  PROVE  Scheduled(Witnessed(o, x, leaf))
  BY DEF Scheduled, Witnessed, Held

-----------------------------------------------------------------------------
(* Promotions: of a step only the observer matters *)

LEMMA SingleAppliedKeeps ==
  ASSUME NEW o, Scheduled(o), NEW l
  PROVE  Scheduled(SingleApplied(o, l).o)
BY WithoutKeeps, EstablishedKeeps, RetiredKeeps DEF SingleApplied, Step, Waiting

LEMMA SingleKeeps ==
  ASSUME NEW o, Scheduled(o), NEW g, NEW members
  PROVE  Scheduled(Single(o, g, members).o)
<1>1. ASSUME NEW l, NEW t
      PROVE  Scheduled([o EXCEPT !.singles[l] = t])
  BY DEF Scheduled, Held
<1> QED BY <1>1, SingleAppliedKeeps DEF Single, Step, Waiting

LEMMA GroupAppliedKeeps ==
  ASSUME NEW o, Scheduled(o), NEW g, NEW op, NEW parts
  PROVE  Scheduled(GroupApplied(o, g, op, parts).o)
BY WithoutKeeps, EstablishedKeeps, RetiredKeeps DEF GroupApplied, Step, Waiting

LEMMA ArmedOffKeeps ==
  ASSUME NEW o, Scheduled(o), NEW g
  PROVE  Scheduled(ArmedOff(o, g).o)
BY DroppedKeeps, ForgottenKeeps DEF ArmedOff, Step, Waiting

LEMMA OwnedOffKeeps ==
  ASSUME NEW o, Scheduled(o), NEW g, NEW S
  PROVE  Scheduled(OwnedOff(o, g, S).o)
BY UncalledKeeps, GroupAppliedKeeps DEF OwnedOff

LEMMA ExactKeeps ==
  ASSUME NEW o, Scheduled(o), NEW g
  PROVE  Scheduled(Exact(o, g).o)
<1> DEFINE p == Uncalled(o, o.burst.leaves)
<1>1. Scheduled(p)
  BY UncalledKeeps
<1> HIDE DEF p
<1>2. ASSUME NEW d
      PROVE  Scheduled([p EXCEPT !.deferred = @ \cup {d}])
  BY <1>1 DEF Scheduled, Held
<1>3. ASSUME NEW op, NEW parts
      PROVE  Scheduled(GroupApplied(p, g, op, parts).o)
  BY <1>1, GroupAppliedKeeps
<1> QED BY <1>1, <1>2, <1>3 DEF Exact, Step, Waiting, p

LEMMA DisplacedKeeps ==
  ASSUME NEW o, Scheduled(o), NEW x, NEW leaf, NEW clear, NEW now
  PROVE  Scheduled(Displaced(o, x, leaf, clear, now).o)
<1> DEFINE p == IF clear THEN Witnessed(o, x, leaf) ELSE o
<1>1. Scheduled(p)
  BY WitnessedKeeps
<1> HIDE DEF p
<1>2. ASSUME NEW S, NEW s
      PROVE  Scheduled(Forgotten([Established(Dropped(p, S), S) EXCEPT !.displaced[s] = Closed]))
  <2> DEFINE q == Established(Dropped(p, S), S)
  <2>1. Scheduled(q)
    BY <1>1, DroppedKeeps, EstablishedKeeps
  <2> HIDE DEF q
  <2>2. Scheduled([q EXCEPT !.displaced[s] = Closed])
    BY <2>1 DEF Scheduled, Held
  <2> QED BY <2>2, ForgottenKeeps DEF q
<1> QED BY <1>1, <1>2 DEF Displaced, Step, Waiting, p

-----------------------------------------------------------------------------
(* Callbacks *)

LEMMA LeafReportKeeps ==
  ASSUME Scheduled(obs), NEW l, NEW state, NEW cause, NEW clear,
         LeafReport(l, state, cause, clear)
  PROVE  Scheduled(obs')
<1> DEFINE op == IF state = "off" /\ cause # "outage" THEN "off" ELSE "appearance"
           now == [lights EXCEPT ![l] = state]
           o0 == IF cause = "witnessed" /\ op = "appearance" THEN Established(obs, {l}) ELSE obs
           automatic == Automatic(o0, l, op, cause)
           o1 == Snapshotted(IF OtherSurface(o0, l) THEN Forgotten(o0) ELSE o0)
           o2 == Pruned(IF automatic THEN Dropped(o1, {l}) ELSE Retained(o1, l, op))
           o3 == IF op = "off" THEN o2 ELSE Noted(o2, l, ~automatic)
           o4 == Revoked(Correlated(o3, {l}, {}))
<1>1. Scheduled(o0)
  BY EstablishedKeeps
<1>2. Scheduled(o1)
  <2> HIDE DEF o0
  <2> QED BY <1>1, ForgottenKeeps, SnapshottedKeeps
<1>3. Scheduled(o2)
  <2> HIDE DEF o1, automatic
  <2> QED BY <1>2, DroppedKeeps, RetainedKeeps, PrunedKeeps
<1>4. Scheduled(o3)
  <2> HIDE DEF o2, automatic
  <2> QED BY <1>3, NotedKeeps
<1>5. Scheduled(o4)
  <2> HIDE DEF o3
  <2> QED BY <1>4, CorrelatedKeeps, RevokedKeeps
<1>6. Scheduled(Displaced(o4, l, TRUE, clear, now).o)
  <2> HIDE DEF o4, now
  <2> QED BY <1>5, DisplacedKeeps
<1>7. obs' \in {o3, o4, Displaced(o4, l, TRUE, clear, now).o}
  BY DEF LeafReport, Becomes, Waiting, Step
<1> HIDE DEF o3, o4, now
<1> QED BY <1>4, <1>5, <1>6, <1>7

LEMMA AggregateReportKeeps ==
  ASSUME Scheduled(obs), NEW g, NEW op, NEW clear, AggregateReport(g, op, clear)
  PROVE  Scheduled(obs')
<1> DEFINE o0 == Looked(obs, g)
           members == o0.cache[g]
           o1 == Pruned(Snapshotted(o0))
           o2 == IF op = "off" THEN o1 ELSE Noted(o1, g, FALSE)
           o3 == Revoked(Correlated(o2, {}, {g}))
           shift == IF op = "off" THEN Waiting(o3) ELSE Displaced(o3, g, FALSE, clear, lights)
<1>1. Scheduled(o0)
  BY DEF Scheduled, Held, Looked
<1>2. Scheduled(o1)
  <2> HIDE DEF o0
  <2> QED BY <1>1, SnapshottedKeeps, PrunedKeeps
<1>3. Scheduled(o2)
  <2> HIDE DEF o1
  <2> QED BY <1>2, NotedKeeps
<1>4. Scheduled(o3)
  <2> HIDE DEF o2
  <2> QED BY <1>3, CorrelatedKeeps, RevokedKeeps
<1>5. Scheduled(shift.o)
  <2> HIDE DEF o3
  <2> QED BY <1>4, DisplacedKeeps DEF Waiting, Step
<1>6. /\ Scheduled(ArmedOff(o3, g).o)
      /\ Scheduled(OwnedOff(o3, g, Managed(members)).o)
      /\ Scheduled(Single(o3, g, members).o)
      /\ Scheduled(Exact(shift.o, g).o)
  <2> HIDE DEF o3, members, shift
  <2> QED BY <1>4, <1>5, ArmedOffKeeps, OwnedOffKeeps, SingleKeeps, ExactKeeps
<1>7. obs' \in {ArmedOff(o3, g).o, OwnedOff(o3, g, Managed(members)).o,
                Single(o3, g, members).o, shift.o, Exact(shift.o, g).o}
  BY DEF AggregateReport, Becomes
<1> HIDE DEF o3, members, shift
<1> QED BY <1>5, <1>6, <1>7

LEMMA CommandKeeps ==
  ASSUME Scheduled(obs), NEW l, NEW op, UserCommand(l, op) \/ ChainReport(l, op)
  PROVE  Scheduled(obs')
<1>1. CASE UserCommand(l, op)
  BY <1>1, EstablishedKeeps DEF UserCommand, Becomes, Step
<1>2. CASE ChainReport(l, op)
  BY <1>2, DroppedKeeps DEF ChainReport, Becomes, Waiting, Step
<1> QED BY <1>1, <1>2

LEMMA SceneKeeps ==
  ASSUME Scheduled(obs), NEW s, SceneRecall(s) \/ SceneDisplaced(s)
  PROVE  Scheduled(obs')
<1>1. CASE SceneRecall(s)
  <2> DEFINE S == Managed(topology[s])
             p == [obs EXCEPT !.cache = topology, !.displaced[s] = Closed, !.recall[s] = Burst]
             q == Forgotten(Dropped(p, S))
  <2>1. Scheduled(p)
    BY DEF Scheduled, Held
  <2>2. Scheduled(q)
    <3> HIDE DEF p
    <3> QED BY <2>1, DroppedKeeps, ForgottenKeeps
  <2>3. PICK ok : obs' \in {q, Established(q, ok)}
    BY <1>1 DEF SceneRecall, Becomes, Step
  <2> HIDE DEF q
  <2> QED BY <2>2, <2>3, EstablishedKeeps
<1>2. CASE SceneDisplaced(s)
  <2>1. PICK w : obs' = [obs EXCEPT !.displaced[s] = w]
    BY <1>2 DEF SceneDisplaced, Becomes, Waiting, Step
  <2> QED BY <2>1 DEF Scheduled, Held
<1> QED BY <1>1, <1>2

-----------------------------------------------------------------------------
(* Timers and time *)

LEMMA TimersKeep ==
  ASSUME Scheduled(obs), Timers
  PROVE  Scheduled(obs')
<1>1. CASE \E l \in Leaves : SingleFires(l)
  <2>1. PICK l \in Leaves : SingleFires(l)
    BY <1>1
  <2>2. obs' \in {SingleApplied(Uncalled(obs, {l}), l).o, Uncalled(obs, {l})}
    BY <2>1 DEF SingleFires, Becomes, Waiting, Step
  <2> QED BY <2>2, UncalledKeeps, SingleAppliedKeeps
<1>2. CASE \E d \in obs.deferred : GroupFires(d)
  <2>1. PICK d \in obs.deferred : GroupFires(d)
    BY <1>2
  <2> DEFINE p == [obs EXCEPT !.deferred = @ \ {d}]
  <2>2. Scheduled(p)
    BY DEF Scheduled, Held
  <2>3. obs' \in {GroupApplied(p, d.group, "off", d.parts).o, p}
    BY <2>1 DEF GroupFires, Becomes, Waiting, Step
  <2> HIDE DEF p
  <2> QED BY <2>2, <2>3, GroupAppliedKeeps
<1>3. CASE ExpiryFires
  <2> DEFINE rest == Without(obs, Expirable(obs))
             n == IF Held(rest) = {} THEN -1 ELSE Burst
  <2>1. Scheduled(rest)
    BY WithoutKeeps
  <2>2. n \in Int /\ n >= -1 /\ (Held(rest) # {} => n >= 0)
    BY ObserverAssumption
  <2>3. obs' = [rest EXCEPT !.expiry = n]
    BY <1>3 DEF ExpiryFires, Expired, Becomes, Waiting, Step
  <2> HIDE DEF rest, n
  <2> QED BY <2>1, <2>2, <2>3 DEF Scheduled, Held
<1> QED BY <1>1, <1>2, <1>3 DEF Timers

\* Time does not pass a scheduled expiry.
LEMMA TickKeeps ==
  ASSUME Scheduled(obs), Tick
  PROVE  Scheduled(obs')
<1>1. obs.expiry # 0
  BY DEF Tick, Due
<1>2. /\ obs' = [f \in DOMAIN obs' |-> obs'[f]]
      /\ DOMAIN obs' = DOMAIN obs
      /\ obs'.retained = [l \in Leaves |-> Older(obs.retained[l])]
      /\ obs'.expiry = Sooner(obs.expiry)
  BY DEF Tick, Scheduled
<1>3. Held(obs') \subseteq Held(obs)
  BY <1>2 DEF Held, Older, Nothing
<1>4. /\ Sooner(obs.expiry) \in Int /\ Sooner(obs.expiry) >= -1
      /\ obs.expiry >= 0 => Sooner(obs.expiry) >= 0
  BY <1>1 DEF Scheduled, Sooner
<1>5. obs'.retained = [l \in Leaves |-> obs'.retained[l]]
  BY <1>2
<1> QED BY <1>2, <1>3, <1>4, <1>5 DEF Scheduled

-----------------------------------------------------------------------------
(* Lifecycle *)

LEMMA ForgottenRetains ==
  ASSUME NEW o, Scheduled(o)
  PROVE  Forgotten(o).retained = o.retained
<1> DEFINE r == Retired(o)
<1>1. Scheduled(r) /\ r.retained = o.retained
  BY RetiredKeeps DEF Scheduled, Retired
<1> HIDE DEF r
<1>2. [r EXCEPT !.shown = {}].retained = o.retained
  BY <1>1 DEF Scheduled
<1> QED BY <1>2 DEF Forgotten, r

LEMMA DroppedHoldsNothing ==
  ASSUME NEW o, Scheduled(o)
  PROVE  Held(Dropped(o, Leaves)) = {}
<1> DEFINE w == Without(o, Leaves)
<1>1. Scheduled(w) /\ Held(w) = {}
  BY WithoutKeeps DEF Scheduled, Without, Held
<1> HIDE DEF w
<1>2. Scheduled(Uncalled(w, Leaves)) /\ Uncalled(w, Leaves).retained = w.retained
  BY <1>1, UncalledKeeps DEF Scheduled, Uncalled
<1> DEFINE u == Uncalled(w, Leaves)
<1> HIDE DEF u
<1>3. Ungrouped(u, Leaves).retained = w.retained
  BY <1>2 DEF Scheduled, Ungrouped, u
<1> QED BY <1>1, <1>3 DEF Dropped, Cancelled, Held, w, u

LEMMA ClearedKeeps ==
  ASSUME NEW o, Scheduled(o)
  PROVE  Scheduled(Cleared(o))
<1> DEFINE p == Forgotten(Dropped(o, Leaves))
<1>1. Scheduled(Dropped(o, Leaves))
  BY DroppedKeeps
<1>2. Scheduled(p) /\ Held(p) = {}
  BY <1>1, ForgottenKeeps, ForgottenRetains, DroppedHoldsNothing DEF Held
<1> HIDE DEF p
<1> DEFINE r == [p EXCEPT !.expiry = -1, !.displaced = [s \in Surfaces |-> Closed],
                          !.recent = [s \in Surfaces |-> Closed]]
<1>3. /\ r = [f \in DOMAIN r |-> r[f]]
      /\ DOMAIN r = DOMAIN p
      /\ r.retained = p.retained
      /\ r.expiry = -1
  BY <1>2 DEF Scheduled
<1> HIDE DEF r
<1>4. Held(r) = {}
  BY <1>2, <1>3 DEF Held
<1>5. Scheduled(r)
  BY <1>2, <1>3, <1>4 DEF Scheduled
<1> QED BY <1>5 DEF Cleared, p, r

LEMMA LifecycleKeeps ==
  ASSUME Scheduled(obs), Lifecycle
  PROVE  Scheduled(obs')
<1> DEFINE p == Cleared(obs)
<1>1. Scheduled(p)
  BY ClearedKeeps
<1>2. CASE NightlyBoundary
  <2>1. obs' = [p EXCEPT !.quarantine = Nightly(obs), !.settling = Settle]
    BY <1>2 DEF NightlyBoundary, Becomes, Step
  <2> HIDE DEF p
  <2> QED BY <1>1, <2>1 DEF Scheduled, Held
<1>3. CASE Reset
  <2>1. obs' = [p EXCEPT !.quarantine = Nightly(obs), !.recall = [s \in Surfaces |-> -1]]
    BY <1>3 DEF Reset, Becomes, Step
  <2> HIDE DEF p
  <2> QED BY <1>1, <2>1 DEF Scheduled, Held
<1>4. CASE \E t \in Topologies : Regroup(t)
  BY <1>4 DEF Regroup
<1>5. ASSUME NEW t \in Topologies, NEW scope \in Scopes, MembershipChanges(t, scope)
      PROVE  Scheduled(obs')
  <2> DEFINE affected == (managed \ scope) \cup (scope \ managed)
             touched == {s \in Surfaces : t[s] \cap affected # {} /\ obs.displaced[s].left >= 0}
             shut(w) == [s \in Surfaces |-> IF s \in touched THEN Closed ELSE w[s]]
             q == [obs EXCEPT !.cache = t]
             r == Forgotten(Dropped(q, affected))
  <2>1. Scheduled(q)
    BY DEF Scheduled, Held
  <2>2. Scheduled(r)
    <3> HIDE DEF q, affected
    <3> QED BY <2>1, DroppedKeeps, ForgottenKeeps
  <2>3. obs' = [r EXCEPT !.quarantine = @ \cap scope, !.displaced = shut(@), !.recent = shut(@)]
    BY <1>5 DEF MembershipChanges, Becomes, Step
  <2> HIDE DEF r, shut
  <2> QED BY <2>2, <2>3 DEF Scheduled, Held
<1> QED BY <1>2, <1>3, <1>4, <1>5 DEF Lifecycle

-----------------------------------------------------------------------------

\* Provisional evidence keeps renderers off its light; whatever reports, commands,
\* timers and lifecycle events happen, an expiry is scheduled while any is left.
THEOREM EvidenceExpires == Spec => []ExpiryScheduled
<1>1. Init => Scheduled(obs)
  <2> SUFFICES ASSUME Init PROVE Scheduled(obs)
    OBVIOUS
  <2>1. /\ obs = [f \in DOMAIN obs |-> obs[f]]
        /\ {"retained", "expiry"} \subseteq DOMAIN obs
        /\ obs.retained = [l \in Leaves |-> Nothing]
        /\ obs.expiry = -1
    BY DEF Init, FreshObserver
  <2>2. Held(obs) = {}
    BY <2>1 DEF Held
  <2> QED BY <2>1, <2>2 DEF Scheduled
<1>2. Scheduled(obs) /\ [Next]_vars => Scheduled(obs)'
  <2> SUFFICES ASSUME Scheduled(obs), [Next]_vars
               PROVE  Scheduled(obs')
    BY DEF Scheduled, Held
  <2>1. CASE Reports
    BY <2>1, LeafReportKeeps, AggregateReportKeeps, CommandKeeps, SceneKeeps DEF Reports
  <2>2. CASE UNCHANGED vars
    BY <2>2 DEF vars
  <2> QED BY <2>1, <2>2, TimersKeep, TickKeeps, LifecycleKeeps DEF Next
<1>3. Scheduled(obs) => ExpiryScheduled
  BY DEF Scheduled, ExpiryScheduled
<1> QED BY <1>1, <1>2, <1>3, PTL DEF Spec

-----------------------------------------------------------------------------
(* The quarantine of 01:59 and the types of the observer *)

\* No evidence and no waiting group includes a light in quarantine.
Quiet(o) ==
  \A l \in o.quarantine :
     o.retained[l] = Nothing /\ \A d \in o.deferred : l \notin LeavesOf(d)

Sound(o) == o \in ObserverState /\ Quiet(o)

LEMMA LeastNatural ==
  ASSUME NEW T \in SUBSET Nat, T # {}
  PROVE  \E x \in T : \A y \in T : x <= y
<1> DEFINE R == {p \in Nat \X Nat : p[1] < p[2]}
<1>0. R = OpToRel(<, Nat)
  BY DEF OpToRel
<1>1. IsWellFoundedOn(R, Nat)
  BY <1>0, NatLessThanWellFounded
<1> HIDE DEF R
<1>2. PICK x \in T : \A y \in T : ~(<<y, x>> \in R)
  BY <1>1, WFMin
<1>3. ASSUME NEW y \in T
      PROVE  x <= y
  <2>1. ~(y < x)
    BY <1>2 DEF R
  <2> QED BY <2>1
<1> QED BY <1>3

LEMMA WithoutSound ==
  ASSUME NEW o, Sound(o), NEW S
  PROVE  Sound(Without(o, S)) /\ Without(o, S).quarantine = o.quarantine
  BY DEF Sound, Quiet, Without, ObserverState

LEMMA UncalledSound ==
  ASSUME NEW o, Sound(o), NEW S
  PROVE  Sound(Uncalled(o, S)) /\ Uncalled(o, S).quarantine = o.quarantine
  BY DEF Sound, Quiet, Uncalled, ObserverState

LEMMA UngroupedSound ==
  ASSUME NEW o, Sound(o), NEW S
  PROVE  Sound(Ungrouped(o, S)) /\ Ungrouped(o, S).quarantine = o.quarantine
  BY DEF Sound, Quiet, Ungrouped, ObserverState

LEMMA Bounds ==
  /\ Burst \in Nat /\ Hold \in Nat /\ Settle \in Nat /\ MaxSequence \in Nat
  /\ Burst > 0 /\ Hold >= Burst /\ Settle > 0 /\ MaxSequence > 0
  /\ NoBurst \in BurstState /\ Closed \in Window
  BY ObserverAssumption DEF NoBurst, BurstState, Closed, Window

LEMMA BurstUpdate ==
  ASSUME NEW o, Sound(o), NEW b \in BurstState, NEW n \in 0..Burst + 1
  PROVE  /\ Sound([o EXCEPT !.burst = b, !.since = n])
         /\ [o EXCEPT !.burst = b, !.since = n].quarantine = o.quarantine
  BY DEF Sound, Quiet, ObserverState

LEMMA RetiredSound ==
  ASSUME NEW o, Sound(o)
  PROVE  Sound(Retired(o)) /\ Retired(o).quarantine = o.quarantine
<1>1. NoBurst \in BurstState /\ Burst + 1 \in 0..Burst + 1
  BY Bounds
<1> QED BY <1>1, BurstUpdate DEF Retired

LEMMA EstablishedSound ==
  ASSUME NEW o, Sound(o), NEW S
  PROVE  Sound(Established(o, S))
  BY DEF Sound, Quiet, Established, ObserverState

LEMMA SnapshottedSound ==
  ASSUME NEW o, Sound(o)
  PROVE  Sound(Snapshotted(o)) /\ Snapshotted(o).quarantine = o.quarantine
<1> DEFINE t == IF o.since > Burst THEN o.cache ELSE o.snapshot
<1>1. t \in [Aggregates -> SUBSET Leaves]
  BY DEF Sound, ObserverState
<1>2. 0 \in 0..Burst + 1
  BY Bounds
<1>3. Snapshotted(o) = [o EXCEPT !.snapshot = t, !.since = 0]
  BY DEF Sound, ObserverState, Snapshotted
<1> HIDE DEF t
<1> QED BY <1>1, <1>2, <1>3 DEF Sound, Quiet, ObserverState

LEMMA CorrelatedSound ==
  ASSUME NEW o, Sound(o), NEW L \in SUBSET Leaves, NEW G \in SUBSET Aggregates,
         topology \in Topologies
  PROVE  Sound(Correlated(o, L, G)) /\ Correlated(o, L, G).quarantine = o.quarantine
<1> DEFINE b == IF o.burst.idle > Burst THEN NoBurst ELSE o.burst
           c == [leaves |-> b.leaves \cup L, groups |-> b.groups \cup G,
                 covered |-> b.covered \cup UNION {topology[g] : g \in G}, idle |-> 0]
<1>1. b \in BurstState
  BY Bounds DEF Sound, ObserverState
<1>2. topology \in [Aggregates -> SUBSET Leaves]
  BY ObserverAssumption
<1>3. 0 \in 0..Burst + 1
  BY Bounds
<1>4. UNION {topology[g] : g \in G} \in SUBSET Leaves
  BY <1>2
<1> HIDE DEF b
<1>5. c \in BurstState /\ c.leaves \in SUBSET Leaves
  BY <1>1, <1>3, <1>4 DEF BurstState
<1>6. Correlated(o, L, G) = [o EXCEPT !.burst = c, !.shown = c.leaves, !.cache = topology]
  BY DEF Correlated, b
<1> HIDE DEF c
<1> QED BY <1>2, <1>5, <1>6 DEF Sound, Quiet, ObserverState

\* What a window has seen stays within the lights.
LEMMA SeenTyped ==
  ASSUME NEW w \in Window, NEW s, NEW x, NEW leaf \in BOOLEAN, leaf => x \in Leaves
  PROVE  Seen(w, s, x, leaf) \in Window
<1>1. /\ (IF leaf THEN w.leaves \cup {x} ELSE w.leaves) \in SUBSET Leaves
      /\ w.left \in -1..Hold
  BY DEF Window
<1>2. (w.seen \/ x = s) \in BOOLEAN
  OBVIOUS
<1> QED BY <1>1, <1>2 DEF Window, Seen

LEMMA WindowUpdate ==
  ASSUME NEW o, Sound(o), NEW w \in [Surfaces -> Window]
  PROVE  /\ Sound([o EXCEPT !.recent = w]) /\ [o EXCEPT !.recent = w].quarantine = o.quarantine
         /\ Sound([o EXCEPT !.displaced = w]) /\ [o EXCEPT !.displaced = w].quarantine = o.quarantine
  BY DEF Sound, Quiet, ObserverState

LEMMA NotedSound ==
  ASSUME NEW o, Sound(o), NEW x, NEW leaf \in BOOLEAN, leaf => x \in Leaves
  PROVE  Sound(Noted(o, x, leaf)) /\ Noted(o, x, leaf).quarantine = o.quarantine
<1> DEFINE new(s) == Seen(IF o.recent[s].left >= 0 THEN o.recent[s] ELSE Closed, s, x, leaf)
           w == [s \in Surfaces |-> IF ~Concerned(o, s, x) THEN o.recent[s]
                                    ELSE [new(s) EXCEPT !.left = Hold]]
<1>1. ASSUME NEW s \in Surfaces
      PROVE  w[s] \in Window
  <2>1. o.recent[s] \in Window
    BY DEF Sound, ObserverState
  <2>2. new(s) \in Window
    BY <2>1, SeenTyped, Bounds
  <2> HIDE DEF new
  <2>3. [new(s) EXCEPT !.left = Hold] \in Window
    BY <2>2, Bounds DEF Window
  <2> QED BY <2>1, <2>3
<1>2. w \in [Surfaces -> Window]
  BY <1>1
<1>3. Noted(o, x, leaf) = [o EXCEPT !.recent = w]
  BY DEF Noted
<1> HIDE DEF w
<1> QED BY <1>2, <1>3, WindowUpdate

LEMMA WitnessedSound ==
  ASSUME NEW o, Sound(o), NEW x, NEW leaf \in BOOLEAN, leaf => x \in Leaves
  PROVE  Sound(Witnessed(o, x, leaf)) /\ Witnessed(o, x, leaf).quarantine = o.quarantine
<1> DEFINE w == [s \in Surfaces |->
                   IF o.displaced[s].left < 0 THEN Closed
                   ELSE IF Concerned(o, s, x) THEN Seen(o.displaced[s], s, x, leaf)
                   ELSE o.displaced[s]]
<1>1. \A s \in Surfaces : o.displaced[s] \in Window
  BY DEF Sound, ObserverState
<1>2. w \in [Surfaces -> Window]
  BY <1>1, SeenTyped, Bounds
<1>3. Witnessed(o, x, leaf) = [o EXCEPT !.displaced = w]
  BY DEF Witnessed
<1> HIDE DEF w
<1> QED BY <1>2, <1>3, WindowUpdate

LEMMA CancelledSound ==
  ASSUME NEW o, Sound(o), NEW S
  PROVE  Sound(Cancelled(o, S)) /\ Cancelled(o, S).quarantine = o.quarantine
  BY UncalledSound, UngroupedSound DEF Cancelled

LEMMA DroppedSound ==
  ASSUME NEW o, Sound(o), NEW S
  PROVE  Sound(Dropped(o, S)) /\ Dropped(o, S).quarantine = o.quarantine
  BY WithoutSound, CancelledSound DEF Dropped

LEMMA ForgottenSound ==
  ASSUME NEW o, Sound(o)
  PROVE  Sound(Forgotten(o)) /\ Forgotten(o).quarantine = o.quarantine
<1> DEFINE r == Retired(o)
<1>1. Sound(r) /\ r.quarantine = o.quarantine
  BY RetiredSound
<1> HIDE DEF r
<1>2. Sound([r EXCEPT !.shown = {}]) /\ [r EXCEPT !.shown = {}].quarantine = r.quarantine
  BY <1>1 DEF Sound, Quiet, ObserverState
<1> QED BY <1>1, <1>2 DEF Forgotten, r

LEMMA PrunedSound ==
  ASSUME NEW o, Sound(o)
  PROVE  Sound(Pruned(o)) /\ Pruned(o).quarantine = o.quarantine
  BY WithoutSound, UncalledSound DEF Pruned

LEMMA RevokedSound ==
  ASSUME NEW o, Sound(o)
  PROVE  Sound(Revoked(o)) /\ Revoked(o).quarantine = o.quarantine
  BY UncalledSound DEF Revoked

LEMMA RetainedSound ==
  ASSUME NEW o, Sound(o), NEW l \in Leaves \ o.quarantine, NEW op \in Kinds,
         sequence \in Nat, sequence + 1 <= MaxSequence
  PROVE  Sound(Retained(o, l, op)) /\ Retained(o, l, op).quarantine = o.quarantine
<1> DEFINE p == IF o.retained[l].op \notin {"none", op} THEN Cancelled(o, {l}) ELSE o
           e == [op |-> op, seq |-> sequence + 1, age |-> 0]
           n == IF p.expiry = -1 THEN Burst ELSE p.expiry
           f == [p.retained EXCEPT ![l] = e]
<1>1. Sound(p) /\ p.quarantine = o.quarantine
  BY CancelledSound
<1>2. e \in Evidence
  BY Bounds DEF Evidence
<1> HIDE DEF p, e
<1>3. n \in -1..Burst
  BY <1>1, Bounds DEF Sound, ObserverState
<1>4. f \in [Leaves -> Evidence \cup {Nothing}] /\ \A k \in p.quarantine : f[k] = p.retained[k]
  BY <1>1, <1>2 DEF Sound, ObserverState
<1>5. Retained(o, l, op) = [p EXCEPT !.retained = f, !.expiry = n]
  BY <1>1 DEF Retained, p, e, Sound, ObserverState
<1> HIDE DEF f, n
<1>6. Sound([p EXCEPT !.retained = f, !.expiry = n])
  BY <1>1, <1>3, <1>4 DEF Sound, Quiet, ObserverState
<1>7. [p EXCEPT !.retained = f, !.expiry = n].quarantine = p.quarantine
  BY <1>1 DEF Sound, ObserverState
<1> QED BY <1>1, <1>5, <1>6, <1>7

-----------------------------------------------------------------------------
(* Receipts *)

\* What a callback may submit: an OFF without a group names one light.
Receipt(op, g, ok) ==
  /\ g \in Aggregates \cup {None} /\ ok \in SUBSET Leaves
  /\ op # "appearance" /\ g = None => \E l \in Leaves : ok = {l}

\* What an accepted one does to intent and armed groups.
Turned(c, d, S, what) == d.intent = [l \in Leaves |-> IF l \in S THEN what ELSE c.intent[l]]
OthersDisarmed(c, d, S, kept) ==
  \A a \in Aggregates \ kept : d.armed[a] \in {c.armed[a], {}} /\ d.armed[a] \cap S = {}
ArmedAlike(c, d, g) == d.armed[g] = c.armed[g]

Took(c, d, op, g, ok) ==
  \/ op = "appearance" /\ Turned(c, d, ok, "manual") /\ OthersDisarmed(c, d, ok, {})
  \/ /\ op # "appearance" /\ g \in Aggregates
     /\ OthersDisarmed(c, d, ok, {g}) /\ d.armed[g] = ok
     /\ Turned(c, d, ok, IF c.armed[g] = ok THEN "manual_off" ELSE "none")
  \/ /\ op # "appearance" /\ g \notin Aggregates
     /\ \E l \in Leaves :
          /\ ok = {l} /\ OthersDisarmed(c, d, ok, {})
          /\ Turned(c, d, ok, IF c.intent[l] = "manual" THEN "none" ELSE "manual_off")

LEMMA DisarmedTables ==
  ASSUME NEW c \in CoreState, NEW S, NEW kept
  PROVE  /\ Disarmed(c, S, kept) \in CoreState
         /\ Disarmed(c, S, kept).intent = c.intent
         /\ OthersDisarmed(c, Disarmed(c, S, kept), S, {kept})
         /\ kept \in Aggregates => ArmedAlike(c, Disarmed(c, S, kept), kept)
  BY DEF Disarmed, CoreState, OthersDisarmed, ArmedAlike

LEMMA AskedTables ==
  ASSUME NEW c \in CoreState, NEW S, NEW what \in {"none", "manual", "manual_off"},
         NEW g \in Aggregates \cup {None}
  PROVE  /\ Asked(c, S, what, g) \in CoreState
         /\ Turned(c, Asked(c, S, what, g), S, what)
         /\ Asked(c, S, what, g).armed = c.armed
  BY DEF Asked, CoreState, Turned

LEMMA ArmedTables ==
  ASSUME NEW c \in CoreState, NEW g \in Aggregates, NEW S \in SUBSET Leaves
  PROVE  /\ [c EXCEPT !.armed[g] = S] \in CoreState
         /\ [c EXCEPT !.armed[g] = S].intent = c.intent
         /\ [c EXCEPT !.armed[g] = S].armed = [c.armed EXCEPT ![g] = S]
  BY DEF CoreState

LEMMA EffectTook ==
  ASSUME NEW c \in CoreState, NEW op, NEW g, NEW ok, Receipt(op, g, ok)
  PROVE  Effect(c, op, g, ok) \in CoreState /\ Took(c, Effect(c, op, g, ok), op, g, ok)
<1>1. ok \in SUBSET Leaves /\ g \in Aggregates \cup {None} /\ None \notin Aggregates
  BY ObserverAssumption DEF Receipt
<1>2. CASE op = "appearance"
  <2> DEFINE a == Disarmed(c, ok, None)
             d == Asked(a, ok, "manual", g)
  <2>1. a \in CoreState /\ a.intent = c.intent /\ OthersDisarmed(c, a, ok, {None})
    BY DisarmedTables
  <2> HIDE DEF a
  <2>2. d \in CoreState /\ Turned(a, d, ok, "manual") /\ d.armed = a.armed
    BY <1>1, <2>1, AskedTables
  <2>3. Effect(c, op, g, ok) = d
    BY <1>2 DEF Effect, a
  <2> HIDE DEF d
  <2>4. OthersDisarmed(c, d, ok, {}) /\ Turned(c, d, ok, "manual")
    BY <1>1, <2>1, <2>2 DEF OthersDisarmed, Turned
  <2> QED BY <1>2, <2>2, <2>3, <2>4 DEF Took
<1>3. CASE op # "appearance" /\ g # None
  <2> DEFINE a == Disarmed(c, ok, g)
  <2>0. g \in Aggregates
    BY <1>1, <1>3
  <2>1. /\ a \in CoreState /\ a.intent = c.intent /\ OthersDisarmed(c, a, ok, {g})
        /\ ArmedAlike(c, a, g)
    BY <2>0, DisarmedTables, Zenon
  <2>2. Effect(c, op, g, ok) = GroupOff(c, g, ok)
    BY <1>3 DEF Effect
  <2> HIDE DEF a
  <2>3. CASE c.armed[g] = ok
    <3> DEFINE d == Asked(a, ok, "manual_off", g)
    <3>1. d \in CoreState /\ Turned(a, d, ok, "manual_off") /\ d.armed = a.armed
      BY <1>1, <2>1, AskedTables
    <3>2. GroupOff(c, g, ok) = d
      BY <2>3 DEF GroupOff, a
    <3> HIDE DEF d
    <3>3. OthersDisarmed(c, d, ok, {g}) /\ Turned(c, d, ok, "manual_off") /\ d.armed[g] = ok
      BY <2>1, <2>3, <3>1 DEF OthersDisarmed, Turned, ArmedAlike
    <3> QED BY <1>3, <2>0, <2>2, <2>3, <3>1, <3>2, <3>3 DEF Took
  <2>4. CASE c.armed[g] # ok
    <3> DEFINE b == Asked(a, ok, "none", None)
               d == [b EXCEPT !.armed[g] = ok]
    <3>1. b \in CoreState /\ Turned(a, b, ok, "none") /\ b.armed = a.armed
      BY <1>1, <2>1, AskedTables
    <3> HIDE DEF b
    <3>2. d \in CoreState /\ d.intent = b.intent /\ d.armed = [b.armed EXCEPT ![g] = ok]
      BY <1>1, <2>0, <3>1, ArmedTables
    <3>3. GroupOff(c, g, ok) = d
      BY <2>4 DEF GroupOff, a, b
    <3> HIDE DEF d
    <3>4. b.armed \in [Aggregates -> SUBSET Leaves]
      BY <3>1 DEF CoreState
    <3>5. OthersDisarmed(c, d, ok, {g}) /\ Turned(c, d, ok, "none") /\ d.armed[g] = ok
      BY <2>0, <2>1, <3>1, <3>2, <3>4 DEF OthersDisarmed, Turned
    <3> QED BY <1>3, <2>0, <2>2, <2>4, <3>2, <3>3, <3>5 DEF Took
  <2> QED BY <2>3, <2>4
<1>4. CASE op # "appearance" /\ g = None
  <2>1. PICK l \in Leaves : ok = {l}
    BY <1>4 DEF Receipt
  <2> DEFINE a == Disarmed(c, ok, None)
             what == IF c.intent[l] = "manual" THEN "none" ELSE "manual_off"
             d == Asked(a, ok, what, None)
  <2>2. a \in CoreState /\ a.intent = c.intent /\ OthersDisarmed(c, a, ok, {None})
    BY DisarmedTables
  <2> HIDE DEF a
  <2>3. what \in {"none", "manual", "manual_off"}
    OBVIOUS
  <2> HIDE DEF what
  <2>4. d \in CoreState /\ Turned(a, d, ok, what) /\ d.armed = a.armed
    BY <1>1, <2>2, <2>3, AskedTables
  <2>5. (CHOOSE k \in {l} : TRUE) = l
    OBVIOUS
  <2>6. Effect(c, op, g, ok) = d
    BY <1>4, <2>1, <2>5 DEF Effect, SingleOff, a, what
  <2> HIDE DEF d
  <2>7. OthersDisarmed(c, d, ok, {}) /\ Turned(c, d, ok, what)
    BY <1>1, <2>2, <2>4 DEF OthersDisarmed, Turned
  <2> QED BY <1>1, <1>4, <2>1, <2>4, <2>6, <2>7 DEF Took, what
<1> QED BY <1>2, <1>3, <1>4

LEMMA SubmittedTook ==
  ASSUME NEW c \in CoreState, NEW op, NEW g, NEW ok, Receipt(op, g, ok),
         NEW members, NEW q \in 0..MaxSequence
  PROVE  LET d == Submitted(c, op, g, ok, members, q)
         IN d = c \/ (d \in CoreState /\ ok # {} /\ Took(c, d, op, g, ok))
<1> DEFINE e == Effect(c, op, g, ok)
           f == [l \in Leaves |-> IF l \in members /\ q > e.latest[l] THEN q ELSE e.latest[l]]
           d == [e EXCEPT !.latest = f]
<1>1. e \in CoreState /\ Took(c, e, op, g, ok)
  BY EffectTook
<1> HIDE DEF e
<1>2. d \in CoreState /\ d.intent = e.intent /\ d.armed = e.armed
  BY <1>1 DEF CoreState
<1>3. \/ Submitted(c, op, g, ok, members, q) = c
      \/ Submitted(c, op, g, ok, members, q) = d /\ ok # {}
  BY DEF Submitted, e
<1> HIDE DEF d
<1>4. Took(c, d, op, g, ok)
  BY <1>1, <1>2 DEF Took, Turned, OthersDisarmed
<1> QED BY <1>2, <1>3, <1>4

\* To the abstract specification a receipt that takes effect is one of its steps.
LEMMA TookIsControl ==
  ASSUME NEW op, NEW g, NEW ok, Receipt(op, g, ok), ok # {}, core' \in CoreState,
         Took(core, core', op, g, ok)
  PROVE  Control!ControlNext
<1>1. core'.armed \in [Aggregates -> SUBSET Leaves] /\ ok \in SUBSET Leaves
  BY DEF CoreState, Receipt
<1>2. CASE op = "appearance" /\ Turned(core, core', ok, "manual") /\ OthersDisarmed(core, core', ok, {})
  <2>1. Control!Appear(ok)
    BY <1>1, <1>2 DEF Control!Appear, Control!Asked, Control!DisarmedBy, Turned, OthersDisarmed
  <2> QED BY <1>1, <2>1 DEF Control!ControlNext
<1>3. CASE /\ g \in Aggregates
           /\ OthersDisarmed(core, core', ok, {g}) /\ core'.armed[g] = ok
           /\ Turned(core, core', ok, IF core.armed[g] = ok THEN "manual_off" ELSE "none")
  <2>1. Control!FirstOff(g, ok, ok) \/ Control!SecondOff(g, ok, ok)
    BY <1>1, <1>3 DEF Control!FirstOff, Control!SecondOff, Control!Asked, Control!DisarmedBy,
                      Turned, OthersDisarmed
  <2> QED BY <1>1, <1>3, <2>1 DEF Control!ControlNext
<1>4. ASSUME NEW l \in Leaves, ok = {l}, OthersDisarmed(core, core', ok, {}),
             Turned(core, core', ok, IF core.intent[l] = "manual" THEN "none" ELSE "manual_off")
      PROVE  Control!ControlNext
  <2>1. Control!Off(l)
    BY <1>1, <1>4 DEF Control!Off, Control!Asked, Control!DisarmedBy, Turned, OthersDisarmed
  <2> QED BY <2>1 DEF Control!ControlNext
<1> QED BY <1>2, <1>3, <1>4 DEF Took

-----------------------------------------------------------------------------
(* Promotions *)

\* A step leaves a sound observer; it changes the core by one receipt at most, and
\* reports take part in no receipt for a light of Q.
Submits(s, Q) ==
  \/ s.c = core /\ s.taken = {}
  \/ /\ s.c \in CoreState
     /\ \E op, g, ok : /\ Receipt(op, g, ok) /\ ok # {} /\ Took(core, s.c, op, g, ok)
                       /\ s.taken # {} => ok \cap Q = {}
StepSound(s, Q) == Sound(s.o) /\ Submits(s, Q)

\* The reports of lights that all ask for the same.
LEMMA PartsTyped ==
  ASSUME NEW o, Sound(o), NEW S \in SUBSET Leaves, NEW op \in Kinds,
         \A l \in S : o.retained[l].op = op
  PROVE  /\ Parts(o, S) \in SUBSET (Leaves \X (1..MaxSequence))
         /\ {p[1] : p \in Parts(o, S)} = S
         /\ S \cap o.quarantine = {}
<1>1. ASSUME NEW l \in S
      PROVE  o.retained[l] \in Evidence /\ l \notin o.quarantine
  BY DEF Sound, Quiet, ObserverState, Nothing, Kinds
<1>2. Parts(o, S) \in SUBSET (Leaves \X (1..MaxSequence))
  BY <1>1 DEF Parts, Evidence
<1>3. \A l \in S : <<l, o.retained[l].seq>> \in Parts(o, S)
  BY DEF Parts
<1>4. \A p \in Parts(o, S) : p[1] \in S
  BY DEF Parts
<1>5. {p[1] : p \in Parts(o, S)} \subseteq S
  BY <1>4
<1>6. ASSUME NEW l \in S
      PROVE  l \in {p[1] : p \in Parts(o, S)}
  <2> DEFINE r == <<l, o.retained[l].seq>>
  <2>1. r \in Parts(o, S) /\ r[1] = l
    BY <1>3
  <2> HIDE DEF r
  <2> QED BY <2>1
<1> QED BY <1>1, <1>2, <1>5, <1>6

LEMMA EarliestTyped ==
  ASSUME NEW parts \in SUBSET (Leaves \X (1..MaxSequence)), parts # {}
  PROVE  Earliest(parts) \in 1..MaxSequence
<1> DEFINE T == Sequences(parts)
<1>1. T \in SUBSET (1..MaxSequence) /\ T # {}
  BY DEF Sequences
<1>2. T \in SUBSET Nat
  BY <1>1
<1> HIDE DEF T
<1>3. \E q \in T : \A r \in T : q <= r
  BY <1>1, <1>2, LeastNatural
<1>4. (CHOOSE q \in T : \A r \in T : q <= r) \in T
  BY <1>3
<1> QED BY <1>1, <1>4 DEF Earliest, T

\* A group of reports, submitted under the earliest of their sequences.
LEMMA GroupSubmits ==
  ASSUME core \in CoreState, NEW op, NEW g \in Aggregates,
         NEW parts \in SUBSET (Leaves \X (1..MaxSequence)), NEW S, S = {p[1] : p \in parts},
         NEW Q, S \cap Q = {}, NEW o, NEW taken
  PROVE  LET c == Submitted(core, op, g, S, S, Earliest(parts))
         IN c = core \/ Submits(Step(o, c, taken), Q)
<1> DEFINE c == Submitted(core, op, g, S, S, Earliest(parts))
<1>1. S \in SUBSET Leaves
  OBVIOUS
<1>2. Receipt(op, g, S)
  BY <1>1, ObserverAssumption DEF Receipt
<1>3. CASE parts = {}
  BY <1>3 DEF Submitted
<1>4. CASE parts # {}
  <2>1. Earliest(parts) \in 0..MaxSequence
    BY <1>4, EarliestTyped, Bounds
  <2>2. c = core \/ (c \in CoreState /\ S # {} /\ Took(core, c, op, g, S))
    BY <1>2, <2>1, SubmittedTook
  <2> QED BY <1>2, <2>2 DEF Submits, Step
<1> QED BY <1>3, <1>4

LEMMA WaitingSound ==
  ASSUME NEW o, Sound(o), NEW Q
  PROVE  StepSound(Waiting(o), Q)
  BY DEF StepSound, Submits, Waiting, Step

LEMMA SingleAppliedSound ==
  ASSUME NEW o, Sound(o), core \in CoreState, NEW l \in Leaves
  PROVE  StepSound(SingleApplied(o, l), o.quarantine)
<1> DEFINE e == o.retained[l]
           c == Submitted(core, e.op, None, {l}, {l}, e.seq)
           rest == Without(o, {l})
           s == Step(Retired(Established(rest, {l})), c, {e.seq})
<1>1. Sound(rest) /\ Sound(Retired(Established(rest, {l})))
  BY WithoutSound, EstablishedSound, RetiredSound
<1>2. c = core \/ Submits(s, o.quarantine)
  <2>1. CASE e = Nothing
    BY <2>1 DEF Submitted, Nothing, CoreState
  <2>2. CASE e # Nothing
    <3>1. e \in Evidence /\ l \notin o.quarantine
      BY <2>2 DEF Sound, Quiet, ObserverState
    <3>2. Receipt(e.op, None, {l}) /\ e.seq \in 0..MaxSequence
      BY <3>1, Bounds DEF Receipt, Evidence
    <3> HIDE DEF e
    <3>3. c = core \/ (c \in CoreState /\ {l} # {} /\ Took(core, c, e.op, None, {l}))
      BY <3>2, SubmittedTook
    <3> QED BY <3>1, <3>2, <3>3 DEF Submits, Step
  <2> QED BY <2>1, <2>2
<1>3. SingleApplied(o, l) = IF c = core THEN Waiting(rest) ELSE s
  BY DEF SingleApplied
<1>4. s.o = Retired(Established(rest, {l}))
  BY DEF Step
<1> HIDE DEF c, rest, s
<1> QED BY <1>1, <1>2, <1>3, <1>4, WaitingSound DEF StepSound

LEMMA GroupAppliedSound ==
  ASSUME NEW o, Sound(o), core \in CoreState, NEW op, NEW g \in Aggregates,
         NEW parts \in SUBSET (Leaves \X (1..MaxSequence)), NEW Q,
         {p[1] : p \in parts} \cap Q = {}
  PROVE  StepSound(GroupApplied(o, g, op, parts), Q)
<1> DEFINE S == {p[1] : p \in parts}
           c == Submitted(core, op, g, S, S, Earliest(parts))
           rest == Without(o, {l \in S : <<l, o.retained[l].seq>> \in parts})
           s == Step(Retired(Established(rest, S)), c, Sequences(parts))
<1>1. Sound(rest)
  BY WithoutSound
<1>2. Sound(Retired(Established(rest, S)))
  <2> HIDE DEF rest
  <2> QED BY <1>1, EstablishedSound, RetiredSound
<1>3. GroupApplied(o, g, op, parts) = IF c = core THEN Waiting(rest) ELSE s
  BY DEF GroupApplied
<1>4. s.o = Retired(Established(rest, S))
  BY DEF Step
<1> HIDE DEF S
<1>5. c = core \/ Submits(s, Q)
  BY GroupSubmits DEF S
<1> HIDE DEF c, rest, s
<1> QED BY <1>1, <1>2, <1>3, <1>4, <1>5, WaitingSound DEF StepSound

LEMMA ArmedOffSound ==
  ASSUME NEW o, Sound(o), core \in CoreState, NEW g \in Aggregates, NEW members, NEW clear,
         ArmedReady(o, g, members, clear)
  PROVE  StepSound(ArmedOff(o, g), o.quarantine)
<1> DEFINE S == core.armed[g]
           parts == Parts(o, S)
           c == Submitted(core, "off", g, S, S, Earliest(parts))
           rest == Dropped(o, S)
           s == Step(Forgotten(rest), c, Sequences(parts))
<1>1. Sound(rest) /\ Sound(Forgotten(rest))
  BY DroppedSound, ForgottenSound
<1>2. S \in SUBSET Leaves /\ \A l \in S : o.retained[l].op = "off"
  BY DEF ArmedReady, Coherent, CoreState
<1>3. ArmedOff(o, g) = IF c = core THEN Waiting(rest) ELSE s
  BY DEF ArmedOff
<1>4. s.o = Forgotten(rest)
  BY DEF Step
<1> HIDE DEF S
<1>5. /\ parts \in SUBSET (Leaves \X (1..MaxSequence))
      /\ {p[1] : p \in parts} = S /\ S \cap o.quarantine = {}
  BY <1>2, PartsTyped DEF Kinds
<1> HIDE DEF parts
<1>6. c = core \/ Submits(s, o.quarantine)
  BY <1>5, GroupSubmits
<1> HIDE DEF c, rest, s
<1> QED BY <1>1, <1>3, <1>4, <1>6, WaitingSound DEF StepSound

LEMMA OwnedOffSound ==
  ASSUME NEW o, Sound(o), core \in CoreState, NEW g \in Aggregates, NEW members, NEW clear,
         managed \in SUBSET Leaves, OwnedReady(o, g, members, clear)
  PROVE  StepSound(OwnedOff(o, g, Managed(members)), o.quarantine)
<1> DEFINE S == Managed(members)
           parts == Parts(o, S)
           u == Uncalled(o, S)
<1>1. Sound(u)
  BY UncalledSound
<1>2. S \in SUBSET Leaves /\ \A l \in S : o.retained[l].op = "off"
  BY DEF OwnedReady, Coherent, Managed
<1>3. OwnedOff(o, g, S) = GroupApplied(u, g, "off", parts)
  BY DEF OwnedOff
<1> HIDE DEF S
<1>4. /\ parts \in SUBSET (Leaves \X (1..MaxSequence))
      /\ {p[1] : p \in parts} = S /\ S \cap o.quarantine = {}
  BY <1>2, PartsTyped DEF Kinds
<1> HIDE DEF parts, u
<1>5. StepSound(GroupApplied(u, g, "off", parts), o.quarantine)
  BY <1>1, <1>4, GroupAppliedSound
<1> QED BY <1>3, <1>5 DEF S

LEMMA HoldTyped ==
  ASSUME NEW o, NEW l, NEW op
  PROVE  HoldOf(o, l, op) \in 0..Hold
  BY Bounds DEF HoldOf

LEMMA SingleSound ==
  ASSUME NEW o, Sound(o), core \in CoreState, NEW g, NEW members \in SUBSET Leaves
  PROVE  StepSound(Single(o, g, members), o.quarantine)
<1> DEFINE l == CHOOSE k \in o.burst.leaves : TRUE
           known == Cardinality(Managed(members)) > 1 /\ Managed(o.snapshot[g]) = Managed(members)
           e == o.retained[l]
           t == [op |-> e.op, left |-> HoldOf(o, l, e.op)]
           called == [o EXCEPT !.singles[l] = t]
<1>1. Single(o, g, members) =
        IF l \notin members \/ e = Nothing THEN Waiting(o)
        ELSE IF ~known THEN SingleApplied(o, l)
        ELSE IF o.singles[l] # NoTimer THEN Waiting(o)
        ELSE Waiting(called)
  BY DEF Single
<1> HIDE DEF l, known
<1>2. CASE l \notin members \/ e = Nothing
  BY <1>1, <1>2, WaitingSound
<1>3. CASE l \in members /\ e # Nothing
  <2>1. l \in Leaves /\ e \in Evidence
    BY <1>3 DEF Sound, ObserverState
  <2>2. t \in Timer
    BY <2>1, HoldTyped DEF Evidence, Timer
  <2> HIDE DEF t
  <2>3. Sound(called)
    BY <2>1, <2>2 DEF Sound, Quiet, ObserverState
  <2>4. StepSound(SingleApplied(o, l), o.quarantine)
    BY <2>1, SingleAppliedSound
  <2> HIDE DEF called, e
  <2> QED BY <1>1, <1>3, <2>3, <2>4, WaitingSound
<1> QED BY <1>2, <1>3

\* An exact group waits with reports of lights that are not in quarantine.
LEMMA DeferralSound ==
  ASSUME NEW o, Sound(o), NEW d \in Deferral, LeavesOf(d) \cap o.quarantine = {}
  PROVE  Sound([o EXCEPT !.deferred = @ \cup {d}])
  BY DEF Sound, Quiet, ObserverState

LEMMA ExactSound ==
  ASSUME NEW o, Sound(o), core \in CoreState, NEW g \in Aggregates
  PROVE  StepSound(Exact(o, g), o.quarantine)
<1> DEFINE L == o.burst.leaves
           u == Uncalled(o, L)
           op == u.retained[CHOOSE l \in L : TRUE].op
           parts == Parts(u, L)
           known == \E d \in u.deferred : d.group = g /\ d.parts = parts
           parent == CHOOSE p \in Parents(g, L) : TRUE
           new == [group |-> g, parts |-> parts, left |-> Burst, parent |-> parent]
           more == [u EXCEPT !.deferred = @ \cup {new}]
<1>1. Sound(u) /\ u.quarantine = o.quarantine
  BY UncalledSound
<1>2. Exact(o, g) =
        IF ~ExactGroup(o, g) THEN Waiting(o)
        ELSE IF op = "none" \/ ~Coherent(u, L, op, Burst) THEN Waiting(u)
        ELSE IF op # "off" \/ Parents(g, L) = {} THEN GroupApplied(u, g, op, parts)
        ELSE IF known THEN Waiting(u)
        ELSE Waiting(more)
  BY DEF Exact
<1>3. L \in SUBSET Leaves
  BY DEF Sound, ObserverState, BurstState
<1> HIDE DEF u, known
<1>4. CASE ~ExactGroup(o, g)
  BY <1>2, <1>4, WaitingSound
<1>5. CASE ExactGroup(o, g) /\ (op = "none" \/ ~Coherent(u, L, op, Burst))
  BY <1>1, <1>2, <1>5, WaitingSound
<1>6. CASE ExactGroup(o, g) /\ op # "none" /\ Coherent(u, L, op, Burst)
  <2>1. L # {}
    BY <1>6, FS_EmptySet DEF ExactGroup
  <2>2. op \in Kinds
    <3>1. (CHOOSE l \in L : TRUE) \in Leaves
      BY <1>3, <2>1
    <3>2. \A l \in Leaves : u.retained[l].op \in Kinds \cup {"none"}
      BY <1>1 DEF Sound, ObserverState, Evidence, Nothing
    <3>3. op \in Kinds \cup {"none"}
      BY <3>1, <3>2
    <3> QED BY <3>3, <1>6
  <2>3. \A l \in L : u.retained[l].op = op
    BY <1>6 DEF Coherent
  <2> HIDE DEF op, L
  <2>4. /\ parts \in SUBSET (Leaves \X (1..MaxSequence))
        /\ {p[1] : p \in parts} = L /\ L \cap u.quarantine = {}
    BY <1>1, <1>3, <2>2, <2>3, PartsTyped
  <2> HIDE DEF parts
  <2>5. StepSound(GroupApplied(u, g, op, parts), o.quarantine)
    BY <1>1, <2>4, GroupAppliedSound
  <2>6. ASSUME Parents(g, L) # {}
        PROVE  Sound(more)
    <3>1. parent \in Aggregates
      BY <2>6 DEF Parents
    <3>2. new \in Deferral
      <4> HIDE DEF parent
      <4> QED BY <2>4, <3>1, Bounds DEF Deferral
    <3>3. LeavesOf(new) \cap u.quarantine = {}
      BY <2>4 DEF LeavesOf
    <3> HIDE DEF new
    <3> QED BY <1>1, <3>2, <3>3, DeferralSound
  <2> HIDE DEF more
  <2> QED BY <1>1, <1>2, <1>6, <2>5, <2>6, WaitingSound
<1> QED BY <1>4, <1>5, <1>6

\* Whoever is in quarantine stays there while nothing is submitted.
KeepsQuarantine(s, o) == s.c = core => s.o.quarantine = o.quarantine

LEMMA DisplacedSound ==
  ASSUME NEW o, Sound(o), core \in CoreState, managed \in SUBSET Leaves, sequence \in Nat,
         NEW x, NEW leaf \in BOOLEAN, leaf => x \in Leaves, NEW clear, NEW now,
         Displaced(o, x, leaf, clear, now).c # core => sequence + 2 <= MaxSequence
  PROVE  /\ \A Q : StepSound(Displaced(o, x, leaf, clear, now), Q)
         /\ KeepsQuarantine(Displaced(o, x, leaf, clear, now), o)
<1> DEFINE p == IF clear THEN Witnessed(o, x, leaf) ELSE o
           s == CHOOSE t \in Corroborated(p, x) : TRUE
           S == Managed(p.cache[s])
           ok == {l \in S : now[l] = "on"}
           c == Submitted(core, "appearance", s, ok, S, sequence + 2)
           r == Established(Dropped(p, S), S)
           v == [r EXCEPT !.displaced[s] = Closed]
           moved == Step(Forgotten(v), c, {})
           stays == ~clear \/ Corroborated(p, x) = {} \/ c = core
<1>1. Sound(p) /\ p.quarantine = o.quarantine
  BY WitnessedSound
<1>2. Displaced(o, x, leaf, clear, now) = IF stays THEN Waiting(p) ELSE moved
  BY DEF Displaced
<1>3. Waiting(p).o = p /\ Waiting(p).c = core /\ Waiting(p).taken = {}
  BY DEF Waiting, Step
<1>4. moved.c = c /\ moved.taken = {} /\ moved.o = Forgotten(v)
  BY DEF Step
<1>5. CASE stays
  <2> HIDE DEF p, stays, moved
  <2> QED BY <1>1, <1>2, <1>3, <1>5, WaitingSound DEF KeepsQuarantine
<1>6. CASE ~stays
  <2> HIDE DEF p
  <2>1. s \in Surfaces
    BY <1>6 DEF Corroborated
  <2> HIDE DEF s
  <2>2. ok \in SUBSET Leaves
    BY DEF Managed
  <2>3. Sound(r)
    <3> HIDE DEF S
    <3> QED BY <1>1, DroppedSound, EstablishedSound
  <2> HIDE DEF r, ok, S
  <2>4. Sound(v)
    <3>1. [r.displaced EXCEPT ![s] = Closed] \in [Surfaces -> Window]
      BY <2>1, <2>3, Bounds DEF Sound, ObserverState
    <3>2. v = [r EXCEPT !.displaced = [r.displaced EXCEPT ![s] = Closed]]
      OBVIOUS
    <3> QED BY <2>3, <3>1, <3>2, WindowUpdate
  <2> HIDE DEF v
  <2>5. Sound(Forgotten(v))
    BY <2>4, ForgottenSound
  <2>6. c # core
    BY <1>6
  <2> HIDE DEF moved
  <2>7. Displaced(o, x, leaf, clear, now) = moved
    BY <1>2, <1>6
  <2>8. sequence + 2 \in 0..MaxSequence
    BY <1>4, <2>6, <2>7, Bounds
  <2>9. Receipt("appearance", s, ok)
    BY <2>1, <2>2, ObserverAssumption DEF Receipt
  <2>10. c \in CoreState /\ ok # {} /\ Took(core, c, "appearance", s, ok)
    BY <2>6, <2>8, <2>9, SubmittedTook
  <2> HIDE DEF c
  <2>11. \A Q : Submits(moved, Q)
    BY <1>4, <2>9, <2>10 DEF Submits
  <2> QED BY <1>4, <2>5, <2>6, <2>7, <2>11 DEF StepSound, KeepsQuarantine
<1> QED BY <1>5, <1>6

-----------------------------------------------------------------------------
(* Callbacks *)

\* What a step of the observer makes of intent: nothing, or one receipt, in which
\* reports take part only if it names no light in quarantine.
Accepted ==
  \/ core' = core /\ uses' = uses
  \/ \E op, g, ok : /\ Receipt(op, g, ok) /\ ok # {} /\ Took(core, core', op, g, ok)
                    /\ uses' # uses => ok \cap obs.quarantine = {}

Records == Sound(obs) /\ core \in CoreState /\ uses \in [1..MaxSequence -> Nat]

LEMMA BecomesAccepted ==
  ASSUME Records, NEW step, StepSound(step, obs.quarantine), Becomes(step)
  PROVE  Records' /\ Accepted
<1>1. obs' = step.o /\ core' = step.c
  BY DEF Becomes
<1>2. uses' \in [1..MaxSequence -> Nat]
  BY DEF Becomes, Records
<1>3. step.taken = {} => uses' = uses
  BY DEF Becomes, Records
<1>4. Sound(obs')
  BY <1>1 DEF StepSound
<1>5. Submits(step, obs.quarantine)
  BY DEF StepSound
<1>6. core' \in CoreState
  BY <1>1, <1>5 DEF Submits, Records
<1>7. Accepted
  BY <1>1, <1>3, <1>5 DEF Submits, Accepted
<1> QED BY <1>2, <1>4, <1>6, <1>7 DEF Records

LEMMA LeafReportSound ==
  ASSUME TypeOK, Records, NEW l \in Leaves, NEW state \in {"on", "off", "gone"},
         NEW cause \in Causes, NEW clear \in BOOLEAN, LeafReport(l, state, cause, clear)
  PROVE  Records' /\ Accepted
<1> DEFINE op == IF state = "off" /\ cause # "outage" THEN "off" ELSE "appearance"
           now == [lights EXCEPT ![l] = state]
           o0 == IF cause = "witnessed" /\ op = "appearance" THEN Established(obs, {l}) ELSE obs
           automatic == Automatic(o0, l, op, cause)
           p == IF OtherSurface(o0, l) THEN Forgotten(o0) ELSE o0
           o1 == Snapshotted(p)
           r == IF automatic THEN Dropped(o1, {l}) ELSE Retained(o1, l, op)
           o2 == Pruned(r)
           o3 == IF op = "off" THEN o2 ELSE Noted(o2, l, ~automatic)
           o4 == Revoked(Correlated(o3, {l}, {}))
           step == IF automatic THEN Waiting(o3)
                   ELSE IF op = "off" \/ Qualified(o4) THEN Waiting(o4)
                   ELSE Displaced(o4, l, TRUE, clear, now)
<1>1. /\ Numbered(IF step.c = core THEN 1 ELSE 2)
      /\ Becomes(step)
  BY DEF LeafReport
<1>2. /\ topology \in Topologies /\ managed \in SUBSET Leaves /\ sequence \in Nat
      /\ core \in CoreState /\ Sound(obs)
  BY ObserverAssumption DEF TypeOK, Records
<1>3. op \in Kinds
  BY DEF Kinds
<1>4. sequence + 1 <= MaxSequence /\ (step.c # core => sequence + 2 <= MaxSequence)
  <2> HIDE DEF step
  <2> QED BY <1>1, <1>2, Bounds DEF Numbered
<1> HIDE DEF op
<1>5. Sound(o0)
  BY <1>2, EstablishedSound
<1>6. ~automatic => l \notin o0.quarantine
  BY DEF Automatic
<1>7. automatic \in BOOLEAN
  BY DEF Automatic
<1> HIDE DEF o0, automatic
<1>8. Sound(p) /\ p.quarantine = o0.quarantine
  BY <1>5, ForgottenSound
<1> HIDE DEF p
<1>9. Sound(o1) /\ o1.quarantine = o0.quarantine
  BY <1>8, SnapshottedSound
<1> HIDE DEF o1
<1>10. Sound(r)
  BY <1>2, <1>3, <1>4, <1>6, <1>9, DroppedSound, RetainedSound
<1> HIDE DEF r
<1>11. Sound(o2)
  BY <1>10, PrunedSound
<1> HIDE DEF o2
<1>12. Sound(o3)
  <2>1. Sound(Noted(o2, l, ~automatic))
    BY <1>11, NotedSound
  <2> QED BY <1>11, <2>1
<1> HIDE DEF o3
<1>13. Sound(o4)
  <2>1. Sound(Correlated(o3, {l}, {}))
    BY <1>2, <1>12, CorrelatedSound
  <2> QED BY <2>1, RevokedSound
<1> HIDE DEF o4, now
<1>14. StepSound(step, obs.quarantine)
  <2>1. CASE automatic
    BY <1>12, <2>1, WaitingSound
  <2>2. CASE ~automatic /\ (op = "off" \/ Qualified(o4))
    BY <1>13, <2>2, WaitingSound
  <2>3. CASE ~automatic /\ ~(op = "off" \/ Qualified(o4))
    <3>1. step = Displaced(o4, l, TRUE, clear, now)
      BY <2>3
    <3>2. step.c # core => sequence + 2 <= MaxSequence
      BY <1>4
    <3> HIDE DEF step
    <3> QED BY <1>2, <1>13, <3>1, <3>2, DisplacedSound
  <2> QED BY <2>1, <2>2, <2>3
<1> HIDE DEF step
<1> QED BY <1>1, <1>14, BecomesAccepted

\* What a group's report makes of the cache leaves everything else alone.
LEMMA LookedSound ==
  ASSUME NEW o, Sound(o), NEW g \in Aggregates, topology \in [Aggregates -> SUBSET Leaves]
  PROVE  /\ Sound(Looked(o, g)) /\ Looked(o, g).quarantine = o.quarantine
         /\ Looked(o, g).retained = o.retained /\ Looked(o, g).deferred = o.deferred
         /\ Looked(o, g).singles = o.singles
         /\ Looked(o, g).burst = o.burst /\ Looked(o, g).shown = o.shown
         /\ \A s \in Surfaces : Looked(o, g).cache[s] \in {o.cache[s], topology[s]}
         /\ g \in Surfaces => Looked(o, g).cache = topology
<1>1. o \in ObserverState /\ Surfaces \subseteq Aggregates
  BY ObserverAssumption DEF Sound
<1>2. CASE g \in Surfaces
  BY <1>1, <1>2 DEF Looked, Sound, Quiet, ObserverState
<1>3. CASE g \notin Surfaces /\ o.cache[g] = {}
  <2> DEFINE f == [o.cache EXCEPT ![g] = topology[g]]
  <2>1. f \in [Aggregates -> SUBSET Leaves] /\ \A s \in Surfaces : f[s] = o.cache[s]
    BY <1>1, <1>3 DEF ObserverState
  <2>2. Looked(o, g) = [o EXCEPT !.cache = f]
    BY <1>3 DEF Looked
  <2> HIDE DEF f
  <2> QED BY <1>1, <1>3, <2>1, <2>2 DEF Sound, Quiet, ObserverState
<1>4. CASE g \notin Surfaces /\ o.cache[g] # {}
  BY <1>4 DEF Looked, Sound
<1> QED BY <1>2, <1>3, <1>4

LEMMA AggregateReportSound ==
  ASSUME TypeOK, Records, NEW g \in Aggregates, NEW op \in Kinds, NEW clear \in BOOLEAN,
         AggregateReport(g, op, clear)
  PROVE  Records' /\ Accepted
<1> DEFINE o0 == Looked(obs, g)
           members == o0.cache[g]
           p == Snapshotted(o0)
           o1 == Pruned(p)
           o2 == IF op = "off" THEN o1 ELSE Noted(o1, g, FALSE)
           o3 == Revoked(Correlated(o2, {}, {g}))
           shift == IF op = "off" THEN Waiting(o3) ELSE Displaced(o3, g, FALSE, clear, lights)
           step == IF op = "off" /\ ArmedReady(o3, g, members, clear) THEN ArmedOff(o3, g)
                   ELSE IF op = "off" /\ OwnedReady(o3, g, members, clear)
                     THEN OwnedOff(o3, g, Managed(members))
                   ELSE IF Qualified(o3) THEN Single(o3, g, members)
                   ELSE IF shift.c # core THEN shift
                   ELSE Exact(shift.o, g)
<1>1. /\ Numbered(IF shift.c # core /\ step = shift THEN 2 ELSE 1)
      /\ Becomes(step)
  BY DEF AggregateReport
<1>2. /\ topology \in Topologies /\ managed \in SUBSET Leaves /\ sequence \in Nat
      /\ core \in CoreState /\ Sound(obs) /\ topology \in [Aggregates -> SUBSET Leaves]
  BY ObserverAssumption DEF TypeOK, Records
<1>3. Sound(o0) /\ o0.quarantine = obs.quarantine
  BY <1>2, LookedSound
<1> HIDE DEF o0
<1>4. members \in SUBSET Leaves
  BY <1>2, <1>3 DEF Sound, ObserverState
<1> HIDE DEF members
<1>5. Sound(p) /\ p.quarantine = obs.quarantine
  BY <1>3, SnapshottedSound
<1> HIDE DEF p
<1>6. Sound(o1) /\ o1.quarantine = obs.quarantine
  BY <1>5, PrunedSound
<1> HIDE DEF o1
<1>7. Sound(o2) /\ o2.quarantine = obs.quarantine
  <2>1. Sound(Noted(o1, g, FALSE)) /\ Noted(o1, g, FALSE).quarantine = o1.quarantine
    BY <1>6, NotedSound
  <2> QED BY <1>6, <2>1
<1> HIDE DEF o2
<1>8. Sound(o3) /\ o3.quarantine = obs.quarantine
  <2> DEFINE k == Correlated(o2, {}, {g})
  <2>1. Sound(k) /\ k.quarantine = obs.quarantine
    BY <1>2, <1>7, CorrelatedSound
  <2> HIDE DEF k
  <2>2. Sound(Revoked(k)) /\ Revoked(k).quarantine = k.quarantine
    BY <2>1, RevokedSound
  <2> QED BY <2>1, <2>2 DEF k
<1> HIDE DEF o3
<1>9. Waiting(o3).c = core /\ Waiting(o3).o = o3
  BY DEF Waiting, Step
<1>10. ASSUME shift.c # core => sequence + 2 <= MaxSequence
       PROVE  /\ StepSound(shift, obs.quarantine)
              /\ shift.c = core => Sound(shift.o) /\ shift.o.quarantine = obs.quarantine
  <2>1. CASE op = "off"
    BY <1>8, <1>9, <2>1, WaitingSound
  <2>2. CASE op # "off"
    <3>1. shift = Displaced(o3, g, FALSE, clear, lights)
      BY <2>2
    <3> HIDE DEF shift
    <3>2. /\ StepSound(shift, obs.quarantine)
          /\ shift.c = core => shift.o.quarantine = o3.quarantine
      <4> DEFINE d == Displaced(o3, g, FALSE, clear, lights)
      <4>1. d.c # core => sequence + 2 <= MaxSequence
        BY <1>10, <3>1
      <4>2. FALSE \in BOOLEAN /\ (FALSE => g \in Leaves)
        OBVIOUS
      <4>3. StepSound(d, obs.quarantine)
        BY <1>2, <1>8, <4>1, <4>2, DisplacedSound
      <4>4. KeepsQuarantine(d, o3)
        BY <1>2, <1>8, <4>1, <4>2, DisplacedSound
      <4> QED BY <3>1, <4>3, <4>4 DEF KeepsQuarantine
    <3> QED BY <1>8, <3>2 DEF StepSound
  <2> QED BY <2>1, <2>2
<1> HIDE DEF shift
<1>11. StepSound(step, obs.quarantine)
  <2>1. CASE op = "off" /\ ArmedReady(o3, g, members, clear)
    BY <1>2, <1>8, <2>1, ArmedOffSound
  <2>2. CASE /\ ~(op = "off" /\ ArmedReady(o3, g, members, clear))
             /\ op = "off" /\ OwnedReady(o3, g, members, clear)
    BY <1>2, <1>8, <2>2, OwnedOffSound
  <2> DEFINE grouped == \/ op = "off" /\ ArmedReady(o3, g, members, clear)
                        \/ op = "off" /\ OwnedReady(o3, g, members, clear)
  <2>3. CASE ~grouped /\ Qualified(o3)
    <3>1. step = Single(o3, g, members)
      BY <2>3
    <3> HIDE DEF step
    <3> QED BY <1>2, <1>4, <1>8, <3>1, SingleSound
  <2>4. CASE ~grouped /\ ~Qualified(o3) /\ shift.c # core
    <3>1. step = shift
      BY <2>4
    <3>2. sequence + 2 <= MaxSequence
      BY <1>1, <2>4, <3>1 DEF Numbered
    <3> HIDE DEF step
    <3> QED BY <1>10, <3>1, <3>2
  <2>5. CASE ~grouped /\ ~Qualified(o3) /\ shift.c = core
    <3>1. step = Exact(shift.o, g)
      BY <2>5
    <3>2. Sound(shift.o) /\ shift.o.quarantine = obs.quarantine
      BY <1>10, <2>5
    <3> HIDE DEF step
    <3> QED BY <1>2, <3>1, <3>2, ExactSound
  <2> QED BY <2>1, <2>2, <2>3, <2>4, <2>5
<1> HIDE DEF step
<1> QED BY <1>1, <1>11, BecomesAccepted

LEMMA UserCommandSound ==
  ASSUME TypeOK, Records, NEW l \in Leaves, NEW op \in Kinds, UserCommand(l, op)
  PROVE  Records' /\ Accepted
<1> DEFINE c == Submitted(core, op, None, {l}, {l}, sequence + 1)
           step == Step(Established(obs, {l}), c, {})
<1>1. Becomes(step) /\ sequence + 1 \in 0..MaxSequence
  BY Bounds DEF UserCommand, Numbered, TypeOK
<1>2. Receipt(op, None, {l})
  BY DEF Receipt
<1>3. c = core \/ (c \in CoreState /\ {l} # {} /\ Took(core, c, op, None, {l}))
  BY <1>1, <1>2, SubmittedTook DEF Records
<1>4. Sound(Established(obs, {l}))
  BY EstablishedSound DEF Records
<1>5. step.o = Established(obs, {l}) /\ step.c = c /\ step.taken = {}
  BY DEF Step
<1> HIDE DEF c, step
<1>6. StepSound(step, obs.quarantine)
  BY <1>2, <1>3, <1>4, <1>5 DEF StepSound, Submits
<1> QED BY <1>1, <1>6, BecomesAccepted

LEMMA ChainReportSound ==
  ASSUME Records, NEW l \in Leaves, NEW op \in Kinds, ChainReport(l, op)
  PROVE  Records' /\ Accepted
<1>1. Sound(Dropped(obs, {l}))
  BY DroppedSound DEF Records
<1>2. Becomes(Waiting(Dropped(obs, {l})))
  BY DEF ChainReport
<1> QED BY <1>1, <1>2, WaitingSound, BecomesAccepted

LEMMA SceneRecallSound ==
  ASSUME TypeOK, Records, NEW s \in Surfaces, SceneRecall(s)
  PROVE  Records' /\ Accepted
<1> DEFINE S == Managed(topology[s])
           p == [obs EXCEPT !.cache = topology, !.displaced[s] = Closed, !.recall[s] = Burst]
           o == Forgotten(Dropped(p, S))
           ok == {l \in S : lights[l] # "gone"}
           c == Submitted(core, "appearance", s, ok, S, sequence + 1)
           step == Step(IF c = core THEN o ELSE Established(o, ok), c, {})
<1>1. Becomes(step) /\ sequence + 1 \in 0..MaxSequence
  BY Bounds DEF SceneRecall, Numbered, TypeOK
<1>2. /\ topology \in [Aggregates -> SUBSET Leaves] /\ managed \in SUBSET Leaves
      /\ core \in CoreState /\ Sound(obs)
  BY ObserverAssumption DEF TypeOK, Records
<1>3. Sound(p)
  <2>1. /\ [obs.displaced EXCEPT ![s] = Closed] \in [Surfaces -> Window]
        /\ [obs.recall EXCEPT ![s] = Burst] \in [Surfaces -> -1..Burst]
    BY <1>2, Bounds DEF Sound, ObserverState
  <2> DEFINE f == [obs.displaced EXCEPT ![s] = Closed]
             h == [obs.recall EXCEPT ![s] = Burst]
  <2>2. p = [obs EXCEPT !.cache = topology, !.displaced = f, !.recall = h]
    BY <1>2 DEF Sound, ObserverState
  <2> HIDE DEF f, h
  <2> QED BY <1>2, <2>1, <2>2 DEF Sound, Quiet, ObserverState, f, h
<1>4. ok \in SUBSET Leaves
  BY <1>2 DEF Managed
<1> HIDE DEF p, ok, S
<1>5. Sound(o)
  BY <1>3, DroppedSound, ForgottenSound
<1> HIDE DEF o
<1>6. Receipt("appearance", s, ok)
  BY <1>4, ObserverAssumption DEF Receipt
<1>7. c = core \/ (c \in CoreState /\ ok # {} /\ Took(core, c, "appearance", s, ok))
  BY <1>1, <1>2, <1>6, SubmittedTook
<1>8. step.o \in {o, Established(o, ok)} /\ step.c = c /\ step.taken = {}
  BY DEF Step
<1> HIDE DEF c, step
<1>9. Sound(step.o)
  BY <1>5, <1>8, EstablishedSound
<1>10. StepSound(step, obs.quarantine)
  BY <1>6, <1>7, <1>8, <1>9 DEF StepSound, Submits
<1> QED BY <1>1, <1>10, BecomesAccepted

LEMMA SceneDisplacedSound ==
  ASSUME Records, NEW s \in Surfaces, SceneDisplaced(s)
  PROVE  Records' /\ Accepted
<1> DEFINE w == IF obs.recent[s].left >= 0 THEN obs.recent[s] ELSE Closed
           v == [w EXCEPT !.left = Hold]
           f == [obs.displaced EXCEPT ![s] = v]
           o == [obs EXCEPT !.displaced = f]
<1>1. Becomes(Waiting(o))
  BY DEF SceneDisplaced
<1>2. w \in Window
  BY Bounds DEF Records, Sound, ObserverState
<1> HIDE DEF w
<1>3. v \in Window
  BY <1>2, Bounds DEF Window
<1> HIDE DEF v
<1>4. f \in [Surfaces -> Window]
  BY <1>3 DEF Records, Sound, ObserverState
<1> HIDE DEF f
<1>5. Sound(o)
  BY <1>4, WindowUpdate DEF Records
<1> HIDE DEF o
<1> QED BY <1>1, <1>5, WaitingSound, BecomesAccepted

-----------------------------------------------------------------------------
(* Timers *)

LEMMA SingleFiresSound ==
  ASSUME Records, NEW l \in Leaves, SingleFires(l)
  PROVE  Records' /\ Accepted
<1> DEFINE o == Uncalled(obs, {l})
           timer == obs.singles[l]
           step == IF o.retained[l].op = timer.op THEN SingleApplied(o, l) ELSE Waiting(o)
<1>1. Becomes(step)
  BY DEF SingleFires
<1>2. Sound(o) /\ o.quarantine = obs.quarantine
  BY UncalledSound DEF Records
<1> HIDE DEF o, timer
<1>3. StepSound(SingleApplied(o, l), obs.quarantine)
  BY <1>2, SingleAppliedSound DEF Records
<1>4. StepSound(step, obs.quarantine)
  BY <1>2, <1>3, WaitingSound
<1> HIDE DEF step
<1> QED BY <1>1, <1>4, BecomesAccepted

LEMMA GroupFiresSound ==
  ASSUME Records, NEW d \in obs.deferred, GroupFires(d)
  PROVE  Records' /\ Accepted
<1> DEFINE o == [obs EXCEPT !.deferred = @ \ {d}]
           step == IF StillNested(d) THEN GroupApplied(o, d.group, "off", d.parts)
                   ELSE Waiting(o)
<1>1. Becomes(step)
  BY DEF GroupFires
<1>2. Sound(o) /\ o.quarantine = obs.quarantine
  BY DEF Records, Sound, Quiet, ObserverState
<1>3. /\ d.group \in Aggregates /\ d.parts \in SUBSET (Leaves \X (1..MaxSequence))
  BY DEF Records, Sound, ObserverState, Deferral
<1>4. {p[1] : p \in d.parts} \cap obs.quarantine = {}
  BY DEF Records, Sound, Quiet, LeavesOf
<1> HIDE DEF o
<1>5. StepSound(GroupApplied(o, d.group, "off", d.parts), obs.quarantine)
  BY <1>2, <1>3, <1>4, GroupAppliedSound DEF Records
<1>6. StepSound(step, obs.quarantine)
  BY <1>2, <1>5, WaitingSound
<1> HIDE DEF step
<1> QED BY <1>1, <1>6, BecomesAccepted

LEMMA ExpiryFiresSound ==
  ASSUME Records, ExpiryFires
  PROVE  Records' /\ Accepted
<1> DEFINE rest == Without(obs, Expirable(obs))
           n == IF Held(rest) = {} THEN -1 ELSE Burst
           o == [rest EXCEPT !.expiry = n]
<1>1. Becomes(Waiting(o))
  BY DEF ExpiryFires, Expired
<1>2. Sound(rest)
  BY WithoutSound DEF Records
<1>3. n \in -1..Burst
  BY Bounds
<1> HIDE DEF rest, n
<1>4. Sound(o)
  BY <1>2, <1>3 DEF Sound, Quiet, ObserverState
<1> HIDE DEF o
<1> QED BY <1>1, <1>4, WaitingSound, BecomesAccepted

-----------------------------------------------------------------------------
(* Time and lifecycle *)

LEMMA OlderTyped ==
  ASSUME NEW e \in Evidence \cup {Nothing}
  PROVE  Older(e) \in Evidence \cup {Nothing} /\ (e = Nothing => Older(e) = Nothing)
<1>1. CASE e = Nothing
  BY <1>1 DEF Older, Nothing
<1>2. CASE e \in Evidence /\ e.age > Hold
  BY <1>2 DEF Older, Evidence, Nothing, Kinds
<1>3. CASE e \in Evidence /\ ~(e.age > Hold)
  <2>1. e.age + 1 \in 0..Hold + 1 /\ e.op # "none" /\ e # Nothing
    BY <1>3, Bounds DEF Evidence, Kinds, Nothing
  <2> DEFINE n == e.age + 1
  <2>2. Older(e) = [e EXCEPT !.age = n]
    BY <1>3, <2>1 DEF Older, Evidence
  <2> HIDE DEF n
  <2>3. [e EXCEPT !.age = n] \in Evidence
    BY <1>3, <2>1 DEF Evidence, n
  <2> QED BY <2>1, <2>2, <2>3
<1> QED BY <1>1, <1>2, <1>3

LEMMA NearerTyped ==
  /\ \A t \in Timer : t.left # 0 => Nearer(t) \in Timer
  /\ \A d \in Deferral : d.left # 0 => Nearer(d) \in Deferral /\ LeavesOf(Nearer(d)) = LeavesOf(d)
  /\ \A w \in Window : w.left > 0 => Nearer(w) \in Window
<1>1. ASSUME NEW t \in Timer, t.left # 0
      PROVE  Nearer(t) \in Timer
  <2>1. t.left - 1 \in 0..Hold
    BY <1>1, Bounds DEF Timer
  <2> QED BY <2>1 DEF Nearer, Timer
<1>2. ASSUME NEW d \in Deferral, d.left # 0
      PROVE  Nearer(d) \in Deferral /\ LeavesOf(Nearer(d)) = LeavesOf(d)
  <2>1. d.left - 1 \in 0..Burst
    BY <1>2, Bounds DEF Deferral
  <2>2. Nearer(d) \in Deferral /\ Nearer(d).parts = d.parts
    BY <2>1 DEF Nearer, Deferral
  <2> QED BY <2>2 DEF LeavesOf
<1>3. ASSUME NEW w \in Window, w.left > 0
      PROVE  Nearer(w) \in Window
  <2>1. w.left - 1 \in -1..Hold
    BY <1>3, Bounds DEF Window
  <2> QED BY <2>1 DEF Nearer, Window
<1> QED BY <1>1, <1>2, <1>3

LEMMA NarrowerTyped ==
  ASSUME NEW w \in Window
  PROVE  Narrower(w) \in Window
<1>1. w.left \in Int
  BY Bounds DEF Window
<1> QED BY <1>1, NearerTyped, Bounds DEF Narrower

LEMMA CountsTyped ==
  /\ \A n \in 0..Burst + 1 : Later(n) \in 0..Burst + 1
  /\ \A n \in -1..Burst : Sooner(n) \in -1..Burst
  /\ \A n \in -1..Settle : Sooner(n) \in -1..Settle
  BY Bounds DEF Later, Sooner

\* A tick in parts; no timer is due, so none goes below zero.
LEMMA TickSound ==
  ASSUME Records, Tick
  PROVE  Records' /\ core' = core /\ uses' = uses
<1> DEFINE retained == [l \in Leaves |-> Older(obs.retained[l])]
           singles == [l \in Leaves |-> IF obs.singles[l] = NoTimer THEN NoTimer
                                        ELSE Nearer(obs.singles[l])]
           deferred == {Nearer(d) : d \in obs.deferred}
           expiry == Sooner(obs.expiry)
           burst == [obs.burst EXCEPT !.idle = Later(@)]
           since == Later(obs.since)
           recall == [s \in Surfaces |-> Sooner(obs.recall[s])]
           displaced == [s \in Surfaces |-> Narrower(obs.displaced[s])]
           recent == [s \in Surfaces |-> Narrower(obs.recent[s])]
           settling == Sooner(obs.settling)
<1>1. Sound(obs) /\ obs \in ObserverState
  BY DEF Records, Sound
<1>2. /\ retained \in [Leaves -> Evidence \cup {Nothing}]
      /\ \A l \in Leaves : obs.retained[l] = Nothing => retained[l] = Nothing
  BY <1>1, OlderTyped DEF ObserverState
<1>3. singles \in [Leaves -> Timer \cup {NoTimer}]
  <2>1. ASSUME NEW l \in Leaves, obs.singles[l] # NoTimer
        PROVE  Nearer(obs.singles[l]) \in Timer
    BY <1>1, <2>1, NearerTyped DEF ObserverState, Tick, Due
  <2> QED BY <2>1
<1>4. ASSUME NEW d \in obs.deferred
      PROVE  Nearer(d) \in Deferral /\ LeavesOf(Nearer(d)) = LeavesOf(d)
  BY <1>1, NearerTyped DEF ObserverState, Tick, Due
<1>5. /\ deferred \in SUBSET Deferral
      /\ \A l : (\A d \in obs.deferred : l \notin LeavesOf(d)) => \A d \in deferred : l \notin LeavesOf(d)
  BY <1>4
<1>6. /\ expiry \in -1..Burst /\ since \in 0..Burst + 1 /\ settling \in -1..Settle
      /\ recall \in [Surfaces -> -1..Burst]
  BY <1>1, CountsTyped DEF ObserverState
<1>7. burst \in BurstState
  <2>1. obs.burst \in BurstState
    BY <1>1 DEF ObserverState
  <2>2. Later(obs.burst.idle) \in 0..Burst + 1
    BY <2>1, CountsTyped DEF BurstState
  <2> QED BY <2>1, <2>2 DEF BurstState
<1>8. displaced \in [Surfaces -> Window] /\ recent \in [Surfaces -> Window]
  BY <1>1, NarrowerTyped DEF ObserverState
<1>9. obs' = [obs EXCEPT !.retained = retained, !.singles = singles, !.deferred = deferred,
                         !.expiry = expiry, !.burst = burst, !.since = since,
                         !.recall = recall, !.displaced = displaced, !.recent = recent,
                         !.settling = settling]
  BY DEF Tick
<1> HIDE DEF retained, singles, deferred, expiry, burst, since, recall, displaced, recent, settling
<1>10. obs' \in ObserverState
  BY <1>1, <1>2, <1>3, <1>5, <1>6, <1>7, <1>8, <1>9 DEF ObserverState
<1>11. /\ obs'.quarantine = obs.quarantine /\ obs'.retained = retained
       /\ obs'.deferred = deferred /\ obs.quarantine \subseteq Leaves
  BY <1>1, <1>9 DEF ObserverState
<1>12. Quiet(obs')
  BY <1>1, <1>2, <1>5, <1>11 DEF Sound, Quiet
<1> QED BY <1>10, <1>12 DEF Tick, Records, Sound

\* What the lifecycle does to the core: lights go back to the house and nothing
\* stays armed.
Withdrawn ==
  \E S \in SUBSET Leaves :
     /\ Turned(core, core', S, "none")
     /\ core'.armed = [g \in Aggregates |-> {}] /\ uses' = uses

LEMMA ClearedSound ==
  ASSUME NEW o, Sound(o)
  PROVE  /\ Sound(Cleared(o))
         /\ \A l \in Leaves : Cleared(o).retained[l] = Nothing
         /\ \A l \in Leaves, d \in Cleared(o).deferred : l \notin LeavesOf(d)
<1> DEFINE w == Without(o, Leaves)
           u == Uncalled(w, Leaves)
           n == Ungrouped(u, Leaves)
           f == Forgotten(n)
           none == [s \in Surfaces |-> Closed]
<1>0. \A l \in Leaves : w.retained[l] = Nothing
  BY DEF Without, Sound, ObserverState
<1>1. Sound(w)
  BY WithoutSound
<1>2. Cleared(o) = [f EXCEPT !.expiry = -1, !.displaced = none, !.recent = none]
  BY DEF Cleared, Dropped, Cancelled
<1> HIDE DEF w
<1>3. Sound(u)
  BY <1>1, UncalledSound
<1>9. u.retained = w.retained
  BY <1>1 DEF Uncalled, Sound, ObserverState
<1> HIDE DEF u
<1>4. Sound(n)
  BY <1>3, UngroupedSound
<1>10. /\ n.retained = u.retained
       /\ \A l \in Leaves, d \in n.deferred : l \notin LeavesOf(d)
  BY <1>3 DEF Ungrouped, Sound, ObserverState
<1> HIDE DEF n
<1>5. Sound(f)
  BY <1>4, ForgottenSound
<1>6. f.retained = n.retained /\ f.deferred = n.deferred
  BY <1>4 DEF Forgotten, Retired, Sound, ObserverState
<1> HIDE DEF f
<1>7. none \in [Surfaces -> Window] /\ -1 \in -1..Burst
  BY Bounds
<1> HIDE DEF none
<1>8. /\ Sound([f EXCEPT !.expiry = -1, !.displaced = none, !.recent = none])
      /\ [f EXCEPT !.expiry = -1, !.displaced = none, !.recent = none].retained = f.retained
      /\ [f EXCEPT !.expiry = -1, !.displaced = none, !.recent = none].deferred = f.deferred
  BY <1>5, <1>7 DEF Sound, Quiet, ObserverState
<1> QED BY <1>0, <1>2, <1>6, <1>8, <1>9, <1>10

LEMMA RelinquishedTables ==
  ASSUME NEW c \in CoreState
  PROVE  /\ Relinquished(c) \in CoreState
         /\ Turned(c, Relinquished(c), Leaves, "none")
         /\ Relinquished(c).armed = [g \in Aggregates |-> {}]
<1> DEFINE d == Asked(c, Leaves, "none", None)
           empty == [g \in Aggregates |-> {}]
<1>1. d \in CoreState /\ Turned(c, d, Leaves, "none")
  BY AskedTables
<1>2. Relinquished(c) = [d EXCEPT !.armed = empty] /\ empty \in [Aggregates -> SUBSET Leaves]
  BY DEF Relinquished
<1> HIDE DEF d, empty
<1> QED BY <1>1, <1>2 DEF CoreState, Turned, empty

\* 01:59 and a reset put lights into quarantine.
LEMMA NightlyLights ==
  ASSUME NEW o, Sound(o)
  PROVE  Nightly(o) \in SUBSET Leaves
BY ObserverAssumption DEF Nightly, Sound, ObserverState

LEMMA NightlyBoundarySound ==
  ASSUME TypeOK, Records, NightlyBoundary
  PROVE  Records' /\ Withdrawn
<1> DEFINE o == Cleared(obs)
           night == [o EXCEPT !.quarantine = Nightly(obs), !.settling = Settle]
           c == Relinquished(core)
<1>1. obs' = night /\ core' = c /\ uses' = uses
  BY DEF NightlyBoundary, Becomes, Step, Records
<1>2. /\ Sound(o) /\ \A l \in Leaves : o.retained[l] = Nothing
      /\ \A l \in Leaves, d \in o.deferred : l \notin LeavesOf(d)
  BY ClearedSound DEF Records
<1>3. Nightly(obs) \in SUBSET Leaves /\ Settle \in -1..Settle
  BY NightlyLights, Bounds DEF Records
<1>4. /\ c \in CoreState /\ Turned(core, c, Leaves, "none")
      /\ c.armed = [g \in Aggregates |-> {}]
  BY RelinquishedTables DEF Records
<1> HIDE DEF o, c
<1>5. Sound(night)
  BY <1>2, <1>3 DEF Sound, Quiet, ObserverState
<1> HIDE DEF night
<1> QED BY <1>1, <1>4, <1>5 DEF Records, Withdrawn

LEMMA ResetSound ==
  ASSUME TypeOK, Records, Reset
  PROVE  Records' /\ Withdrawn
<1> DEFINE o == Cleared(obs)
           shut == [s \in Surfaces |-> -1]
           clean == [o EXCEPT !.quarantine = Nightly(obs), !.recall = shut]
           r == Relinquished(core)
           zero == [l \in Leaves |-> 0]
           c == [r EXCEPT !.latest = zero]
<1>1. obs' = clean /\ core' = c /\ uses' = uses
  BY DEF Reset, Becomes, Step, Records
<1>2. /\ Sound(o) /\ \A l \in Leaves : o.retained[l] = Nothing
      /\ \A l \in Leaves, d \in o.deferred : l \notin LeavesOf(d)
  BY ClearedSound DEF Records
<1>3. Nightly(obs) \in SUBSET Leaves /\ shut \in [Surfaces -> -1..Burst]
  BY NightlyLights, Bounds DEF Records
<1>4. /\ r \in CoreState /\ Turned(core, r, Leaves, "none")
      /\ r.armed = [g \in Aggregates |-> {}]
  BY RelinquishedTables DEF Records
<1>5. zero \in [Leaves -> 0..MaxSequence]
  BY Bounds
<1> HIDE DEF o, r, shut, zero
<1>6. Sound(clean)
  BY <1>2, <1>3 DEF Sound, Quiet, ObserverState
<1>7. c \in CoreState /\ c.intent = r.intent /\ c.armed = r.armed
  BY <1>4, <1>5 DEF CoreState
<1> HIDE DEF clean, c
<1>8. Turned(core, c, Leaves, "none")
  BY <1>4, <1>7 DEF Turned
<1> QED BY <1>1, <1>4, <1>6, <1>7, <1>8 DEF Records, Withdrawn

LEMMA MembershipChangesSound ==
  ASSUME TypeOK, Records, NEW t \in Topologies, NEW scope \in Scopes,
         MembershipChanges(t, scope)
  PROVE  Records' /\ Withdrawn
<1> DEFINE affected == (managed \ scope) \cup (scope \ managed)
           p == [obs EXCEPT !.cache = t]
           o == Forgotten(Dropped(p, affected))
           touched == {s \in Surfaces : t[s] \cap affected # {} /\ obs.displaced[s].left >= 0}
           displaced == [s \in Surfaces |-> IF s \in touched THEN Closed ELSE o.displaced[s]]
           recent == [s \in Surfaces |-> IF s \in touched THEN Closed ELSE o.recent[s]]
           left == o.quarantine \cap scope
           changed == [o EXCEPT !.quarantine = left, !.displaced = displaced, !.recent = recent]
           a == Asked(core, managed \ scope, "none", None)
           empty == [g \in Aggregates |-> {}]
           c == [a EXCEPT !.armed = empty]
<1>1. core' = c /\ uses' = uses
  BY DEF MembershipChanges, Becomes, Step, Records
<1>2. obs' = [o EXCEPT !.quarantine = @ \cap scope,
                       !.displaced = [s \in Surfaces |-> IF s \in touched THEN Closed ELSE @[s]],
                       !.recent = [s \in Surfaces |-> IF s \in touched THEN Closed ELSE @[s]]]
  BY DEF MembershipChanges, Becomes, Step
<1>3. t \in [Aggregates -> SUBSET Leaves] /\ managed \in SUBSET Leaves
  BY ObserverAssumption DEF TypeOK
<1>4. Sound(p)
  BY <1>3 DEF Records, Sound, Quiet, ObserverState
<1> HIDE DEF p, affected
<1>5. Sound(o)
  BY <1>4, DroppedSound, ForgottenSound
<1> HIDE DEF o, touched
<1>6. obs' = changed
  BY <1>2, <1>5 DEF Sound, ObserverState
<1>7. displaced \in [Surfaces -> Window] /\ recent \in [Surfaces -> Window]
  BY <1>5, Bounds DEF Sound, ObserverState
<1>8. left \in SUBSET o.quarantine /\ left \in SUBSET Leaves
  BY <1>5 DEF Sound, ObserverState
<1> HIDE DEF displaced, recent, left
<1>9. Sound(changed)
  BY <1>5, <1>7, <1>8 DEF Sound, Quiet, ObserverState
<1>10. a \in CoreState /\ Turned(core, a, managed \ scope, "none")
  BY AskedTables DEF Records
<1>11. empty \in [Aggregates -> SUBSET Leaves]
  OBVIOUS
<1> HIDE DEF a, empty, changed
<1>12. c \in CoreState /\ c.intent = a.intent /\ c.armed = empty
  BY <1>10, <1>11 DEF CoreState
<1> HIDE DEF c
<1>13. Turned(core, c, managed \ scope, "none") /\ managed \ scope \in SUBSET Leaves
  BY <1>3, <1>10, <1>12 DEF Turned
<1> QED BY <1>1, <1>6, <1>9, <1>12, <1>13 DEF Records, Withdrawn, empty

-----------------------------------------------------------------------------
(* The house around the observer *)

World ==
  /\ topology \in Topologies /\ managed \in Scopes
  /\ lights \in [Leaves -> {"on", "off", "gone"}]
  /\ sequence \in 0..MaxSequence
  /\ newest \in [Leaves -> [op : Kinds \cup {"none"}, seq : 0..MaxSequence, age : 0..Hold + 1]]

LEMMA NumberedTyped ==
  ASSUME sequence \in 0..MaxSequence, NEW n \in {1, 2}, Numbered(n)
  PROVE  sequence' \in 0..MaxSequence
  BY Bounds DEF Numbered

LEMMA NowAskedTyped ==
  ASSUME World, sequence' \in 0..MaxSequence, NEW S, NEW op \in Kinds \cup {"none"},
         NowAsked(S, op)
  PROVE  newest' \in [Leaves -> [op : Kinds \cup {"none"}, seq : 0..MaxSequence, age : 0..Hold + 1]]
  BY Bounds DEF NowAsked, World

LEMMA ReportsTyped ==
  ASSUME World, Reports
  PROVE  World'
<1>1. ASSUME NEW l \in Leaves, NEW state \in {"on", "off", "gone"}, NEW cause \in Causes,
             NEW clear \in BOOLEAN, LeafReport(l, state, cause, clear)
      PROVE  World'
  <2>1. \E n \in {1, 2} : Numbered(n)
    BY <1>1 DEF LeafReport
  <2>2. \E op \in Kinds \cup {"none"} : NowAsked({l}, op)
    BY <1>1 DEF LeafReport, Kinds
  <2>3. lights' = [lights EXCEPT ![l] = state] /\ UNCHANGED <<topology, managed>>
    BY <1>1 DEF LeafReport
  <2> QED BY <2>1, <2>2, <2>3, NumberedTyped, NowAskedTyped DEF World
<1>2. ASSUME NEW g \in Aggregates, NEW op \in Kinds, NEW clear \in BOOLEAN,
             AggregateReport(g, op, clear)
      PROVE  World'
  <2>1. \E n \in {1, 2} : Numbered(n)
    BY <1>2 DEF AggregateReport
  <2>2. UNCHANGED <<topology, managed, lights, newest>>
    BY <1>2 DEF AggregateReport
  <2> QED BY <2>1, <2>2, NumberedTyped DEF World
<1>3. ASSUME NEW l \in Leaves, NEW op \in Kinds, UserCommand(l, op) \/ ChainReport(l, op)
      PROVE  World'
  <2>1. /\ Numbered(1) /\ \E what \in Kinds \cup {"none"} : NowAsked({l}, what)
        /\ lights' = [lights EXCEPT ![l] = IF op = "off" THEN "off" ELSE "on"]
        /\ UNCHANGED <<topology, managed>>
    BY <1>3 DEF UserCommand, ChainReport, Kinds
  <2> QED BY <2>1, NumberedTyped, NowAskedTyped DEF World
<1>4. ASSUME NEW s \in Surfaces, SceneRecall(s)
      PROVE  World'
  <2>1. /\ Numbered(1) /\ \E S : NowAsked(S, "appearance")
        /\ UNCHANGED <<topology, managed, lights>>
    BY <1>4 DEF SceneRecall
  <2> QED BY <2>1, NumberedTyped, NowAskedTyped DEF World, Kinds
<1>5. ASSUME NEW s \in Surfaces, SceneDisplaced(s)
      PROVE  World'
  BY <1>5 DEF SceneDisplaced, World
<1> QED BY <1>1, <1>2, <1>3, <1>4, <1>5 DEF Reports

LEMMA OthersTyped ==
  ASSUME World, Timers \/ Tick \/ Lifecycle
  PROVE  World'
<1>1. CASE Timers
  BY <1>1 DEF Timers, SingleFires, GroupFires, ExpiryFires, World
<1>2. CASE Tick
  <2>1. ASSUME NEW e \in [op : Kinds \cup {"none"}, seq : 0..MaxSequence, age : 0..Hold + 1]
        PROVE  Older(e) \in [op : Kinds \cup {"none"}, seq : 0..MaxSequence, age : 0..Hold + 1]
    BY Bounds DEF Older
  <2>2. newest' \in [Leaves -> [op : Kinds \cup {"none"}, seq : 0..MaxSequence, age : 0..Hold + 1]]
    BY <1>2, <2>1 DEF Tick, World
  <2> QED BY <1>2, <2>2 DEF Tick, World
<1>3. CASE Lifecycle
  BY <1>3 DEF Lifecycle, NightlyBoundary, Reset, Regroup, MembershipChanges, World
<1> QED BY <1>1, <1>2, <1>3

-----------------------------------------------------------------------------
(* The theorems *)

ObserverInv == TypeOK /\ Quiet(obs)

LEMMA InvariantParts == ObserverInv <=> World /\ Records
  BY DEF ObserverInv, TypeOK, World, Records, Sound

LEMMA StepSoundness ==
  ASSUME ObserverInv, Next
  PROVE  Records' /\ (Accepted \/ Withdrawn)
<1>1. TypeOK /\ Records
  BY InvariantParts DEF ObserverInv
<1>2. CASE Reports
  BY <1>1, <1>2, LeafReportSound, AggregateReportSound, UserCommandSound, ChainReportSound,
     SceneRecallSound, SceneDisplacedSound DEF Reports
<1>3. CASE Timers
  BY <1>1, <1>3, SingleFiresSound, GroupFiresSound, ExpiryFiresSound DEF Timers
<1>4. CASE Tick
  BY <1>1, <1>4, TickSound DEF Accepted
<1>5. ASSUME NEW t \in Topologies, Regroup(t)
      PROVE  Records' /\ Accepted
  BY <1>1, <1>5 DEF Regroup, Records, Accepted
<1>6. CASE Lifecycle
  BY <1>1, <1>5, <1>6, NightlyBoundarySound, ResetSound, MembershipChangesSound DEF Lifecycle
<1> QED BY <1>2, <1>3, <1>4, <1>6 DEF Next

LEMMA InvariantInitially == Init => ObserverInv
<1> SUFFICES ASSUME Init PROVE ObserverInv
  OBVIOUS
<1>1. topology \in [Aggregates -> SUBSET Leaves]
  BY ObserverAssumption DEF Init
<1>2. Sound(obs)
  <2>1. obs = FreshObserver(topology)
    BY DEF Init
  <2> QED BY <1>1, <2>1, Bounds DEF FreshObserver, Sound, Quiet, ObserverState
<1>3. core \in CoreState
  BY Bounds DEF Init, FreshCore, CoreState
<1>4. World
  BY Bounds DEF Init, World, Nothing
<1>5. uses \in [1..MaxSequence -> Nat]
  BY DEF Init
<1> QED BY <1>2, <1>3, <1>4, <1>5, InvariantParts DEF Records

LEMMA InvariantHolds == Spec => []ObserverInv
<1>1. ObserverInv /\ [Next]_vars => ObserverInv'
  <2> SUFFICES ASSUME ObserverInv, [Next]_vars PROVE ObserverInv'
    OBVIOUS
  <2>1. CASE Next
    <3>1. World'
      BY <2>1, ReportsTyped, OthersTyped, InvariantParts DEF Next
    <3>2. Records'
      BY <2>1, StepSoundness
    <3> QED BY <3>1, <3>2 DEF ObserverInv, TypeOK, World, Records, Sound
  <2>2. CASE UNCHANGED vars
    BY <2>2 DEF vars, ObserverInv, TypeOK, Quiet, LeavesOf
  <2> QED BY <2>1, <2>2
<1> QED BY <1>1, InvariantInitially, PTL DEF Spec

\* Whatever is reported, commanded or recalled, however the groups are edited, the
\* observer's windows, timers and evidence stay within their ranges.
THEOREM TypeInvariant == Spec => []TypeOK
<1>1. ObserverInv => TypeOK
  BY DEF ObserverInv
<1> QED BY <1>1, InvariantHolds, PTL

\* Nothing but homeowner control happens to intent: a callback is one of its steps.
THEOREM IntentIsControl == Spec => CoreImplementsControl
<1>1. ASSUME ObserverInv, [Next]_vars, core' # core
      PROVE  Control!ControlNext
  <2>1. Next
    BY <1>1 DEF vars
  <2>2. Records' /\ (Accepted \/ Withdrawn)
    BY <1>1, <2>1, StepSoundness
  <2>3. core' \in CoreState
    BY <2>2 DEF Records
  <2>4. CASE Accepted
    <3>1. PICK op, g, ok : Receipt(op, g, ok) /\ ok # {} /\ Took(core, core', op, g, ok)
      BY <1>1, <2>4 DEF Accepted
    <3> QED BY <2>3, <3>1, TookIsControl
  <2>5. CASE Withdrawn
    <3>1. PICK S \in SUBSET Leaves : /\ Turned(core, core', S, "none")
                                    /\ core'.armed = [g \in Aggregates |-> {}]
      BY <2>5 DEF Withdrawn
    <3>2. Control!Withdraw(S)
      BY <3>1 DEF Control!Withdraw, Control!Asked, Turned
    <3> QED BY <3>2 DEF Control!ControlNext
  <2> QED BY <2>2, <2>4, <2>5
<1>2. ObserverInv /\ [Next]_vars => [core' # core => Control!ControlNext]_vars
  BY <1>1
<1> QED BY <1>2, InvariantHolds, PTL DEF Spec, CoreImplementsControl

\* The late reports of the shutdown at 01:59 become no intent, neither as a light's
\* own nor in a group, nor from evidence or timers of the time before.
THEOREM ShutdownIsNotIntent == Spec => QuarantineHolds
<1>1. ASSUME ObserverInv, [Next]_vars, uses' # uses, NEW l \in obs.quarantine
      PROVE  core'.intent[l] = core.intent[l]
  <2>1. Next
    BY <1>1 DEF vars
  <2>2. Accepted
    BY <1>1, <2>1, StepSoundness DEF Withdrawn
  <2>3. PICK op, g, ok : Took(core, core', op, g, ok) /\ ok \cap obs.quarantine = {}
    BY <1>1, <2>2 DEF Accepted
  <2>4. l \in Leaves
    BY <1>1 DEF ObserverInv, TypeOK, ObserverState
  <2> QED BY <2>3, <2>4 DEF Took, Turned
<1>2. ObserverInv /\ [Next]_vars =>
        [uses' # uses => \A l \in obs.quarantine : core'.intent[l] = core.intent[l]]_vars
  BY <1>1
<1> QED BY <1>2, InvariantHolds, PTL DEF Spec, QuarantineHolds

-----------------------------------------------------------------------------
(* Every report once, and the newest rules *)

\* The report of light l under sequence q is still evidence, its own or a group's.
Marked(o, l, q) ==
  \/ o.retained[l] # Nothing /\ o.retained[l].seq = q
  \/ \E d \in o.deferred : <<l, q>> \in d.parts

\* One of the reports of group d is not later than q; an intent of q that reaches a
\* light of the group makes the ledger refuse it.
Since(d, q) == \E p \in d.parts : p[2] <= q
Spent(d, c) == \E p, r \in d.parts : p[2] <= c.latest[r[1]]

\* No armed group has more lights than group d: it is not nested any more.
Loose(d, c) ==
  \A g \in Aggregates : LeavesOf(d) \subseteq c.armed[g] => LeavesOf(d) = c.armed[g]

\* Group d was found in a burst that went on until e was found.
Before(d, e) == LeavesOf(d) \subseteq LeavesOf(e) /\ \A p \in e.parts : Since(d, p[2])

Numbers(o, n) == \A l \in Leaves, q \in 1..MaxSequence : Marked(o, l, q) => q <= n
Unique(o) ==
  \A k, l \in Leaves, q \in 1..MaxSequence : Marked(o, k, q) /\ Marked(o, l, q) => k = l
BurstIsLater(o) ==
  \A d \in o.deferred :
     /\ d.parts # {}
     /\ \A l \in o.burst.leaves \cup LeavesOf(d) :
          o.retained[l] # Nothing => Since(d, o.retained[l].seq)
Prefixes(o) ==
  \A d \in o.deferred : \A l \in o.burst.leaves :
     <<l, o.retained[l].seq>> \in d.parts => LeavesOf(d) \subseteq o.burst.leaves
Nested(o) ==
  \A d, e \in o.deferred : d.parts \cap e.parts # {} => Before(d, e) \/ Before(e, d)

Ordered(o, n) == Numbers(o, n) /\ Unique(o) /\ BurstIsLater(o) /\ Prefixes(o) /\ Nested(o)

\* What took part in intent is no evidence any more, or only of a group that the
\* ledger refuses or whose timer will find it nested no more.
Unused(o, u) == \A l \in Leaves : o.retained[l] # Nothing => u[o.retained[l].seq] = 0
OnceMore(o, c, u) ==
  \A d \in o.deferred : (\E p \in d.parts : u[p[2]] > 0) => Spent(d, c) \/ Loose(d, c)
Once(u, n) == \A q \in 1..MaxSequence : u[q] <= 1 /\ (q > n => u[q] = 0)

\* Armed lights are not Manual, and a light of a waiting group became so only by an
\* intent that overtook the group.
ArmedIsOff(c) == \A g \in Aggregates : \A l \in c.armed[g] : c.intent[l] # "manual"
ManualSpends(o, c) ==
  \A d \in o.deferred : \A l \in LeavesOf(d) : c.intent[l] = "manual" => Spent(d, c)

\* Evidence that the ledger would accept asks for what the newest report asks for.
Known(c, n) == \A l \in Leaves : c.latest[l] <= n
Newest(o, c, now) ==
  \A l \in Leaves : o.retained[l] # Nothing /\ o.retained[l].seq > c.latest[l]
                    => now[l].op = o.retained[l].op
NewestOfGroups(o, c, now, states) ==
  \A d \in o.deferred : \A l \in LeavesOf(d) :
     ~Spent(d, c) /\ states[l] = "off" => now[l].op = "off"

Account(o, c, u, n, now, states) ==
  /\ Ordered(o, n)
  /\ Unused(o, u) /\ OnceMore(o, c, u) /\ Once(u, n)
  /\ ArmedIsOff(c) /\ ManualSpends(o, c)
  /\ Known(c, n) /\ Newest(o, c, now) /\ NewestOfGroups(o, c, now, states)

\* Observer r is o with less evidence and in the same burst or none.
Shrunk(o, r) ==
  /\ \A l \in Leaves : r.retained[l] \in {o.retained[l], Nothing}
  /\ r.deferred \subseteq o.deferred
  /\ r.burst.leaves \in {o.burst.leaves, {}}

LEMMA ShrunkTwice ==
  ASSUME NEW o, NEW p, NEW r, Shrunk(o, p), Shrunk(p, r)
  PROVE  Shrunk(o, r)
  BY DEF Shrunk

LEMMA PartsOf ==
  ASSUME NEW o, Sound(o), NEW d \in o.deferred
  PROVE  /\ d.parts \in SUBSET (Leaves \X (1..MaxSequence)) /\ LeavesOf(d) \in SUBSET Leaves
         /\ \A p \in d.parts : p = <<p[1], p[2]>> /\ p[1] \in LeavesOf(d) /\ p[1] \in Leaves
                               /\ p[2] \in 1..MaxSequence
         /\ \A l \in LeavesOf(d) : \E p \in d.parts : p[1] = l
<1>1. d.parts \in SUBSET (Leaves \X (1..MaxSequence))
  BY DEF Sound, ObserverState, Deferral
<1>2. \A p \in d.parts : p = <<p[1], p[2]>> /\ p[1] \in Leaves /\ p[2] \in 1..MaxSequence
  BY <1>1
<1> QED BY <1>1, <1>2 DEF LeavesOf

LEMMA EvidenceOf ==
  ASSUME NEW o, Sound(o), NEW l \in Leaves
  PROVE  /\ o.retained[l] # Nothing =>
              /\ o.retained[l] \in Evidence /\ o.retained[l].seq \in 1..MaxSequence
              /\ o.retained[l].op \in Kinds
         /\ o.retained[l] = Nothing =>
              o.retained[l].seq = 0 /\ o.retained[l].op = "none"
  BY DEF Sound, ObserverState, Evidence, Nothing

LEMMA BurstOf ==
  ASSUME NEW o, Sound(o)
  PROVE  o.burst.leaves \in SUBSET Leaves
  BY DEF Sound, ObserverState, BurstState

LEMMA ShrunkOrdered ==
  ASSUME NEW o, Sound(o), NEW r, Sound(r), Shrunk(o, r), NEW n, Ordered(o, n)
  PROVE  Ordered(r, n)
<1>1. \A l \in Leaves, q \in 1..MaxSequence : Marked(r, l, q) => Marked(o, l, q)
  BY EvidenceOf DEF Shrunk, Marked
<1>2. Numbers(r, n) /\ Unique(r)
  BY <1>1 DEF Ordered, Numbers, Unique
<1>3. BurstIsLater(r)
  <2>0. \A d \in r.deferred : d.parts # {}
    BY DEF Ordered, BurstIsLater, Shrunk
  <2> SUFFICES ASSUME NEW d \in r.deferred, NEW l \in r.burst.leaves \cup LeavesOf(d),
                      r.retained[l] # Nothing
               PROVE  Since(d, r.retained[l].seq)
    BY <2>0 DEF BurstIsLater
  <2>1. l \in Leaves /\ d \in o.deferred /\ l \in o.burst.leaves \cup LeavesOf(d)
    BY BurstOf, PartsOf DEF Shrunk
  <2> QED BY <2>1 DEF Ordered, BurstIsLater, Shrunk
<1>4. Prefixes(r)
  <2> SUFFICES ASSUME NEW d \in r.deferred, NEW l \in r.burst.leaves,
                      <<l, r.retained[l].seq>> \in d.parts
               PROVE  LeavesOf(d) \subseteq r.burst.leaves
    BY DEF Prefixes
  <2>1. l \in Leaves /\ d \in o.deferred /\ r.burst.leaves = o.burst.leaves
    BY BurstOf DEF Shrunk
  <2>2. r.retained[l].seq \in 1..MaxSequence
    BY PartsOf
  <2>3. r.retained[l] = o.retained[l]
    BY <2>1, <2>2, EvidenceOf DEF Shrunk
  <2> QED BY <2>1, <2>3 DEF Ordered, Prefixes
<1>5. Nested(r)
  BY DEF Ordered, Nested, Shrunk
<1> QED BY <1>2, <1>3, <1>4, <1>5 DEF Ordered

LEMMA ShrunkAccount ==
  ASSUME NEW o, Sound(o), NEW r, Sound(r), Shrunk(o, r), NEW c, NEW u, NEW n, NEW now, NEW states,
         Account(o, c, u, n, now, states)
  PROVE  Account(r, c, u, n, now, states)
<1>1. Ordered(r, n)
  BY ShrunkOrdered DEF Account
<1>2. Unused(r, u) /\ OnceMore(r, c, u)
  BY DEF Account, Unused, OnceMore, Shrunk
<1>3. ManualSpends(r, c)
  BY DEF Account, ManualSpends, Shrunk
<1>4. Newest(r, c, now) /\ NewestOfGroups(r, c, now, states)
  BY DEF Account, Newest, NewestOfGroups, Shrunk
<1> QED BY <1>1, <1>2, <1>3, <1>4 DEF Account

LEMMA LaterAccount ==
  ASSUME NEW o, NEW c \in CoreState, NEW u, NEW now, NEW states, NEW n \in Nat, NEW m \in Nat, n <= m,
         Account(o, c, u, n, now, states)
  PROVE  Account(o, c, u, m, now, states)
<1>1. Numbers(o, m) /\ Once(u, m)
  BY Bounds DEF Account, Ordered, Numbers, Once
<1>2. Known(c, m)
  BY Bounds DEF Account, Known, CoreState
<1> QED BY <1>1, <1>2 DEF Account, Ordered

\* Everything that takes evidence away.
LEMMA Shrinking ==
  ASSUME NEW o, Sound(o), NEW S
  PROVE  /\ Shrunk(o, o) /\ Shrunk(o, Without(o, S)) /\ Shrunk(o, Uncalled(o, S))
         /\ Shrunk(o, Ungrouped(o, S)) /\ Shrunk(o, Established(o, S)) /\ Shrunk(o, Snapshotted(o))
<1>1. o \in ObserverState
  BY DEF Sound
<1>2. \A l \in Leaves : l \in DOMAIN o.retained
  BY <1>1 DEF ObserverState
<1>3. Shrunk(o, Without(o, S))
  BY <1>1, <1>2 DEF ObserverState, Without, Shrunk
<1> QED BY <1>1, <1>3 DEF ObserverState, Uncalled, Ungrouped, Established, Snapshotted, Shrunk

LEMMA RetiredShrinks ==
  ASSUME NEW o, Sound(o)
  PROVE  Shrunk(o, Retired(o)) /\ Shrunk(o, Forgotten(o))
<1>1. /\ Retired(o).retained = o.retained /\ Retired(o).deferred = o.deferred
      /\ Retired(o).burst = NoBurst
  BY DEF Sound, ObserverState, Retired
<1>2. /\ Forgotten(o).retained = o.retained /\ Forgotten(o).deferred = o.deferred
      /\ Forgotten(o).burst = NoBurst
  BY DEF Sound, ObserverState, Retired, Forgotten
<1> QED BY <1>1, <1>2 DEF Shrunk, NoBurst

LEMMA DroppedShrinks ==
  ASSUME NEW o, Sound(o), NEW S
  PROVE  /\ Shrunk(o, Cancelled(o, S)) /\ Shrunk(o, Dropped(o, S))
         /\ \A l \in Leaves \cap S : Dropped(o, S).retained[l] = Nothing
         /\ \A d \in Dropped(o, S).deferred : LeavesOf(d) \cap S = {}
         /\ \A d \in Cancelled(o, S).deferred : LeavesOf(d) \cap S = {}
<1> DEFINE w == Without(o, S)
           u == Uncalled(w, S)
           v == Uncalled(o, S)
<1>1. Sound(w) /\ Shrunk(o, w) /\ \A l \in Leaves \cap S : w.retained[l] = Nothing
  <2>1. w.retained = [l \in Leaves |-> IF l \in S THEN Nothing ELSE o.retained[l]]
    BY DEF Without, Sound, ObserverState
  <2>2. Sound(w) /\ Shrunk(o, w)
    BY WithoutSound, Shrinking
  <2> QED BY <2>1, <2>2
<1>2. Sound(v) /\ Shrunk(o, v)
  BY UncalledSound, Shrinking
<1>3. Cancelled(o, S) = Ungrouped(v, S) /\ Dropped(o, S) = Ungrouped(u, S)
  BY DEF Cancelled, Dropped
<1> HIDE DEF w, v
<1>4. Sound(u) /\ Shrunk(w, u) /\ u.retained = w.retained
  <2>1. u.retained = w.retained
    BY <1>1 DEF Uncalled, Sound, ObserverState
  <2> QED BY <1>1, <2>1, UncalledSound, Shrinking
<1> HIDE DEF u
<1>5. /\ Shrunk(u, Ungrouped(u, S)) /\ Shrunk(v, Ungrouped(v, S))
      /\ Ungrouped(u, S).retained = u.retained
      /\ \A d \in Ungrouped(u, S).deferred : LeavesOf(d) \cap S = {}
      /\ \A d \in Ungrouped(v, S).deferred : LeavesOf(d) \cap S = {}
  BY <1>2, <1>4, Shrinking DEF Ungrouped, Sound, ObserverState
<1>6. Shrunk(o, Ungrouped(v, S)) /\ Shrunk(o, Ungrouped(u, S))
  BY <1>1, <1>2, <1>4, <1>5, ShrunkTwice
<1> QED BY <1>1, <1>3, <1>4, <1>5, <1>6

LEMMA PrunedShrinks ==
  ASSUME NEW o, Sound(o)
  PROVE  Shrunk(o, Pruned(o)) /\ Shrunk(o, Revoked(o)) /\ Revoked(o).burst = o.burst
<1> DEFINE stale == {l \in Held(o) : o.retained[l].age > HoldOf(o, l, o.retained[l].op)}
           w == Without(o, stale)
<1>1. Sound(w) /\ Shrunk(o, w)
  BY WithoutSound, Shrinking
<1>2. Pruned(o) = Uncalled(w, stale)
  BY DEF Pruned
<1> HIDE DEF w, stale
<1>3. Shrunk(w, Uncalled(w, stale))
  BY <1>1, Shrinking
<1>4. Shrunk(o, Revoked(o)) /\ Revoked(o).burst = o.burst
  BY Shrinking DEF Revoked, Uncalled, Sound, ObserverState
<1> QED BY <1>1, <1>2, <1>3, <1>4, ShrunkTwice

LEMMA NotedShrinks ==
  ASSUME NEW o, Sound(o), NEW x, NEW leaf
  PROVE  Shrunk(o, Noted(o, x, leaf)) /\ Shrunk(o, Witnessed(o, x, leaf))
<1>1. /\ Noted(o, x, leaf).retained = o.retained /\ Noted(o, x, leaf).deferred = o.deferred
      /\ Noted(o, x, leaf).burst = o.burst
  BY DEF Noted, Sound, ObserverState
<1>2. /\ Witnessed(o, x, leaf).retained = o.retained /\ Witnessed(o, x, leaf).deferred = o.deferred
      /\ Witnessed(o, x, leaf).burst = o.burst
  BY DEF Witnessed, Sound, ObserverState
<1> QED BY <1>1, <1>2 DEF Shrunk

-----------------------------------------------------------------------------
(* The account and the receipts that the ledger accepts *)

After(taken) == [q \in 1..MaxSequence |-> uses[q] + IF q \in taken THEN 1 ELSE 0]

\* A receipt of sequence q moves the newest sequences of its members on.
Noticed(c, d, members, q) ==
  \A l \in Leaves : d.latest[l] = IF l \in members /\ q > c.latest[l] THEN q ELSE c.latest[l]

\* A waiting group that shares lights with an accepted receipt is refused from now
\* on, or it comes from the same burst and goes beyond the receipt's lights.
Answered(d, op, parts, ok, q) ==
  LeavesOf(d) \cap ok # {} =>
    \/ Since(d, q) \/ Spent(d, core)
    \/ /\ op # "appearance"
       /\ d.parts \cap parts # {} => ok \subseteq LeavesOf(d)
       /\ LeavesOf(d) \subseteq ok /\ LeavesOf(d) # ok => ~Loose(d, core)

LEMMA NoticedLater ==
  ASSUME NEW c \in CoreState, NEW d \in CoreState, NEW members, NEW q \in Nat, Noticed(c, d, members, q)
  PROVE  /\ \A l \in Leaves : c.latest[l] <= d.latest[l] /\ c.latest[l] \in Nat /\ d.latest[l] \in Nat
         /\ \A l \in Leaves \cap members : q <= d.latest[l]
         /\ \A n \in Nat : Known(c, n) /\ q <= n => Known(d, n)
<1>1. \A l \in Leaves : c.latest[l] \in Nat /\ d.latest[l] \in Nat
  BY Bounds DEF CoreState
<1> QED BY <1>1 DEF Noticed, Known

LEMMA SpentStays ==
  ASSUME NEW o, Sound(o), NEW e \in o.deferred, NEW c \in CoreState, NEW d \in CoreState,
         NEW members, NEW q \in Nat, Noticed(c, d, members, q)
  PROVE  /\ Spent(e, c) => Spent(e, d)
         /\ Since(e, q) /\ LeavesOf(e) \cap members # {} => Spent(e, d)
<1>1. ASSUME Spent(e, c) PROVE Spent(e, d)
  <2>1. PICK p \in e.parts, r \in e.parts : p[2] <= c.latest[r[1]]
    BY <1>1 DEF Spent
  <2>2. p[2] \in Nat /\ r[1] \in Leaves
    BY PartsOf, Bounds
  <2>3. c.latest[r[1]] <= d.latest[r[1]] /\ c.latest[r[1]] \in Nat /\ d.latest[r[1]] \in Nat
    BY <2>2, NoticedLater
  <2>4. p[2] <= d.latest[r[1]]
    <3> DEFINE x == p[2]
               y == c.latest[r[1]]
               z == d.latest[r[1]]
    <3>1. x <= y /\ y <= z /\ x \in Nat /\ y \in Nat /\ z \in Nat
      BY <2>1, <2>2, <2>3
    <3> HIDE DEF x, y, z
    <3>2. x <= z
      BY <3>1
    <3> QED BY <3>2 DEF x, z
  <2> QED BY <2>4 DEF Spent
<1>2. ASSUME Since(e, q), LeavesOf(e) \cap members # {} PROVE Spent(e, d)
  <2>1. PICK p \in e.parts : p[2] <= q
    BY <1>2 DEF Since
  <2>2. PICK r \in e.parts : r[1] \in members
    BY <1>2 DEF LeavesOf
  <2>3. p[2] \in Nat /\ r[1] \in Leaves
    BY PartsOf, Bounds
  <2>4. q <= d.latest[r[1]] /\ d.latest[r[1]] \in Nat
    BY <2>2, <2>3, NoticedLater
  <2>5. p[2] <= d.latest[r[1]]
    <3> DEFINE x == p[2]
               z == d.latest[r[1]]
    <3>1. x <= q /\ q <= z /\ x \in Nat /\ z \in Nat
      BY <2>1, <2>3, <2>4
    <3> HIDE DEF x, z
    <3>2. x <= z
      BY <3>1
    <3> QED BY <3>2 DEF x, z
  <2> QED BY <2>5 DEF Spent
<1> QED BY <1>1, <1>2

\* An accepted receipt, whose reports nothing keeps as evidence, leaves the account
\* in order.
LEMMA TakingKeeps ==
  ASSUME NEW o, Sound(o), NEW r, Sound(r), Shrunk(o, r),
         core \in CoreState, NEW c \in CoreState, uses \in [1..MaxSequence -> Nat],
         NEW n \in Nat, NEW m \in Nat, n <= m, NEW q \in Nat, q <= m, NEW now, NEW states,
         Account(o, core, uses, n, now, states),
         NEW op, NEW g, NEW ok \in SUBSET Leaves, Took(core, c, op, g, ok),
         NEW members, ok \subseteq members, Noticed(core, c, members, q),
         NEW parts \in SUBSET (Leaves \X (1..MaxSequence)),
         \A p \in parts : p[1] \in ok /\ uses[p[2]] = 0 /\ p[2] <= n,
         \A p \in parts : \A l \in Leaves : Marked(o, l, p[2]) => l = p[1],
         \A p \in parts : \A l \in Leaves : r.retained[l] # Nothing => r.retained[l].seq # p[2],
         \A d \in r.deferred : Answered(d, op, parts, ok, q)
  PROVE  Account(r, c, After(Sequences(parts)), m, now, states)
<1>1. Account(r, core, uses, m, now, states)
  BY ShrunkAccount, LaterAccount
<1>2. \A p \in parts : p[2] \in 1..MaxSequence /\ p[1] \in Leaves /\ p = <<p[1], p[2]>>
  OBVIOUS
<1>3. Once(After(Sequences(parts)), m)
  <2> SUFFICES ASSUME NEW x \in 1..MaxSequence
               PROVE  After(Sequences(parts))[x] <= 1 /\ (x > m => After(Sequences(parts))[x] = 0)
    BY DEF Once
  <2>1. uses[x] \in Nat /\ uses[x] <= 1 /\ (x > m => uses[x] = 0)
    BY <1>1 DEF Account, Once
  <2>2. x \in Sequences(parts) => uses[x] = 0 /\ x <= m
    BY Bounds DEF Sequences
  <2>3. After(Sequences(parts))[x] = uses[x] + IF x \in Sequences(parts) THEN 1 ELSE 0
    BY DEF After
  <2> QED BY <2>1, <2>2, <2>3, Bounds
<1>4. Unused(r, After(Sequences(parts)))
  <2> SUFFICES ASSUME NEW l \in Leaves, r.retained[l] # Nothing
               PROVE  After(Sequences(parts))[r.retained[l].seq] = 0
    BY DEF Unused
  <2>1. r.retained[l].seq \in 1..MaxSequence /\ uses[r.retained[l].seq] = 0
    BY <1>1, EvidenceOf DEF Account, Unused
  <2>2. r.retained[l].seq \notin Sequences(parts)
    BY DEF Sequences
  <2> QED BY <2>1, <2>2 DEF After
<1>5. ArmedIsOff(c)
  <2> SUFFICES ASSUME NEW a \in Aggregates, NEW l \in c.armed[a] PROVE c.intent[l] # "manual"
    BY DEF ArmedIsOff
  <2>1. l \in Leaves
    BY DEF CoreState
  <2>2. l \in core.armed[a] => core.intent[l] # "manual"
    BY DEF Account, ArmedIsOff
  <2> QED BY <2>1, <2>2 DEF Took, Turned, OthersDisarmed
<1>6. ASSUME NEW d \in r.deferred, LeavesOf(d) \cap ok # {}, Since(d, q) \/ Spent(d, core)
      PROVE  Spent(d, c)
  <2>1. LeavesOf(d) \cap members # {}
    BY <1>6
  <2> QED BY <1>6, <2>1, SpentStays
<1>7. ManualSpends(r, c)
  <2> SUFFICES ASSUME NEW d \in r.deferred, NEW l \in LeavesOf(d), c.intent[l] = "manual"
               PROVE  Spent(d, c)
    BY DEF ManualSpends
  <2>1. l \in Leaves
    BY PartsOf
  <2>2. core.intent[l] = "manual" \/ (op = "appearance" /\ l \in ok)
    BY <2>1 DEF Took, Turned
  <2>3. core.intent[l] = "manual" => Spent(d, core)
    BY <1>1 DEF Account, ManualSpends
  <2>4. op = "appearance" /\ l \in ok => Since(d, q) \/ Spent(d, core)
    BY DEF Answered
  <2> QED BY <1>6, <2>2, <2>3, <2>4, SpentStays
<1>8. OnceMore(r, c, After(Sequences(parts)))
  <2> SUFFICES ASSUME NEW d \in r.deferred, NEW p \in d.parts, After(Sequences(parts))[p[2]] > 0, ~Spent(d, c)
               PROVE  Loose(d, c)
    BY DEF OnceMore
  <2>1. p[1] \in Leaves /\ p[2] \in 1..MaxSequence /\ p[1] \in LeavesOf(d) /\ p = <<p[1], p[2]>>
    BY PartsOf
  <2>2. SUFFICES ASSUME NEW a \in Aggregates, LeavesOf(d) \subseteq c.armed[a]
                 PROVE  LeavesOf(d) = c.armed[a]
    BY DEF Loose
  <2>3. LeavesOf(d) \cap ok # {} =>
          /\ op # "appearance"
          /\ d.parts \cap parts # {} => ok \subseteq LeavesOf(d)
          /\ LeavesOf(d) \subseteq ok /\ LeavesOf(d) # ok => ~Loose(d, core)
    BY <1>6 DEF Answered
  <2>4. \/ c.armed[a] \in {core.armed[a], {}} /\ c.armed[a] \cap ok = {}
        \/ c.armed[a] = ok
    BY DEF Took, OthersDisarmed
  <2>5. CASE p[2] \in Sequences(parts)
    <3>1. PICK s \in parts : s[2] = p[2]
      BY <2>5 DEF Sequences
    <3>2. s = p
      <4>1. d \in o.deferred /\ <<p[1], s[2]>> \in d.parts
        BY <2>1, <3>1 DEF Shrunk
      <4>2. Marked(o, p[1], s[2])
        BY <4>1 DEF Marked
      <4>3. p[1] = s[1]
        BY <2>1, <4>2
      <4> QED BY <1>2, <2>1, <3>1, <4>3
    <3>3. LeavesOf(d) \cap ok # {} /\ ok \subseteq LeavesOf(d)
      BY <2>1, <2>3, <3>2
    <3> QED BY <2>2, <2>4, <3>3
  <2>6. CASE p[2] \notin Sequences(parts)
    <3>1. uses[p[2]] > 0
      BY <2>1, <2>6 DEF After
    <3>2. Loose(d, core)
      <4>1. Spent(d, core) => Spent(d, c)
        BY SpentStays
      <4> QED BY <1>1, <3>1, <4>1 DEF Account, OnceMore
    <3>3. CASE c.armed[a] = core.armed[a]
      BY <2>2, <3>2, <3>3 DEF Loose
    <3>4. CASE c.armed[a] = ok
      BY <2>1, <2>2, <2>3, <3>2, <3>4
    <3> QED BY <2>1, <2>2, <2>4, <3>3, <3>4
  <2> QED BY <2>5, <2>6
<1>9. Known(c, m)
  BY <1>1, NoticedLater DEF Account
<1>10. Newest(r, c, now)
  <2> SUFFICES ASSUME NEW l \in Leaves, r.retained[l] # Nothing, r.retained[l].seq > c.latest[l]
               PROVE  now[l].op = r.retained[l].op
    BY DEF Newest
  <2>1. r.retained[l].seq > core.latest[l]
    <3> DEFINE x == r.retained[l].seq
               y == core.latest[l]
               z == c.latest[l]
    <3>1. x \in Nat /\ y \in Nat /\ z \in Nat /\ y <= z /\ x > z
      BY NoticedLater, EvidenceOf, Bounds
    <3> HIDE DEF x, y, z
    <3>2. x > y
      BY <3>1
    <3> QED BY <3>2 DEF x, y
  <2> QED BY <1>1, <2>1 DEF Account, Newest
<1>11. NewestOfGroups(r, c, now, states)
  BY <1>1, SpentStays DEF Account, NewestOfGroups
<1> QED BY <1>1, <1>3, <1>4, <1>5, <1>7, <1>8, <1>9, <1>10, <1>11 DEF Account

LEMMA EffectLatest ==
  ASSUME NEW c \in CoreState, NEW op, NEW g, NEW ok
  PROVE  Effect(c, op, g, ok).latest = c.latest
  BY DEF Effect, SingleOff, GroupOff, Asked, Disarmed, CoreState

LEMMA Accepting ==
  ASSUME NEW c \in CoreState, NEW op, NEW g, NEW ok, Receipt(op, g, ok),
         NEW members, ok \subseteq members, NEW q \in 0..MaxSequence
  PROVE  LET d == Submitted(c, op, g, ok, members, q)
         IN \/ d = c /\ (ok = {} \/ \E l \in ok : q <= c.latest[l])
            \/ /\ d \in CoreState /\ ok # {} /\ Took(c, d, op, g, ok)
               /\ Noticed(c, d, members, q) /\ \A l \in ok : c.latest[l] < q
<1> DEFINE e == Effect(c, op, g, ok)
           f == [l \in Leaves |-> IF l \in members /\ q > e.latest[l] THEN q ELSE e.latest[l]]
           d == [e EXCEPT !.latest = f]
<1>1. e \in CoreState /\ Took(c, e, op, g, ok) /\ e.latest = c.latest
  BY EffectTook, EffectLatest
<1> HIDE DEF e
<1>2. d \in CoreState /\ d.intent = e.intent /\ d.armed = e.armed /\ d.latest = f
  BY <1>1 DEF CoreState
<1>3. Submitted(c, op, g, ok, members, q) =
        IF ok = {} \/ \E l \in ok : q <= c.latest[l] THEN c ELSE d
  BY DEF Submitted, e
<1>4. Noticed(c, d, members, q)
  BY <1>1, <1>2 DEF Noticed
<1> HIDE DEF d
<1>5. Took(c, d, op, g, ok)
  BY <1>1, <1>2 DEF Took, Turned, OthersDisarmed
<1>6. \A l \in ok : l \in Leaves /\ c.latest[l] \in Nat /\ q \in Nat
  BY Bounds DEF CoreState, Receipt
<1>7. ~(ok = {} \/ \E l \in ok : q <= c.latest[l]) => ok # {} /\ \A l \in ok : c.latest[l] < q
  BY <1>6
<1> QED BY <1>2, <1>3, <1>4, <1>5, <1>7

\* What a step does to the account, and that the newest reports rule what it takes.
Rules(s, now) ==
  s.taken # {} => \A l \in Leaves : s.c.latest[l] # core.latest[l] =>
     now[l].op = (IF s.c.intent[l] = "manual" THEN "appearance" ELSE "off")
StepKeeps(s, n, now, states) == Account(s.o, s.c, After(s.taken), n, now, states) /\ Rules(s, now)

LEMMA AfterNothing ==
  ASSUME uses \in [1..MaxSequence -> Nat]
  PROVE  After({}) = uses
<1>1. \A q \in 1..MaxSequence : uses[q] + 0 = uses[q]
  OBVIOUS
<1> QED BY <1>1 DEF After

LEMMA WaitingKeeps ==
  ASSUME NEW o, Sound(o), NEW r, Sound(r), Shrunk(o, r), uses \in [1..MaxSequence -> Nat],
         NEW n, NEW now, NEW states, Account(o, core, uses, n, now, states)
  PROVE  StepKeeps(Waiting(r), n, now, states)
<1>1. Waiting(r).o = r /\ Waiting(r).c = core /\ Waiting(r).taken = {}
  BY DEF Waiting, Step
<1> QED BY <1>1, AfterNothing, ShrunkAccount DEF StepKeeps, Rules

\* A light's timer, or its own report: whatever waits with the light is refused.
LEMMA SingleAppliedCounts ==
  ASSUME NEW o, Sound(o), core \in CoreState, uses \in [1..MaxSequence -> Nat], NEW l \in Leaves,
         NEW n \in Nat, NEW now, NEW states, Account(o, core, uses, n, now, states)
  PROVE  StepKeeps(SingleApplied(o, l), n, now, states)
<1> DEFINE e == o.retained[l]
           c == Submitted(core, e.op, None, {l}, {l}, e.seq)
           rest == Without(o, {l})
           r == Retired(Established(rest, {l}))
           s == Step(r, c, {e.seq})
           parts == {<<l, e.seq>>}
<1>1. /\ Sound(rest) /\ Shrunk(o, rest) /\ rest.retained[l] = Nothing
      /\ Sound(Established(rest, {l})) /\ Sound(r)
  <2>1. Sound(rest) /\ Shrunk(o, rest)
    BY WithoutSound, Shrinking
  <2>2. rest.retained[l] = Nothing
    BY DEF Without, Sound, ObserverState
  <2> HIDE DEF rest
  <2> QED BY <2>1, <2>2, EstablishedSound, RetiredSound
<1>2. Shrunk(o, r) /\ r.retained[l] = Nothing
  <2> DEFINE x == Established(rest, {l})
  <2>1. Shrunk(rest, x)
    BY <1>1, Shrinking
  <2>2. Shrunk(x, Retired(x))
    BY <1>1, RetiredShrinks
  <2>3. Shrunk(o, x)
    BY <1>1, <2>1, ShrunkTwice
  <2>4. Shrunk(rest, Retired(x))
    BY <2>1, <2>2, ShrunkTwice
  <2> QED BY <1>1, <2>2, <2>3, <2>4, ShrunkTwice DEF Shrunk
<1>3. SingleApplied(o, l) = IF c = core THEN Waiting(rest) ELSE s
  BY DEF SingleApplied
<1>4. StepKeeps(Waiting(rest), n, now, states)
  <2> HIDE DEF rest
  <2> QED BY <1>1, WaitingKeeps
<1>5. CASE e = Nothing
  <2>1. c = core
    BY <1>5 DEF Submitted, Nothing, CoreState
  <2> QED BY <1>3, <1>4, <2>1
<1>6. CASE e # Nothing
  <2>1. e.op \in Kinds /\ e.seq \in 1..MaxSequence /\ e.seq \in 0..MaxSequence
    BY <1>6, EvidenceOf, Bounds
  <2>2. Receipt(e.op, None, {l})
    BY DEF Receipt
  <2>3. /\ uses[e.seq] = 0 /\ e.seq <= n
        /\ \A k \in Leaves : Marked(o, k, e.seq) => k = l
        /\ \A d \in o.deferred : l \in LeavesOf(d) => Since(d, e.seq)
    <3>1. Marked(o, l, e.seq)
      BY <1>6 DEF Marked
    <3> QED BY <1>6, <2>1, <3>1 DEF Account, Unused, Ordered, Numbers, Unique, BurstIsLater
  <2> HIDE DEF e, rest, r
  <2>4. CASE c = core
    BY <1>3, <1>4, <2>4
  <2>5. CASE c # core
    <3>1. /\ c \in CoreState /\ Took(core, c, e.op, None, {l})
          /\ Noticed(core, c, {l}, e.seq) /\ core.latest[l] < e.seq
      <4> DEFINE what == e.op
                 q == e.seq
      <4>1. Receipt(what, None, {l}) /\ q \in 0..MaxSequence /\ {l} \subseteq {l}
        BY <2>1, <2>2
      <4>2. c = Submitted(core, what, None, {l}, {l}, q)
        OBVIOUS
      <4> HIDE DEF what, q, c
      <4>3. \/ c = core
            \/ /\ c \in CoreState /\ Took(core, c, what, None, {l})
               /\ Noticed(core, c, {l}, q) /\ \A k \in {l} : core.latest[k] < q
        BY <4>1, <4>2, Accepting
      <4> QED BY <2>5, <4>3 DEF what, q
    <3> HIDE DEF c
    <3>2. \A d \in r.deferred : Answered(d, e.op, parts, {l}, e.seq)
      BY <1>2, <2>3 DEF Answered, Shrunk
    <3>3. \A k \in Leaves : r.retained[k] # Nothing => r.retained[k].seq # e.seq
      BY <1>2, <2>3 DEF Shrunk, Marked
    <3>4. Account(r, c, After(Sequences(parts)), n, now, states)
      <4> DEFINE q == e.seq
      <4>1. /\ q \in Nat /\ n <= n /\ q <= n /\ {l} \in SUBSET Leaves /\ {l} \subseteq {l}
            /\ parts \in SUBSET (Leaves \X (1..MaxSequence))
        BY <2>1, <2>3, Bounds
      <4>2. /\ \A p \in parts : p[1] \in {l} /\ uses[p[2]] = 0 /\ p[2] <= n
            /\ \A p \in parts : \A k \in Leaves : Marked(o, k, p[2]) => k = p[1]
            /\ \A p \in parts : \A k \in Leaves : r.retained[k] # Nothing => r.retained[k].seq # p[2]
        BY <2>3, <3>3
      <4> HIDE DEF q, parts
      <4> QED BY <1>1, <1>2, <3>1, <3>2, <4>1, <4>2, TakingKeeps DEF q
    <3>5. Sequences(parts) = {e.seq}
      BY DEF Sequences
    <3>6. Rules(s, now)
      <4> SUFFICES ASSUME NEW k \in Leaves, c.latest[k] # core.latest[k]
                   PROVE  now[k].op = (IF c.intent[k] = "manual" THEN "appearance" ELSE "off")
        BY DEF Rules, Step
      <4>1. k = l
        BY <3>1 DEF Noticed
      <4>2. now[l].op = e.op
        BY <1>6, <3>1, EvidenceOf, Bounds DEF Account, Newest, e, CoreState
      <4>3. None \notin Aggregates
        BY ObserverAssumption
      <4> QED BY <2>1, <3>1, <4>1, <4>2, <4>3 DEF Took, Turned, Kinds
    <3>7. s.o = r /\ s.c = c /\ s.taken = {e.seq}
      BY DEF Step
    <3> QED BY <1>3, <2>5, <3>4, <3>5, <3>6, <3>7 DEF StepKeeps
  <2> QED BY <2>4, <2>5
<1> QED BY <1>5, <1>6

-----------------------------------------------------------------------------
(* What a receipt asks for, and the group that applies it *)

LEMMA EarliestLeast ==
  ASSUME NEW parts \in SUBSET (Leaves \X (1..MaxSequence)), parts # {}
  PROVE  /\ Earliest(parts) \in 1..MaxSequence
         /\ \E p \in parts : Earliest(parts) = p[2]
         /\ \A p \in parts : Earliest(parts) <= p[2]
<1> DEFINE T == Sequences(parts)
<1>1. T \in SUBSET (1..MaxSequence) /\ T # {}
  BY DEF Sequences
<1>2. T \in SUBSET Nat
  BY <1>1
<1>3. Earliest(parts) = CHOOSE q \in T : \A r \in T : q <= r
  BY DEF Earliest
<1>4. (\E p \in parts : \A x : x \in T => TRUE) /\ (\A p \in parts : p[2] \in T)
      /\ (\A x \in T : \E p \in parts : x = p[2])
  BY DEF Sequences
<1> HIDE DEF T
<1>5. \E q \in T : \A r \in T : q <= r
  BY <1>1, <1>2, LeastNatural
<1>6. Earliest(parts) \in T /\ \A r \in T : Earliest(parts) <= r
  BY <1>3, <1>5
<1> QED BY <1>1, <1>4, <1>6

\* The reports of lights that all ask for the same, when they are submitted.
LEMMA PartsCount ==
  ASSUME NEW o, Sound(o), NEW S \in SUBSET Leaves, S # {}, NEW op \in Kinds,
         \A l \in S : o.retained[l].op = op, core \in CoreState,
         NEW n, NEW now, NEW states, Account(o, core, uses, n, now, states)
  PROVE  /\ Parts(o, S) \in SUBSET (Leaves \X (1..MaxSequence)) /\ Parts(o, S) # {}
         /\ {p[1] : p \in Parts(o, S)} = S
         /\ \A p \in Parts(o, S) : /\ p[1] \in S /\ o.retained[p[1]].seq = p[2]
                                   /\ uses[p[2]] = 0 /\ p[2] <= n
                                   /\ \A l \in Leaves : Marked(o, l, p[2]) => l = p[1]
         /\ \A l \in S : core.latest[l] < Earliest(Parts(o, S)) => now[l].op = op
<1> DEFINE parts == Parts(o, S)
<1>1. parts \in SUBSET (Leaves \X (1..MaxSequence)) /\ {p[1] : p \in parts} = S
  BY PartsTyped
<1>2. \A p \in parts : p[1] \in S /\ p[2] = o.retained[p[1]].seq
  BY DEF Parts
<1>3. \A l \in S : o.retained[l] # Nothing /\ <<l, o.retained[l].seq>> \in parts
  BY EvidenceOf DEF Parts, Kinds
<1>4. parts # {}
  BY <1>3
<1> HIDE DEF parts
<1>5. ASSUME NEW p \in parts
      PROVE  /\ uses[p[2]] = 0 /\ p[2] <= n
             /\ \A l \in Leaves : Marked(o, l, p[2]) => l = p[1]
  <2>1. /\ p[1] \in Leaves /\ p[2] \in 1..MaxSequence /\ o.retained[p[1]] # Nothing
        /\ o.retained[p[1]].seq = p[2]
    BY <1>1, <1>2, <1>3
  <2>2. Marked(o, p[1], p[2])
    BY <2>1 DEF Marked
  <2> QED BY <2>1, <2>2 DEF Account, Unused, Ordered, Numbers, Unique
<1>6. ASSUME NEW l \in S, core.latest[l] < Earliest(parts)
      PROVE  now[l].op = op
  <2> DEFINE x == core.latest[l]
             y == Earliest(parts)
             z == o.retained[l].seq
  <2>1. y <= z
    <3>1. <<l, z>> \in parts /\ <<l, z>>[2] = z
      BY <1>3
    <3> HIDE DEF z
    <3> QED BY <1>1, <1>4, <3>1, EarliestLeast
  <2>2. x \in Nat /\ y \in Nat /\ z \in Nat /\ x < y
    BY <1>1, <1>3, <1>4, <1>6, EarliestLeast, EvidenceOf, Bounds DEF CoreState
  <2> HIDE DEF x, y, z
  <2>3. z > x
    BY <2>1, <2>2
  <2> QED BY <1>3, <2>3 DEF Account, Newest, x, z
<1> QED BY <1>1, <1>2, <1>4, <1>5, <1>6 DEF parts

\* What an accepted receipt asks for.
LEMMA TookAsks ==
  ASSUME NEW c, NEW op \in Kinds, NEW g, NEW ok, Took(core, c, op, g, ok),
         NEW l \in Leaves, l \in ok
  PROVE  /\ c.intent[l] = "manual" => op = "appearance"
         /\ c.intent[l] # "manual" => op = "off"
  BY DEF Took, Turned, Kinds

LEMMA GroupAppliedCounts ==
  ASSUME NEW o, Sound(o), core \in CoreState, uses \in [1..MaxSequence -> Nat],
         NEW op \in Kinds, NEW g \in Aggregates,
         NEW parts \in SUBSET (Leaves \X (1..MaxSequence)), parts # {},
         NEW S \in SUBSET Leaves, S = {p[1] : p \in parts},
         NEW n \in Nat, NEW now, NEW states, Account(o, core, uses, n, now, states),
         \A p \in parts : uses[p[2]] = 0 /\ p[2] <= n,
         \A p \in parts : \A l \in Leaves : Marked(o, l, p[2]) => l = p[1],
         \A d \in o.deferred : Answered(d, op, parts, S, Earliest(parts)),
         (\A l \in S : core.latest[l] < Earliest(parts)) => \A l \in S : now[l].op = op
  PROVE  StepKeeps(GroupApplied(o, g, op, parts), n, now, states)
<1> DEFINE q == Earliest(parts)
           c == Submitted(core, op, g, S, S, q)
           gone == {l \in S : <<l, o.retained[l].seq>> \in parts}
           rest == Without(o, gone)
           x == Established(rest, S)
           r == Retired(x)
           s == Step(r, c, Sequences(parts))
<1>1. GroupApplied(o, g, op, parts) = IF c = core THEN Waiting(rest) ELSE s
  BY DEF GroupApplied
<1>2. q \in 0..MaxSequence /\ q \in Nat /\ q <= n
  BY EarliestLeast, Bounds
<1>3. /\ Sound(rest) /\ Shrunk(o, rest)
      /\ \A l \in gone : rest.retained[l] = Nothing
  <2>1. rest.retained = [l \in Leaves |-> IF l \in gone THEN Nothing ELSE o.retained[l]]
    BY DEF Without, Sound, ObserverState
  <2> QED BY <2>1, WithoutSound, Shrinking
<1>4. \A p \in parts : \A l \in Leaves : o.retained[l] # Nothing /\ o.retained[l].seq = p[2] => l \in gone
  <2> SUFFICES ASSUME NEW p \in parts, NEW l \in Leaves, o.retained[l] # Nothing, o.retained[l].seq = p[2]
               PROVE  l \in gone
    OBVIOUS
  <2>1. l = p[1]
    BY DEF Marked
  <2>2. p = <<l, o.retained[l].seq>> /\ l \in S
    BY <2>1
  <2> QED BY <2>2
<1> HIDE DEF gone, rest
<1>5. Sound(x) /\ Shrunk(rest, x)
  BY <1>3, EstablishedSound, Shrinking
<1> HIDE DEF x
<1>6. Sound(r) /\ Shrunk(x, r)
  BY <1>5, RetiredSound, RetiredShrinks
<1> HIDE DEF r
<1>7. Shrunk(o, r) /\ Shrunk(rest, r)
  BY <1>3, <1>5, <1>6, ShrunkTwice
<1>8. CASE c = core
  <2>1. StepKeeps(Waiting(rest), n, now, states)
    BY <1>3, WaitingKeeps
  <2> QED BY <1>1, <1>8, <2>1
<1>9. CASE c # core
  <2>1. Receipt(op, g, S) /\ S \subseteq S
    BY ObserverAssumption DEF Receipt
  <2> HIDE DEF q
  <2>2. /\ c \in CoreState /\ Took(core, c, op, g, S)
        /\ Noticed(core, c, S, q) /\ \A l \in S : core.latest[l] < q
    <3>1. \/ c = core
          \/ /\ c \in CoreState /\ Took(core, c, op, g, S)
             /\ Noticed(core, c, S, q) /\ \A l \in S : core.latest[l] < q
      BY <1>2, <2>1, Accepting
    <3> QED BY <1>9, <3>1
  <2> HIDE DEF c
  <2>3. \A p \in parts : \A l \in Leaves : r.retained[l] # Nothing => r.retained[l].seq # p[2]
    BY <1>3, <1>4, <1>7 DEF Shrunk
  <2>4. \A p \in parts : p[1] \in S /\ uses[p[2]] = 0 /\ p[2] <= n
    OBVIOUS
  <2>5. \A d \in r.deferred : Answered(d, op, parts, S, q)
    BY <1>7 DEF Shrunk, q
  <2>6. Account(r, c, After(Sequences(parts)), n, now, states)
    <3>1. n <= n /\ q <= n /\ q \in Nat /\ S \in SUBSET Leaves /\ S \subseteq S
      BY <1>2
    <3>2. \A p \in parts : \A l \in Leaves : Marked(o, l, p[2]) => l = p[1]
      OBVIOUS
    <3>3. Sound(r) /\ Shrunk(o, r)
      BY <1>6, <1>7
    <3> QED BY <2>2, <2>3, <2>4, <2>5, <3>1, <3>2, <3>3, TakingKeeps
  <2>7. s.o = r /\ s.c = c /\ s.taken = Sequences(parts)
    BY DEF Step
  <2>8. Rules(s, now)
    <3> SUFFICES ASSUME NEW l \in Leaves, c.latest[l] # core.latest[l]
                 PROVE  now[l].op = IF c.intent[l] = "manual" THEN "appearance" ELSE "off"
      BY <2>7 DEF Rules
    <3>1. l \in S
      BY <2>2 DEF Noticed
    <3>2. now[l].op = op
      BY <2>2, <3>1 DEF q
    <3>3. /\ c.intent[l] = "manual" => op = "appearance"
          /\ c.intent[l] # "manual" => op = "off"
      BY <2>2, <3>1, TookAsks
    <3> QED BY <3>2, <3>3
  <2> HIDE DEF s
  <2> QED BY <1>1, <1>9, <2>6, <2>7, <2>8 DEF StepKeeps
<1> QED BY <1>8, <1>9

LEMMA OwnedOffCounts ==
  ASSUME NEW o, Sound(o), core \in CoreState, uses \in [1..MaxSequence -> Nat],
         NEW g \in Aggregates, NEW members, NEW clear, managed \in SUBSET Leaves,
         OwnedReady(o, g, members, clear),
         NEW n \in Nat, NEW now, NEW states, Account(o, core, uses, n, now, states)
  PROVE  StepKeeps(OwnedOff(o, g, Managed(members)), n, now, states)
<1> DEFINE S == Managed(members)
           u == Uncalled(o, S)
           parts == Parts(o, S)
<1>1. /\ S \in SUBSET Leaves /\ S # {} /\ \A l \in S : o.retained[l].op = "off"
      /\ \A l \in S : core.intent[l] = "manual"
  BY DEF OwnedReady, Coherent, Managed, OwnedBy
<1>2. OwnedOff(o, g, S) = GroupApplied(u, g, "off", parts)
  BY DEF OwnedOff
<1> HIDE DEF S
<1>3. Sound(u) /\ Shrunk(o, u) /\ u.retained = o.retained /\ u.deferred = o.deferred
  <2>1. u.retained = o.retained /\ u.deferred = o.deferred
    BY DEF Uncalled, Sound, ObserverState
  <2> QED BY <2>1, UncalledSound, Shrinking
<1>4. Parts(u, S) = parts /\ "off" \in Kinds
  BY <1>3 DEF Parts, Kinds
<1> HIDE DEF u
<1>5. Account(u, core, uses, n, now, states)
  BY <1>3, ShrunkAccount
<1>6. /\ parts \in SUBSET (Leaves \X (1..MaxSequence)) /\ parts # {} /\ {p[1] : p \in parts} = S
      /\ \A p \in parts : /\ uses[p[2]] = 0 /\ p[2] <= n
                          /\ \A l \in Leaves : Marked(u, l, p[2]) => l = p[1]
      /\ \A l \in S : core.latest[l] < Earliest(parts) => now[l].op = "off"
  <2>1. \A l \in S : u.retained[l].op = "off"
    BY <1>1, <1>3
  <2> HIDE DEF parts
  <2> QED BY <1>1, <1>3, <1>4, <1>5, <2>1, PartsCount
<1> HIDE DEF parts
<1>7. \A d \in u.deferred : Answered(d, "off", parts, S, Earliest(parts))
  <2> SUFFICES ASSUME NEW d \in u.deferred, NEW l \in LeavesOf(d) \cap S PROVE Spent(d, core)
    BY DEF Answered
  <2> QED BY <1>1, <1>5 DEF Account, ManualSpends
<1>8. (\A l \in S : core.latest[l] < Earliest(parts)) => \A l \in S : now[l].op = "off"
  BY <1>6
<1>9. StepKeeps(GroupApplied(u, g, "off", parts), n, now, states)
  BY <1>1, <1>3, <1>4, <1>5, <1>6, <1>7, <1>8, GroupAppliedCounts
<1> QED BY <1>2, <1>9 DEF S

LEMMA ArmedOffCounts ==
  ASSUME NEW o, Sound(o), core \in CoreState, uses \in [1..MaxSequence -> Nat],
         NEW g \in Aggregates, NEW members, NEW clear, ArmedReady(o, g, members, clear),
         NEW n \in Nat, NEW now, NEW states, Account(o, core, uses, n, now, states)
  PROVE  StepKeeps(ArmedOff(o, g), n, now, states)
<1> DEFINE S == core.armed[g]
           parts == Parts(o, S)
           q == Earliest(parts)
           c == Submitted(core, "off", g, S, S, q)
           rest == Dropped(o, S)
           r == Forgotten(rest)
           s == Step(r, c, Sequences(parts))
<1>1. S \in SUBSET Leaves /\ S # {} /\ \A l \in S : o.retained[l].op = "off"
  BY DEF ArmedReady, Coherent, CoreState
<1>2. ArmedOff(o, g) = IF c = core THEN Waiting(rest) ELSE s
  BY DEF ArmedOff
<1> HIDE DEF S
<1>3. /\ parts \in SUBSET (Leaves \X (1..MaxSequence)) /\ parts # {} /\ {p[1] : p \in parts} = S
      /\ \A p \in parts : /\ p[1] \in S /\ uses[p[2]] = 0 /\ p[2] <= n
                          /\ \A l \in Leaves : Marked(o, l, p[2]) => l = p[1]
      /\ \A l \in S : core.latest[l] < Earliest(parts) => now[l].op = "off"
  BY <1>1, PartsCount DEF Kinds
<1> HIDE DEF parts
<1>4. q \in 0..MaxSequence /\ q \in Nat /\ q <= n
  BY <1>3, EarliestLeast, Bounds
<1>5. /\ Sound(rest) /\ Shrunk(o, rest)
      /\ \A l \in S : rest.retained[l] = Nothing
      /\ \A d \in rest.deferred : LeavesOf(d) \cap S = {}
  BY <1>1, DroppedSound, DroppedShrinks
<1> HIDE DEF rest
<1>6. Sound(r) /\ Shrunk(rest, r) /\ Shrunk(o, r)
  BY <1>5, ForgottenSound, RetiredShrinks, ShrunkTwice
<1> HIDE DEF r, q
<1>7. CASE c = core
  <2>1. StepKeeps(Waiting(rest), n, now, states)
    BY <1>5, WaitingKeeps
  <2> QED BY <1>2, <1>7, <2>1
<1>8. CASE c # core
  <2>1. Receipt("off", g, S) /\ S \subseteq S /\ "off" \in Kinds
    BY <1>1, ObserverAssumption DEF Receipt, Kinds
  <2>2. /\ c \in CoreState /\ Took(core, c, "off", g, S)
        /\ Noticed(core, c, S, q) /\ \A l \in S : core.latest[l] < q
    <3>1. \/ c = core
          \/ /\ c \in CoreState /\ Took(core, c, "off", g, S)
             /\ Noticed(core, c, S, q) /\ \A l \in S : core.latest[l] < q
      BY <1>4, <2>1, Accepting
    <3> QED BY <1>8, <3>1
  <2> HIDE DEF c
  <2>3. \A p \in parts : \A l \in Leaves : r.retained[l] # Nothing => r.retained[l].seq # p[2]
    <3> SUFFICES ASSUME NEW p \in parts, NEW l \in Leaves, r.retained[l] # Nothing,
                        r.retained[l].seq = p[2]
                 PROVE  FALSE
      OBVIOUS
    <3>1. Marked(o, l, p[2]) /\ rest.retained[l] # Nothing
      BY <1>5, <1>6 DEF Shrunk, Marked
    <3> QED BY <1>3, <1>5, <3>1
  <2>4. \A p \in parts : p[1] \in S /\ uses[p[2]] = 0 /\ p[2] <= n
    BY <1>3
  <2>5. \A d \in r.deferred : Answered(d, "off", parts, S, q)
    BY <1>5, <1>6 DEF Shrunk, Answered
  <2>6. \A p \in parts : \A l \in Leaves : Marked(o, l, p[2]) => l = p[1]
    BY <1>3
  <2>7. Account(r, c, After(Sequences(parts)), n, now, states)
    <3>1. /\ n <= n /\ q <= n /\ q \in Nat /\ S \in SUBSET Leaves /\ S \subseteq S
          /\ parts \in SUBSET (Leaves \X (1..MaxSequence))
      BY <1>1, <1>3, <1>4
    <3>3. Sound(r) /\ Shrunk(o, r)
      BY <1>6
    <3> QED BY <2>2, <2>3, <2>4, <2>5, <2>6, <3>1, <3>3, TakingKeeps
  <2>8. s.o = r /\ s.c = c /\ s.taken = Sequences(parts)
    BY DEF Step
  <2>9. Rules(s, now)
    <3> SUFFICES ASSUME NEW l \in Leaves, c.latest[l] # core.latest[l]
                 PROVE  now[l].op = IF c.intent[l] = "manual" THEN "appearance" ELSE "off"
      BY <2>8 DEF Rules
    <3>1. l \in S
      BY <2>2 DEF Noticed
    <3>2. now[l].op = "off"
      BY <1>3, <2>2, <3>1 DEF q
    <3>3. "off" = IF c.intent[l] = "manual" THEN "appearance" ELSE "off"
      BY <2>1, <2>2, <3>1, TookAsks
    <3> QED BY <3>2, <3>3
  <2> HIDE DEF s
  <2> QED BY <1>2, <1>8, <2>7, <2>8, <2>9 DEF StepKeeps
<1> QED BY <1>7, <1>8

-----------------------------------------------------------------------------
(* Evidence of lights and of groups that is promoted *)

LEMMA SingleCounts ==
  ASSUME NEW o, Sound(o), core \in CoreState, uses \in [1..MaxSequence -> Nat],
         NEW g, NEW members \in SUBSET Leaves,
         NEW n \in Nat, NEW now, NEW states, Account(o, core, uses, n, now, states)
  PROVE  StepKeeps(Single(o, g, members), n, now, states)
<1> DEFINE l == CHOOSE k \in o.burst.leaves : TRUE
           known == Cardinality(Managed(members)) > 1 /\ Managed(o.snapshot[g]) = Managed(members)
           e == o.retained[l]
           t == [op |-> e.op, left |-> HoldOf(o, l, e.op)]
           called == [o EXCEPT !.singles[l] = t]
<1>1. Single(o, g, members) =
        IF l \notin members \/ e = Nothing THEN Waiting(o)
        ELSE IF ~known THEN SingleApplied(o, l)
        ELSE IF o.singles[l] # NoTimer THEN Waiting(o)
        ELSE Waiting(called)
  BY DEF Single
<1> HIDE DEF l, known
<1>2. StepKeeps(Waiting(o), n, now, states)
  BY Shrinking, WaitingKeeps
<1>3. CASE l \notin members \/ e = Nothing
  BY <1>1, <1>2, <1>3
<1>4. CASE l \in members /\ e # Nothing
  <2>1. l \in Leaves /\ e \in Evidence
    BY <1>4 DEF Sound, ObserverState
  <2>2. t \in Timer
    BY <2>1, HoldTyped DEF Evidence, Timer
  <2> HIDE DEF t
  <2>3. Sound(called) /\ Shrunk(o, called)
    BY <2>1, <2>2 DEF Sound, Quiet, ObserverState, Shrunk
  <2>4. StepKeeps(SingleApplied(o, l), n, now, states)
    BY <2>1, SingleAppliedCounts
  <2> HIDE DEF called, e
  <2>5. StepKeeps(Waiting(called), n, now, states)
    BY <2>3, WaitingKeeps
  <2> QED BY <1>1, <1>2, <1>4, <2>4, <2>5
<1> QED BY <1>3, <1>4

\* A nested group that starts to wait: its reports are the burst's evidence.
LEMMA DeferralCounts ==
  ASSUME NEW u, Sound(u), core \in CoreState, NEW d \in Deferral,
         NEW r, Sound(r), r.retained = u.retained, r.burst = u.burst, r.deferred = u.deferred \cup {d},
         NEW L \in SUBSET Leaves, L # {}, L = u.burst.leaves, LeavesOf(d) = L, d.parts = Parts(u, L),
         \A l \in L : u.retained[l].op = "off",
         NEW a \in Aggregates, L \subseteq core.armed[a],
         NEW n \in Nat, NEW now, NEW states, Account(u, core, uses, n, now, states)
  PROVE  Account(r, core, uses, n, now, states)
<1>1. \A l \in L : u.retained[l] # Nothing /\ u.retained[l].seq \in 1..MaxSequence
                   /\ <<l, u.retained[l].seq>> \in d.parts
  BY EvidenceOf DEF Parts, Kinds
<1>2. \A p \in d.parts : /\ p[1] \in L /\ p[2] = u.retained[p[1]].seq
                         /\ p = <<p[1], p[2]>> /\ p[2] \in 1..MaxSequence /\ p[2] \in Nat
  BY <1>1, Bounds DEF Parts
<1>3. \A l \in Leaves, q \in 1..MaxSequence : Marked(r, l, q) => Marked(u, l, q)
  <2> SUFFICES ASSUME NEW l \in Leaves, NEW q \in 1..MaxSequence, <<l, q>> \in d.parts
               PROVE  Marked(u, l, q)
    BY DEF Marked
  <2>1. l \in L /\ q = u.retained[l].seq
    BY DEF Parts
  <2> QED BY <1>1, <2>1 DEF Marked
<1>4. Numbers(r, n) /\ Unique(r)
  BY <1>3 DEF Account, Ordered, Numbers, Unique
<1>5. \A l \in L : Since(d, u.retained[l].seq)
  <2> SUFFICES ASSUME NEW l \in L PROVE Since(d, u.retained[l].seq)
    OBVIOUS
  <2> DEFINE p == <<l, u.retained[l].seq>>
  <2>1. p \in d.parts /\ p[2] = u.retained[l].seq /\ p[2] \in Nat
    BY <1>1, <1>2
  <2> HIDE DEF p
  <2>2. p[2] <= u.retained[l].seq
    BY <2>1
  <2> QED BY <2>1, <2>2 DEF Since
<1>6. BurstIsLater(r)
  <2>1. d.parts # {}
    BY <1>1
  <2> QED BY <1>5, <2>1 DEF Account, Ordered, BurstIsLater
<1>7. Prefixes(r)
  BY DEF Account, Ordered, Prefixes
<1>8. ASSUME NEW e \in u.deferred, NEW p \in d.parts, p \in e.parts
      PROVE  Before(e, d)
  <2>1. LeavesOf(e) \subseteq L
    <3>1. p[1] \in L /\ <<p[1], u.retained[p[1]].seq>> \in e.parts
      BY <1>2, <1>8
    <3> QED BY <3>1 DEF Account, Ordered, Prefixes
  <2>2. \A x \in d.parts : Since(e, x[2])
    BY <1>1, <1>2 DEF Account, Ordered, BurstIsLater
  <2> QED BY <2>1, <2>2 DEF Before
<1>9. Before(d, d)
  BY <1>2, <1>5 DEF Before
<1>10. Nested(r)
  BY <1>8, <1>9 DEF Account, Ordered, Nested
<1>11. Unused(r, uses)
  BY DEF Account, Unused
<1>12. OnceMore(r, core, uses)
  <2>1. \A p \in d.parts : uses[p[2]] = 0
    BY <1>1, <1>2 DEF Account, Unused
  <2>2. ~(\E p \in d.parts : uses[p[2]] > 0)
    BY <2>1
  <2> QED BY <2>2 DEF Account, OnceMore
<1>13. ManualSpends(r, core)
  BY DEF Account, ManualSpends, ArmedIsOff
<1>14. Newest(r, core, now)
  BY DEF Account, Newest
<1>15. ASSUME NEW l \in L, ~Spent(d, core)
       PROVE  now[l].op = "off"
  <2> DEFINE p == <<l, u.retained[l].seq>>
  <2>1. p \in d.parts /\ p[1] = l /\ p[2] = u.retained[l].seq /\ p[2] \in Nat
    BY <1>1, <1>2
  <2> HIDE DEF p
  <2>2. ~(p[2] <= core.latest[l])
    BY <1>15, <2>1 DEF Spent
  <2>3. core.latest[l] \in Nat
    BY Bounds DEF CoreState
  <2>4. u.retained[l].seq > core.latest[l]
    <3> DEFINE x == p[2]
               y == core.latest[l]
    <3> HIDE DEF x, y
    <3>1. x \in Nat /\ y \in Nat /\ ~(x <= y)
      BY <2>1, <2>2, <2>3 DEF x, y
    <3>2. x > y
      BY <3>1
    <3> QED BY <2>1, <3>2 DEF x, y
  <2> QED BY <1>1, <2>4 DEF Account, Newest
<1>16. NewestOfGroups(r, core, now, states)
  BY <1>15 DEF Account, NewestOfGroups
<1> QED BY <1>4, <1>6, <1>7, <1>10, <1>11, <1>12, <1>13, <1>14, <1>16 DEF Account, Ordered

LEMMA ExactCounts ==
  ASSUME NEW o, Sound(o), core \in CoreState, uses \in [1..MaxSequence -> Nat],
         NEW g \in Aggregates,
         NEW n \in Nat, NEW now, NEW states, Account(o, core, uses, n, now, states)
  PROVE  StepKeeps(Exact(o, g), n, now, states)
<1> DEFINE L == o.burst.leaves
           u == Uncalled(o, L)
           op == u.retained[CHOOSE l \in L : TRUE].op
           parts == Parts(u, L)
           known == \E d \in u.deferred : d.group = g /\ d.parts = parts
           parent == CHOOSE p \in Parents(g, L) : TRUE
           new == [group |-> g, parts |-> parts, left |-> Burst, parent |-> parent]
           more == [u EXCEPT !.deferred = @ \cup {new}]
<1>1. /\ Sound(u) /\ Shrunk(o, u) /\ u.retained = o.retained /\ u.deferred = o.deferred
      /\ u.burst = o.burst
  <2>1. u.retained = o.retained /\ u.deferred = o.deferred /\ u.burst = o.burst
    BY DEF Uncalled, Sound, ObserverState
  <2> QED BY <2>1, UncalledSound, Shrinking
<1>2. Exact(o, g) =
        IF ~ExactGroup(o, g) THEN Waiting(o)
        ELSE IF op = "none" \/ ~Coherent(u, L, op, Burst) THEN Waiting(u)
        ELSE IF op # "off" \/ Parents(g, L) = {} THEN GroupApplied(u, g, op, parts)
        ELSE IF known THEN Waiting(u)
        ELSE Waiting(more)
  BY DEF Exact
<1>3. L \in SUBSET Leaves /\ L = u.burst.leaves
  BY <1>1, BurstOf
<1> HIDE DEF u, known
<1>4. Account(u, core, uses, n, now, states)
  BY <1>1, ShrunkAccount
<1>5. StepKeeps(Waiting(o), n, now, states) /\ StepKeeps(Waiting(u), n, now, states)
  BY <1>1, Shrinking, WaitingKeeps
<1>6. CASE ~ExactGroup(o, g)
  BY <1>2, <1>5, <1>6
<1>7. CASE ExactGroup(o, g) /\ (op = "none" \/ ~Coherent(u, L, op, Burst))
  BY <1>2, <1>5, <1>7
<1>8. CASE ExactGroup(o, g) /\ op # "none" /\ Coherent(u, L, op, Burst)
  <2>1. L # {}
    <3>1. Cardinality(L) > 1
      BY <1>8 DEF ExactGroup
    <3>2. Cardinality({}) = 0
      BY FS_EmptySet
    <3> HIDE DEF L
    <3>3. ASSUME L = {} PROVE FALSE
      <4>1. Cardinality(L) = 0
        BY <3>2, <3>3
      <4> QED BY <3>1, <4>1
    <3> QED BY <3>3
  <2>2. op \in Kinds
    <3>1. (CHOOSE l \in L : TRUE) \in Leaves
      BY <1>3, <2>1
    <3>2. \A l \in Leaves : u.retained[l].op \in Kinds \cup {"none"}
      BY <1>1 DEF Sound, ObserverState, Evidence, Nothing
    <3>3. op \in Kinds \cup {"none"}
      BY <3>1, <3>2
    <3> QED BY <3>3, <1>8
  <2>3. \A l \in L : u.retained[l].op = op
    BY <1>8 DEF Coherent
  <2> HIDE DEF op, L
  <2>4. /\ parts \in SUBSET (Leaves \X (1..MaxSequence)) /\ parts # {}
        /\ L = {p[1] : p \in parts}
        /\ \A p \in parts : p[1] \in L /\ u.retained[p[1]].seq = p[2]
        /\ \A p \in parts : uses[p[2]] = 0 /\ p[2] <= n
        /\ \A p \in parts : \A l \in Leaves : Marked(u, l, p[2]) => l = p[1]
        /\ \A l \in L : core.latest[l] < Earliest(parts) => now[l].op = op
    BY <1>1, <1>3, <1>4, <2>1, <2>2, <2>3, PartsCount
  <2>5. \A l \in L : u.retained[l] # Nothing
    BY <2>2, <2>3 DEF Nothing, Kinds
  <2>6. parts = Parts(u, L)
    OBVIOUS
  <2> HIDE DEF parts
  <2>7. \A d \in u.deferred : Answered(d, op, parts, L, Earliest(parts))
    <3>1. PICK p \in parts : Earliest(parts) = p[2]
      BY <2>4, EarliestLeast
    <3>2. p[1] \in u.burst.leaves /\ u.retained[p[1]] # Nothing /\ u.retained[p[1]].seq = Earliest(parts)
      BY <1>3, <2>4, <2>5, <3>1
    <3>3. \A d \in u.deferred : Since(d, Earliest(parts))
      BY <1>4, <3>2 DEF Account, Ordered, BurstIsLater
    <3> QED BY <3>3 DEF Answered
  <2>8. StepKeeps(GroupApplied(u, g, op, parts), n, now, states)
    <3>1. (\A l \in L : core.latest[l] < Earliest(parts)) => \A l \in L : now[l].op = op
      BY <2>4
    <3> QED BY <1>1, <1>3, <1>4, <2>2, <2>4, <2>7, <3>1, GroupAppliedCounts
  <2>9. ASSUME op = "off", Parents(g, L) # {}
        PROVE  StepKeeps(Waiting(more), n, now, states)
    <3>1. parent \in Aggregates /\ L \subseteq core.armed[parent]
      BY <2>9 DEF Parents
    <3> HIDE DEF parent
    <3>2. new \in Deferral /\ new.parts = parts /\ LeavesOf(new) = L
      BY <2>4, <3>1, Bounds DEF Deferral, LeavesOf
    <3> HIDE DEF new
    <3>3. L \cap u.quarantine = {}
      BY <1>1, <1>3, <2>5 DEF Sound, Quiet
    <3>4. Sound(more)
      BY <1>1, <3>2, <3>3, DeferralSound
    <3>5. more.retained = u.retained /\ more.burst = u.burst /\ more.deferred = u.deferred \cup {new}
      BY <1>1 DEF Sound, ObserverState
    <3> HIDE DEF more
    <3>6. \A l \in L : u.retained[l].op = "off"
      BY <2>3, <2>9
    <3>7. Account(more, core, uses, n, now, states)
      BY <1>1, <1>3, <1>4, <2>1, <2>6, <3>1, <3>2, <3>4, <3>5, <3>6, DeferralCounts
    <3>8. Shrunk(more, more)
      BY <3>4, Shrinking
    <3> QED BY <3>4, <3>7, <3>8, WaitingKeeps
  <2> HIDE DEF more
  <2> QED BY <1>2, <1>5, <1>8, <2>2, <2>8, <2>9 DEF Kinds
<1> QED BY <1>6, <1>7, <1>8

\* A displaced scene drops all evidence of its lights.
LEMMA DisplacedCounts ==
  ASSUME NEW o, Sound(o), core \in CoreState, uses \in [1..MaxSequence -> Nat],
         managed \in SUBSET Leaves, sequence \in Nat,
         NEW x, NEW leaf \in BOOLEAN, leaf => x \in Leaves, NEW clear, NEW now,
         Displaced(o, x, leaf, clear, now).c # core => sequence + 2 <= MaxSequence,
         NEW n \in Nat, n <= sequence + 2, NEW new, NEW states,
         Account(o, core, uses, n, new, states)
  PROVE  LET s == Displaced(o, x, leaf, clear, now)
         IN /\ s.c = core => Account(s.o, core, uses, n, new, states)
            /\ StepKeeps(s, sequence + 2, new, states)
<1> DEFINE p == IF clear THEN Witnessed(o, x, leaf) ELSE o
           s == CHOOSE t \in Corroborated(p, x) : TRUE
           S == Managed(p.cache[s])
           ok == {l \in S : now[l] = "on"}
           q == sequence + 2
           c == Submitted(core, "appearance", s, ok, S, q)
           w == Dropped(p, S)
           r == Established(w, S)
           v == [r EXCEPT !.displaced[s] = Closed]
           f == Forgotten(v)
           moved == Step(f, c, {})
           stays == ~clear \/ Corroborated(p, x) = {} \/ c = core
           d == Displaced(o, x, leaf, clear, now)
<1>1. Sound(p) /\ Shrunk(o, p)
  BY WitnessedSound, NotedShrinks, Shrinking
<1>2. d = IF stays THEN Waiting(p) ELSE moved
  BY DEF Displaced
<1>3. Waiting(p).o = p /\ Waiting(p).c = core /\ Waiting(p).taken = {}
  BY DEF Waiting, Step
<1>4. moved.c = c /\ moved.taken = {} /\ moved.o = f
  BY DEF Step
<1>5. Account(p, core, uses, n, new, states)
  <2> HIDE DEF p
  <2> QED BY <1>1, ShrunkAccount
<1>6. q \in Nat /\ n <= q
  OBVIOUS
<1>7. CASE stays
  <2> HIDE DEF p, stays, moved, q, d
  <2>1. Account(p, core, uses, q, new, states)
    BY <1>5, <1>6, LaterAccount
  <2>2. After({}) = uses
    BY AfterNothing
  <2>3. d = Waiting(p)
    BY <1>2, <1>7
  <2>4. Rules(d, new)
    BY <1>3, <2>3 DEF Rules
  <2>5. StepKeeps(d, q, new, states)
    BY <1>3, <2>1, <2>2, <2>3, <2>4 DEF StepKeeps
  <2> QED BY <1>3, <1>5, <2>3, <2>5 DEF d, q
<1>8. CASE ~stays
  <2> HIDE DEF p
  <2>1. s \in Surfaces
    BY <1>8 DEF Corroborated
  <2> HIDE DEF s
  <2>2. ok \in SUBSET Leaves /\ ok \subseteq S /\ S \in SUBSET Leaves
    BY DEF Managed
  <2> HIDE DEF S
  <2>3. /\ Sound(w) /\ Shrunk(p, w) /\ \A e \in w.deferred : LeavesOf(e) \cap S = {}
    BY <1>1, DroppedSound, DroppedShrinks
  <2> HIDE DEF w, ok
  <2>4. Sound(r) /\ Shrunk(w, r)
    BY <2>3, EstablishedSound, Shrinking
  <2> HIDE DEF r
  <2>5. Sound(v) /\ Shrunk(r, v)
    <3> DEFINE h == [r.displaced EXCEPT ![s] = Closed]
    <3>1. h \in [Surfaces -> Window]
      BY <2>1, <2>4, Bounds DEF Sound, ObserverState
    <3>2. v = [r EXCEPT !.displaced = h]
      OBVIOUS
    <3> HIDE DEF h
    <3>3. Sound(v)
      BY <2>4, <3>1, <3>2, WindowUpdate
    <3>4. v.retained = r.retained /\ v.deferred = r.deferred /\ v.burst = r.burst
      BY <2>4, <3>2 DEF Sound, ObserverState
    <3> HIDE DEF v
    <3> QED BY <3>3, <3>4 DEF Shrunk
  <2> HIDE DEF v
  <2>6. Sound(f) /\ Shrunk(v, f)
    BY <2>5, ForgottenSound, RetiredShrinks
  <2> HIDE DEF f
  <2>7. Shrunk(w, f)
    <3>1. Shrunk(w, v)
      BY <2>4, <2>5, ShrunkTwice
    <3> QED BY <2>6, <3>1, ShrunkTwice
  <2>8. Shrunk(p, f) /\ \A e \in f.deferred : LeavesOf(e) \cap S = {}
    <3>1. Shrunk(p, f)
      BY <2>3, <2>7, ShrunkTwice
    <3> QED BY <2>3, <2>7, <3>1 DEF Shrunk
  <2>9. c # core
    BY <1>8
  <2> HIDE DEF moved
  <2>10. d = moved
    BY <1>2, <1>8
  <2>11. q \in 0..MaxSequence
    BY <1>4, <2>9, <2>10, Bounds
  <2>12. Receipt("appearance", s, ok)
    BY <2>1, <2>2, ObserverAssumption DEF Receipt
  <2> HIDE DEF q
  <2>13. c \in CoreState /\ ok # {} /\ Took(core, c, "appearance", s, ok) /\ Noticed(core, c, S, q)
    <3>1. \/ c = core
          \/ c \in CoreState /\ ok # {} /\ Took(core, c, "appearance", s, ok) /\ Noticed(core, c, S, q)
      BY <2>2, <2>11, <2>12, Accepting
    <3> QED BY <2>9, <3>1
  <2> HIDE DEF c, d
  <2>14. \A e \in f.deferred : Answered(e, "appearance", {}, ok, q)
    BY <2>2, <2>8 DEF Answered
  <2>15. Account(f, c, After(Sequences({})), q, new, states)
    <3>1. /\ {} \in SUBSET (Leaves \X (1..MaxSequence))
          /\ \A y \in {} : y[1] \in ok /\ uses[y[2]] = 0 /\ y[2] <= n
          /\ \A y \in {} : \A l \in Leaves : Marked(p, l, y[2]) => l = y[1]
          /\ \A y \in {} : \A l \in Leaves : f.retained[l] # Nothing => f.retained[l].seq # y[2]
          /\ q <= q
      BY <1>6
    <3> QED BY <1>1, <1>5, <1>6, <2>2, <2>6, <2>8, <2>13, <2>14, <3>1, TakingKeeps
  <2>16. Sequences({}) = {}
    BY DEF Sequences
  <2>17. StepKeeps(moved, q, new, states)
    BY <1>4, <2>15, <2>16 DEF StepKeeps, Rules
  <2>18. d.c # core
    BY <1>4, <2>9, <2>10
  <2> QED BY <2>10, <2>17, <2>18 DEF d, q
<1> QED BY <1>7, <1>8

-----------------------------------------------------------------------------
(* Reports and commands that are newer than everything else *)

\* The newest commands and the lights' states differ for the lights of S only.
Elsewhere(S, now, new, states, lit) ==
  \A k \in Leaves \ S : new[k].op = now[k].op /\ lit[k] = states[k]

\* Of the evidence only that of light l has sequence m.
Latest(o, l, m) ==
  /\ o.retained[l] # Nothing => o.retained[l].seq = m
  /\ \A d \in o.deferred : \A p \in d.parts : p[2] < m

\* Without evidence of a light its newest command does not matter.
LEMMA SilencedCounts ==
  ASSUME NEW o, Sound(o), NEW c, NEW u, NEW n, NEW now, NEW states,
         Account(o, c, u, n, now, states),
         NEW S, \A l \in Leaves \cap S : o.retained[l] = Nothing,
         \A d \in o.deferred : LeavesOf(d) \cap S = {},
         NEW new, NEW lit, Elsewhere(S, now, new, states, lit)
  PROVE  Account(o, c, u, n, new, lit)
<1>1. Newest(o, c, new)
  BY DEF Account, Newest, Elsewhere
<1>2. NewestOfGroups(o, c, new, lit)
  <2> SUFFICES ASSUME NEW d \in o.deferred, NEW k \in LeavesOf(d), ~Spent(d, c), lit[k] = "off"
               PROVE  new[k].op = "off"
    BY DEF NewestOfGroups
  <2>1. k \in Leaves /\ k \notin S
    BY PartsOf
  <2> QED BY <2>1 DEF Account, NewestOfGroups, Elsewhere
<1> QED BY <1>1, <1>2 DEF Account

\* A command later than all evidence overtakes it.
LEMMA OvertakenCounts ==
  ASSUME NEW o, Sound(o), NEW c \in CoreState, NEW u, NEW n \in Nat, NEW now, NEW states,
         Account(o, c, u, n, now, states),
         NEW l \in Leaves, n <= c.latest[l],
         NEW new, NEW lit, Elsewhere({l}, now, new, states, lit)
  PROVE  Account(o, c, u, n, new, lit)
<1>0. c.latest[l] \in Nat
  BY Bounds DEF CoreState
<1>1. Newest(o, c, new)
  <2> SUFFICES ASSUME NEW k \in Leaves, o.retained[k] # Nothing, o.retained[k].seq > c.latest[k]
               PROVE  new[k].op = o.retained[k].op
    BY DEF Newest
  <2>1. k # l
    <3> SUFFICES ASSUME k = l PROVE FALSE
      OBVIOUS
    <3> DEFINE x == o.retained[l].seq
               y == c.latest[l]
    <3>1. x \in 1..MaxSequence /\ Marked(o, l, x) /\ x > y
      BY EvidenceOf DEF Marked
    <3>2. x <= n /\ x \in Nat
      BY <3>1, Bounds DEF Account, Ordered, Numbers
    <3>3. y \in Nat /\ n <= y
      BY <1>0
    <3> HIDE DEF x, y
    <3> QED BY <3>1, <3>2, <3>3
  <2> QED BY <2>1 DEF Account, Newest, Elsewhere
<1>2. NewestOfGroups(o, c, new, lit)
  <2> SUFFICES ASSUME NEW d \in o.deferred, NEW k \in LeavesOf(d), ~Spent(d, c), lit[k] = "off"
               PROVE  new[k].op = "off"
    BY DEF NewestOfGroups
  <2>1. k # l
    <3> SUFFICES ASSUME k = l PROVE FALSE
      OBVIOUS
    <3>1. PICK p \in d.parts : p[1] = l
      BY PartsOf
    <3> DEFINE x == p[2]
               y == c.latest[l]
    <3>2. p = <<l, x>> /\ x \in 1..MaxSequence
      BY <3>1, PartsOf
    <3>3. Marked(o, l, x)
      BY <3>2 DEF Marked
    <3>4. x <= n /\ x \in Nat
      BY <3>2, <3>3, Bounds DEF Account, Ordered, Numbers
    <3>5. ~(x <= y)
      BY <3>1 DEF Spent
    <3>6. y \in Nat /\ n <= y
      BY <1>0
    <3> HIDE DEF x, y
    <3> QED BY <3>4, <3>5, <3>6
  <2>2. k \in Leaves
    BY PartsOf
  <2> QED BY <2>1, <2>2 DEF Account, NewestOfGroups, Elsewhere
<1> QED BY <1>1, <1>2 DEF Account

\* New evidence of a light, later than everything else.
LEMMA RenewedCounts ==
  ASSUME NEW o, Sound(o), NEW r, Sound(r), core \in CoreState, uses \in [1..MaxSequence -> Nat],
         NEW n \in Nat, NEW m, m = n + 1, m \in 1..MaxSequence, NEW now, NEW states,
         Account(o, core, uses, n, now, states),
         NEW l \in Leaves, NEW op \in Kinds,
         \A k \in Leaves : k # l => r.retained[k] \in {o.retained[k], Nothing},
         r.retained[l] # Nothing, r.retained[l].op = op, r.retained[l].seq = m,
         r.deferred \subseteq o.deferred, r.burst.leaves = o.burst.leaves,
         NEW new, NEW lit, Elsewhere({l}, now, new, states, lit), new[l].op = op,
         lit[l] = "off" => op = "off"
  PROVE  Account(r, core, uses, m, new, lit) /\ Latest(r, l, m)
<1>0. n <= m /\ m \in Nat /\ m > n
  OBVIOUS
<1>1. Account(o, core, uses, m, now, states)
  BY <1>0, LaterAccount
<1>2. ASSUME NEW d \in o.deferred, NEW p \in d.parts
      PROVE  p[2] <= n /\ p[2] < m /\ p[1] \in Leaves /\ p[2] \in 1..MaxSequence /\ p = <<p[1], p[2]>>
  <2>1. p[1] \in Leaves /\ p[2] \in 1..MaxSequence /\ p = <<p[1], p[2]>>
    BY PartsOf
  <2>2. Marked(o, p[1], p[2])
    BY <2>1 DEF Marked
  <2>3. p[2] <= n
    BY <2>1, <2>2 DEF Account, Ordered, Numbers
  <2>4. p[2] \in Nat
    BY <2>1, Bounds
  <2> HIDE DEF Account
  <2>5. p[2] < m
    <3> DEFINE x == p[2]
    <3> HIDE DEF x
    <3>1. x <= n /\ x \in Nat
      BY <2>3, <2>4 DEF x
    <3>2. x < m
      BY <3>1
    <3> QED BY <3>2 DEF x
  <2> QED BY <2>1, <2>3, <2>5
<1>3. \A k \in Leaves, q \in 1..MaxSequence : Marked(r, k, q) => (k = l /\ q = m) \/ Marked(o, k, q)
  <2> SUFFICES ASSUME NEW k \in Leaves, NEW q \in 1..MaxSequence, Marked(r, k, q)
               PROVE  (k = l /\ q = m) \/ Marked(o, k, q)
    OBVIOUS
  <2> QED BY EvidenceOf DEF Marked
<1>4. \A k \in Leaves, q \in 1..MaxSequence : Marked(o, k, q) => q <= n /\ q # m
  <2> SUFFICES ASSUME NEW k \in Leaves, NEW q \in 1..MaxSequence, Marked(o, k, q)
               PROVE  q <= n /\ q # m
    OBVIOUS
  <2>1. q <= n /\ q \in Nat
    BY Bounds DEF Account, Ordered, Numbers
  <2> QED BY <1>0, <2>1
<1>5. Numbers(r, m) /\ Unique(r)
  <2>1. Numbers(r, m)
    <3> SUFFICES ASSUME NEW k \in Leaves, NEW q \in 1..MaxSequence, Marked(r, k, q)
                 PROVE  q <= m
      BY DEF Numbers
    <3> QED BY <1>0, <1>1, <1>3 DEF Account, Ordered, Numbers
  <2>2. Unique(r)
    BY <1>3, <1>4 DEF Account, Ordered, Unique
  <2> QED BY <2>1, <2>2
<1>6. \A d \in r.deferred : d.parts # {} /\ Since(d, m)
  <2> SUFFICES ASSUME NEW d \in r.deferred PROVE d.parts # {} /\ Since(d, m)
    OBVIOUS
  <2>1. d \in o.deferred /\ d.parts # {}
    BY DEF Account, Ordered, BurstIsLater
  <2>2. PICK p \in d.parts : TRUE
    BY <2>1
  <2>3. p[2] <= m
    <3> DEFINE x == p[2]
    <3>1. x < m /\ x \in Nat
      BY <1>2, <2>1, Bounds
    <3> HIDE DEF x
    <3>2. x <= m
      BY <1>0, <3>1
    <3> QED BY <3>2 DEF x
  <2> QED BY <2>1, <2>3 DEF Since
<1>7. BurstIsLater(r)
  <2> SUFFICES ASSUME NEW d \in r.deferred, NEW k \in r.burst.leaves \cup LeavesOf(d),
                      r.retained[k] # Nothing
               PROVE  Since(d, r.retained[k].seq)
    BY <1>6 DEF BurstIsLater
  <2>1. k \in Leaves
    BY BurstOf, PartsOf
  <2>2. CASE k = l
    BY <1>6, <2>2
  <2>3. CASE k # l
    BY <2>1, <2>3 DEF Account, Ordered, BurstIsLater
  <2> QED BY <2>2, <2>3
<1>8. Prefixes(r)
  <2> SUFFICES ASSUME NEW d \in r.deferred, NEW k \in r.burst.leaves,
                      <<k, r.retained[k].seq>> \in d.parts
               PROVE  LeavesOf(d) \subseteq r.burst.leaves
    BY DEF Prefixes
  <2>1. k \in Leaves /\ d \in o.deferred /\ r.retained[k].seq \in 1..MaxSequence
    BY BurstOf, PartsOf
  <2>2. k # l
    <3>1. <<k, r.retained[k].seq>>[2] < m
      BY <1>2, <2>1
    <3> QED BY <1>0, <3>1
  <2>3. r.retained[k] = o.retained[k]
    BY <2>1, <2>2, EvidenceOf
  <2> QED BY <2>1, <2>3 DEF Account, Ordered, Prefixes
<1>9. Nested(r)
  BY DEF Account, Ordered, Nested
<1>10. Unused(r, uses)
  <2>1. uses[m] = 0
    BY <1>0 DEF Account, Once
  <2> QED BY <2>1 DEF Account, Unused
<1>11. OnceMore(r, core, uses) /\ ManualSpends(r, core)
  BY DEF Account, OnceMore, ManualSpends
<1>12. Newest(r, core, new)
  BY DEF Account, Newest, Elsewhere
<1>13. NewestOfGroups(r, core, new, lit)
  <2> SUFFICES ASSUME NEW d \in r.deferred, NEW k \in LeavesOf(d), ~Spent(d, core), lit[k] = "off"
               PROVE  new[k].op = "off"
    BY DEF NewestOfGroups
  <2>1. k \in Leaves
    BY PartsOf
  <2> QED BY <2>1 DEF Account, NewestOfGroups, Elsewhere
<1>14. Account(r, core, uses, m, new, lit)
  BY <1>1, <1>5, <1>7, <1>8, <1>9, <1>10, <1>11, <1>12, <1>13 DEF Account, Ordered
<1>15. Latest(r, l, m)
  BY <1>2 DEF Latest
<1> QED BY <1>14, <1>15

LEMMA ShrunkLatest ==
  ASSUME NEW o, NEW r, Shrunk(o, r), NEW l \in Leaves, NEW m, Latest(o, l, m)
  PROVE  Latest(r, l, m)
  BY DEF Shrunk, Latest

\* The light joins the burst with it, or starts one.
LEMMA CorrelatedCounts ==
  ASSUME NEW o, Sound(o), topology \in Topologies, NEW c, NEW u, NEW m \in 1..MaxSequence,
         NEW n, NEW now, NEW states, Account(o, c, u, n, now, states),
         NEW l \in Leaves, Latest(o, l, m)
  PROVE  Account(Correlated(o, {l}, {}), c, u, n, now, states)
<1> DEFINE r == Correlated(o, {l}, {})
<1>1. Sound(r)
  BY CorrelatedSound
<1>2. /\ r.retained = o.retained /\ r.deferred = o.deferred
      /\ r.burst.leaves \in {o.burst.leaves \cup {l}, {l}}
  BY DEF Sound, ObserverState, Correlated, NoBurst
<1> HIDE DEF r
<1>3. Numbers(r, n) /\ Unique(r) /\ Nested(r)
  BY <1>2 DEF Account, Ordered, Numbers, Unique, Nested, Marked
<1>4. BurstIsLater(r)
  <2>1. \A d \in r.deferred : d.parts # {}
    BY <1>2 DEF Account, Ordered, BurstIsLater
  <2> SUFFICES ASSUME NEW d \in r.deferred, NEW k \in r.burst.leaves \cup LeavesOf(d),
                      r.retained[k] # Nothing
               PROVE  Since(d, r.retained[k].seq)
    BY <2>1 DEF BurstIsLater
  <2>2. CASE k = l
    <3>1. PICK p \in d.parts : TRUE
      BY <2>1
    <3>2. p[2] < m /\ p[2] \in 1..MaxSequence /\ o.retained[k].seq = m
      BY <1>1, <1>2, <2>2, PartsOf DEF Latest
    <3>3. p[2] <= m
      <4> DEFINE x == p[2]
      <4>1. x < m /\ x \in Nat /\ m \in Nat
        BY <3>2, Bounds
      <4> HIDE DEF x
      <4>2. x <= m
        BY <4>1
      <4> QED BY <4>2 DEF x
    <3> QED BY <1>2, <3>2, <3>3 DEF Since
  <2>3. CASE k # l
    BY <1>2, <2>3 DEF Account, Ordered, BurstIsLater
  <2> QED BY <2>2, <2>3
<1>5. Prefixes(r)
  <2> SUFFICES ASSUME NEW d \in r.deferred, NEW k \in r.burst.leaves,
                      <<k, r.retained[k].seq>> \in d.parts
               PROVE  LeavesOf(d) \subseteq r.burst.leaves
    BY DEF Prefixes
  <2> DEFINE q == r.retained[k].seq
             p == <<k, q>>
  <2>1. p \in d.parts /\ p[2] = q /\ d \in o.deferred
    BY <1>2
  <2>2. q \in 1..MaxSequence /\ q < m
    <3>1. p[2] \in 1..MaxSequence /\ p[2] < m
      BY <2>1, PartsOf DEF Latest
    <3> HIDE DEF p
    <3> QED BY <2>1, <3>1
  <2>3. r.retained[k] # Nothing
    <3> SUFFICES ASSUME r.retained[k] = Nothing PROVE FALSE
      OBVIOUS
    <3>1. q = 0
      BY DEF Nothing
    <3> HIDE DEF q
    <3> QED BY <2>2, <3>1
  <2>4. k # l
    <3> SUFFICES ASSUME k = l PROVE FALSE
      OBVIOUS
    <3>1. q = m
      BY <1>2, <2>3 DEF Latest
    <3> HIDE DEF q
    <3> QED BY <2>2, <3>1, Bounds
  <2>5. k \in o.burst.leaves /\ r.burst.leaves = o.burst.leaves \cup {l}
    BY <1>2, <2>4
  <2> QED BY <1>2, <2>5 DEF Account, Ordered, Prefixes
<1>6. Unused(r, u) /\ OnceMore(r, c, u) /\ ManualSpends(r, c)
  BY <1>2 DEF Account, Unused, OnceMore, ManualSpends
<1>7. Newest(r, c, now) /\ NewestOfGroups(r, c, now, states)
  BY <1>2 DEF Account, Newest, NewestOfGroups
<1> QED BY <1>3, <1>4, <1>5, <1>6, <1>7 DEF Account, Ordered, r

LEMMA GroupCorrelatedShrinks ==
  ASSUME NEW o, Sound(o), NEW G
  PROVE  Shrunk(o, Correlated(o, {}, G))
<1> DEFINE r == Correlated(o, {}, G)
<1>1. /\ r.retained = o.retained /\ r.deferred = o.deferred
      /\ r.burst.leaves \in {o.burst.leaves, {}}
  BY DEF Sound, ObserverState, Correlated, NoBurst
<1> HIDE DEF r
<1> QED BY <1>1 DEF Shrunk, r

LEMMA RetainedCounts ==
  ASSUME NEW o, Sound(o), core \in CoreState, uses \in [1..MaxSequence -> Nat],
         NEW l \in Leaves \ o.quarantine, NEW op \in Kinds, sequence \in Nat,
         sequence + 1 <= MaxSequence, NEW now, NEW states,
         Account(o, core, uses, sequence, now, states),
         NEW new, NEW lit, Elsewhere({l}, now, new, states, lit), new[l].op = op,
         lit[l] = "off" => op = "off"
  PROVE  /\ Account(Retained(o, l, op), core, uses, sequence + 1, new, lit)
         /\ Latest(Retained(o, l, op), l, sequence + 1)
<1> DEFINE p == IF o.retained[l].op \notin {"none", op} THEN Cancelled(o, {l}) ELSE o
           m == sequence + 1
           e == [op |-> op, seq |-> m, age |-> 0]
           n == IF p.expiry = -1 THEN Burst ELSE p.expiry
           f == [p.retained EXCEPT ![l] = e]
           r == [p EXCEPT !.retained = f, !.expiry = n]
<1>1. Sound(p) /\ Shrunk(o, p)
  BY CancelledSound, DroppedShrinks, Shrinking
<1>2. Retained(o, l, op) = r
  BY <1>1 DEF Retained, Sound, ObserverState
<1>3. e # Nothing /\ e.op = op /\ e.seq = m
  BY DEF Kinds, Nothing
<1>4. Sound(r)
  BY <1>2, RetainedSound
<1> HIDE DEF p
<1>5. Account(p, core, uses, sequence, now, states)
  BY <1>1, ShrunkAccount
<1>6. /\ r.retained = f /\ r.deferred = p.deferred /\ r.burst = p.burst
      /\ f[l] = e /\ \A k \in Leaves : k # l => f[k] = p.retained[k]
  BY <1>1 DEF Sound, ObserverState
<1> HIDE DEF f, r, e
<1>7. m \in 1..MaxSequence /\ m = sequence + 1
  BY Bounds
<1> HIDE DEF m
<1>8. /\ \A k \in Leaves : k # l => r.retained[k] \in {p.retained[k], Nothing}
      /\ r.retained[l] # Nothing /\ r.retained[l].op = op /\ r.retained[l].seq = m
      /\ r.deferred \subseteq p.deferred /\ r.burst.leaves = p.burst.leaves
  BY <1>3, <1>6
<1>9. Account(r, core, uses, m, new, lit) /\ Latest(r, l, m)
  BY <1>1, <1>4, <1>5, <1>7, <1>8, RenewedCounts
<1> QED BY <1>2, <1>9 DEF m

-----------------------------------------------------------------------------
(* The account, step by step *)

Counting == Account(obs, core, uses, sequence, newest, lights)

\* The newest reports rule in what this step promotes.
NewestRule ==
  uses' # uses =>
    \A l \in Leaves : core'.latest[l] # core.latest[l] =>
      newest'[l].op = (IF core'.intent[l] = "manual" THEN "appearance" ELSE "off")

LEMMA BecomesCounts ==
  ASSUME uses \in [1..MaxSequence -> Nat], core' \in CoreState, sequence' \in Nat,
         NEW step, Becomes(step), NEW m \in Nat, m <= sequence',
         StepKeeps(step, m, newest', lights')
  PROVE  Counting' /\ NewestRule
<1>1. obs' = step.o /\ core' = step.c /\ uses' = After(step.taken)
  BY DEF Becomes, After
<1>2. Account(obs', core', uses', m, newest', lights')
  BY <1>1 DEF StepKeeps
<1>3. Account(obs', core', uses', sequence', newest', lights')
  BY <1>2, LaterAccount
<1>4. step.taken = {} => uses' = uses
  BY <1>1, AfterNothing
<1>5. NewestRule
  BY <1>1, <1>4 DEF StepKeeps, Rules, NewestRule
<1> QED BY <1>3, <1>5 DEF Counting

LEMMA LeafReportCounts ==
  ASSUME TypeOK, Records, Counting, Records', NEW l \in Leaves, NEW state \in {"on", "off", "gone"},
         NEW cause \in Causes, NEW clear \in BOOLEAN, LeafReport(l, state, cause, clear)
  PROVE  Counting' /\ NewestRule
<1> DEFINE op == IF state = "off" /\ cause # "outage" THEN "off" ELSE "appearance"
           now == [lights EXCEPT ![l] = state]
           o0 == IF cause = "witnessed" /\ op = "appearance" THEN Established(obs, {l}) ELSE obs
           automatic == Automatic(o0, l, op, cause)
           p == IF OtherSurface(o0, l) THEN Forgotten(o0) ELSE o0
           o1 == Snapshotted(p)
           r == IF automatic THEN Dropped(o1, {l}) ELSE Retained(o1, l, op)
           o2 == Pruned(r)
           o3 == IF op = "off" THEN o2 ELSE Noted(o2, l, ~automatic)
           k == Correlated(o3, {l}, {})
           o4 == Revoked(k)
           step == IF automatic THEN Waiting(o3)
                   ELSE IF op = "off" \/ Qualified(o4) THEN Waiting(o4)
                   ELSE Displaced(o4, l, TRUE, clear, now)
<1>1. /\ Numbered(IF step.c = core THEN 1 ELSE 2)
      /\ Becomes(step) /\ lights' = now /\ NowAsked({l}, IF automatic THEN "none" ELSE op)
  BY DEF LeafReport
<1>2. /\ topology \in Topologies /\ managed \in SUBSET Leaves /\ sequence \in Nat
      /\ core \in CoreState /\ Sound(obs) /\ uses \in [1..MaxSequence -> Nat]
      /\ core' \in CoreState
  BY ObserverAssumption DEF TypeOK, Records
<1>3. op \in Kinds
  BY DEF Kinds
<1>4. /\ sequence + 1 <= MaxSequence /\ (step.c # core => sequence + 2 <= MaxSequence)
      /\ sequence' = IF step.c = core THEN sequence + 1 ELSE sequence + 2
  <2> HIDE DEF step
  <2> QED BY <1>1, <1>2, Bounds DEF Numbered
<1>5. lights' [l] = state /\ \A j \in Leaves : j # l => lights'[j] = lights[j]
  BY <1>1 DEF TypeOK
<1>6. /\ ~automatic => newest'[l].op = op
      /\ Elsewhere({l}, newest, newest', lights, lights')
  <2> HIDE DEF op, automatic
  <2> QED BY <1>1, <1>5 DEF NowAsked, Elsewhere
<1>7. ~automatic /\ lights'[l] = "off" => op = "off"
  BY <1>5 DEF Automatic
<1> HIDE DEF op
<1>8. Sound(o0) /\ Shrunk(obs, o0)
  BY <1>2, EstablishedSound, Shrinking
<1>9. ~automatic => l \notin o0.quarantine
  BY DEF Automatic
<1>10. automatic \in BOOLEAN
  BY DEF Automatic
<1> HIDE DEF o0, automatic
<1>11. Sound(p) /\ p.quarantine = o0.quarantine /\ Shrunk(o0, p)
  BY <1>8, ForgottenSound, RetiredShrinks, Shrinking
<1> HIDE DEF p
<1>12. Sound(o1) /\ o1.quarantine = o0.quarantine /\ Shrunk(p, o1)
  BY <1>11, SnapshottedSound, Shrinking
<1> HIDE DEF o1
<1>13. Account(o1, core, uses, sequence, newest, lights)
  <2>1. Shrunk(obs, p)
    BY <1>8, <1>11, ShrunkTwice
  <2>2. Shrunk(obs, o1)
    BY <1>12, <2>1, ShrunkTwice
  <2> QED BY <1>2, <1>12, <2>2, ShrunkAccount DEF Counting
<1>14. Account(r, core, uses, sequence + 1, newest', lights') /\ Sound(r)
  <2>0. sequence <= sequence + 1 /\ sequence + 1 \in Nat
    BY <1>2
  <2>1. CASE automatic
    <3>1. r = Dropped(o1, {l})
      BY <2>1
    <3>2. Sound(r) /\ Shrunk(o1, r) /\ (\A j \in Leaves \cap {l} : r.retained[j] = Nothing)
          /\ \A d \in r.deferred : LeavesOf(d) \cap {l} = {}
      BY <1>12, <3>1, DroppedSound, DroppedShrinks
    <3> HIDE DEF r
    <3>3. Account(r, core, uses, sequence + 1, newest, lights)
      <4>1. Account(r, core, uses, sequence, newest, lights)
        BY <1>12, <1>13, <3>2, ShrunkAccount
      <4> DEFINE m == sequence + 1
      <4> HIDE DEF m
      <4>2. Account(r, core, uses, m, newest, lights)
        BY <1>2, <2>0, <4>1, LaterAccount DEF m
      <4> QED BY <4>2 DEF m
    <3> QED BY <1>6, <3>2, <3>3, SilencedCounts
  <2>2. CASE ~automatic
    <3>1. r = Retained(o1, l, op) /\ l \in Leaves \ o1.quarantine
      BY <1>9, <1>12, <2>2
    <3> HIDE DEF r
    <3>2. Sound(r)
      BY <1>2, <1>3, <1>4, <1>12, <3>1, RetainedSound
    <3>3. Account(r, core, uses, sequence + 1, newest', lights')
      BY <1>2, <1>3, <1>4, <1>6, <1>7, <1>12, <1>13, <2>2, <3>1, RetainedCounts
    <3> QED BY <3>2, <3>3
  <2> QED BY <2>1, <2>2
<1>15. ~automatic => Latest(r, l, sequence + 1)
  <2> SUFFICES ASSUME ~automatic PROVE Latest(r, l, sequence + 1)
    OBVIOUS
  <2>1. r = Retained(o1, l, op) /\ l \in Leaves \ o1.quarantine
    BY <1>9, <1>12
  <2> HIDE DEF r
  <2> QED BY <1>2, <1>3, <1>4, <1>6, <1>7, <1>12, <1>13, <2>1, RetainedCounts
<1> HIDE DEF r
<1>16. Sound(o2) /\ Shrunk(r, o2)
  BY <1>14, PrunedSound, PrunedShrinks
<1> HIDE DEF o2
<1>17. Sound(o3) /\ Shrunk(o2, o3)
  <2>1. Sound(Noted(o2, l, ~automatic)) /\ Shrunk(o2, Noted(o2, l, ~automatic))
    BY <1>16, NotedSound, NotedShrinks
  <2> QED BY <1>16, <2>1, Shrinking
<1> HIDE DEF o3
<1>18. /\ Account(o3, core, uses, sequence + 1, newest', lights')
       /\ ~automatic => Latest(o3, l, sequence + 1)
  <2>1. Shrunk(r, o3)
    BY <1>16, <1>17, ShrunkTwice
  <2> QED BY <1>14, <1>15, <1>17, <2>1, ShrunkAccount, ShrunkLatest
<1> DEFINE m == sequence + 1
<1>19. m \in 1..MaxSequence /\ m \in Nat /\ m <= sequence' /\ sequence' \in Nat
  <2> HIDE DEF step
  <2> QED BY <1>2, <1>4, Bounds
<1>20. Account(o3, core, uses, m, newest', lights') /\ (~automatic => Latest(o3, l, m))
  BY <1>18
<1>21. m <= sequence + 2 /\ sequence + 2 \in Nat
  BY <1>2
<1> HIDE DEF m
<1>22. ~automatic => Sound(o4) /\ Account(o4, core, uses, m, newest', lights')
  <2> SUFFICES ASSUME ~automatic
               PROVE  Sound(o4) /\ Account(o4, core, uses, m, newest', lights')
    OBVIOUS
  <2>1. Sound(k)
    BY <1>2, <1>17, CorrelatedSound
  <2>2. Account(k, core, uses, m, newest', lights')
    BY <1>2, <1>17, <1>19, <1>20, CorrelatedCounts
  <2> HIDE DEF k
  <2>3. Sound(o4) /\ Shrunk(k, o4)
    BY <2>1, RevokedSound, PrunedShrinks
  <2> HIDE DEF o4
  <2> QED BY <2>1, <2>2, <2>3, ShrunkAccount
<1> HIDE DEF o4, k, now
<1>23. CASE automatic
  <2>1. step = Waiting(o3)
    BY <1>23
  <2> HIDE DEF step
  <2>2. StepKeeps(step, m, newest', lights')
    BY <1>2, <1>17, <1>20, <2>1, Shrinking, WaitingKeeps
  <2> QED BY <1>1, <1>2, <1>19, <2>2, BecomesCounts
<1>24. CASE ~automatic /\ (op = "off" \/ Qualified(o4))
  <2>1. step = Waiting(o4)
    BY <1>24
  <2> HIDE DEF step
  <2>2. StepKeeps(step, m, newest', lights')
    BY <1>2, <1>22, <1>24, <2>1, Shrinking, WaitingKeeps
  <2> QED BY <1>1, <1>2, <1>19, <2>2, BecomesCounts
<1>25. CASE ~automatic /\ ~(op = "off" \/ Qualified(o4))
  <2> DEFINE s == Displaced(o4, l, TRUE, clear, now)
  <2>1. step = s
    BY <1>25
  <2>2. s.c # core => sequence + 2 <= MaxSequence
    BY <1>4, <2>1
  <2> HIDE DEF step
  <2>3. /\ s.c = core => Account(s.o, core, uses, m, newest', lights')
        /\ StepKeeps(s, sequence + 2, newest', lights')
    BY <1>2, <1>19, <1>21, <1>22, <1>25, <2>2, DisplacedCounts
  <2>4. s.c # core => s.taken = {}
    BY DEF Displaced, Waiting, Step
  <2>5. s.c = core => s.taken = {}
    BY DEF Displaced, Waiting, Step
  <2> HIDE DEF s
  <2>6. CASE s.c # core
    <3> DEFINE n == sequence + 2
    <3>1. n \in Nat /\ n <= sequence' /\ StepKeeps(step, n, newest', lights')
      BY <1>2, <1>4, <2>1, <2>3, <2>6
    <3> HIDE DEF n
    <3> QED BY <1>1, <1>2, <1>19, <3>1, BecomesCounts
  <2>7. CASE s.c = core
    <3>1. StepKeeps(step, m, newest', lights')
      <4>1. After({}) = uses
        BY <1>2, AfterNothing
      <4> QED BY <2>1, <2>3, <2>5, <2>7, <4>1 DEF StepKeeps, Rules
    <3> QED BY <1>1, <1>2, <1>19, <3>1, BecomesCounts
  <2> QED BY <2>6, <2>7
<1> QED BY <1>23, <1>24, <1>25

LEMMA AggregateReportCounts ==
  ASSUME TypeOK, Records, Counting, Records', NEW g \in Aggregates, NEW op \in Kinds,
         NEW clear \in BOOLEAN, AggregateReport(g, op, clear)
  PROVE  Counting' /\ NewestRule
<1> DEFINE o0 == Looked(obs, g)
           members == o0.cache[g]
           p == Snapshotted(o0)
           o1 == Pruned(p)
           o2 == IF op = "off" THEN o1 ELSE Noted(o1, g, FALSE)
           k == Correlated(o2, {}, {g})
           o3 == Revoked(k)
           shift == IF op = "off" THEN Waiting(o3) ELSE Displaced(o3, g, FALSE, clear, lights)
           step == IF op = "off" /\ ArmedReady(o3, g, members, clear) THEN ArmedOff(o3, g)
                   ELSE IF op = "off" /\ OwnedReady(o3, g, members, clear)
                     THEN OwnedOff(o3, g, Managed(members))
                   ELSE IF Qualified(o3) THEN Single(o3, g, members)
                   ELSE IF shift.c # core THEN shift
                   ELSE Exact(shift.o, g)
<1>1. /\ Numbered(IF shift.c # core /\ step = shift THEN 2 ELSE 1)
      /\ Becomes(step) /\ UNCHANGED <<lights, newest>>
  BY DEF AggregateReport
<1>2. /\ topology \in Topologies /\ managed \in SUBSET Leaves /\ sequence \in Nat
      /\ core \in CoreState /\ Sound(obs) /\ topology \in [Aggregates -> SUBSET Leaves]
      /\ uses \in [1..MaxSequence -> Nat] /\ core' \in CoreState
  BY ObserverAssumption DEF TypeOK, Records
<1>3. Sound(o0) /\ Shrunk(obs, o0)
  BY <1>2, LookedSound, Shrinking DEF Shrunk
<1> HIDE DEF o0
<1>4. members \in SUBSET Leaves
  BY <1>2, <1>3 DEF Sound, ObserverState
<1> HIDE DEF members
<1>5. Sound(p) /\ Shrunk(o0, p)
  BY <1>3, SnapshottedSound, Shrinking
<1> HIDE DEF p
<1>6. Sound(o1) /\ Shrunk(p, o1)
  BY <1>5, PrunedSound, PrunedShrinks
<1> HIDE DEF o1
<1>7. Sound(o2) /\ Shrunk(o1, o2)
  <2>1. Sound(Noted(o1, g, FALSE)) /\ Shrunk(o1, Noted(o1, g, FALSE))
    BY <1>6, NotedSound, NotedShrinks
  <2> QED BY <1>6, <2>1, Shrinking
<1> HIDE DEF o2
<1>8. Sound(k) /\ Shrunk(o2, k)
  BY <1>2, <1>7, CorrelatedSound, GroupCorrelatedShrinks
<1> HIDE DEF k
<1>9. Sound(o3) /\ Shrunk(k, o3)
  BY <1>8, RevokedSound, PrunedShrinks
<1> HIDE DEF o3
<1>10. Account(o3, core, uses, sequence, newest, lights)
  <2>1. Shrunk(obs, o1)
    BY <1>3, <1>5, <1>6, ShrunkTwice
  <2>2. Shrunk(obs, k)
    BY <1>7, <1>8, <2>1, ShrunkTwice
  <2>3. Shrunk(obs, o3)
    BY <1>9, <2>2, ShrunkTwice
  <2> QED BY <1>2, <1>9, <2>3, ShrunkAccount DEF Counting
<1>11. Waiting(o3).c = core /\ Waiting(o3).o = o3
  BY DEF Waiting, Step
<1> DEFINE n == sequence + 2
<1>12. n \in Nat /\ sequence <= n /\ sequence <= sequence
  BY <1>2
<1>13. ASSUME shift.c # core => sequence + 2 <= MaxSequence
       PROVE  /\ StepKeeps(shift, n, newest, lights)
              /\ shift.c = core => /\ Sound(shift.o)
                                   /\ Account(shift.o, core, uses, sequence, newest, lights)
  <2>1. CASE op = "off"
    <3>1. shift = Waiting(o3)
      BY <2>1
    <3> HIDE DEF shift, n
    <3>2. Account(o3, core, uses, n, newest, lights)
      BY <1>2, <1>10, <1>12, LaterAccount
    <3>3. StepKeeps(shift, n, newest, lights)
      BY <1>2, <1>9, <3>1, <3>2, Shrinking, WaitingKeeps
    <3> QED BY <1>9, <1>10, <1>11, <3>1, <3>3
  <2>2. CASE op # "off"
    <3> DEFINE d == Displaced(o3, g, FALSE, clear, lights)
    <3>1. shift = d
      BY <2>2
    <3>2. (d.c # core => sequence + 2 <= MaxSequence) /\ FALSE \in BOOLEAN /\ (FALSE => g \in Leaves)
      BY <1>13, <3>1
    <3> HIDE DEF shift
    <3>3. /\ d.c = core => Account(d.o, core, uses, sequence, newest, lights)
          /\ StepKeeps(d, sequence + 2, newest, lights)
      BY <1>2, <1>9, <1>10, <1>12, <3>2, DisplacedCounts
    <3>4. StepSound(d, {})
      BY <1>2, <1>9, <3>2, DisplacedSound
    <3> HIDE DEF d
    <3> QED BY <3>1, <3>3, <3>4 DEF StepSound
  <2> QED BY <2>1, <2>2
<1>14. shift.c # core /\ step = shift => n <= MaxSequence /\ sequence' = n
  <2> HIDE DEF shift, step
  <2> QED BY <1>1 DEF Numbered
<1>15. ~(shift.c # core /\ step = shift) => sequence' = sequence + 1
  <2> HIDE DEF shift, step
  <2> QED BY <1>1 DEF Numbered
<1>16. sequence <= sequence' /\ sequence' \in Nat
  <2> HIDE DEF shift, step
  <2> QED BY <1>2, <1>14, <1>15
<1> HIDE DEF n
<1>17. ASSUME StepKeeps(step, sequence, newest, lights)
       PROVE  Counting' /\ NewestRule
  <2> HIDE DEF step
  <2>1. StepKeeps(step, sequence, newest', lights')
    BY <1>1, <1>17
  <2> QED BY <1>1, <1>2, <1>16, <2>1, BecomesCounts
<1> HIDE DEF shift
<1>18. CASE op = "off" /\ ArmedReady(o3, g, members, clear)
  BY <1>2, <1>9, <1>10, <1>17, <1>18, ArmedOffCounts
<1>19. CASE /\ ~(op = "off" /\ ArmedReady(o3, g, members, clear))
            /\ op = "off" /\ OwnedReady(o3, g, members, clear)
  BY <1>2, <1>9, <1>10, <1>17, <1>19, OwnedOffCounts
<1> DEFINE grouped == \/ op = "off" /\ ArmedReady(o3, g, members, clear)
                      \/ op = "off" /\ OwnedReady(o3, g, members, clear)
<1>20. CASE ~grouped /\ Qualified(o3)
  <2>1. step = Single(o3, g, members)
    BY <1>20
  <2> HIDE DEF step
  <2> QED BY <1>2, <1>4, <1>9, <1>10, <1>17, <2>1, SingleCounts
<1>21. CASE ~grouped /\ ~Qualified(o3) /\ shift.c # core
  <2>1. step = shift
    BY <1>21
  <2>2. sequence + 2 <= MaxSequence /\ sequence' = n
    BY <1>14, <1>21, <2>1 DEF n
  <2> HIDE DEF step
  <2>3. StepKeeps(step, n, newest', lights') /\ n <= sequence'
    BY <1>1, <1>12, <1>13, <2>1, <2>2
  <2> QED BY <1>1, <1>2, <1>12, <1>16, <2>3, BecomesCounts
<1>22. CASE ~grouped /\ ~Qualified(o3) /\ shift.c = core
  <2>1. step = Exact(shift.o, g)
    BY <1>22
  <2>2. Sound(shift.o) /\ Account(shift.o, core, uses, sequence, newest, lights)
    BY <1>13, <1>22
  <2> HIDE DEF step
  <2> QED BY <1>2, <1>17, <2>1, <2>2, ExactCounts
<1> QED BY <1>18, <1>19, <1>20, <1>21, <1>22

\* The homeowner's own command is newer than everything that waits.
LEMMA UserCommandCounts ==
  ASSUME TypeOK, Records, Counting, Records', NEW l \in Leaves, NEW op \in Kinds, UserCommand(l, op)
  PROVE  Counting' /\ NewestRule
<1> DEFINE q == sequence + 1
           c == Submitted(core, op, None, {l}, {l}, q)
           r == Established(obs, {l})
           step == Step(r, c, {})
<1>1. /\ Becomes(step) /\ sequence' = q /\ q \in 0..MaxSequence /\ q \in Nat
      /\ sequence <= q /\ q <= q /\ sequence < q /\ sequence \in Nat
      /\ Elsewhere({l}, newest, newest', lights, lights')
  BY Bounds DEF UserCommand, Numbered, TypeOK, NowAsked, Elsewhere
<1>2. /\ core \in CoreState /\ Sound(obs) /\ uses \in [1..MaxSequence -> Nat] /\ core' \in CoreState
      /\ Account(obs, core, uses, sequence, newest, lights)
  BY DEF Records, Counting
<1>3. Receipt(op, None, {l}) /\ {l} \subseteq {l} /\ {l} \in SUBSET Leaves
  BY DEF Receipt
<1>4. Sound(r) /\ Shrunk(obs, r)
  BY <1>2, EstablishedSound, Shrinking
<1>5. step.o = r /\ step.c = c /\ step.taken = {}
  BY DEF Step
<1> HIDE DEF step, r, q
<1>6. ~(\E k \in {l} : q <= core.latest[k])
  <2> DEFINE x == core.latest[l]
  <2>1. x <= sequence /\ x \in Nat
    BY <1>2, Bounds DEF Account, Known, CoreState
  <2> HIDE DEF x
  <2>2. ~(q <= x)
    BY <1>1, <2>1
  <2> QED BY <2>2 DEF x
<1>7. /\ c \in CoreState /\ Took(core, c, op, None, {l}) /\ Noticed(core, c, {l}, q)
      /\ core.latest[l] < q
  <2>1. \/ c = core /\ ({l} = {} \/ \E k \in {l} : q <= core.latest[k])
        \/ /\ c \in CoreState /\ {l} # {} /\ Took(core, c, op, None, {l})
           /\ Noticed(core, c, {l}, q) /\ \A k \in {l} : core.latest[k] < q
    BY <1>1, <1>2, <1>3, Accepting
  <2> QED BY <1>6, <2>1
<1> HIDE DEF c
<1>8. \A d \in r.deferred : Answered(d, op, {}, {l}, q)
  <2> SUFFICES ASSUME NEW d \in r.deferred, l \in LeavesOf(d) PROVE Since(d, q)
    BY DEF Answered
  <2>1. d \in obs.deferred
    BY <1>4 DEF Shrunk
  <2>2. PICK p \in d.parts : p[1] = l
    BY <1>2, <2>1, PartsOf
  <2> DEFINE x == p[2]
  <2>3. p = <<l, x>> /\ x \in 1..MaxSequence
    BY <1>2, <2>1, <2>2, PartsOf
  <2>4. Marked(obs, l, x)
    BY <2>1, <2>3 DEF Marked
  <2>5. x <= sequence /\ x \in Nat
    BY <1>2, <2>3, <2>4, Bounds DEF Account, Ordered, Numbers
  <2> HIDE DEF x
  <2>6. x <= q
    BY <1>1, <2>5
  <2> QED BY <2>6 DEF Since, x
<1>9. Account(r, c, After(Sequences({})), q, newest, lights)
  <2>1. /\ {} \in SUBSET (Leaves \X (1..MaxSequence))
        /\ \A y \in {} : y[1] \in {l} /\ uses[y[2]] = 0 /\ y[2] <= sequence
        /\ \A y \in {} : \A k \in Leaves : Marked(obs, k, y[2]) => k = y[1]
        /\ \A y \in {} : \A k \in Leaves : r.retained[k] # Nothing => r.retained[k].seq # y[2]
    OBVIOUS
  <2> QED BY <1>1, <1>2, <1>3, <1>4, <1>7, <1>8, <2>1, TakingKeeps
<1>10. Sequences({}) = {}
  BY DEF Sequences
<1>11. Account(r, c, After({}), q, newest', lights')
  <2>1. q <= c.latest[l]
    BY <1>1, <1>7 DEF Noticed
  <2> QED BY <1>1, <1>4, <1>7, <1>9, <1>10, <2>1, OvertakenCounts
<1>12. StepKeeps(step, q, newest', lights')
  BY <1>5, <1>11 DEF StepKeeps, Rules
<1> QED BY <1>1, <1>2, <1>12, BecomesCounts

LEMMA ChainReportCounts ==
  ASSUME TypeOK, Records, Counting, Records', NEW l \in Leaves, NEW op \in Kinds, ChainReport(l, op)
  PROVE  Counting' /\ NewestRule
<1> DEFINE r == Dropped(obs, {l})
           q == sequence + 1
<1>1. /\ Becomes(Waiting(r)) /\ sequence' = q /\ q \in Nat /\ sequence <= q /\ q <= q
      /\ sequence \in Nat /\ Elsewhere({l}, newest, newest', lights, lights')
  BY DEF ChainReport, Numbered, TypeOK, NowAsked, Elsewhere
<1>2. /\ core \in CoreState /\ Sound(obs) /\ uses \in [1..MaxSequence -> Nat] /\ core' \in CoreState
      /\ Account(obs, core, uses, sequence, newest, lights)
  BY DEF Records, Counting
<1>3. /\ Sound(r) /\ Shrunk(obs, r) /\ \A k \in Leaves \cap {l} : r.retained[k] = Nothing
      /\ \A d \in r.deferred : LeavesOf(d) \cap {l} = {}
  BY <1>2, DroppedSound, DroppedShrinks
<1> HIDE DEF r, q
<1>4. Account(r, core, uses, sequence, newest, lights)
  BY <1>2, <1>3, ShrunkAccount
<1>5. Account(r, core, uses, q, newest, lights)
  BY <1>1, <1>2, <1>4, LaterAccount
<1>6. Account(r, core, uses, q, newest', lights')
  BY <1>1, <1>3, <1>5, SilencedCounts
<1>7. StepKeeps(Waiting(r), q, newest', lights')
  BY <1>2, <1>3, <1>6, Shrinking, WaitingKeeps
<1> QED BY <1>1, <1>2, <1>7, BecomesCounts

\* A scene that is recalled drops all evidence of its surface's lights.
LEMMA SceneRecallCounts ==
  ASSUME TypeOK, Records, Counting, Records', NEW s \in Surfaces, SceneRecall(s)
  PROVE  Counting' /\ NewestRule
<1> DEFINE S == Managed(topology[s])
           p == [obs EXCEPT !.cache = topology, !.displaced[s] = Closed, !.recall[s] = Burst]
           w == Dropped(p, S)
           o == Forgotten(w)
           ok == {l \in S : lights[l] # "gone"}
           q == sequence + 1
           c == Submitted(core, "appearance", s, ok, S, q)
           r == IF c = core THEN o ELSE Established(o, ok)
           step == Step(r, c, {})
<1>1. /\ Becomes(step) /\ sequence' = q /\ q \in 0..MaxSequence /\ q \in Nat
      /\ sequence <= q /\ q <= q /\ sequence \in Nat
      /\ Elsewhere(ok, newest, newest', lights, lights')
  BY Bounds DEF SceneRecall, Numbered, TypeOK, NowAsked, Elsewhere
<1>2. /\ topology \in [Aggregates -> SUBSET Leaves] /\ managed \in SUBSET Leaves
      /\ core \in CoreState /\ Sound(obs) /\ uses \in [1..MaxSequence -> Nat] /\ core' \in CoreState
      /\ Account(obs, core, uses, sequence, newest, lights)
  BY ObserverAssumption DEF TypeOK, Records, Counting
<1>3. Sound(p) /\ Shrunk(obs, p)
  <2> DEFINE f == [obs.displaced EXCEPT ![s] = Closed]
             h == [obs.recall EXCEPT ![s] = Burst]
  <2>1. f \in [Surfaces -> Window] /\ h \in [Surfaces -> -1..Burst]
    BY <1>2, Bounds DEF Sound, ObserverState
  <2>2. p = [obs EXCEPT !.cache = topology, !.displaced = f, !.recall = h]
    BY <1>2 DEF Sound, ObserverState
  <2> HIDE DEF f, h
  <2>3. Sound(p)
    BY <1>2, <2>1, <2>2 DEF Sound, Quiet, ObserverState
  <2>4. p.retained = obs.retained /\ p.deferred = obs.deferred /\ p.burst = obs.burst
    BY <1>2, <2>2 DEF Sound, ObserverState
  <2> HIDE DEF p
  <2> QED BY <2>3, <2>4 DEF Shrunk
<1>4. ok \in SUBSET Leaves /\ ok \subseteq S /\ S \in SUBSET Leaves
  BY <1>2 DEF Managed
<1> HIDE DEF p, ok, S
<1>5. /\ Sound(w) /\ Shrunk(p, w) /\ \A l \in Leaves \cap S : w.retained[l] = Nothing
      /\ \A d \in w.deferred : LeavesOf(d) \cap S = {}
  BY <1>3, DroppedSound, DroppedShrinks
<1> HIDE DEF w
<1>6. Sound(o) /\ Shrunk(w, o)
  BY <1>5, ForgottenSound, RetiredShrinks
<1> HIDE DEF o, c
<1>7. Sound(r) /\ Shrunk(o, r)
  BY <1>6, EstablishedSound, Shrinking
<1>8. step.o = r /\ step.c = c /\ step.taken = {}
  BY DEF Step
<1> HIDE DEF r, step, q
<1>9. Shrunk(w, r) /\ Shrunk(obs, r)
  <2>1. Shrunk(obs, w)
    BY <1>3, <1>5, ShrunkTwice
  <2>2. Shrunk(w, r)
    BY <1>6, <1>7, ShrunkTwice
  <2> QED BY <2>1, <2>2, ShrunkTwice
<1>10. /\ \A l \in Leaves \cap ok : r.retained[l] = Nothing
       /\ \A d \in r.deferred : LeavesOf(d) \cap ok = {}
  BY <1>4, <1>5, <1>9 DEF Shrunk
<1>11. Account(r, core, uses, sequence, newest, lights)
  BY <1>2, <1>7, <1>9, ShrunkAccount
<1>12. Account(r, c, After({}), q, newest, lights)
  <2>1. CASE c = core
    <3>1. Account(r, core, uses, q, newest, lights)
      BY <1>1, <1>2, <1>11, LaterAccount
    <3> QED BY <1>2, <2>1, <3>1, AfterNothing
  <2>2. CASE c # core
    <3>1. Receipt("appearance", s, ok)
      BY <1>4, ObserverAssumption DEF Receipt
    <3>2. /\ c \in CoreState /\ Took(core, c, "appearance", s, ok) /\ Noticed(core, c, S, q)
      <4>1. \/ c = core
            \/ c \in CoreState /\ Took(core, c, "appearance", s, ok) /\ Noticed(core, c, S, q)
        BY <1>1, <1>2, <1>4, <3>1, Accepting DEF c
      <4> QED BY <2>2, <4>1
    <3>3. \A d \in r.deferred : Answered(d, "appearance", {}, ok, q)
      BY <1>10 DEF Answered
    <3>4. /\ {} \in SUBSET (Leaves \X (1..MaxSequence))
          /\ \A y \in {} : y[1] \in ok /\ uses[y[2]] = 0 /\ y[2] <= sequence
          /\ \A y \in {} : \A k \in Leaves : Marked(obs, k, y[2]) => k = y[1]
          /\ \A y \in {} : \A k \in Leaves : r.retained[k] # Nothing => r.retained[k].seq # y[2]
      OBVIOUS
    <3>5. Account(r, c, After(Sequences({})), q, newest, lights)
      BY <1>1, <1>2, <1>4, <1>7, <1>9, <3>2, <3>3, <3>4, TakingKeeps
    <3>6. Sequences({}) = {}
      BY DEF Sequences
    <3> QED BY <3>5, <3>6
  <2> QED BY <2>1, <2>2
<1>13. Account(r, c, After({}), q, newest', lights')
  BY <1>1, <1>7, <1>10, <1>12, SilencedCounts
<1>14. StepKeeps(step, q, newest', lights')
  BY <1>8, <1>13 DEF StepKeeps, Rules
<1> QED BY <1>1, <1>2, <1>14, BecomesCounts

LEMMA SceneDisplacedCounts ==
  ASSUME TypeOK, Records, Counting, Records', NEW s \in Surfaces, SceneDisplaced(s)
  PROVE  Counting' /\ NewestRule
<1> DEFINE f == [obs.displaced EXCEPT ![s] = [(IF obs.recent[s].left >= 0 THEN obs.recent[s] ELSE Closed)
                                               EXCEPT !.left = Hold]]
           o == [obs EXCEPT !.displaced = f]
<1>1. Becomes(Waiting(o)) /\ UNCHANGED <<lights, sequence, newest>>
  BY DEF SceneDisplaced
<1>2. /\ core \in CoreState /\ Sound(obs) /\ uses \in [1..MaxSequence -> Nat] /\ core' \in CoreState
      /\ Account(obs, core, uses, sequence, newest, lights) /\ sequence \in Nat
  BY DEF TypeOK, Records, Counting
<1> HIDE DEF f
<1>3. o.retained = obs.retained /\ o.deferred = obs.deferred /\ o.burst = obs.burst
  BY <1>2 DEF Sound, ObserverState
<1>4. Sound(o)
  BY <1>1 DEF Becomes, Waiting, Step, Records
<1> HIDE DEF o
<1>5. Shrunk(obs, o)
  BY <1>3 DEF Shrunk
<1>6. StepKeeps(Waiting(o), sequence, newest', lights') /\ sequence <= sequence'
  BY <1>1, <1>2, <1>4, <1>5, WaitingKeeps
<1> QED BY <1>1, <1>2, <1>6, BecomesCounts

-----------------------------------------------------------------------------
(* Timers and the lifecycle *)

LEMMA SingleFiresCounts ==
  ASSUME TypeOK, Records, Counting, Records', NEW l \in Leaves, SingleFires(l)
  PROVE  Counting' /\ NewestRule
<1> DEFINE o == Uncalled(obs, {l})
           timer == obs.singles[l]
           step == IF o.retained[l].op = timer.op THEN SingleApplied(o, l) ELSE Waiting(o)
<1>1. Becomes(step) /\ UNCHANGED <<lights, sequence, newest>>
  BY DEF SingleFires
<1>2. /\ core \in CoreState /\ Sound(obs) /\ uses \in [1..MaxSequence -> Nat] /\ core' \in CoreState
      /\ Account(obs, core, uses, sequence, newest, lights) /\ sequence \in Nat
  BY DEF TypeOK, Records, Counting
<1>3. Sound(o) /\ Shrunk(obs, o)
  BY <1>2, UncalledSound, Shrinking
<1> HIDE DEF o, timer
<1>4. Account(o, core, uses, sequence, newest, lights)
  BY <1>2, <1>3, ShrunkAccount
<1>5. /\ StepKeeps(SingleApplied(o, l), sequence, newest, lights)
      /\ StepKeeps(Waiting(o), sequence, newest, lights)
  BY <1>2, <1>3, <1>4, Shrinking, SingleAppliedCounts, WaitingKeeps
<1>6. StepKeeps(step, sequence, newest', lights') /\ sequence <= sequence'
  BY <1>1, <1>2, <1>5
<1> HIDE DEF step
<1> QED BY <1>1, <1>2, <1>6, BecomesCounts

\* A group whose lights another receipt overtook is refused; of one that is still
\* nested no report was used before.
LEMMA GroupFiresCounts ==
  ASSUME TypeOK, Records, Counting, Records', NEW d \in obs.deferred, GroupFires(d)
  PROVE  Counting' /\ NewestRule
<1> DEFINE o == [obs EXCEPT !.deferred = @ \ {d}]
           S == LeavesOf(d)
           parts == d.parts
           q == Earliest(parts)
           step == IF StillNested(d) THEN GroupApplied(o, d.group, "off", parts)
                   ELSE Waiting(o)
<1>1. Becomes(step) /\ UNCHANGED <<lights, sequence, newest>>
  BY DEF GroupFires
<1>2. /\ core \in CoreState /\ Sound(obs) /\ uses \in [1..MaxSequence -> Nat] /\ core' \in CoreState
      /\ Account(obs, core, uses, sequence, newest, lights) /\ sequence \in Nat
  BY DEF TypeOK, Records, Counting
<1>3. Sound(o) /\ Shrunk(obs, o) /\ o.deferred = obs.deferred \ {d}
  <2>1. o.deferred = obs.deferred \ {d} /\ o.retained = obs.retained /\ o.burst = obs.burst
    BY <1>2 DEF Sound, ObserverState
  <2>2. Sound(o)
    BY <1>2 DEF Sound, Quiet, ObserverState
  <2> QED BY <2>1, <2>2 DEF Shrunk
<1>4. /\ d.group \in Aggregates /\ d.parent \in Aggregates
      /\ parts \in SUBSET (Leaves \X (1..MaxSequence))
      /\ S \in SUBSET Leaves /\ S = {p[1] : p \in parts}
      /\ \A p \in parts : /\ p = <<p[1], p[2]>> /\ p[1] \in S /\ p[1] \in Leaves
                          /\ p[2] \in 1..MaxSequence
  <2>1. d.group \in Aggregates /\ d.parent \in Aggregates
    BY <1>2 DEF Sound, ObserverState, Deferral
  <2> QED BY <1>2, <2>1, PartsOf DEF LeavesOf
<1>5. parts # {}
  BY <1>2 DEF Account, Ordered, BurstIsLater
<1>6. /\ Earliest(parts) \in 1..MaxSequence /\ \E p \in parts : Earliest(parts) = p[2]
      /\ \A p \in parts : Earliest(parts) <= p[2]
  BY <1>4, <1>5, EarliestLeast
<1> HIDE DEF o
<1>7. Account(o, core, uses, sequence, newest, lights)
  BY <1>2, <1>3, ShrunkAccount
<1>8. StepKeeps(Waiting(o), sequence, newest, lights)
  BY <1>2, <1>3, <1>7, Shrinking, WaitingKeeps
<1>9. ASSUME StillNested(d), Spent(d, core)
      PROVE  StepKeeps(GroupApplied(o, d.group, "off", parts), sequence, newest, lights)
  <2>1. \E l \in S : q <= core.latest[l]
    <3>1. PICK p \in parts, r \in parts : p[2] <= core.latest[r[1]]
      BY <1>9 DEF Spent
    <3> DEFINE x == p[2]
               y == core.latest[r[1]]
    <3>2. q <= x /\ x <= y /\ q \in Nat /\ x \in Nat /\ y \in Nat
      <4>1. q <= x /\ q \in Nat
        BY <1>6, Bounds
      <4>2. x \in Nat /\ r[1] \in Leaves
        BY <1>4, Bounds
      <4>3. y \in Nat
        BY <1>2, <4>2, Bounds DEF CoreState
      <4> QED BY <3>1, <4>1, <4>2, <4>3
    <3> HIDE DEF q, x, y
    <3>3. q <= y
      BY <3>2
    <3> QED BY <1>4, <3>3 DEF y
  <2> DEFINE rest == Without(o, {l \in S : <<l, o.retained[l].seq>> \in parts})
  <2>2. GroupApplied(o, d.group, "off", parts) = Waiting(rest)
    <3>1. Submitted(core, "off", d.group, S, S, q) = core
      BY <2>1 DEF Submitted
    <3> QED BY <1>4, <3>1 DEF GroupApplied, LeavesOf
  <2>3. Sound(rest) /\ Shrunk(o, rest)
    BY <1>3, WithoutSound, Shrinking
  <2> HIDE DEF rest
  <2> QED BY <1>2, <1>3, <1>7, <2>2, <2>3, WaitingKeeps
<1>10. ASSUME StillNested(d), ~Spent(d, core)
       PROVE  StepKeeps(GroupApplied(o, d.group, "off", parts), sequence, newest, lights)
  <2>1. S \subseteq core.armed[d.parent] /\ S # core.armed[d.parent] /\ \A l \in S : lights[l] = "off"
    BY <1>10 DEF StillNested
  <2>2. \A p \in parts : Marked(obs, p[1], p[2])
    BY <1>4 DEF Marked
  <2>3. \A p \in parts : uses[p[2]] = 0 /\ p[2] <= sequence
    <3>1. ~Loose(d, core)
      BY <1>4, <2>1 DEF Loose
    <3>2. ~(\E p \in parts : uses[p[2]] > 0)
      BY <1>2, <1>10, <3>1 DEF Account, OnceMore
    <3>3. \A p \in parts : uses[p[2]] \in Nat
      BY <1>2, <1>4
    <3>4. \A p \in parts : p[2] <= sequence
      BY <1>2, <1>4, <2>2 DEF Account, Ordered, Numbers
    <3> QED BY <3>2, <3>3, <3>4
  <2>4. \A p \in parts : \A l \in Leaves : Marked(o, l, p[2]) => l = p[1]
    <3>1. \A l \in Leaves, x \in 1..MaxSequence : Marked(o, l, x) => Marked(obs, l, x)
      BY <1>2, EvidenceOf DEF Marked, Shrunk, o, Sound, ObserverState
    <3> QED BY <1>2, <1>4, <2>2, <3>1 DEF Account, Ordered, Unique
  <2>5. ASSUME NEW e \in o.deferred
        PROVE  Answered(e, "off", parts, S, q)
    <3>1. e \in obs.deferred
      BY <1>3
    <3>2. LeavesOf(e) \subseteq S /\ LeavesOf(e) # S => ~Loose(e, core)
      BY <1>4, <2>1 DEF Loose
    <3>3. e.parts \cap parts # {} => S \subseteq LeavesOf(e) \/ Since(e, q)
      BY <1>2, <1>6, <3>1 DEF Account, Ordered, Nested, Before
    <3> QED BY <3>2, <3>3 DEF Answered
  <2>6. \A l \in S : newest[l].op = "off"
    BY <1>2, <1>10, <2>1 DEF Account, NewestOfGroups
  <2>7. (\A l \in S : core.latest[l] < q) => \A l \in S : newest[l].op = "off"
    BY <2>6
  <2>8. "off" \in Kinds /\ \A e \in o.deferred : Answered(e, "off", parts, S, q)
    BY <2>5 DEF Kinds
  <2> DEFINE g == d.group
  <2>9. g \in Aggregates
    BY <1>4
  <2> HIDE DEF S, parts, g
  <2>10. StepKeeps(GroupApplied(o, g, "off", parts), sequence, newest, lights)
    BY <1>2, <1>3, <1>4, <1>5, <1>7, <2>3, <2>4, <2>7, <2>8, <2>9, GroupAppliedCounts
  <2> QED BY <2>10 DEF g
<1>11. StepKeeps(step, sequence, newest, lights)
  BY <1>8, <1>9, <1>10
<1> HIDE DEF step
<1>12. StepKeeps(step, sequence, newest', lights') /\ sequence <= sequence' /\ sequence' \in Nat
  BY <1>1, <1>2, <1>11
<1> QED BY <1>1, <1>2, <1>12, BecomesCounts

LEMMA ExpiryFiresCounts ==
  ASSUME TypeOK, Records, Counting, Records', ExpiryFires
  PROVE  Counting' /\ NewestRule
<1> DEFINE rest == Without(obs, Expirable(obs))
           n == IF Held(rest) = {} THEN -1 ELSE Burst
           o == [rest EXCEPT !.expiry = n]
<1>1. Becomes(Waiting(o)) /\ UNCHANGED <<lights, sequence, newest>>
  BY DEF ExpiryFires, Expired
<1>2. /\ core \in CoreState /\ Sound(obs) /\ uses \in [1..MaxSequence -> Nat] /\ core' \in CoreState
      /\ Account(obs, core, uses, sequence, newest, lights) /\ sequence \in Nat
  BY DEF TypeOK, Records, Counting
<1>3. Sound(rest) /\ Shrunk(obs, rest)
  BY <1>2, WithoutSound, Shrinking
<1> HIDE DEF rest, n
<1>4. o.retained = rest.retained /\ o.deferred = rest.deferred /\ o.burst = rest.burst
  BY <1>3 DEF Sound, ObserverState
<1>5. Sound(o)
  BY <1>1 DEF Becomes, Waiting, Step, Records
<1> HIDE DEF o
<1>6. Shrunk(obs, o)
  BY <1>3, <1>4 DEF Shrunk
<1>7. StepKeeps(Waiting(o), sequence, newest', lights') /\ sequence <= sequence'
  BY <1>1, <1>2, <1>5, <1>6, WaitingKeeps
<1> QED BY <1>1, <1>2, <1>7, BecomesCounts

\* Time changes ages only.
LEMMA AgedCounts ==
  ASSUME NEW o, Sound(o), NEW r, Sound(r), NEW c, NEW u, NEW n, NEW now, NEW states,
         Account(o, c, u, n, now, states),
         \A l \in Leaves : /\ r.retained[l] = Nothing <=> o.retained[l] = Nothing
                           /\ r.retained[l].seq = o.retained[l].seq
                           /\ r.retained[l].op = o.retained[l].op,
         \A e \in r.deferred : \E d \in o.deferred : e.parts = d.parts,
         r.burst.leaves = o.burst.leaves,
         NEW new, \A l \in Leaves : new[l].op = now[l].op
  PROVE  Account(r, c, u, n, new, states)
<1>1. ASSUME NEW e \in r.deferred
      PROVE  \E d \in o.deferred :
               /\ e.parts = d.parts /\ LeavesOf(e) = LeavesOf(d) /\ Spent(e, c) = Spent(d, c)
               /\ Loose(e, c) = Loose(d, c) /\ \A q : Since(e, q) = Since(d, q)
               /\ LeavesOf(e) \subseteq Leaves
  <2>1. PICK d \in o.deferred : e.parts = d.parts
    OBVIOUS
  <2>2. LeavesOf(e) = LeavesOf(d)
    BY <2>1 DEF LeavesOf
  <2> QED BY <2>1, <2>2, PartsOf DEF Spent, Loose, Since
<1>2. \A l \in Leaves, q \in 1..MaxSequence : Marked(r, l, q) => Marked(o, l, q)
  BY DEF Marked
<1>3. Numbers(r, n) /\ Unique(r)
  BY <1>2 DEF Account, Ordered, Numbers, Unique
<1>4. BurstIsLater(r)
  <2> SUFFICES ASSUME NEW e \in r.deferred
               PROVE  /\ e.parts # {}
                      /\ \A l \in r.burst.leaves \cup LeavesOf(e) :
                           r.retained[l] # Nothing => Since(e, r.retained[l].seq)
    BY DEF BurstIsLater
  <2>1. PICK d \in o.deferred : /\ e.parts = d.parts /\ LeavesOf(e) = LeavesOf(d)
                               /\ \A q : Since(e, q) = Since(d, q)
    BY <1>1
  <2>2. r.burst.leaves \cup LeavesOf(e) \subseteq Leaves
    BY <1>1, BurstOf
  <2> QED BY <2>1, <2>2 DEF Account, Ordered, BurstIsLater
<1>5. Prefixes(r)
  <2> SUFFICES ASSUME NEW e \in r.deferred, NEW l \in r.burst.leaves,
                      <<l, r.retained[l].seq>> \in e.parts
               PROVE  LeavesOf(e) \subseteq r.burst.leaves
    BY DEF Prefixes
  <2>1. PICK d \in o.deferred : e.parts = d.parts /\ LeavesOf(e) = LeavesOf(d)
    BY <1>1
  <2>2. l \in Leaves
    BY BurstOf
  <2> QED BY <2>1, <2>2 DEF Account, Ordered, Prefixes
<1>6. Nested(r)
  <2> SUFFICES ASSUME NEW e \in r.deferred, NEW f \in r.deferred, e.parts \cap f.parts # {}
               PROVE  Before(e, f) \/ Before(f, e)
    BY DEF Nested
  <2>1. PICK d \in o.deferred : /\ e.parts = d.parts /\ LeavesOf(e) = LeavesOf(d)
                               /\ \A q : Since(e, q) = Since(d, q)
    BY <1>1
  <2>2. PICK b \in o.deferred : /\ f.parts = b.parts /\ LeavesOf(f) = LeavesOf(b)
                               /\ \A q : Since(f, q) = Since(b, q)
    BY <1>1
  <2>3. Before(d, b) \/ Before(b, d)
    BY <2>1, <2>2 DEF Account, Ordered, Nested
  <2> QED BY <2>1, <2>2, <2>3 DEF Before
<1>7. Unused(r, u)
  BY DEF Account, Unused
<1>8. OnceMore(r, c, u)
  <2> SUFFICES ASSUME NEW e \in r.deferred, NEW p \in e.parts, u[p[2]] > 0
               PROVE  Spent(e, c) \/ Loose(e, c)
    BY DEF OnceMore
  <2> QED BY <1>1 DEF Account, OnceMore
<1>9. ManualSpends(r, c)
  <2> SUFFICES ASSUME NEW e \in r.deferred, NEW l \in LeavesOf(e), c.intent[l] = "manual"
               PROVE  Spent(e, c)
    BY DEF ManualSpends
  <2> QED BY <1>1 DEF Account, ManualSpends
<1>10. Newest(r, c, new)
  BY DEF Account, Newest
<1>11. NewestOfGroups(r, c, new, states)
  <2> SUFFICES ASSUME NEW e \in r.deferred, NEW l \in LeavesOf(e), ~Spent(e, c), states[l] = "off"
               PROVE  new[l].op = "off"
    BY DEF NewestOfGroups
  <2>1. l \in Leaves
    BY <1>1
  <2> QED BY <1>1, <2>1 DEF Account, NewestOfGroups
<1> QED BY <1>3, <1>4, <1>5, <1>6, <1>7, <1>8, <1>9, <1>10, <1>11 DEF Account, Ordered

LEMMA TickCounts ==
  ASSUME TypeOK, Records, Counting, Records', Tick
  PROVE  Counting' /\ NewestRule
<1>1. Sound(obs) /\ obs \in ObserverState /\ Sound(obs')
  BY DEF Records, Sound
<1>2. /\ obs'.retained = [l \in Leaves |-> Older(obs.retained[l])]
      /\ obs'.deferred = {Nearer(d) : d \in obs.deferred}
      /\ obs'.burst = [obs.burst EXCEPT !.idle = Later(@)]
  BY <1>1 DEF Tick, ObserverState
<1>3. \A l \in Leaves : /\ obs'.retained[l] = Nothing <=> obs.retained[l] = Nothing
                        /\ obs'.retained[l].seq = obs.retained[l].seq
                        /\ obs'.retained[l].op = obs.retained[l].op
  <2> SUFFICES ASSUME NEW l \in Leaves
               PROVE  /\ obs'.retained[l] = Nothing <=> obs.retained[l] = Nothing
                      /\ obs'.retained[l].seq = obs.retained[l].seq
                      /\ obs'.retained[l].op = obs.retained[l].op
    OBVIOUS
  <2> DEFINE e == obs.retained[l]
  <2>1. e \in Evidence \cup {Nothing} /\ obs'.retained[l] = Older(e)
    BY <1>1, <1>2 DEF ObserverState
  <2> HIDE DEF e
  <2>2. Older(e).seq = e.seq /\ Older(e).op = e.op
    BY <2>1 DEF Older, Evidence, Nothing
  <2>3. Older(e) = Nothing <=> e = Nothing
    BY <2>1, <2>2 DEF Older, Evidence, Nothing, Kinds
  <2> QED BY <2>1, <2>2, <2>3 DEF e
<1>4. \A e \in obs'.deferred : \E d \in obs.deferred : e.parts = d.parts
  <2> SUFFICES ASSUME NEW d \in obs.deferred PROVE Nearer(d).parts = d.parts
    BY <1>2
  <2> QED BY <1>1 DEF Nearer, ObserverState, Deferral
<1>5. obs'.burst.leaves = obs.burst.leaves
  BY <1>1, <1>2 DEF ObserverState, BurstState
<1>6. \A l \in Leaves : newest'[l].op = newest[l].op
  BY DEF Tick, TypeOK, Older
<1>7. UNCHANGED <<lights, core, sequence, uses>>
  BY DEF Tick
<1>8. Account(obs', core, uses, sequence, newest', lights)
  BY <1>1, <1>3, <1>4, <1>5, <1>6, AgedCounts DEF Counting
<1> QED BY <1>7, <1>8 DEF Counting, NewestRule

\* Nothing waits any more, and nothing stays armed.
LEMMA NothingCounts ==
  ASSUME NEW o, Sound(o), \A l \in Leaves : o.retained[l] = Nothing, o.deferred = {},
         NEW c, \A g \in Aggregates : c.armed[g] = {}, NEW u, NEW n, Once(u, n), Known(c, n),
         NEW now, NEW states
  PROVE  Account(o, c, u, n, now, states)
<1>1. Ordered(o, n)
  <2>1. \A l \in Leaves, q \in 1..MaxSequence : ~Marked(o, l, q)
    BY DEF Marked
  <2> QED BY <2>1 DEF Ordered, Numbers, Unique, BurstIsLater, Prefixes, Nested
<1> QED BY <1>1 DEF Account, Unused, OnceMore, ArmedIsOff, ManualSpends, Newest, NewestOfGroups

LEMMA ClearedCounts ==
  ASSUME NEW o, Sound(o), NEW n, Ordered(o, n)
  PROVE  (\A l \in Leaves : Cleared(o).retained[l] = Nothing) /\ Cleared(o).deferred = {}
<1> DEFINE w == Dropped(o, Leaves)
           f == Forgotten(w)
           r == Cleared(o)
<1>1. Sound(w) /\ Shrunk(o, w) /\ Sound(f) /\ Shrunk(w, f)
  <2>1. Sound(w) /\ Shrunk(o, w)
    BY DroppedSound, DroppedShrinks
  <2> HIDE DEF w
  <2> QED BY <2>1, ForgottenSound, RetiredShrinks
<1> HIDE DEF w
<1>2. r.deferred = f.deferred
  BY <1>1 DEF Cleared, w, Sound, ObserverState
<1>3. \A l \in Leaves, d \in r.deferred : l \notin LeavesOf(d)
  BY ClearedSound
<1>4. \A l \in Leaves : r.retained[l] = Nothing
  BY ClearedSound
<1> HIDE DEF r, f
<1>5. ASSUME NEW d \in r.deferred
      PROVE  FALSE
  <2>1. d \in o.deferred
    BY <1>1, <1>2 DEF Shrunk
  <2>2. d.parts # {}
    BY <2>1 DEF Ordered, BurstIsLater
  <2>3. PICK p \in d.parts : TRUE
    BY <2>2
  <2>4. p[1] \in LeavesOf(d) /\ p[1] \in Leaves
    BY <2>1, PartsOf
  <2> QED BY <1>3, <2>4
<1> QED BY <1>4, <1>5 DEF r

LEMMA LifecycleCounts ==
  ASSUME TypeOK, Records, Counting, Records', Lifecycle
  PROVE  Counting' /\ NewestRule
<1> USE DEF Counting
<1>1. /\ core \in CoreState /\ Sound(obs) /\ uses \in [1..MaxSequence -> Nat] /\ sequence \in Nat
      /\ Account(obs, core, uses, sequence, newest, lights) /\ Sound(obs')
      /\ Ordered(obs, sequence) /\ Once(uses, sequence) /\ Known(core, sequence)
  BY DEF TypeOK, Records, Account
<1>2. CASE NightlyBoundary
  <2> DEFINE o == Cleared(obs)
             c == Relinquished(core)
             a == Asked(core, Leaves, "none", None)
  <2>1. /\ obs' = [o EXCEPT !.quarantine = Nightly(obs), !.settling = Settle]
        /\ core' = c /\ uses' = uses /\ UNCHANGED <<lights, sequence, newest>>
    BY <1>2 DEF NightlyBoundary, Becomes, Step, Records
  <2>2. c.latest = core.latest /\ c.armed = [g \in Aggregates |-> {}]
    BY <1>1 DEF Relinquished, Asked, CoreState
  <2>3. Sound(o) /\ (\A l \in Leaves : o.retained[l] = Nothing) /\ o.deferred = {}
    BY <1>1, ClearedSound, ClearedCounts
  <2> HIDE DEF o, c
  <2>4. (\A l \in Leaves : obs'.retained[l] = Nothing) /\ obs'.deferred = {}
    BY <2>1, <2>3 DEF Sound, ObserverState
  <2>5. Known(core', sequence) /\ \A g \in Aggregates : core'.armed[g] = {}
    BY <1>1, <2>1, <2>2 DEF Known
  <2>6. Account(obs', core', uses, sequence, newest, lights)
    BY <1>1, <2>4, <2>5, NothingCounts
  <2> QED BY <2>1, <2>6 DEF NewestRule
<1>3. CASE Reset
  <2> DEFINE o == Cleared(obs)
             r == Relinquished(core)
             c == [r EXCEPT !.latest = [l \in Leaves |-> 0]]
  <2>1. /\ obs' = [o EXCEPT !.quarantine = Nightly(obs), !.recall = [s \in Surfaces |-> -1]]
        /\ core' = c /\ uses' = uses /\ UNCHANGED <<lights, sequence, newest>>
    BY <1>3 DEF Reset, Becomes, Step, Records
  <2>2. r \in CoreState /\ r.armed = [g \in Aggregates |-> {}]
    BY <1>1, RelinquishedTables
  <2>3. Sound(o) /\ (\A l \in Leaves : o.retained[l] = Nothing) /\ o.deferred = {}
    BY <1>1, ClearedSound, ClearedCounts
  <2> HIDE DEF o, r
  <2>4. (\A l \in Leaves : obs'.retained[l] = Nothing) /\ obs'.deferred = {}
    BY <2>1, <2>3 DEF Sound, ObserverState
  <2>5. c.latest = [l \in Leaves |-> 0] /\ c.armed = r.armed
    BY <2>2 DEF CoreState
  <2> HIDE DEF c
  <2>6. Known(core', sequence) /\ \A g \in Aggregates : core'.armed[g] = {}
    BY <1>1, <2>1, <2>2, <2>5 DEF Known
  <2>7. Account(obs', core', uses, sequence, newest, lights)
    BY <1>1, <2>4, <2>6, NothingCounts
  <2> QED BY <2>1, <2>7 DEF NewestRule
<1>4. ASSUME NEW t \in Topologies, Regroup(t)
      PROVE  Counting' /\ NewestRule
  <2>1. UNCHANGED <<obs, core, uses, sequence, newest, lights>>
    BY <1>4 DEF Regroup
  <2> QED BY <1>1, <2>1 DEF NewestRule
<1>5. ASSUME NEW t \in Topologies, NEW scope \in Scopes, MembershipChanges(t, scope)
      PROVE  Counting' /\ NewestRule
  <2> DEFINE affected == (managed \ scope) \cup (scope \ managed)
             p == [obs EXCEPT !.cache = t]
             w == Dropped(p, affected)
             o == Forgotten(w)
             touched == {s \in Surfaces : t[s] \cap affected # {} /\ obs.displaced[s].left >= 0}
             removed == managed \ scope
             a == Asked(core, removed, "none", None)
             c == [a EXCEPT !.armed = [g \in Aggregates |-> {}]]
  <2>1. core' = c /\ uses' = uses /\ UNCHANGED <<lights, sequence, newest>>
    BY <1>5 DEF MembershipChanges, Becomes, Step, Records
  <2>2. obs' = [o EXCEPT !.quarantine = @ \cap scope,
                         !.displaced = [s \in Surfaces |-> IF s \in touched THEN Closed ELSE @[s]],
                         !.recent = [s \in Surfaces |-> IF s \in touched THEN Closed ELSE @[s]]]
    BY <1>5 DEF MembershipChanges, Becomes, Step
  <2>3. t \in [Aggregates -> SUBSET Leaves]
    BY ObserverAssumption
  <2>4. Sound(p) /\ Shrunk(obs, p)
    BY <1>1, <2>3, Shrinking DEF Sound, Quiet, ObserverState, Shrunk
  <2> HIDE DEF p, affected, touched, removed
  <2>5. Sound(w) /\ Shrunk(p, w)
    BY <2>4, DroppedSound, DroppedShrinks
  <2> HIDE DEF w
  <2>6. Sound(o) /\ Shrunk(w, o)
    BY <2>5, ForgottenSound, RetiredShrinks
  <2> HIDE DEF o
  <2>7. obs'.retained = o.retained /\ obs'.deferred = o.deferred /\ obs'.burst = o.burst
    BY <2>2, <2>6 DEF Sound, ObserverState
  <2>8. Shrunk(obs, obs')
    <3>1. Shrunk(obs, w)
      BY <2>4, <2>5, ShrunkTwice
    <3>2. Shrunk(obs, o)
      BY <2>6, <3>1, ShrunkTwice
    <3> QED BY <2>7, <3>2 DEF Shrunk
  <2>9. Account(obs', core, uses, sequence, newest, lights)
    BY <1>1, <2>8, ShrunkAccount
  <2>10. /\ a \in CoreState /\ Turned(core, a, removed, "none") /\ a.latest = core.latest
    <3>1. a \in CoreState /\ Turned(core, a, removed, "none")
      BY <1>1, AskedTables
    <3>2. a.latest = core.latest
      BY <1>1 DEF Asked, CoreState
    <3> QED BY <3>1, <3>2
  <2> HIDE DEF a
  <2>11. /\ c.latest = core.latest /\ c.intent = a.intent
         /\ \A g \in Aggregates : c.armed[g] = {}
    BY <2>10 DEF CoreState
  <2> HIDE DEF c
  <2>12. \A d : Spent(d, c) <=> Spent(d, core)
    BY <2>11 DEF Spent
  <2>13. \A d : Loose(d, c)
    BY <2>11 DEF Loose
  <2>14. OnceMore(obs', c, uses) /\ ArmedIsOff(c)
    BY <2>11, <2>13 DEF OnceMore, ArmedIsOff
  <2>15. ManualSpends(obs', c)
    <3> SUFFICES ASSUME NEW d \in obs'.deferred, NEW l \in LeavesOf(d), c.intent[l] = "manual"
                 PROVE  Spent(d, core)
      BY <2>12 DEF ManualSpends
    <3>1. l \in Leaves
      BY <1>1, PartsOf
    <3>2. core.intent[l] = "manual"
      BY <2>10, <2>11, <3>1 DEF Turned
    <3> QED BY <2>9, <3>2 DEF Account, ManualSpends
  <2>16. Known(c, sequence) /\ Newest(obs', c, newest) /\ NewestOfGroups(obs', c, newest, lights)
    BY <2>9, <2>11, <2>12 DEF Account, Known, Newest, NewestOfGroups
  <2>17. Account(obs', c, uses, sequence, newest, lights)
    BY <2>9, <2>14, <2>15, <2>16 DEF Account
  <2> QED BY <2>1, <2>17 DEF NewestRule
<1> QED BY <1>2, <1>3, <1>4, <1>5 DEF Lifecycle

-----------------------------------------------------------------------------
(* The theorems *)

LEMMA StepCounts ==
  ASSUME ObserverInv, Counting, Next
  PROVE  Counting' /\ NewestRule
<1>1. TypeOK /\ Records /\ Records'
  BY InvariantParts, StepSoundness DEF ObserverInv
<1>2. CASE Reports
  BY <1>1, <1>2, LeafReportCounts, AggregateReportCounts, UserCommandCounts, ChainReportCounts,
     SceneRecallCounts, SceneDisplacedCounts DEF Reports
<1>3. CASE Timers
  BY <1>1, <1>3, SingleFiresCounts, GroupFiresCounts, ExpiryFiresCounts DEF Timers
<1> QED BY <1>1, <1>2, <1>3, TickCounts, LifecycleCounts DEF Next

LEMMA CountingHolds == Spec => [](ObserverInv /\ Counting)
<1>1. Init => Counting
  <2> SUFFICES ASSUME Init PROVE Counting
    OBVIOUS
  <2>1. Sound(obs)
    BY InvariantInitially, InvariantParts DEF Records
  <2>2. (\A l \in Leaves : obs.retained[l] = Nothing) /\ obs.deferred = {}
    BY DEF Init, FreshObserver
  <2>3. (\A g \in Aggregates : core.armed[g] = {}) /\ Known(core, sequence)
    BY DEF Init, FreshCore, Known
  <2>4. Once(uses, sequence)
    BY DEF Init, Once
  <2> QED BY <2>1, <2>2, <2>3, <2>4, NothingCounts DEF Counting
<1>2. ObserverInv /\ Counting /\ [Next]_vars => Counting'
  <2> SUFFICES ASSUME ObserverInv, Counting, [Next]_vars PROVE Counting'
    OBVIOUS
  <2>1. CASE UNCHANGED vars
    BY <2>1 DEF vars, Counting
  <2> QED BY <2>1, StepCounts
<1> QED BY <1>1, <1>2, InvariantHolds, PTL DEF Spec

\* A report of a light takes part in accepted intent at most once, alone or in
\* groups, however bursts, groups that wait and the ledger's receipts interleave.
THEOREM ReportsCountOnce == Spec => []PromotedOnce
<1>1. ObserverInv /\ Counting => PromotedOnce
  BY DEF ObserverInv, TypeOK, Counting, Account, Once, PromotedOnce
<1> QED BY <1>1, CountingHolds, PTL

\* However late a timer fires or a group that waited is applied, only lights whose
\* newest report or command asks for it are promoted: an opposite report, an
\* automation or the homeowner's own command has overtaken the rest.
THEOREM NewestReportsRule == Spec => NewestReportRules
<1>1. ASSUME ObserverInv, Counting, [Next]_vars, uses' # uses, NEW l \in Leaves,
             core'.latest[l] # core.latest[l]
      PROVE  newest'[l].op = (IF core'.intent[l] = "manual" THEN "appearance" ELSE "off")
  <2>1. Next
    BY <1>1 DEF vars
  <2>2. NewestRule
    BY <1>1, <2>1, StepCounts
  <2> QED BY <1>1, <2>2 DEF NewestRule
<1>2. ObserverInv /\ Counting /\ [Next]_vars =>
        [uses' # uses =>
           \A l \in Leaves : core'.latest[l] # core.latest[l] =>
             newest'[l].op = (IF core'.intent[l] = "manual" THEN "appearance" ELSE "off")]_vars
  BY <1>1
<1> QED BY <1>2, CountingHolds, PTL DEF Spec, NewestReportRules

-----------------------------------------------------------------------------
(* Evidence that a second OFF needs *)

\* Lights that share their surfaces; managed ones have one, if OneSurface holds.
Local(S) ==
  S \subseteq managed /\ \A s \in Surfaces : \A l \in S : l \in topology[s] => S \subseteq topology[s]

\* The whole of surface s is armed.
Whole(c, s) == c.armed[s] # {} /\ c.armed[s] = Managed(topology[s])

\* Bursts stay on one surface, and the observer knows the surfaces' lights.
Placed(o) ==
  /\ \A s \in Surfaces : o.cache[s] = topology[s]
  /\ o.burst.leaves \subseteq o.shown /\ Local(o.shown)

\* A light is armed by one group, with lights of its own surface, and the lights of a
\* surface that is armed as a whole were last asked together.
Grouped(c) ==
  /\ \A g, h \in Aggregates : g # h => c.armed[g] \cap c.armed[h] = {}
  /\ \A g \in Aggregates : Local(c.armed[g])
  /\ \A s \in Surfaces : Whole(c, s) => \A k, l \in c.armed[s] : c.latest[k] = c.latest[l]

\* The newest report of light l, an OFF that the second OFF of its surface needs.
Needed(c, u, now, l) ==
  now[l].op = "off" /\ now[l].age < Hold /\ now[l].seq > c.latest[l] /\ u[now[l].seq] = 0

\* The evidence of a surface that is armed as a whole is later than what armed it; so
\* are the parts of a group that waits, unless they are no evidence of their lights
\* any more.  Evidence that counts is the newest report, and the newest is kept.
Recent(o, c) ==
  \A s \in Surfaces : Whole(c, s) =>
     /\ \A l \in c.armed[s] : o.retained[l] # Nothing => o.retained[l].seq > c.latest[l]
     /\ \A d \in o.deferred :
          \/ \A p \in d.parts : p[1] \in c.armed[s] => p[2] > c.latest[p[1]]
          \/ \A p \in d.parts : p[1] \in c.armed[s] => o.retained[p[1]].seq # p[2]
Same(o, c, now) ==
  \A l \in Leaves : o.retained[l] # Nothing /\ now[l].op = "off" /\ now[l].seq > c.latest[l]
                    => o.retained[l] = now[l]
Kept(o, c, u, now) ==
  \A s \in Surfaces : Whole(c, s) =>
     \A l \in c.armed[s] : Needed(c, u, now, l) => o.retained[l] = now[l]

Lasting(o, c, u, now) == Recent(o, c) /\ Same(o, c, now) /\ Kept(o, c, u, now)

\* A light that is not there reported nothing that counts.
GoneIsSilent(now, states) == \A l \in Leaves : states[l] = "gone" => now[l].op # "off"

\* The newest reports have the history's type.
Reported(now) ==
  now \in [Leaves -> [op : Kinds \cup {"none"}, seq : 0..MaxSequence, age : 0..Hold + 1]]

LEMMA LocalParts ==
  ASSUME NEW S, Local(S), NEW R, R \subseteq S
  PROVE  Local(R)
  BY DEF Local

\* All lights of a burst, or of an armed group, are of the surface of one of them.
LEMMA SharedSurface ==
  ASSUME NEW S, Local(S), NEW s \in Surfaces, NEW l \in S, l \in Managed(topology[s])
  PROVE  S \subseteq Managed(topology[s])
  BY DEF Local, Managed

\* Surfaces that are armed have no lights in common with other surfaces.
LEMMA OwnSurface ==
  ASSUME OneSurface, NEW s \in Surfaces, NEW t \in Surfaces, NEW l \in Managed(topology[s]),
         l \in Managed(topology[t])
  PROVE  s = t
  BY DEF OneSurface, OnOneSurface, Managed

\* Observer r lost no evidence of o that a second OFF needs.
Spared(o, r, c, u, now) ==
  \A s \in Surfaces : Whole(c, s) =>
     \A l \in c.armed[s] : Needed(c, u, now, l) => r.retained[l] = o.retained[l]

LEMMA SparedLasts ==
  ASSUME NEW o, Sound(o), NEW r, Shrunk(o, r), NEW c \in CoreState, NEW u, NEW now,
         Lasting(o, c, u, now), Spared(o, r, c, u, now)
  PROVE  Lasting(r, c, u, now)
<1>0. Surfaces \subseteq Aggregates /\ \A s \in Surfaces : c.armed[s] \in SUBSET Leaves
  BY ObserverAssumption DEF CoreState
<1>1. Recent(r, c)
  <2> SUFFICES ASSUME NEW s \in Surfaces, Whole(c, s)
               PROVE  /\ \A l \in c.armed[s] : r.retained[l] # Nothing => r.retained[l].seq > c.latest[l]
                      /\ \A d \in r.deferred :
                           \/ \A p \in d.parts : p[1] \in c.armed[s] => p[2] > c.latest[p[1]]
                           \/ \A p \in d.parts : p[1] \in c.armed[s] => r.retained[p[1]].seq # p[2]
    BY DEF Recent
  <2>1. \A l \in c.armed[s] : r.retained[l] # Nothing => r.retained[l].seq > c.latest[l]
    BY <1>0 DEF Lasting, Recent, Shrunk
  <2>2. ASSUME NEW d \in r.deferred,
               ~ \A p \in d.parts : p[1] \in c.armed[s] => p[2] > c.latest[p[1]],
               NEW p \in d.parts, p[1] \in c.armed[s]
        PROVE  r.retained[p[1]].seq # p[2]
    <3>1. d \in o.deferred
      BY <2>2 DEF Shrunk
    <3>2. o.retained[p[1]].seq # p[2]
      BY <2>2, <3>1 DEF Lasting, Recent
    <3>3. p[1] \in Leaves /\ p[2] \in 1..MaxSequence
      BY <2>2, <3>1, PartsOf
    <3>4. r.retained[p[1]] \in {o.retained[p[1]], Nothing}
      BY <3>3 DEF Shrunk
    <3> QED BY <3>2, <3>3, <3>4 DEF Nothing
  <2> QED BY <2>1, <2>2
<1>2. Same(r, c, now)
  BY DEF Lasting, Same, Shrunk
<1>3. Kept(r, c, u, now)
  BY DEF Lasting, Kept, Spared
<1> QED BY <1>1, <1>2, <1>3 DEF Lasting

\* Reports and commands that are no OFF, or that the ledger has taken already, are
\* not needed.
LEMMA UnneededLasts ==
  ASSUME NEW o, NEW c \in CoreState, NEW u, NEW now, NEW new, Reported(new), Lasting(o, c, u, now),
         \A l \in Leaves : new[l] = now[l] \/ new[l].op # "off" \/ new[l].seq <= c.latest[l]
  PROVE  Lasting(o, c, u, new)
<1>0. Surfaces \subseteq Aggregates /\ \A s \in Surfaces : c.armed[s] \in SUBSET Leaves
  BY ObserverAssumption DEF CoreState
<1>1. \A l \in Leaves : new[l].op = "off" /\ new[l].seq > c.latest[l] => new[l] = now[l]
  <2> SUFFICES ASSUME NEW l \in Leaves, new[l].op = "off", new[l].seq > c.latest[l]
               PROVE  ~(new[l].seq <= c.latest[l])
    OBVIOUS
  <2>1. new[l].seq \in Nat /\ c.latest[l] \in Nat
    BY Bounds DEF Reported, CoreState
  <2> QED BY <2>1
<1>2. Same(o, c, new)
  BY <1>1 DEF Lasting, Same
<1>3. Kept(o, c, u, new)
  BY <1>0, <1>1 DEF Lasting, Kept, Needed
<1> QED BY <1>2, <1>3 DEF Lasting

\* A receipt for members ok was accepted as c at q, and observer o became r.
Taking(o, r, c, op, g, ok, members, q, taken) ==
  /\ c \in CoreState /\ op \in Kinds /\ ok \in SUBSET Leaves /\ members \in SUBSET Leaves
  /\ ok \subseteq members /\ q \in Nat /\ taken \in SUBSET (1..MaxSequence)
  /\ Took(core, c, op, g, ok) /\ Noticed(core, c, members, q)
  /\ \A l \in ok : core.latest[l] < q
  /\ Sound(o) /\ Sound(r) /\ Shrunk(o, r)
  /\ \A s \in Surfaces : Whole(core, s) /\ core.armed[s] \cap ok = {}
                         => core.armed[s] \cap members = {}
  /\ \A l \in Leaves \ members : r.retained[l] = o.retained[l]
  /\ op = "off" /\ g \in Aggregates => Local(ok)
  /\ op = "off" /\ g \in Surfaces /\ ok = Managed(topology[g]) =>
       \A l \in ok : /\ r.retained[l] = Nothing /\ o.retained[l] # Nothing
                     /\ o.retained[l].seq \in taken

\* An accepted receipt takes evidence of its members, of all of them if it arms their
\* surface; a surface that stays armed keeps its evidence.
LEMMA TakenLasts ==
  ASSUME uses \in [1..MaxSequence -> Nat], core \in CoreState, NEW now, Reported(now),
         NEW o, NEW r, NEW c, NEW op, NEW g, NEW ok, NEW members, NEW q, NEW taken,
         Taking(o, r, c, op, g, ok, members, q, taken),
         Grouped(core), Lasting(o, core, uses, now)
  PROVE  Grouped(c) /\ Lasting(r, c, After(taken), now)
<1> USE DEF Taking
<1>0. /\ Surfaces \subseteq Aggregates
      /\ \A s \in Aggregates : c.armed[s] \in SUBSET Leaves /\ core.armed[s] \in SUBSET Leaves
      /\ \A l \in Leaves : c.latest[l] \in Nat /\ core.latest[l] \in Nat /\ now[l].seq \in Nat
  BY ObserverAssumption, Bounds DEF CoreState, Reported
\* Only the group of an OFF is armed; all others that share lights with it are not.
<1>1. ASSUME NEW a \in Aggregates
      PROVE  \/ c.armed[a] = {}
             \/ c.armed[a] = core.armed[a] /\ c.armed[a] \cap ok = {}
             \/ op = "off" /\ a = g /\ c.armed[a] = ok
  BY DEF Took, OthersDisarmed, Kinds
<1>2. \A a, b \in Aggregates : a # b => c.armed[a] \cap c.armed[b] = {}
  <2> SUFFICES ASSUME NEW a \in Aggregates, NEW b \in Aggregates, a # b
               PROVE  c.armed[a] \cap c.armed[b] = {}
    OBVIOUS
  <2>1. core.armed[a] \cap core.armed[b] = {}
    BY DEF Grouped
  <2> QED BY <1>1, <2>1
<1>3. \A a \in Aggregates : Local(c.armed[a])
  <2>1. Local({})
    BY DEF Local
  <2> QED BY <1>1, <2>1 DEF Grouped
\* A surface that stays armed, and one that becomes so.
<1>4. ASSUME NEW s \in Surfaces, Whole(c, s),
             ~(op = "off" /\ s = g /\ c.armed[s] = ok)
      PROVE  /\ Whole(core, s) /\ c.armed[s] = core.armed[s]
             /\ \A l \in c.armed[s] : l \in Leaves /\ c.latest[l] = core.latest[l]
                                      /\ r.retained[l] = o.retained[l]
  <2>1. c.armed[s] = core.armed[s] /\ c.armed[s] \cap ok = {} /\ Whole(core, s)
    BY <1>0, <1>1, <1>4 DEF Whole
  <2>2. c.armed[s] \cap members = {} /\ c.armed[s] \subseteq Leaves
    BY <1>0, <2>1
  <2> QED BY <2>1, <2>2 DEF Noticed
<1>5. ASSUME NEW s \in Surfaces, Whole(c, s), op = "off" /\ s = g /\ c.armed[s] = ok
      PROVE  \A l \in c.armed[s] :
               /\ l \in Leaves /\ c.latest[l] = q /\ r.retained[l] = Nothing
               /\ o.retained[l] # Nothing /\ o.retained[l].seq \in taken
  <2>1. ok = Managed(topology[g]) /\ g \in Surfaces
    BY <1>5 DEF Whole
  <2> SUFFICES ASSUME NEW l \in ok PROVE l \in Leaves /\ c.latest[l] = q
    BY <1>5, <2>1
  <2>2. l \in members /\ q > core.latest[l]
    BY <1>0
  <2> QED BY <2>2 DEF Noticed
<1>6. \A s \in Surfaces : Whole(c, s) => \A k, l \in c.armed[s] : c.latest[k] = c.latest[l]
  <2> SUFFICES ASSUME NEW s \in Surfaces, Whole(c, s) PROVE \A k, l \in c.armed[s] : c.latest[k] = c.latest[l]
    OBVIOUS
  <2>1. CASE op = "off" /\ s = g /\ c.armed[s] = ok
    BY <1>5, <2>1
  <2>2. CASE ~(op = "off" /\ s = g /\ c.armed[s] = ok)
    BY <1>4, <2>2 DEF Grouped
  <2> QED BY <2>1, <2>2
<1>7. Recent(r, c)
  <2> SUFFICES ASSUME NEW s \in Surfaces, Whole(c, s)
               PROVE  /\ \A l \in c.armed[s] : r.retained[l] # Nothing => r.retained[l].seq > c.latest[l]
                      /\ \A d \in r.deferred :
                           \/ \A p \in d.parts : p[1] \in c.armed[s] => p[2] > c.latest[p[1]]
                           \/ \A p \in d.parts : p[1] \in c.armed[s] => r.retained[p[1]].seq # p[2]
    BY DEF Recent
  <2>1. CASE op = "off" /\ s = g /\ c.armed[s] = ok
    <3>1. \A d \in r.deferred : \A p \in d.parts : p[2] # 0
      BY PartsOf
    <3> QED BY <1>5, <2>1, <3>1 DEF Nothing
  <2>2. CASE ~(op = "off" /\ s = g /\ c.armed[s] = ok)
    <3>1. r.deferred \subseteq o.deferred
      BY DEF Shrunk
    <3>2. /\ \A l \in core.armed[s] : o.retained[l] # Nothing => o.retained[l].seq > core.latest[l]
          /\ \A d \in o.deferred :
               \/ \A p \in d.parts : p[1] \in core.armed[s] => p[2] > core.latest[p[1]]
               \/ \A p \in d.parts : p[1] \in core.armed[s] => o.retained[p[1]].seq # p[2]
      BY <1>4, <2>2 DEF Lasting, Recent
    <3> QED BY <1>4, <2>2, <3>1, <3>2
  <2> QED BY <2>1, <2>2
<1>8. \A l \in Leaves : core.latest[l] <= c.latest[l]
  BY <1>0 DEF Noticed
<1>9. Same(r, c, now)
  <2> SUFFICES ASSUME NEW l \in Leaves, r.retained[l] # Nothing, now[l].op = "off",
                      now[l].seq > c.latest[l]
               PROVE  r.retained[l] = now[l]
    BY DEF Same
  <2>1. now[l].seq > core.latest[l]
    BY <1>0, <1>8
  <2>2. r.retained[l] = o.retained[l] /\ o.retained[l] # Nothing
    BY DEF Shrunk
  <2> QED BY <2>1, <2>2 DEF Lasting, Same
<1>10. Kept(r, c, After(taken), now)
  <2> SUFFICES ASSUME NEW s \in Surfaces, Whole(c, s), NEW l \in c.armed[s],
                      Needed(c, After(taken), now, l)
               PROVE  r.retained[l] = now[l]
    BY DEF Kept
  <2>1. l \in Leaves /\ now[l].seq \in 1..MaxSequence /\ now[l].op = "off" /\ now[l].age < Hold
    <3>1. l \in Leaves
      BY <1>0
    <3>2. now[l].seq \in 0..MaxSequence
      BY <3>1 DEF Reported
    <3> QED BY <1>0, <3>1, <3>2, Bounds DEF Needed
  <2>2. now[l].seq > core.latest[l]
    BY <1>0, <1>8, <2>1 DEF Needed
  <2>3. now[l].seq \notin taken /\ uses[now[l].seq] = 0
    <3> DEFINE n == now[l].seq
    <3>1. After(taken)[n] = 0 /\ n \in 1..MaxSequence
      BY <2>1 DEF Needed
    <3> HIDE DEF n
    <3>2. uses[n] \in Nat /\ After(taken)[n] = uses[n] + IF n \in taken THEN 1 ELSE 0
      BY <3>1 DEF After
    <3>3. n \notin taken /\ uses[n] = 0
      BY <3>1, <3>2
    <3> QED BY <3>3 DEF n
  <2>4. CASE op = "off" /\ s = g /\ c.armed[s] = ok
    <3>1. o.retained[l] = now[l]
      BY <1>5, <2>1, <2>2, <2>4 DEF Lasting, Same
    <3> QED BY <1>5, <2>3, <2>4, <3>1
  <2>5. CASE ~(op = "off" /\ s = g /\ c.armed[s] = ok)
    <3>1. Needed(core, uses, now, l)
      BY <2>1, <2>2, <2>3 DEF Needed
    <3> QED BY <1>4, <2>5, <3>1 DEF Lasting, Kept
  <2> QED BY <2>4, <2>5
<1> QED BY <1>2, <1>3, <1>6, <1>7, <1>9, <1>10 DEF Grouped, Lasting

\* Observer r knows the same surfaces as o, and its burst is the same or over.
Stays(o, r) ==
  /\ r.cache = o.cache
  /\ \/ r.shown = o.shown /\ r.burst.leaves \in {o.burst.leaves, {}}
     \/ r.shown = {} /\ r.burst.leaves = {}

LEMMA StaysPlaced ==
  ASSUME NEW o, NEW r, Stays(o, r), Placed(o)
  PROVE  Placed(r)
<1>1. Local({})
  BY DEF Local
<1> QED BY <1>1 DEF Stays, Placed

LEMMA StaysTwice ==
  ASSUME NEW o, NEW p, NEW r, Stays(o, p), Stays(p, r)
  PROVE  Stays(o, r)
  BY DEF Stays

LEMMA Staying ==
  ASSUME NEW o, Sound(o), NEW S
  PROVE  /\ Stays(o, o) /\ Stays(o, Without(o, S)) /\ Stays(o, Uncalled(o, S))
         /\ Stays(o, Ungrouped(o, S)) /\ Stays(o, Established(o, S)) /\ Stays(o, Snapshotted(o))
  BY DEF Sound, ObserverState, Without, Uncalled, Ungrouped, Established, Snapshotted, Stays

LEMMA RetiredStays ==
  ASSUME NEW o, Sound(o)
  PROVE  Stays(o, Retired(o)) /\ Stays(o, Forgotten(o)) /\ Forgotten(o).shown = {}
<1>1. /\ Retired(o).cache = o.cache /\ Retired(o).shown = o.shown
      /\ Retired(o).burst = NoBurst
  BY DEF Sound, ObserverState, Retired
<1>2. /\ Forgotten(o).cache = o.cache /\ Forgotten(o).shown = {}
      /\ Forgotten(o).burst = NoBurst
  BY DEF Sound, ObserverState, Retired, Forgotten
<1> QED BY <1>1, <1>2 DEF Stays, NoBurst

LEMMA DroppedStays ==
  ASSUME NEW o, Sound(o), NEW S
  PROVE  Stays(o, Cancelled(o, S)) /\ Stays(o, Dropped(o, S))
<1> DEFINE w == Without(o, S)
           u == Uncalled(w, S)
           v == Uncalled(o, S)
<1>1. Cancelled(o, S) = Ungrouped(v, S) /\ Dropped(o, S) = Ungrouped(u, S)
  BY DEF Cancelled, Dropped
<1>2. Sound(w) /\ Stays(o, w) /\ Sound(v) /\ Stays(o, v)
  BY WithoutSound, UncalledSound, Staying
<1> HIDE DEF w, v
<1>3. Sound(u) /\ Stays(w, u)
  BY <1>2, UncalledSound, Staying
<1> HIDE DEF u
<1>4. Stays(v, Ungrouped(v, S)) /\ Stays(u, Ungrouped(u, S))
  BY <1>2, <1>3, Staying
<1> QED BY <1>1, <1>2, <1>3, <1>4, StaysTwice

LEMMA PrunedStays ==
  ASSUME NEW o, Sound(o)
  PROVE  Stays(o, Pruned(o)) /\ Stays(o, Revoked(o))
<1> DEFINE stale == {l \in Held(o) : o.retained[l].age > HoldOf(o, l, o.retained[l].op)}
           w == Without(o, stale)
<1>1. Sound(w) /\ Stays(o, w)
  BY WithoutSound, Staying
<1>2. Pruned(o) = Uncalled(w, stale)
  BY DEF Pruned
<1> HIDE DEF w, stale
<1>3. Stays(w, Uncalled(w, stale))
  BY <1>1, Staying
<1>4. Stays(o, Revoked(o))
  BY Staying DEF Revoked
<1> QED BY <1>1, <1>2, <1>3, <1>4, StaysTwice

LEMMA NotedStays ==
  ASSUME NEW o, Sound(o), NEW x, NEW leaf
  PROVE  Stays(o, Noted(o, x, leaf)) /\ Stays(o, Witnessed(o, x, leaf))
<1>1. /\ Noted(o, x, leaf).cache = o.cache /\ Noted(o, x, leaf).shown = o.shown
      /\ Noted(o, x, leaf).burst = o.burst
  BY DEF Noted, Sound, ObserverState
<1>2. /\ Witnessed(o, x, leaf).cache = o.cache /\ Witnessed(o, x, leaf).shown = o.shown
      /\ Witnessed(o, x, leaf).burst = o.burst
  BY DEF Witnessed, Sound, ObserverState
<1> QED BY <1>1, <1>2 DEF Stays

\* A light of another surface than the burst's starts another burst.
LEMMA JoinedLocal ==
  ASSUME OneSurface, NEW o, Sound(o), Placed(o), NEW l \in managed, managed \in SUBSET Leaves,
         ~OtherSurface(o, l)
  PROVE  Local(o.shown \cup {l})
<1>1. \A k \in managed : SurfacesOf(o, k) = {s \in Surfaces : k \in topology[s]}
  BY DEF SurfacesOf, Placed
<1>2. \A k \in managed : SurfacesOf(o, k) # {}
  BY <1>1 DEF OneSurface, OnOneSurface
<1>3. o.shown \subseteq managed /\ Local(o.shown)
  BY DEF Placed, Local
<1>4. CASE l \in o.shown
  <2>1. o.shown \cup {l} = o.shown
    BY <1>4
  <2> QED BY <1>3, <2>1
<1>5. CASE o.shown = {}
  BY <1>5 DEF Local
<1>6. CASE l \notin o.shown /\ o.shown # {}
  <2> DEFINE before == UNION {SurfacesOf(o, k) : k \in o.shown}
  <2>1. before # {}
    BY <1>2, <1>3, <1>6
  <2>2. SurfacesOf(o, l) \cap before # {}
    BY <1>2, <1>6, <2>1 DEF OtherSurface
  <2>3. PICK s \in Surfaces, k \in o.shown : l \in topology[s] /\ k \in topology[s]
    BY <1>1, <1>3, <2>2
  <2>4. o.shown \subseteq topology[s]
    BY <1>3, <2>3 DEF Local
  <2> SUFFICES ASSUME NEW t \in Surfaces, NEW j \in o.shown \cup {l}, j \in topology[t]
               PROVE  o.shown \cup {l} \subseteq topology[t]
    BY <1>3 DEF Local
  <2>5. j \in managed /\ j \in topology[s]
    BY <1>3, <2>3, <2>4
  <2>6. s = t
    BY <2>5 DEF OneSurface, OnOneSurface
  <2> QED BY <2>3, <2>4, <2>6
<1> QED BY <1>4, <1>5, <1>6

LEMMA CorrelatedPlaced ==
  ASSUME NEW o, Sound(o), Placed(o), NEW L, Local(o.shown \cup L), NEW G
  PROVE  Placed(Correlated(o, L, G))
<1> DEFINE r == Correlated(o, L, G)
           b == IF o.burst.idle > Burst THEN NoBurst ELSE o.burst
<1>1. /\ r.cache = topology /\ r.shown = b.leaves \cup L /\ r.burst.leaves = b.leaves \cup L
  BY DEF Sound, ObserverState, Correlated
<1>2. b.leaves \subseteq o.shown
  BY DEF Placed, NoBurst
<1> HIDE DEF r, b
<1>3. Local(r.shown)
  <2>1. r.shown \subseteq o.shown \cup L
    BY <1>1, <1>2
  <2> QED BY <2>1, LocalParts
<1> QED BY <1>1, <1>3 DEF Placed, r

-----------------------------------------------------------------------------
\* What lasts through a step of the observer: see Holding below.
StepLasts(s, now) ==
  Placed(s.o) /\ Grouped(s.c) /\ Lasting(s.o, s.c, After(s.taken), now)

LEMMA WaitingLasts ==
  ASSUME uses \in [1..MaxSequence -> Nat], NEW o, Placed(o), Grouped(core), NEW now,
         Lasting(o, core, uses, now)
  PROVE  StepLasts(Waiting(o), now)
<1>1. Waiting(o).o = o /\ Waiting(o).c = core /\ Waiting(o).taken = {}
  BY DEF Waiting, Step
<1> QED BY <1>1, AfterNothing DEF StepLasts

\* Evidence of a surface that is armed as a whole is held for long.
LEMMA PrunedSpares ==
  ASSUME NEW o, Sound(o), core \in CoreState, NEW u, NEW now, Reported(now), Placed(o),
         Lasting(o, core, u, now)
  PROVE  Lasting(Pruned(o), core, u, now) /\ Placed(Pruned(o))
<1> DEFINE stale == {l \in Held(o) : o.retained[l].age > HoldOf(o, l, o.retained[l].op)}
           w == Without(o, stale)
<1>1. Pruned(o).retained = [l \in Leaves |-> IF l \in stale THEN Nothing ELSE o.retained[l]]
  <2>1. w.retained = [l \in Leaves |-> IF l \in stale THEN Nothing ELSE o.retained[l]]
    BY DEF Without, Sound, ObserverState
  <2>2. Sound(w)
    BY WithoutSound
  <2> HIDE DEF w, stale
  <2>3. Uncalled(w, stale).retained = w.retained
    BY <2>2 DEF Uncalled, Sound, ObserverState
  <2> QED BY <2>1, <2>3 DEF Pruned, w, stale
<1>2. ASSUME NEW s \in Surfaces, Whole(core, s), NEW l \in core.armed[s],
             Needed(core, u, now, l)
      PROVE  l \in Leaves /\ l \notin stale
  <2>1. l \in Leaves /\ o.retained[l] = now[l]
    BY <1>2, ObserverAssumption DEF CoreState, Lasting, Kept
  <2>2. now[l].op = "off" /\ now[l].age < Hold /\ now[l].age \in Nat
    BY <1>2, <2>1, Bounds DEF Needed, Reported
  <2>3. o.cache[s] = topology[s]
    BY DEF Placed
  <2>4. HoldOf(o, l, "off") = Hold
    BY <1>2, <2>3 DEF HoldOf, Whole
  <2>5. o.retained[l].op = "off" /\ o.retained[l].age < Hold /\ o.retained[l].age \in Nat
    BY <2>1, <2>2
  <2>6. ~(o.retained[l].age > Hold)
    BY <2>5, Bounds
  <2> QED BY <2>1, <2>4, <2>5, <2>6
<1> HIDE DEF stale
<1>3. Spared(o, Pruned(o), core, u, now)
  BY <1>1, <1>2 DEF Spared
<1>4. Sound(Pruned(o)) /\ Shrunk(o, Pruned(o)) /\ Stays(o, Pruned(o))
  BY PrunedSound, PrunedShrinks, PrunedStays
<1> QED BY <1>3, <1>4, SparedLasts, StaysPlaced

-----------------------------------------------------------------------------
(* Which evidence receipts and promotions take *)

LEMMA WithoutRetains ==
  ASSUME NEW o, Sound(o), NEW S
  PROVE  \A l \in Leaves : Without(o, S).retained[l] = IF l \in S THEN Nothing ELSE o.retained[l]
  BY DEF Without, Sound, ObserverState

LEMMA DroppedRetains ==
  ASSUME NEW o, Sound(o), NEW S
  PROVE  \A l \in Leaves : Dropped(o, S).retained[l] = IF l \in S THEN Nothing ELSE o.retained[l]
<1> DEFINE w == Without(o, S)
           u == Uncalled(w, S)
<1>1. Sound(w) /\ \A l \in Leaves : w.retained[l] = IF l \in S THEN Nothing ELSE o.retained[l]
  BY WithoutSound, WithoutRetains
<1>2. Dropped(o, S) = Ungrouped(u, S)
  BY DEF Dropped, Cancelled
<1> HIDE DEF w
<1>3. Sound(u) /\ u.retained = w.retained
  <2>1. u.retained = w.retained
    BY <1>1 DEF Uncalled, Sound, ObserverState
  <2> QED BY <1>1, <2>1, UncalledSound
<1> HIDE DEF u
<1>4. Ungrouped(u, S).retained = u.retained
  BY <1>3 DEF Ungrouped, Sound, ObserverState
<1> QED BY <1>1, <1>2, <1>3, <1>4

\* What happens to an observer when the ledger has accepted a receipt.
LEMMA RetiredRetains ==
  ASSUME NEW o, Sound(o), NEW S
  PROVE  /\ Retired(o).retained = o.retained /\ Forgotten(o).retained = o.retained
         /\ Established(o, S).retained = o.retained
  BY DEF Retired, Forgotten, Established, Sound, ObserverState

LEMMA Refused ==
  ASSUME core \in CoreState, NEW op, NEW g, NEW ok, Receipt(op, g, ok),
         NEW members \in SUBSET Leaves, ok \subseteq members, NEW q \in 0..MaxSequence,
         Submitted(core, op, g, ok, members, q) = core, ok # {}
  PROVE  \E l \in ok : l \in Leaves /\ q <= core.latest[l]
<1> DEFINE d == Submitted(core, op, g, ok, members, q)
<1>1. \/ \E l \in ok : q <= core.latest[l]
      \/ Noticed(core, d, members, q) /\ \A l \in ok : core.latest[l] < q
  BY Accepting
<1>2. ok \subseteq Leaves
  BY DEF Receipt
<1>3. CASE Noticed(core, d, members, q) /\ \A l \in ok : core.latest[l] < q
  <2>1. d = core
    OBVIOUS
  <2> HIDE DEF d
  <2>2. PICK l \in ok : l \in Leaves /\ core.latest[l] < q /\ l \in members
    BY <1>2, <1>3
  <2>3. core.latest[l] = IF l \in members /\ q > core.latest[l] THEN q ELSE core.latest[l]
    BY <1>3, <2>1, <2>2 DEF Noticed
  <2>4. core.latest[l] \in Nat /\ q \in Nat
    BY <2>2, Bounds DEF CoreState
  <2> QED BY <2>2, <2>3, <2>4
<1> QED BY <1>1, <1>2, <1>3

\* A light's timer, or its own report.
LEMMA SingleAppliedLasts ==
  ASSUME core \in CoreState, uses \in [1..MaxSequence -> Nat], NEW o, Sound(o), NEW l \in Leaves,
         NEW now, Reported(now), Placed(o), Grouped(core), Lasting(o, core, uses, now)
  PROVE  StepLasts(SingleApplied(o, l), now)
<1> DEFINE e == o.retained[l]
           c == Submitted(core, e.op, None, {l}, {l}, e.seq)
           rest == Without(o, {l})
           x == Established(rest, {l})
           r == Retired(x)
           s == Step(r, c, {e.seq})
<1>1. /\ Sound(rest) /\ Shrunk(o, rest) /\ Stays(o, rest)
      /\ \A k \in Leaves : rest.retained[k] = IF k \in {l} THEN Nothing ELSE o.retained[k]
  BY WithoutSound, Shrinking, Staying, WithoutRetains
<1>2. SingleApplied(o, l) = IF c = core THEN Waiting(rest) ELSE s
  BY DEF SingleApplied
<1>3. Receipt(e.op, None, {l}) /\ e.seq \in 0..MaxSequence /\ e.seq \in Nat
  <2>1. e.seq \in 0..MaxSequence
    BY Bounds, EvidenceOf
  <2> QED BY <2>1, Bounds DEF Receipt
<1> HIDE DEF rest
<1>4. CASE c = core
  <2>1. e.seq <= core.latest[l]
    <3> DEFINE q == e.seq
               what == e.op
    <3>1. Receipt(what, None, {l}) /\ q \in 0..MaxSequence
          /\ Submitted(core, what, None, {l}, {l}, q) = core
      BY <1>3, <1>4
    <3> HIDE DEF q, what
    <3>2. \E k \in {l} : k \in Leaves /\ q <= core.latest[k]
      BY <3>1, Refused
    <3> QED BY <3>2 DEF q
  <2>2. Spared(o, rest, core, uses, now)
    <3> SUFFICES ASSUME NEW s1 \in Surfaces, Whole(core, s1), NEW k \in core.armed[s1],
                        Needed(core, uses, now, k)
                 PROVE  rest.retained[k] = o.retained[k]
      BY DEF Spared
    <3>1. k \in Leaves /\ o.retained[k] = now[k] /\ now[k].seq > core.latest[k]
      BY ObserverAssumption DEF Lasting, Kept, CoreState, Needed
    <3>2. k # l
      <4>1. ASSUME k = l PROVE FALSE
        <5>1. e.seq > core.latest[l] /\ core.latest[l] \in Nat
          BY <3>1, <4>1, Bounds DEF CoreState
        <5> HIDE DEF e
        <5> QED BY <1>3, <2>1, <5>1
      <4> QED BY <4>1
    <3> QED BY <1>1, <3>1, <3>2
  <2>3. Lasting(rest, core, uses, now) /\ Placed(rest)
    BY <1>1, <2>2, SparedLasts, StaysPlaced
  <2> QED BY <1>2, <1>4, <2>3, WaitingLasts
<1>5. CASE c # core
  <2>1. Sound(x) /\ Shrunk(rest, x) /\ Stays(rest, x) /\ x.retained = rest.retained
    BY <1>1, EstablishedSound, Shrinking, Staying, RetiredRetains
  <2> HIDE DEF x
  <2>2. Sound(r) /\ Shrunk(x, r) /\ Stays(x, r) /\ r.retained = x.retained
    BY <2>1, RetiredSound, RetiredShrinks, RetiredStays, RetiredRetains
  <2> HIDE DEF r
  <2>3. Shrunk(o, r) /\ Placed(r)
    <3>1. Shrunk(o, x) /\ Stays(o, x)
      BY <1>1, <2>1, ShrunkTwice, StaysTwice
    <3> QED BY <2>2, <3>1, ShrunkTwice, StaysTwice, StaysPlaced
  <2> DEFINE q == e.seq
             what == e.op
             taken == {q}
  <2>4. Receipt(what, None, {l}) /\ q \in 0..MaxSequence /\ q \in Nat
        /\ c = Submitted(core, what, None, {l}, {l}, q)
    BY <1>3
  <2>5. s.o = r /\ s.c = c /\ s.taken = taken
    BY DEF Step
  <2>6. what \in Kinds /\ taken \in SUBSET (1..MaxSequence)
    <3>1. e # Nothing
      <4>1. ASSUME e = Nothing PROVE FALSE
        BY <1>5, <4>1 DEF Submitted, Nothing, CoreState
      <4> QED BY <4>1
    <3> QED BY <3>1, EvidenceOf
  <2> HIDE DEF q, what, taken, c, s, e
  <2>7. /\ c \in CoreState /\ Took(core, c, what, None, {l})
        /\ Noticed(core, c, {l}, q) /\ \A k \in {l} : core.latest[k] < q
    BY <1>5, <2>4, Accepting
  <2>8. /\ \A k \in Leaves \ {l} : r.retained[k] = o.retained[k]
        /\ None \notin Aggregates /\ None \notin Surfaces
    BY <1>1, <2>1, <2>2, ObserverAssumption
  <2>9. Taking(o, r, c, what, None, {l}, {l}, q, taken)
    BY <2>2, <2>3, <2>4, <2>6, <2>7, <2>8 DEF Taking
  <2>12. Grouped(c) /\ Lasting(r, c, After(taken), now)
    BY <2>9, TakenLasts
  <2>10. StepLasts(s, now)
    BY <2>3, <2>5, <2>12 DEF StepLasts
  <2> QED BY <1>2, <1>5, <2>10
<1> QED BY <1>4, <1>5

LEMMA SingleLasts ==
  ASSUME core \in CoreState, uses \in [1..MaxSequence -> Nat], NEW o, Sound(o), NEW g,
         NEW members \in SUBSET Leaves,
         NEW now, Reported(now), Placed(o), Grouped(core), Lasting(o, core, uses, now)
  PROVE  StepLasts(Single(o, g, members), now)
<1> DEFINE l == CHOOSE k \in o.burst.leaves : TRUE
           known == Cardinality(Managed(members)) > 1 /\ Managed(o.snapshot[g]) = Managed(members)
           e == o.retained[l]
           t == [op |-> e.op, left |-> HoldOf(o, l, e.op)]
           called == [o EXCEPT !.singles[l] = t]
<1>1. Single(o, g, members) =
        IF l \notin members \/ e = Nothing THEN Waiting(o)
        ELSE IF ~known THEN SingleApplied(o, l)
        ELSE IF o.singles[l] # NoTimer THEN Waiting(o)
        ELSE Waiting(called)
  BY DEF Single
<1> HIDE DEF l, known
<1>2. StepLasts(Waiting(o), now)
  BY WaitingLasts
<1>3. CASE l \notin members \/ e = Nothing
  BY <1>1, <1>2, <1>3
<1>4. CASE l \in members /\ e # Nothing
  <2>1. l \in Leaves
    BY <1>4
  <2>2. called.retained = o.retained /\ called.deferred = o.deferred /\ called.burst = o.burst
        /\ called.cache = o.cache /\ called.shown = o.shown
    BY DEF Sound, ObserverState
  <2> HIDE DEF called
  <2>3. Shrunk(o, called) /\ Stays(o, called) /\ Spared(o, called, core, uses, now)
    BY <2>2 DEF Shrunk, Stays, Spared
  <2>4. StepLasts(SingleApplied(o, l), now)
    BY <2>1, SingleAppliedLasts
  <2>5. Lasting(called, core, uses, now) /\ Placed(called)
    BY <2>3, SparedLasts, StaysPlaced
  <2>6. StepLasts(Waiting(called), now)
    BY <2>5, WaitingLasts
  <2> QED BY <1>1, <1>2, <1>4, <2>4, <2>6
<1> QED BY <1>3, <1>4

\* A receipt of a group, unless the ledger refuses it for lights that still count.
LEMMA GroupAppliedLasts ==
  ASSUME core \in CoreState, uses \in [1..MaxSequence -> Nat], NEW o, Sound(o),
         NEW op \in Kinds, NEW g \in Aggregates,
         NEW parts \in SUBSET (Leaves \X (1..MaxSequence)), parts # {},
         NEW S \in SUBSET Leaves, S = {p[1] : p \in parts},
         NEW now, Reported(now), Placed(o), Grouped(core), Lasting(o, core, uses, now),
         op = "off" => Local(S),
         op = "off" /\ g \in Surfaces /\ S = Managed(topology[g]) =>
            \A l \in S : o.retained[l] # Nothing /\ <<l, o.retained[l].seq>> \in parts,
         (\E k \in S : Earliest(parts) <= core.latest[k]) =>
            \A s \in Surfaces : Whole(core, s) =>
               \A l \in core.armed[s] \cap S : ~(<<l, o.retained[l].seq>> \in parts
                                                 /\ Needed(core, uses, now, l))
  PROVE  StepLasts(GroupApplied(o, g, op, parts), now)
<1> DEFINE q == Earliest(parts)
           c == Submitted(core, op, g, S, S, q)
           gone == {l \in S : <<l, o.retained[l].seq>> \in parts}
           rest == Without(o, gone)
           x == Established(rest, S)
           r == Retired(x)
           taken == Sequences(parts)
           s == Step(r, c, taken)
<1>1. GroupApplied(o, g, op, parts) = IF c = core THEN Waiting(rest) ELSE s
  BY DEF GroupApplied
<1>2. q \in 0..MaxSequence /\ q \in Nat /\ S # {}
  BY EarliestLeast, Bounds
<1>3. /\ Sound(rest) /\ Shrunk(o, rest) /\ Stays(o, rest)
      /\ \A l \in Leaves : rest.retained[l] = IF l \in gone THEN Nothing ELSE o.retained[l]
  BY WithoutSound, Shrinking, Staying, WithoutRetains
<1> HIDE DEF rest
<1>4. Receipt(op, g, S) /\ S \subseteq S
  BY ObserverAssumption DEF Receipt, Kinds
<1>5. CASE c = core
  <2>1. \E k \in S : q <= core.latest[k]
    <3> HIDE DEF q
    <3> QED BY <1>2, <1>4, <1>5, Refused
  <2>2. Spared(o, rest, core, uses, now)
    <3> SUFFICES ASSUME NEW t \in Surfaces, Whole(core, t), NEW k \in core.armed[t],
                        Needed(core, uses, now, k)
                 PROVE  rest.retained[k] = o.retained[k]
      BY DEF Spared
    <3>1. k \in Leaves /\ k \notin gone
      BY <2>1, ObserverAssumption DEF CoreState
    <3> QED BY <1>3, <3>1
  <2>3. Lasting(rest, core, uses, now) /\ Placed(rest)
    BY <1>3, <2>2, SparedLasts, StaysPlaced
  <2> QED BY <1>1, <1>5, <2>3, WaitingLasts
<1>6. CASE c # core
  <2>1. Sound(x) /\ Shrunk(rest, x) /\ Stays(rest, x) /\ x.retained = rest.retained
    BY <1>3, EstablishedSound, Shrinking, Staying, RetiredRetains
  <2> HIDE DEF x
  <2>2. Sound(r) /\ Shrunk(x, r) /\ Stays(x, r) /\ r.retained = x.retained
    BY <2>1, RetiredSound, RetiredShrinks, RetiredStays, RetiredRetains
  <2> HIDE DEF r
  <2>3. Shrunk(o, r) /\ Placed(r)
    <3>1. Shrunk(o, x) /\ Stays(o, x)
      BY <1>3, <2>1, ShrunkTwice, StaysTwice
    <3> QED BY <2>2, <3>1, ShrunkTwice, StaysTwice, StaysPlaced
  <2>4. s.o = r /\ s.c = c /\ s.taken = taken
    BY DEF Step
  <2>5. taken \in SUBSET (1..MaxSequence) /\ \A p \in parts : p[2] \in taken
    BY DEF Sequences
  <2>6. \A l \in Leaves : <<l, o.retained[l].seq>> \in parts => o.retained[l].seq \in taken
    <3> SUFFICES ASSUME NEW l \in Leaves, <<l, o.retained[l].seq>> \in parts
                 PROVE  o.retained[l].seq \in taken
      OBVIOUS
    <3> DEFINE n == o.retained[l].seq
    <3> HIDE DEF n, taken
    <3>1. <<l, n>> \in parts
      BY DEF n
    <3>2. <<l, n>>[2] \in taken
      BY <2>5, <3>1
    <3> QED BY <3>2 DEF n
  <2> HIDE DEF q, taken, c, s
  <2>7. /\ c \in CoreState /\ Took(core, c, op, g, S)
        /\ Noticed(core, c, S, q) /\ \A k \in S : core.latest[k] < q
    BY <1>2, <1>4, <1>6, Accepting DEF c
  <2>8. /\ \A k \in Leaves \ S : r.retained[k] = o.retained[k]
        /\ op = "off" /\ g \in Surfaces /\ S = Managed(topology[g]) =>
             \A l \in S : /\ r.retained[l] = Nothing /\ o.retained[l] # Nothing
                          /\ o.retained[l].seq \in taken
    BY <1>3, <2>1, <2>2, <2>6
  <2>9. Taking(o, r, c, op, g, S, S, q, taken)
    BY <1>2, <2>2, <2>3, <2>5, <2>7, <2>8 DEF Taking
  <2>10. Grouped(c) /\ Lasting(r, c, After(taken), now)
    BY <2>9, TakenLasts
  <2>11. StepLasts(s, now)
    BY <2>3, <2>4, <2>10 DEF StepLasts
  <2> QED BY <1>1, <1>6, <2>11
<1> QED BY <1>5, <1>6

LEMMA PartsEvident ==
  ASSUME NEW o, Sound(o), NEW S \in SUBSET Leaves, S # {}, NEW op \in Kinds,
         \A l \in S : o.retained[l].op = op
  PROVE  /\ Parts(o, S) \in SUBSET (Leaves \X (1..MaxSequence)) /\ Parts(o, S) # {}
         /\ S = {p[1] : p \in Parts(o, S)}
         /\ \A l \in S : o.retained[l] # Nothing /\ <<l, o.retained[l].seq>> \in Parts(o, S)
<1>1. \A l \in S : o.retained[l] # Nothing /\ <<l, o.retained[l].seq>> \in Parts(o, S)
  BY EvidenceOf DEF Parts, Kinds
<1>2. Parts(o, S) # {}
  BY <1>1
<1> QED BY <1>1, <1>2, PartsTyped

\* Evidence of lights of one surface is not refused if the whole surface is armed.
LEMMA EvidenceIsRecent ==
  ASSUME core \in CoreState, NEW o, Sound(o), NEW S \in SUBSET Leaves, Local(S),
         NEW op \in Kinds, \A l \in S : o.retained[l].op = op,
         Grouped(core), Recent(o, core), NEW k \in S, Earliest(Parts(o, S)) <= core.latest[k],
         NEW s \in Surfaces, Whole(core, s)
  PROVE  core.armed[s] \cap S = {}
<1> DEFINE parts == Parts(o, S)
<1> SUFFICES ASSUME NEW j \in core.armed[s] \cap S PROVE FALSE
  OBVIOUS
<1>1. S \subseteq core.armed[s]
  BY SharedSurface DEF Whole
<1>2. parts \in SUBSET (Leaves \X (1..MaxSequence)) /\ parts # {} /\ \A l \in S : o.retained[l] # Nothing
  BY PartsEvident
<1>3. PICK p \in parts : Earliest(parts) = p[2]
  BY <1>2, EarliestLeast
<1>4. PICK m \in S : p = <<m, o.retained[m].seq>>
  BY <1>3 DEF Parts
<1> DEFINE q == Earliest(parts)
<1>5. q = o.retained[m].seq
  BY <1>3, <1>4
<1>6. o.retained[m].seq > core.latest[m] /\ core.latest[m] = core.latest[k]
  BY <1>1, <1>2 DEF Recent, Grouped
<1>7. q \in Nat /\ core.latest[k] \in Nat
  <2>1. q \in 1..MaxSequence
    BY <1>2, EarliestLeast
  <2> QED BY <2>1, Bounds DEF CoreState
<1> HIDE DEF parts
<1>8. q <= core.latest[k]
  BY DEF parts
<1> HIDE DEF q
<1> QED BY <1>5, <1>6, <1>7, <1>8

\* Evidence that is promoted as soon as it is complete.
LEMMA DirectLasts ==
  ASSUME core \in CoreState, uses \in [1..MaxSequence -> Nat], NEW o, Sound(o),
         NEW op \in Kinds, NEW g \in Aggregates,
         NEW S \in SUBSET Leaves, S # {}, Local(S), \A l \in S : o.retained[l].op = op,
         NEW now, Reported(now), Placed(o), Grouped(core), Lasting(o, core, uses, now)
  PROVE  StepLasts(GroupApplied(o, g, op, Parts(o, S)), now)
<1> DEFINE parts == Parts(o, S)
<1>1. parts \in SUBSET (Leaves \X (1..MaxSequence)) /\ parts # {} /\ S = {p[1] : p \in parts}
      /\ \A l \in S : o.retained[l] # Nothing /\ <<l, o.retained[l].seq>> \in parts
  BY PartsEvident
<1>2. ASSUME NEW k \in S, Earliest(parts) <= core.latest[k], NEW s \in Surfaces, Whole(core, s)
      PROVE  core.armed[s] \cap S = {}
  BY <1>2, EvidenceIsRecent DEF Lasting
<1> HIDE DEF parts
<1>3. StepLasts(GroupApplied(o, g, op, parts), now)
  BY <1>1, <1>2, GroupAppliedLasts
<1> QED BY <1>3 DEF parts

LEMMA UncalledLasts ==
  ASSUME NEW o, Sound(o), NEW S, core \in CoreState, NEW u, NEW now, Placed(o),
         Lasting(o, core, u, now)
  PROVE  /\ Sound(Uncalled(o, S)) /\ Placed(Uncalled(o, S)) /\ Lasting(Uncalled(o, S), core, u, now)
         /\ Uncalled(o, S).retained = o.retained /\ Uncalled(o, S).deferred = o.deferred
         /\ Uncalled(o, S).burst = o.burst
<1> DEFINE r == Uncalled(o, S)
<1>1. r.retained = o.retained /\ r.deferred = o.deferred /\ r.burst = o.burst
  BY DEF Uncalled, Sound, ObserverState
<1>2. Sound(r) /\ Shrunk(o, r) /\ Stays(o, r)
  BY UncalledSound, Shrinking, Staying
<1> HIDE DEF r
<1>3. Spared(o, r, core, u, now)
  BY <1>1 DEF Spared
<1>4. Placed(r) /\ Lasting(r, core, u, now)
  BY <1>2, <1>3, SparedLasts, StaysPlaced
<1> QED BY <1>1, <1>2, <1>4 DEF r

LEMMA SurfaceLocal ==
  ASSUME OneSurface, NEW g \in Surfaces
  PROVE  Local(Managed(topology[g]))
  BY DEF OneSurface, OnOneSurface, Local, Managed

LEMMA OwnedOffLasts ==
  ASSUME OneSurface, core \in CoreState, uses \in [1..MaxSequence -> Nat], NEW o, Sound(o),
         managed \in SUBSET Leaves, NEW g \in Aggregates, NEW members, NEW clear,
         OwnedReady(o, g, members, clear), members = topology[g],
         NEW now, Reported(now), Placed(o), Grouped(core), Lasting(o, core, uses, now)
  PROVE  StepLasts(OwnedOff(o, g, Managed(members)), now)
<1> DEFINE S == Managed(members)
           u == Uncalled(o, S)
<1>1. /\ S \in SUBSET Leaves /\ S # {} /\ \A l \in S : o.retained[l].op = "off"
      /\ Local(S)
  BY SurfaceLocal DEF OwnedReady, Coherent, Managed
<1>2. OwnedOff(o, g, S) = GroupApplied(u, g, "off", Parts(o, S))
  BY DEF OwnedOff
<1> HIDE DEF S
<1>3. Sound(u) /\ Placed(u) /\ Lasting(u, core, uses, now) /\ u.retained = o.retained
  BY UncalledLasts
<1> HIDE DEF u
<1>4. Parts(u, S) = Parts(o, S) /\ "off" \in Kinds /\ \A l \in S : u.retained[l].op = "off"
  BY <1>1, <1>3 DEF Parts, Kinds
<1>5. StepLasts(GroupApplied(u, g, "off", Parts(u, S)), now)
  BY <1>1, <1>3, <1>4, DirectLasts
<1> QED BY <1>2, <1>4, <1>5 DEF S

LEMMA ArmedOffLasts ==
  ASSUME core \in CoreState, uses \in [1..MaxSequence -> Nat], NEW o, Sound(o),
         NEW g \in Aggregates, NEW members, NEW clear, ArmedReady(o, g, members, clear),
         NEW now, Reported(now), Placed(o), Grouped(core), Lasting(o, core, uses, now)
  PROVE  StepLasts(ArmedOff(o, g), now)
<1> DEFINE S == core.armed[g]
           parts == Parts(o, S)
           q == Earliest(parts)
           c == Submitted(core, "off", g, S, S, q)
           rest == Dropped(o, S)
           r == Forgotten(rest)
           taken == Sequences(parts)
           s == Step(r, c, taken)
<1>1. /\ S \in SUBSET Leaves /\ S # {} /\ \A l \in S : o.retained[l].op = "off"
      /\ Local(S) /\ "off" \in Kinds
  BY DEF ArmedReady, Coherent, CoreState, Grouped, Kinds
<1>2. ArmedOff(o, g) = IF c = core THEN Waiting(rest) ELSE s
  BY DEF ArmedOff
<1> HIDE DEF S
<1>3. /\ parts \in SUBSET (Leaves \X (1..MaxSequence)) /\ parts # {} /\ S = {p[1] : p \in parts}
      /\ \A l \in S : o.retained[l] # Nothing /\ <<l, o.retained[l].seq>> \in parts
  BY <1>1, PartsEvident
<1>4. ASSUME NEW k \in S, q <= core.latest[k], NEW t \in Surfaces, Whole(core, t)
      PROVE  core.armed[t] \cap S = {}
  BY <1>1, <1>4, EvidenceIsRecent DEF Lasting
<1> HIDE DEF parts
<1>5. q \in 0..MaxSequence /\ q \in Nat
  BY <1>3, EarliestLeast, Bounds
<1>6. /\ Sound(rest) /\ Shrunk(o, rest) /\ Stays(o, rest)
      /\ \A l \in Leaves : rest.retained[l] = IF l \in S THEN Nothing ELSE o.retained[l]
  BY <1>1, DroppedSound, DroppedShrinks, DroppedStays, DroppedRetains
<1> HIDE DEF rest
<1>7. Receipt("off", g, S) /\ S \subseteq S
  BY <1>1, ObserverAssumption DEF Receipt
<1>8. CASE c = core
  <2>1. \E k \in S : q <= core.latest[k]
    <3> HIDE DEF q
    <3> QED BY <1>1, <1>5, <1>7, <1>8, Refused
  <2>2. Spared(o, rest, core, uses, now)
    <3> SUFFICES ASSUME NEW t \in Surfaces, Whole(core, t), NEW k \in core.armed[t]
                 PROVE  rest.retained[k] = o.retained[k]
      BY DEF Spared
    <3>1. k \in Leaves /\ k \notin S
      BY <1>4, <2>1, ObserverAssumption DEF CoreState
    <3> QED BY <1>6, <3>1
  <2>3. Lasting(rest, core, uses, now) /\ Placed(rest)
    BY <1>6, <2>2, SparedLasts, StaysPlaced
  <2> QED BY <1>2, <1>8, <2>3, WaitingLasts
<1>9. CASE c # core
  <2>1. Sound(r) /\ Shrunk(rest, r) /\ Stays(rest, r) /\ r.retained = rest.retained
    BY <1>6, ForgottenSound, RetiredShrinks, RetiredStays, RetiredRetains
  <2> HIDE DEF r
  <2>2. Shrunk(o, r) /\ Placed(r)
    BY <1>6, <2>1, ShrunkTwice, StaysTwice, StaysPlaced
  <2>3. s.o = r /\ s.c = c /\ s.taken = taken
    BY DEF Step
  <2>4. taken \in SUBSET (1..MaxSequence) /\ \A p \in parts : p[2] \in taken
    BY <1>3 DEF Sequences
  <2>5. \A l \in S : o.retained[l].seq \in taken
    <3> SUFFICES ASSUME NEW l \in S PROVE o.retained[l].seq \in taken
      OBVIOUS
    <3> DEFINE n == o.retained[l].seq
    <3>1. <<l, n>> \in parts
      BY <1>3
    <3> HIDE DEF n, taken
    <3>2. <<l, n>>[2] \in taken
      BY <2>4, <3>1
    <3> QED BY <3>2 DEF n
  <2> HIDE DEF q, taken, c, s
  <2>6. /\ c \in CoreState /\ Took(core, c, "off", g, S)
        /\ Noticed(core, c, S, q) /\ \A k \in S : core.latest[k] < q
    BY <1>5, <1>7, <1>9, Accepting DEF c
  <2>7. /\ \A k \in Leaves \ S : r.retained[k] = o.retained[k]
        /\ \A l \in S : /\ r.retained[l] = Nothing /\ o.retained[l] # Nothing
                        /\ o.retained[l].seq \in taken
    BY <1>1, <1>3, <1>6, <2>1, <2>5
  <2>8. Taking(o, r, c, "off", g, S, S, q, taken)
    BY <1>1, <1>5, <2>1, <2>2, <2>4, <2>6, <2>7 DEF Taking
  <2>9. Grouped(c) /\ Lasting(r, c, After(taken), now)
    BY <2>8, TakenLasts
  <2>10. StepLasts(s, now)
    BY <2>2, <2>3, <2>9 DEF StepLasts
  <2> QED BY <1>2, <1>9, <2>10
<1> QED BY <1>8, <1>9

LEMMA ExactLasts ==
  ASSUME core \in CoreState, uses \in [1..MaxSequence -> Nat], NEW o, Sound(o),
         NEW g \in Aggregates,
         NEW now, Reported(now), Placed(o), Grouped(core), Lasting(o, core, uses, now)
  PROVE  StepLasts(Exact(o, g), now)
<1> DEFINE L == o.burst.leaves
           u == Uncalled(o, L)
           op == u.retained[CHOOSE l \in L : TRUE].op
           parts == Parts(u, L)
           known == \E d \in u.deferred : d.group = g /\ d.parts = parts
           parent == CHOOSE p \in Parents(g, L) : TRUE
           new == [group |-> g, parts |-> parts, left |-> Burst, parent |-> parent]
           more == [u EXCEPT !.deferred = @ \cup {new}]
<1>1. Sound(u) /\ Placed(u) /\ Lasting(u, core, uses, now)
      /\ u.retained = o.retained /\ u.deferred = o.deferred /\ u.burst = o.burst
  BY UncalledLasts
<1>2. Exact(o, g) =
        IF ~ExactGroup(o, g) THEN Waiting(o)
        ELSE IF op = "none" \/ ~Coherent(u, L, op, Burst) THEN Waiting(u)
        ELSE IF op # "off" \/ Parents(g, L) = {} THEN GroupApplied(u, g, op, parts)
        ELSE IF known THEN Waiting(u)
        ELSE Waiting(more)
  BY DEF Exact
<1>3. L \in SUBSET Leaves /\ L = u.burst.leaves
  BY <1>1, BurstOf
<1>4. Local(L)
  <2>1. L \subseteq o.shown /\ Local(o.shown)
    BY DEF Placed
  <2> QED BY <2>1, LocalParts
<1> HIDE DEF u, known
<1>5. StepLasts(Waiting(o), now) /\ StepLasts(Waiting(u), now)
  BY <1>1, WaitingLasts
<1>6. CASE ~ExactGroup(o, g)
  BY <1>2, <1>5, <1>6
<1>7. CASE ExactGroup(o, g) /\ (op = "none" \/ ~Coherent(u, L, op, Burst))
  BY <1>2, <1>5, <1>7
<1>8. CASE ExactGroup(o, g) /\ op # "none" /\ Coherent(u, L, op, Burst)
  <2>1. L # {}
    <3>1. Cardinality(L) > 1
      BY <1>8 DEF ExactGroup
    <3>2. Cardinality({}) = 0
      BY FS_EmptySet
    <3> HIDE DEF L
    <3>3. ASSUME L = {} PROVE FALSE
      <4>1. Cardinality(L) = 0
        BY <3>2, <3>3
      <4> QED BY <3>1, <4>1
    <3> QED BY <3>3
  <2>2. op \in Kinds
    <3>1. (CHOOSE l \in L : TRUE) \in Leaves
      BY <1>3, <2>1
    <3>2. \A l \in Leaves : u.retained[l].op \in Kinds \cup {"none"}
      BY <1>1 DEF Sound, ObserverState, Evidence, Nothing
    <3>3. op \in Kinds \cup {"none"}
      BY <3>1, <3>2
    <3> QED BY <3>3, <1>8
  <2>3. \A l \in L : u.retained[l].op = op
    BY <1>8 DEF Coherent
  <2> HIDE DEF op, L
  <2>4. StepLasts(GroupApplied(u, g, op, parts), now)
    BY <1>1, <1>3, <1>4, <2>1, <2>2, <2>3, DirectLasts
  <2>5. StepLasts(Waiting(more), now)
    <3>1. more.retained = u.retained /\ more.deferred = u.deferred \cup {new} /\ Stays(u, more)
      BY <1>1 DEF Sound, ObserverState, Stays
    <3>2. new.parts = parts
      OBVIOUS
    <3> HIDE DEF new, more
    <3>3. \A p \in parts : p[1] \in L /\ p[2] = u.retained[p[1]].seq
      BY DEF Parts
    <3>4. \A l \in L : u.retained[l] # Nothing
      BY <2>2, <2>3 DEF Nothing, Kinds
    <3> HIDE DEF parts
    <3>5. Recent(more, core)
      BY <1>1, <3>1, <3>2, <3>3, <3>4 DEF Lasting, Recent
    <3>6. Lasting(more, core, uses, now)
      BY <1>1, <3>1, <3>5 DEF Lasting, Same, Kept
    <3>7. Placed(more)
      BY <1>1, <3>1, StaysPlaced
    <3> QED BY <3>6, <3>7, WaitingLasts
  <2> HIDE DEF more
  <2> QED BY <1>2, <1>5, <1>8, <2>4, <2>5
<1> QED BY <1>6, <1>7, <1>8

-----------------------------------------------------------------------------
(* Reports *)

\* What leaves the evidence alone.
LEMMA UntouchedLasts ==
  ASSUME NEW o, NEW r, NEW c, NEW u, NEW now, Stays(o, r), Placed(o), Lasting(o, c, u, now),
         r.retained = o.retained, r.deferred \subseteq o.deferred
  PROVE  Placed(r) /\ Lasting(r, c, u, now)
  BY StaysPlaced DEF Lasting, Recent, Same, Kept

LEMMA CorrelatedLasts ==
  ASSUME NEW o, Sound(o), Placed(o), NEW L, Local(o.shown \cup L), NEW G, NEW c, NEW u, NEW now,
         Lasting(o, c, u, now)
  PROVE  Placed(Correlated(o, L, G)) /\ Lasting(Correlated(o, L, G), c, u, now)
<1> DEFINE r == Correlated(o, L, G)
<1>1. r.retained = o.retained /\ r.deferred = o.deferred
  BY DEF Sound, ObserverState, Correlated
<1>2. Placed(r)
  BY CorrelatedPlaced
<1> HIDE DEF r
<1>3. Lasting(r, c, u, now)
  BY <1>1 DEF Lasting, Recent, Same, Kept
<1> QED BY <1>2, <1>3 DEF r

LEMMA RevokedLasts ==
  ASSUME NEW o, Sound(o), core \in CoreState, NEW u, NEW now, Placed(o), Lasting(o, core, u, now)
  PROVE  Placed(Revoked(o)) /\ Lasting(Revoked(o), core, u, now)
  BY UncalledLasts DEF Revoked

LEMMA NotedLasts ==
  ASSUME NEW o, Sound(o), NEW x, NEW leaf, NEW c, NEW u, NEW now, Placed(o), Lasting(o, c, u, now)
  PROVE  /\ Placed(Noted(o, x, leaf)) /\ Lasting(Noted(o, x, leaf), c, u, now)
         /\ Placed(Witnessed(o, x, leaf)) /\ Lasting(Witnessed(o, x, leaf), c, u, now)
<1> DEFINE r == Noted(o, x, leaf)
           w == Witnessed(o, x, leaf)
<1>1. /\ r.retained = o.retained /\ r.deferred = o.deferred
      /\ w.retained = o.retained /\ w.deferred = o.deferred
  BY DEF Sound, ObserverState, Noted, Witnessed
<1>2. Stays(o, r) /\ Stays(o, w)
  BY NotedStays
<1> HIDE DEF r, w
<1>3. Placed(r) /\ Lasting(r, c, u, now) /\ Placed(w) /\ Lasting(w, c, u, now)
  BY <1>1, <1>2, UntouchedLasts
<1> QED BY <1>3 DEF r, w

\* A light's report takes the place of its evidence; no group waits with it yet.
LEMMA RetainedLasts ==
  ASSUME NEW o, Sound(o), core \in CoreState, NEW l \in Leaves, NEW op \in Kinds, sequence \in Nat,
         NEW u, NEW now, NEW new, Numbers(o, sequence), Known(core, sequence),
         Placed(o), Lasting(o, core, u, now),
         \A k \in Leaves : k # l => new[k] = now[k], new[l].op = op,
         op = "off" => new[l] = [op |-> op, seq |-> sequence + 1, age |-> 0]
  PROVE  LET r == Retained(o, l, op)
         IN /\ Stays(o, r) /\ Placed(r) /\ Lasting(r, core, u, new)
<1> DEFINE p == IF o.retained[l].op \notin {"none", op} THEN Cancelled(o, {l}) ELSE o
           e == [op |-> op, seq |-> sequence + 1, age |-> 0]
           n == IF p.expiry = -1 THEN Burst ELSE p.expiry
           f == [p.retained EXCEPT ![l] = e]
           r == [p EXCEPT !.retained = f, !.expiry = n]
<1>1. /\ Sound(p) /\ Shrunk(o, p) /\ Stays(o, p)
  BY CancelledSound, DroppedShrinks, DroppedStays, Shrinking, Staying
<1>2. p.retained = o.retained
  <2>1. Cancelled(o, {l}).retained = o.retained
    BY DEF Cancelled, Ungrouped, Uncalled, Sound, ObserverState
  <2> QED BY <2>1
<1>3. Retained(o, l, op) = r
  BY <1>1 DEF Retained, Sound, ObserverState
<1> HIDE DEF p
<1>4. r.retained = f /\ r.deferred = p.deferred /\ Stays(p, r)
  BY <1>1 DEF Sound, ObserverState, Stays
<1>5. f[l] = e /\ \A k \in Leaves : k # l => f[k] = o.retained[k]
  BY <1>1, <1>2 DEF Sound, ObserverState
<1>6. e.seq = sequence + 1 /\ e.op = op
  OBVIOUS
<1> HIDE DEF f, r
<1>7. Stays(o, r) /\ Placed(r)
  BY <1>1, <1>4, StaysTwice, StaysPlaced
<1>8. Recent(r, core)
  <2> SUFFICES ASSUME NEW s \in Surfaces, Whole(core, s)
               PROVE  /\ \A k \in core.armed[s] : r.retained[k] # Nothing => r.retained[k].seq > core.latest[k]
                      /\ \A d \in r.deferred :
                           \/ \A q \in d.parts : q[1] \in core.armed[s] => q[2] > core.latest[q[1]]
                           \/ \A q \in d.parts : q[1] \in core.armed[s] => r.retained[q[1]].seq # q[2]
    BY DEF Recent
  <2>1. core.armed[s] \in SUBSET Leaves
    BY ObserverAssumption DEF CoreState
  <2>2. e.seq > core.latest[l]
    <3>1. core.latest[l] \in Nat /\ core.latest[l] <= sequence
      BY Bounds DEF CoreState, Known
    <3> DEFINE y == core.latest[l]
    <3> HIDE DEF y
    <3>2. y \in Nat /\ y <= sequence
      BY <3>1 DEF y
    <3>3. sequence + 1 > y
      BY <3>2
    <3> QED BY <1>6, <3>3 DEF y
  <2> HIDE DEF e
  <2>3. ASSUME NEW k \in core.armed[s], r.retained[k] # Nothing
        PROVE  r.retained[k].seq > core.latest[k]
    BY <1>4, <1>5, <2>1, <2>2, <2>3 DEF Lasting, Recent
  <2>4. ASSUME NEW d \in r.deferred,
               ~ \A q \in d.parts : q[1] \in core.armed[s] => q[2] > core.latest[q[1]],
               NEW q \in d.parts, q[1] \in core.armed[s]
        PROVE  r.retained[q[1]].seq # q[2]
    <3>1. d \in o.deferred
      BY <1>1, <1>4, <2>4 DEF Shrunk
    <3>2. o.retained[q[1]].seq # q[2]
      BY <2>4, <3>1 DEF Lasting, Recent
    <3>3. q[2] \in 1..MaxSequence /\ q[1] \in Leaves /\ q = <<q[1], q[2]>>
      BY <3>1, PartsOf
    <3>4. Marked(o, q[1], q[2])
      BY <3>1, <3>3 DEF Marked
    <3>5. q[2] <= sequence /\ q[2] \in Nat
      BY <3>3, <3>4, Bounds DEF Numbers
    <3>6. e.seq # q[2]
      BY <1>6, <3>5
    <3> QED BY <1>4, <1>5, <3>2, <3>3, <3>6
  <2> QED BY <2>3, <2>4
<1>9. op = "off" => f[l] = new[l]
  BY <1>5
<1> HIDE DEF e
<1>10. Same(r, core, new)
  <2> SUFFICES ASSUME NEW k \in Leaves, r.retained[k] # Nothing, new[k].op = "off",
                      new[k].seq > core.latest[k]
               PROVE  r.retained[k] = new[k]
    BY DEF Same
  <2> QED BY <1>4, <1>5, <1>9 DEF Lasting, Same
<1>11. Kept(r, core, u, new)
  <2> SUFFICES ASSUME NEW s \in Surfaces, Whole(core, s), NEW k \in core.armed[s],
                      Needed(core, u, new, k)
               PROVE  r.retained[k] = new[k]
    BY DEF Kept
  <2>1. k \in Leaves
    BY ObserverAssumption DEF CoreState
  <2>2. CASE k = l
    BY <1>4, <1>9, <2>2 DEF Needed
  <2>3. CASE k # l
    <3>1. new[k] = now[k] /\ Needed(core, u, now, k)
      BY <2>1, <2>3 DEF Needed
    <3> QED BY <1>4, <1>5, <2>1, <2>3, <3>1 DEF Lasting, Kept
  <2> QED BY <2>2, <2>3
<1> QED BY <1>3, <1>7, <1>8, <1>10, <1>11 DEF Lasting

LEMMA DisplacedLasts ==
  ASSUME OneSurface, NEW o, Sound(o), core \in CoreState, uses \in [1..MaxSequence -> Nat],
         managed \in SUBSET Leaves, sequence \in Nat,
         NEW x, NEW leaf \in BOOLEAN, leaf => x \in Leaves, NEW clear, NEW now,
         Displaced(o, x, leaf, clear, now).c # core => sequence + 2 <= MaxSequence,
         NEW new, Reported(new), Placed(o), Grouped(core), Lasting(o, core, uses, new)
  PROVE  StepLasts(Displaced(o, x, leaf, clear, now), new)
<1> DEFINE p == IF clear THEN Witnessed(o, x, leaf) ELSE o
           s == CHOOSE t \in Corroborated(p, x) : TRUE
           S == Managed(p.cache[s])
           ok == {l \in S : now[l] = "on"}
           q == sequence + 2
           c == Submitted(core, "appearance", s, ok, S, q)
           w == Dropped(p, S)
           r == Established(w, S)
           v == [r EXCEPT !.displaced[s] = Closed]
           f == Forgotten(v)
           moved == Step(f, c, {})
           stays == ~clear \/ Corroborated(p, x) = {} \/ c = core
           d == Displaced(o, x, leaf, clear, now)
<1>1. Sound(p) /\ Placed(p) /\ Lasting(p, core, uses, new)
  BY WitnessedSound, NotedLasts
<1>2. d = IF stays THEN Waiting(p) ELSE moved
  BY DEF Displaced
<1>4. moved.c = c /\ moved.taken = {} /\ moved.o = f
  BY DEF Step
<1>7. CASE stays
  <2> HIDE DEF p, stays, moved, q, d
  <2>1. StepLasts(Waiting(p), new)
    BY <1>1, WaitingLasts
  <2> QED BY <1>2, <1>7, <2>1 DEF d
<1>8. CASE ~stays
  <2> HIDE DEF p
  <2>1. s \in Surfaces
    BY <1>8 DEF Corroborated
  <2>2. ok \in SUBSET Leaves /\ ok \subseteq S /\ S \in SUBSET Leaves /\ S = Managed(topology[s])
    BY <1>1, <2>1 DEF Managed, Placed
  <2> HIDE DEF s
  <2> HIDE DEF S
  <2>3. /\ Sound(w) /\ Shrunk(p, w) /\ Stays(p, w)
        /\ \A l \in Leaves : w.retained[l] = IF l \in S THEN Nothing ELSE p.retained[l]
    BY <1>1, DroppedSound, DroppedShrinks, DroppedStays, DroppedRetains
  <2> HIDE DEF w, ok
  <2>4. Sound(r) /\ Shrunk(w, r) /\ Stays(w, r) /\ r.retained = w.retained
    BY <2>3, EstablishedSound, Shrinking, Staying, RetiredRetains
  <2> HIDE DEF r
  <2>5. Sound(v) /\ Shrunk(r, v) /\ Stays(r, v) /\ v.retained = r.retained
    <3> DEFINE h == [r.displaced EXCEPT ![s] = Closed]
    <3>1. h \in [Surfaces -> Window]
      BY <2>1, <2>4, Bounds DEF Sound, ObserverState
    <3>2. v = [r EXCEPT !.displaced = h]
      OBVIOUS
    <3> HIDE DEF h
    <3>3. Sound(v)
      BY <2>4, <3>1, <3>2, WindowUpdate
    <3>4. /\ v.retained = r.retained /\ v.deferred = r.deferred /\ v.burst = r.burst
          /\ v.cache = r.cache /\ v.shown = r.shown
      BY <2>4, <3>2 DEF Sound, ObserverState
    <3> HIDE DEF v
    <3> QED BY <3>3, <3>4 DEF Shrunk, Stays
  <2> HIDE DEF v
  <2>6. Sound(f) /\ Shrunk(v, f) /\ Stays(v, f) /\ f.retained = v.retained
    BY <2>5, ForgottenSound, RetiredShrinks, RetiredStays, RetiredRetains
  <2> HIDE DEF f
  <2>7. Shrunk(p, f) /\ Placed(f)
    <3>1. Shrunk(p, r) /\ Stays(p, r)
      BY <2>3, <2>4, ShrunkTwice, StaysTwice
    <3>2. Shrunk(p, v) /\ Stays(p, v)
      BY <2>5, <3>1, ShrunkTwice, StaysTwice
    <3> QED BY <1>1, <2>6, <3>2, ShrunkTwice, StaysTwice, StaysPlaced
  <2>8. \A l \in Leaves \ S : f.retained[l] = p.retained[l]
    BY <2>3, <2>4, <2>5, <2>6
  <2>9. c # core
    BY <1>8
  <2> HIDE DEF moved
  <2>10. d = moved
    BY <1>2, <1>8
  <2>11. q \in 0..MaxSequence /\ q \in Nat
    BY <1>4, <2>9, <2>10, Bounds
  <2>12. Receipt("appearance", s, ok)
    BY <2>1, <2>2, ObserverAssumption DEF Receipt
  <2> HIDE DEF q
  <2>13. c \in CoreState /\ ok # {} /\ Took(core, c, "appearance", s, ok) /\ Noticed(core, c, S, q)
         /\ \A l \in ok : core.latest[l] < q
    BY <2>2, <2>9, <2>11, <2>12, Accepting
  <2> HIDE DEF c, d
  <2>14. ASSUME NEW t \in Surfaces, Whole(core, t), core.armed[t] \cap ok = {}
         PROVE  core.armed[t] \cap S = {}
    <3> SUFFICES ASSUME NEW l \in core.armed[t] \cap S PROVE FALSE
      OBVIOUS
    <3>1. t = s
      BY <2>1, <2>2, <2>14, OwnSurface DEF Whole
    <3> QED BY <2>2, <2>13, <2>14, <3>1 DEF Whole
  <2>15. "appearance" \in Kinds /\ "appearance" # "off" /\ {} \in SUBSET (1..MaxSequence)
    BY DEF Kinds
  <2>16. Taking(p, f, c, "appearance", s, ok, S, q, {})
    BY <1>1, <2>2, <2>6, <2>7, <2>8, <2>11, <2>13, <2>14, <2>15 DEF Taking
  <2>17. Grouped(c) /\ Lasting(f, c, After({}), new)
    BY <1>1, <2>16, TakenLasts
  <2>18. StepLasts(moved, new)
    BY <1>4, <2>7, <2>17 DEF StepLasts
  <2> QED BY <2>10, <2>18 DEF d
<1> QED BY <1>7, <1>8

-----------------------------------------------------------------------------
(* Step by step *)

\* The invariant: what a second OFF needs of an armed surface is still held.
Holding ==
  /\ Placed(obs) /\ Grouped(core) /\ Lasting(obs, core, uses, newest)
  /\ GoneIsSilent(newest, lights)

LEMMA BecomesLasts ==
  ASSUME UNCHANGED <<topology, managed>>, NEW step, Becomes(step), StepLasts(step, newest'),
         GoneIsSilent(newest', lights')
  PROVE  Holding'
<1>1. obs' = step.o /\ core' = step.c /\ uses' = After(step.taken)
  BY DEF Becomes, After
<1>2. \A s \in Surfaces : Whole(core, s)' <=> Whole(step.c, s)
  BY <1>1 DEF Whole, Managed
<1>3. Placed(obs)'
  BY <1>1 DEF StepLasts, Placed, Local
<1>4. Grouped(core)'
  BY <1>1, <1>2 DEF StepLasts, Grouped, Local
<1>5. Recent(obs, core)'
  BY <1>1, <1>2 DEF StepLasts, Lasting, Recent
<1>6. Same(obs, core, newest)' /\ GoneIsSilent(newest, lights)'
  BY <1>1 DEF StepLasts, Lasting, Same, GoneIsSilent
<1>7. Kept(obs, core, uses, newest)'
  BY <1>1, <1>2 DEF StepLasts, Lasting, Kept, Needed
<1> QED BY <1>3, <1>4, <1>5, <1>6, <1>7 DEF Holding, Lasting

-----------------------------------------------------------------------------
(* Reports, commands and scenes *)

LEMMA LeafReportLasts ==
  ASSUME OneSurface, TypeOK, TypeOK', Records, Counting, Holding, NEW l \in Leaves,
         NEW state \in {"on", "off", "gone"},
         NEW cause \in Causes, NEW clear \in BOOLEAN, LeafReport(l, state, cause, clear)
  PROVE  Holding'
<1> DEFINE op == IF state = "off" /\ cause # "outage" THEN "off" ELSE "appearance"
           now == [lights EXCEPT ![l] = state]
           o0 == IF cause = "witnessed" /\ op = "appearance" THEN Established(obs, {l}) ELSE obs
           automatic == Automatic(o0, l, op, cause)
           p == IF OtherSurface(o0, l) THEN Forgotten(o0) ELSE o0
           o1 == Snapshotted(p)
           r == IF automatic THEN Dropped(o1, {l}) ELSE Retained(o1, l, op)
           o2 == Pruned(r)
           o3 == IF op = "off" THEN o2 ELSE Noted(o2, l, ~automatic)
           k == Correlated(o3, {l}, {})
           o4 == Revoked(k)
           step == IF automatic THEN Waiting(o3)
                   ELSE IF op = "off" \/ Qualified(o4) THEN Waiting(o4)
                   ELSE Displaced(o4, l, TRUE, clear, now)
<1>1. /\ Numbered(IF step.c = core THEN 1 ELSE 2)
      /\ Becomes(step) /\ lights' = now /\ NowAsked({l}, IF automatic THEN "none" ELSE op)
      /\ UNCHANGED <<topology, managed>> /\ l \in managed
      /\ (state = "gone" => cause = "outage")
  BY DEF LeafReport
<1>2. /\ topology \in Topologies /\ managed \in SUBSET Leaves /\ sequence \in Nat
      /\ core \in CoreState /\ Sound(obs) /\ uses \in [1..MaxSequence -> Nat]
      /\ Reported(newest) /\ Reported(newest')
  BY ObserverAssumption DEF TypeOK, Records, Reported
<1>3. op \in Kinds
  BY DEF Kinds
<1>4. /\ sequence + 1 <= MaxSequence /\ (step.c # core => sequence + 2 <= MaxSequence)
      /\ sequence' = IF step.c = core THEN sequence + 1 ELSE sequence + 2
  <2> HIDE DEF step
  <2> QED BY <1>1, <1>2, Bounds DEF Numbered
<1>5. ~automatic /\ op = "off" => sequence' = sequence + 1
  <2>1. ~automatic /\ op = "off" => step = Waiting(o4)
    OBVIOUS
  <2>2. Waiting(o4).c = core
    BY DEF Waiting, Step
  <2> HIDE DEF step, o4
  <2> QED BY <1>4, <2>1, <2>2
<1>6. /\ newest'[l] = [op |-> IF automatic THEN "none" ELSE op, seq |-> sequence', age |-> 0]
      /\ \A j \in Leaves : j # l => newest'[j] = newest[j]
  <2> HIDE DEF op, automatic
  <2> QED BY <1>1 DEF NowAsked
<1>7. GoneIsSilent(newest', lights')
  <2>1. state = "gone" => (IF automatic THEN "none" ELSE op) # "off"
    <3> HIDE DEF automatic
    <3> QED BY <1>1
  <2>2. lights'[l] = state /\ \A j \in Leaves : j # l => lights'[j] = lights[j]
    BY <1>1 DEF TypeOK
  <2> HIDE DEF op, automatic
  <2> QED BY <1>6, <2>1, <2>2 DEF Holding, GoneIsSilent
<1> HIDE DEF op
<1>8. Sound(o0) /\ Shrunk(obs, o0) /\ Placed(o0) /\ Lasting(o0, core, uses, newest)
  <2>1. Sound(Established(obs, {l})) /\ Shrunk(obs, Established(obs, {l}))
        /\ Stays(obs, Established(obs, {l})) /\ Established(obs, {l}).retained = obs.retained
    BY <1>2, EstablishedSound, Shrinking, Staying, RetiredRetains
  <2>2. Placed(Established(obs, {l})) /\ Lasting(Established(obs, {l}), core, uses, newest)
    BY <2>1, UntouchedLasts DEF Holding, Shrunk
  <2> QED BY <1>2, <2>1, <2>2, Shrinking DEF Holding
<1>9. ~automatic => l \notin o0.quarantine
  BY DEF Automatic
<1>10. automatic \in BOOLEAN
  BY DEF Automatic
<1> HIDE DEF automatic
<1>11. /\ Sound(p) /\ p.quarantine = o0.quarantine /\ Shrunk(o0, p) /\ Stays(o0, p)
       /\ p.retained = o0.retained /\ (OtherSurface(o0, l) => p.shown = {})
  <2> HIDE DEF o0
  <2> QED BY <1>8, ForgottenSound, RetiredShrinks, Shrinking, RetiredStays, Staying, RetiredRetains
<1> HIDE DEF o0
<1> HIDE DEF p
<1>12. /\ Sound(o1) /\ o1.quarantine = o0.quarantine /\ Shrunk(p, o1) /\ Stays(p, o1)
       /\ o1.retained = p.retained /\ o1.shown = p.shown
  <2>1. o1.retained = p.retained /\ o1.shown = p.shown
    BY <1>11 DEF Snapshotted, Sound, ObserverState
  <2> QED BY <1>11, <2>1, SnapshottedSound, Shrinking, Staying
<1> HIDE DEF o1
<1>13. /\ Placed(o1) /\ Lasting(o1, core, uses, newest) /\ Shrunk(obs, o1) /\ Stays(o0, o1)
       /\ (OtherSurface(o0, l) => o1.shown = {})
  <2>1. Shrunk(o0, o1) /\ Stays(o0, o1)
    BY <1>11, <1>12, ShrunkTwice, StaysTwice
  <2>2. Shrunk(obs, o1)
    BY <1>8, <2>1, ShrunkTwice
  <2>3. Placed(o1) /\ Lasting(o1, core, uses, newest)
    BY <1>8, <1>11, <1>12, <2>1, UntouchedLasts DEF Shrunk
  <2> QED BY <1>11, <1>12, <2>1, <2>2, <2>3
<1>14. Numbers(o1, sequence) /\ Known(core, sequence)
  <2>1. Account(o1, core, uses, sequence, newest, lights)
    BY <1>2, <1>12, <1>13, ShrunkAccount DEF Counting
  <2> QED BY <2>1 DEF Account, Ordered
<1>15. Sound(r) /\ Stays(o1, r) /\ Placed(r) /\ Lasting(r, core, uses, newest')
  <2>1. CASE automatic
    <3>1. r = Dropped(o1, {l})
      BY <2>1
    <3>2. Sound(r) /\ Shrunk(o1, r) /\ Stays(o1, r)
          /\ \A j \in Leaves : r.retained[j] = IF j \in {l} THEN Nothing ELSE o1.retained[j]
      BY <1>12, <3>1, DroppedSound, DroppedShrinks, DroppedStays, DroppedRetains
    <3> HIDE DEF r
    <3>3. newest'[l].op # "off"
      BY <1>6, <2>1
    <3>4. Lasting(o1, core, uses, newest')
      BY <1>2, <1>6, <1>13, <3>3, UnneededLasts
    <3>5. Spared(o1, r, core, uses, newest')
      <4> SUFFICES ASSUME NEW s \in Surfaces, Whole(core, s), NEW j \in core.armed[s],
                          Needed(core, uses, newest', j)
                   PROVE  r.retained[j] = o1.retained[j]
        BY DEF Spared
      <4>1. j \in Leaves /\ j # l
        BY <1>2, <3>3, ObserverAssumption DEF CoreState, Needed
      <4> QED BY <3>2, <4>1
    <3>6. Lasting(r, core, uses, newest')
      BY <1>2, <1>12, <3>2, <3>4, <3>5, SparedLasts
    <3>7. Placed(r)
      BY <1>13, <3>2, StaysPlaced
    <3> QED BY <3>2, <3>6, <3>7
  <2>2. CASE ~automatic
    <3>1. r = Retained(o1, l, op) /\ l \in Leaves \ o1.quarantine
      BY <1>9, <1>12, <2>2
    <3> HIDE DEF r
    <3>2. Sound(r)
      BY <1>2, <1>3, <1>4, <1>12, <3>1, RetainedSound
    <3>3. newest'[l].op = op
          /\ (op = "off" => newest'[l] = [op |-> op, seq |-> sequence + 1, age |-> 0])
      BY <1>5, <1>6, <2>2
    <3>4. Stays(o1, r) /\ Placed(r) /\ Lasting(r, core, uses, newest')
      BY <1>2, <1>3, <1>6, <1>12, <1>13, <1>14, <3>1, <3>3, RetainedLasts
    <3> QED BY <3>2, <3>4
  <2> QED BY <2>1, <2>2
<1> HIDE DEF r
<1>16. Sound(o2) /\ Stays(r, o2) /\ Placed(o2) /\ Lasting(o2, core, uses, newest')
  BY <1>2, <1>15, PrunedSound, PrunedStays, PrunedSpares
<1> HIDE DEF o2
<1>17. Sound(o3) /\ Stays(o2, o3) /\ Placed(o3) /\ Lasting(o3, core, uses, newest')
  <2>1. /\ Sound(Noted(o2, l, ~automatic)) /\ Stays(o2, Noted(o2, l, ~automatic))
        /\ Placed(Noted(o2, l, ~automatic)) /\ Lasting(Noted(o2, l, ~automatic), core, uses, newest')
    BY <1>16, NotedSound, NotedStays, NotedLasts
  <2> QED BY <1>16, <2>1, Staying
<1> HIDE DEF o3
<1>18. Local(o3.shown \cup {l})
  <2>1. Stays(o1, o2)
    BY <1>15, <1>16, StaysTwice
  <2>2. Stays(o1, o3)
    BY <1>17, <2>1, StaysTwice
  <2>3. Stays(o0, o3) /\ (OtherSurface(o0, l) => o3.shown = {})
    <3>1. Stays(o0, o3)
      BY <1>13, <2>2, StaysTwice
    <3> QED BY <1>13, <2>2, <3>1 DEF Stays
  <2>4. CASE o3.shown = {}
    BY <1>1, <2>4 DEF Local
  <2>5. CASE o3.shown # {}
    <3>1. o3.shown = o0.shown /\ ~OtherSurface(o0, l)
      BY <2>3, <2>5 DEF Stays
    <3> QED BY <1>1, <1>2, <1>8, <3>1, JoinedLocal
  <2> QED BY <2>4, <2>5
<1>19. Sound(k) /\ Placed(k) /\ Lasting(k, core, uses, newest')
  BY <1>2, <1>17, <1>18, CorrelatedSound, CorrelatedLasts
<1> HIDE DEF k
<1>20. Sound(o4) /\ Placed(o4) /\ Lasting(o4, core, uses, newest')
  BY <1>2, <1>19, RevokedSound, RevokedLasts
<1> HIDE DEF o4, now
<1>21. Grouped(core)
  BY DEF Holding
<1>22. StepLasts(Waiting(o3), newest') /\ StepLasts(Waiting(o4), newest')
  BY <1>2, <1>17, <1>20, <1>21, WaitingLasts
<1>23. CASE automatic \/ op = "off" \/ Qualified(o4)
  <2>1. StepLasts(step, newest')
    BY <1>22, <1>23
  <2> HIDE DEF step
  <2> QED BY <1>1, <1>7, <2>1, BecomesLasts
<1>24. CASE ~automatic /\ ~(op = "off" \/ Qualified(o4))
  <2> DEFINE s == Displaced(o4, l, TRUE, clear, now)
  <2>1. step = s
    BY <1>24
  <2>2. s.c # core => sequence + 2 <= MaxSequence
    BY <1>4, <2>1
  <2> HIDE DEF step
  <2>3. StepLasts(s, newest')
    BY <1>2, <1>20, <1>21, <2>2, DisplacedLasts
  <2> HIDE DEF s
  <2> QED BY <1>1, <1>7, <2>1, <2>3, BecomesLasts
<1> QED BY <1>23, <1>24

\* Complete evidence of an armed surface holds its lights off.
LEMMA SecondOffAccepted ==
  ASSUME core \in CoreState, NEW o, Sound(o), NEW s \in Surfaces, SecondOffComplete(s),
         managed \in SUBSET Leaves, Reported(newest), Grouped(core),
         Lasting(o, core, uses, newest)
  PROVE  /\ ArmedReady(o, s, topology[s], TRUE)
         /\ \A l \in core.armed[s] : ArmedOff(o, s).c.intent[l] = "manual_off"
<1> DEFINE S == core.armed[s]
           q == Earliest(Parts(o, S))
           c == Submitted(core, "off", s, S, S, q)
           rest == Dropped(o, S)
<1>1. S # {} /\ S = Managed(topology[s]) /\ Whole(core, s) /\ S \in SUBSET Leaves
  BY DEF SecondOffComplete, Whole, Managed
<1>2. \A l \in S : o.retained[l] = newest[l] /\ newest[l].op = "off" /\ newest[l].age \in 0..Hold
  <2> SUFFICES ASSUME NEW l \in S
               PROVE  o.retained[l] = newest[l] /\ newest[l].op = "off" /\ newest[l].age \in 0..Hold
    OBVIOUS
  <2>1. Needed(core, uses, newest, l)
    BY DEF SecondOffComplete, Needed
  <2>2. newest[l].age \in 0..Hold + 1 /\ newest[l].age < Hold
    BY <1>1, <2>1 DEF Reported, Needed
  <2>3. newest[l].age \in 0..Hold
    <3> DEFINE a == newest[l].age
    <3> HIDE DEF a
    <3>1. a \in 0..Hold + 1 /\ a < Hold
      BY <2>2 DEF a
    <3>2. a \in 0..Hold
      BY <3>1, Bounds
    <3> QED BY <3>2 DEF a
  <2> QED BY <1>1, <2>1, <2>3 DEF Lasting, Kept, Needed
<1>3. Coherent(o, S, "off", Hold)
  <2> SUFFICES ASSUME NEW k \in S, NEW l \in S
               PROVE  o.retained[k].op = "off" /\ o.retained[k].age - o.retained[l].age <= Hold
    BY DEF Coherent
  <2> DEFINE a == o.retained[k].age
             b == o.retained[l].age
  <2>1. a \in 0..Hold /\ b \in 0..Hold
    BY <1>2
  <2> HIDE DEF a, b
  <2>2. a - b <= Hold
    BY <2>1, Bounds
  <2> QED BY <1>2, <2>2 DEF a, b
<1>4. ArmedReady(o, s, topology[s], TRUE)
  BY <1>1, <1>3 DEF ArmedReady
<1>5. Local(S) /\ "off" \in Kinds /\ \A l \in S : o.retained[l].op = "off"
  BY <1>2, ObserverAssumption DEF Grouped, Kinds
<1>6. \A k \in S : ~(q <= core.latest[k])
  <2> SUFFICES ASSUME NEW k \in S, q <= core.latest[k] PROVE FALSE
    OBVIOUS
  <2>1. core.armed[s] \cap S = {}
    BY <1>1, <1>5, EvidenceIsRecent DEF Lasting
  <2> QED BY <1>1, <2>1
<1>7. q \in 0..MaxSequence
  BY <1>1, <1>5, PartsEvident, EarliestLeast, Bounds
<1>8. Receipt("off", s, S) /\ S \subseteq S
  BY <1>1, ObserverAssumption DEF Receipt
<1>9. ArmedOff(o, s).c = c
  BY DEF ArmedOff, Waiting, Step
<1> HIDE DEF q, S
<1>10. c \in CoreState /\ Took(core, c, "off", s, S)
  BY <1>1, <1>6, <1>7, <1>8, Accepting DEF c
<1> HIDE DEF c
<1>11. s \in Aggregates /\ core.armed[s] = S
  BY ObserverAssumption DEF S
<1>12. c.intent = [l \in Leaves |-> IF l \in S THEN "manual_off" ELSE core.intent[l]]
  BY <1>10, <1>11 DEF Took, Turned
<1> QED BY <1>1, <1>4, <1>9, <1>11, <1>12

LEMMA AggregateReportLasts ==
  ASSUME OneSurface, TypeOK, TypeOK', Records, Holding, NEW g \in Aggregates, NEW op \in Kinds,
         NEW clear \in BOOLEAN, AggregateReport(g, op, clear)
  PROVE  /\ Holding'
         /\ g \in Surfaces /\ op = "off" /\ clear /\ SecondOffComplete(g) =>
              \A l \in core.armed[g] : core'.intent[l] = "manual_off"
<1> DEFINE o0 == Looked(obs, g)
           members == o0.cache[g]
           p == Snapshotted(o0)
           o1 == Pruned(p)
           o2 == IF op = "off" THEN o1 ELSE Noted(o1, g, FALSE)
           k == Correlated(o2, {}, {g})
           o3 == Revoked(k)
           shift == IF op = "off" THEN Waiting(o3) ELSE Displaced(o3, g, FALSE, clear, lights)
           step == IF op = "off" /\ ArmedReady(o3, g, members, clear) THEN ArmedOff(o3, g)
                   ELSE IF op = "off" /\ OwnedReady(o3, g, members, clear)
                     THEN OwnedOff(o3, g, Managed(members))
                   ELSE IF Qualified(o3) THEN Single(o3, g, members)
                   ELSE IF shift.c # core THEN shift
                   ELSE Exact(shift.o, g)
<1>1. /\ Numbered(IF shift.c # core /\ step = shift THEN 2 ELSE 1)
      /\ Becomes(step) /\ UNCHANGED <<topology, managed, lights, newest>>
  BY DEF AggregateReport
<1>2. /\ topology \in Topologies /\ managed \in SUBSET Leaves /\ sequence \in Nat
      /\ core \in CoreState /\ Sound(obs) /\ topology \in [Aggregates -> SUBSET Leaves]
      /\ uses \in [1..MaxSequence -> Nat] /\ Reported(newest)
  BY ObserverAssumption DEF TypeOK, Records, Reported
<1>3. /\ Sound(o0) /\ Placed(o0) /\ Lasting(o0, core, uses, newest)
      /\ (g \in Surfaces => members = topology[g])
  <2>1. /\ o0.retained = obs.retained /\ o0.deferred = obs.deferred /\ o0.burst = obs.burst
        /\ o0.shown = obs.shown /\ Sound(o0) /\ (g \in Surfaces => o0.cache = topology)
        /\ \A s \in Surfaces : o0.cache[s] \in {obs.cache[s], topology[s]}
    BY <1>2, LookedSound
  <2>2. g \in Surfaces => members = topology[g]
    BY <2>1
  <2> HIDE DEF o0, members
  <2>3. Placed(o0) /\ Lasting(o0, core, uses, newest)
    BY <2>1 DEF Holding, Placed, Lasting, Recent, Same, Kept
  <2> QED BY <2>1, <2>2, <2>3
<1> HIDE DEF o0
<1>4. members \in SUBSET Leaves
  BY <1>2, <1>3 DEF Sound, ObserverState
<1> HIDE DEF members
<1>5. Sound(p) /\ Placed(p) /\ Lasting(p, core, uses, newest)
  <2>1. p.retained = o0.retained /\ p.deferred = o0.deferred
    BY <1>3 DEF Snapshotted, Sound, ObserverState
  <2>2. Sound(p) /\ Stays(o0, p)
    BY <1>3, SnapshottedSound, Staying
  <2> HIDE DEF p
  <2> QED BY <1>3, <2>1, <2>2, UntouchedLasts
<1> HIDE DEF p
<1>6. Sound(o1) /\ Placed(o1) /\ Lasting(o1, core, uses, newest)
  BY <1>2, <1>5, PrunedSound, PrunedSpares
<1> HIDE DEF o1
<1>7. Sound(o2) /\ Placed(o2) /\ Lasting(o2, core, uses, newest)
  <2>1. /\ Sound(Noted(o1, g, FALSE)) /\ Placed(Noted(o1, g, FALSE))
        /\ Lasting(Noted(o1, g, FALSE), core, uses, newest)
    BY <1>6, NotedSound, NotedLasts
  <2> QED BY <1>6, <2>1
<1> HIDE DEF o2
<1>8. Sound(k) /\ Placed(k) /\ Lasting(k, core, uses, newest)
  <2>1. Local(o2.shown \cup {})
    BY <1>7 DEF Placed
  <2> QED BY <1>2, <1>7, <2>1, CorrelatedSound, CorrelatedLasts
<1> HIDE DEF k
<1>9. Sound(o3) /\ Placed(o3) /\ Lasting(o3, core, uses, newest)
  BY <1>2, <1>8, RevokedSound, RevokedLasts
<1> HIDE DEF o3
<1>10. Grouped(core) /\ GoneIsSilent(newest', lights')
  BY <1>1 DEF Holding
<1>11. Waiting(o3).c = core /\ Waiting(o3).o = o3 /\ StepLasts(Waiting(o3), newest)
  BY <1>2, <1>9, <1>10, WaitingLasts DEF Waiting, Step
<1>12. ASSUME shift.c # core => sequence + 2 <= MaxSequence
       PROVE  /\ StepLasts(shift, newest)
              /\ shift.c = core => /\ Sound(shift.o) /\ Placed(shift.o)
                                   /\ Lasting(shift.o, core, uses, newest)
  <2>1. CASE op = "off"
    <3>1. shift = Waiting(o3)
      BY <2>1
    <3> HIDE DEF shift
    <3> QED BY <1>9, <1>11, <3>1
  <2>2. CASE op # "off"
    <3> DEFINE d == Displaced(o3, g, FALSE, clear, lights)
    <3>1. shift = d
      BY <2>2
    <3>2. (d.c # core => sequence + 2 <= MaxSequence) /\ FALSE \in BOOLEAN /\ (FALSE => g \in Leaves)
      BY <1>12, <3>1
    <3> HIDE DEF shift
    <3>3. StepLasts(d, newest)
      BY <1>2, <1>9, <1>10, <3>2, DisplacedLasts
    <3>4. StepSound(d, {})
      BY <1>2, <1>9, <3>2, DisplacedSound
    <3>5. d.taken = {}
      BY DEF Displaced, Waiting, Step
    <3> HIDE DEF d
    <3> QED BY <1>2, <3>1, <3>3, <3>4, <3>5, AfterNothing DEF StepSound, StepLasts
  <2> QED BY <2>1, <2>2
<1>13. shift.c # core /\ step = shift => sequence + 2 <= MaxSequence
  <2> HIDE DEF shift, step
  <2> QED BY <1>1 DEF Numbered
<1> HIDE DEF shift
<1> DEFINE grouped == \/ op = "off" /\ ArmedReady(o3, g, members, clear)
                      \/ op = "off" /\ OwnedReady(o3, g, members, clear)
<1>14. StepLasts(step, newest)
  <2>1. CASE op = "off" /\ ArmedReady(o3, g, members, clear)
    BY <1>2, <1>9, <1>10, <2>1, ArmedOffLasts
  <2>2. CASE /\ ~(op = "off" /\ ArmedReady(o3, g, members, clear))
             /\ op = "off" /\ OwnedReady(o3, g, members, clear)
    <3>1. members = topology[g]
      BY <1>3, <2>2 DEF OwnedReady
    <3> QED BY <1>2, <1>9, <1>10, <2>2, <3>1, OwnedOffLasts
  <2>3. CASE ~grouped /\ Qualified(o3)
    <3>1. step = Single(o3, g, members)
      BY <2>3
    <3> HIDE DEF step
    <3> QED BY <1>2, <1>4, <1>9, <1>10, <3>1, SingleLasts
  <2>4. CASE ~grouped /\ ~Qualified(o3) /\ shift.c # core
    <3>1. step = shift
      BY <2>4
    <3> HIDE DEF step
    <3> QED BY <1>12, <1>13, <2>4, <3>1
  <2>5. CASE ~grouped /\ ~Qualified(o3) /\ shift.c = core
    <3>1. step = Exact(shift.o, g)
      BY <2>5
    <3> HIDE DEF step
    <3> QED BY <1>2, <1>10, <1>12, <2>5, <3>1, ExactLasts
  <2> QED BY <2>1, <2>2, <2>3, <2>4, <2>5
<1>15. ASSUME g \in Surfaces, op = "off", clear, SecondOffComplete(g)
       PROVE  \A l \in core.armed[g] : core'.intent[l] = "manual_off"
  <2>1. /\ ArmedReady(o3, g, topology[g], TRUE)
        /\ \A l \in core.armed[g] : ArmedOff(o3, g).c.intent[l] = "manual_off"
    BY <1>2, <1>9, <1>10, <1>15, SecondOffAccepted
  <2>2. clear = TRUE /\ members = topology[g]
    BY <1>3, <1>15
  <2>3. step = ArmedOff(o3, g)
    BY <1>15, <2>1, <2>2
  <2> HIDE DEF step
  <2>4. core' = ArmedOff(o3, g).c
    BY <1>1, <2>3 DEF Becomes
  <2> QED BY <2>1, <2>4
<1> HIDE DEF step
<1>16. Holding'
  BY <1>1, <1>10, <1>14, BecomesLasts
<1> QED BY <1>15, <1>16

\* What a receipt for all of its members, or for some lights of a surface, takes.
LEMMA UserCommandLasts ==
  ASSUME TypeOK, TypeOK', Records, Counting, Holding, NEW l \in Leaves, NEW op \in Kinds,
         UserCommand(l, op)
  PROVE  Holding'
<1> DEFINE q == sequence + 1
           c == Submitted(core, op, None, {l}, {l}, q)
           r == Established(obs, {l})
           step == Step(r, c, {})
<1>1. /\ Becomes(step) /\ sequence' = q /\ q \in 0..MaxSequence /\ q \in Nat
      /\ UNCHANGED <<topology, managed>>
      /\ newest'[l] = [op |-> op, seq |-> q, age |-> 0]
      /\ \A k \in Leaves : k # l => newest'[k] = newest[k] /\ lights'[k] = lights[k]
      /\ lights'[l] # "gone"
  BY Bounds DEF UserCommand, Numbered, TypeOK, NowAsked
<1>2. /\ core \in CoreState /\ Sound(obs) /\ uses \in [1..MaxSequence -> Nat] /\ Known(core, sequence)
      /\ Reported(newest) /\ Reported(newest') /\ sequence \in Nat
      /\ Placed(obs) /\ Grouped(core) /\ Lasting(obs, core, uses, newest)
  BY DEF Records, Counting, Account, Holding, TypeOK, Reported
<1>3. Receipt(op, None, {l}) /\ {l} \subseteq {l} /\ {l} \in SUBSET Leaves
  BY DEF Receipt
<1>4. Sound(r) /\ Shrunk(obs, r) /\ Stays(obs, r) /\ r.retained = obs.retained /\ Placed(r)
  BY <1>2, EstablishedSound, Shrinking, Staying, RetiredRetains, StaysPlaced
<1>5. step.o = r /\ step.c = c /\ step.taken = {}
  BY DEF Step
<1>6. ~(\E k \in {l} : q <= core.latest[k])
  <2> DEFINE x == core.latest[l]
  <2>1. x <= sequence /\ x \in Nat
    BY <1>2, Bounds DEF Known, CoreState
  <2> HIDE DEF x
  <2>2. ~(q <= x)
    BY <1>2, <2>1
  <2> QED BY <2>2 DEF x
<1> HIDE DEF step, r, q
<1>7. /\ c \in CoreState /\ Took(core, c, op, None, {l}) /\ Noticed(core, c, {l}, q)
      /\ \A k \in {l} : core.latest[k] < q
  BY <1>1, <1>2, <1>3, <1>6, Accepting
<1> HIDE DEF c
<1>8. None \notin Aggregates /\ None \notin Surfaces /\ {} \in SUBSET (1..MaxSequence)
  BY ObserverAssumption
<1>9. Taking(obs, r, c, op, None, {l}, {l}, q, {})
  BY <1>1, <1>2, <1>3, <1>4, <1>7, <1>8 DEF Taking
<1>10. Grouped(c) /\ Lasting(r, c, After({}), newest)
  BY <1>2, <1>9, TakenLasts
<1>11. Lasting(r, c, After({}), newest')
  <2>1. newest'[l].seq <= c.latest[l]
    <3> DEFINE y == c.latest[l]
    <3>1. y = q
      BY <1>7 DEF Noticed
    <3> HIDE DEF y
    <3> QED BY <1>1, <3>1 DEF y
  <2> QED BY <1>1, <1>2, <1>7, <1>10, <2>1, UnneededLasts
<1>12. StepLasts(step, newest')
  BY <1>4, <1>5, <1>10, <1>11 DEF StepLasts
<1>13. GoneIsSilent(newest', lights')
  BY <1>1 DEF GoneIsSilent, Holding
<1> QED BY <1>1, <1>12, <1>13, BecomesLasts

LEMMA ChainReportLasts ==
  ASSUME TypeOK, TypeOK', Records, Holding, NEW l \in Leaves, NEW op \in Kinds, ChainReport(l, op)
  PROVE  Holding'
<1> DEFINE r == Dropped(obs, {l})
<1>1. /\ Becomes(Waiting(r)) /\ UNCHANGED <<topology, managed>>
      /\ newest'[l].op = "none"
      /\ \A k \in Leaves : k # l => newest'[k] = newest[k] /\ lights'[k] = lights[k]
  BY DEF ChainReport, TypeOK, NowAsked
<1>2. /\ core \in CoreState /\ Sound(obs) /\ uses \in [1..MaxSequence -> Nat]
      /\ Reported(newest) /\ Reported(newest')
      /\ Placed(obs) /\ Grouped(core) /\ Lasting(obs, core, uses, newest)
  BY DEF Records, Holding, TypeOK, Reported
<1>3. /\ Sound(r) /\ Shrunk(obs, r) /\ Stays(obs, r)
      /\ \A k \in Leaves : r.retained[k] = IF k \in {l} THEN Nothing ELSE obs.retained[k]
  BY <1>2, DroppedSound, DroppedShrinks, DroppedStays, DroppedRetains
<1> HIDE DEF r
<1>4. Lasting(obs, core, uses, newest')
  BY <1>1, <1>2, UnneededLasts
<1>5. Spared(obs, r, core, uses, newest')
  <2> SUFFICES ASSUME NEW s \in Surfaces, Whole(core, s), NEW k \in core.armed[s],
                      Needed(core, uses, newest', k)
               PROVE  r.retained[k] = obs.retained[k]
    BY DEF Spared
  <2>1. k \in Leaves /\ k # l
    BY <1>1, <1>2, ObserverAssumption DEF CoreState, Needed
  <2> QED BY <1>3, <2>1
<1>6. Lasting(r, core, uses, newest') /\ Placed(r)
  BY <1>2, <1>3, <1>4, <1>5, SparedLasts, StaysPlaced
<1>7. StepLasts(Waiting(r), newest')
  BY <1>2, <1>6, WaitingLasts
<1>8. GoneIsSilent(newest', lights')
  BY <1>1 DEF GoneIsSilent, Holding
<1> QED BY <1>1, <1>7, <1>8, BecomesLasts

LEMMA SceneRecallLasts ==
  ASSUME OneSurface, TypeOK, TypeOK', Records, Counting, Holding, NEW s \in Surfaces, SceneRecall(s)
  PROVE  Holding'
<1> DEFINE S == Managed(topology[s])
           p == [obs EXCEPT !.cache = topology, !.displaced[s] = Closed, !.recall[s] = Burst]
           w == Dropped(p, S)
           o == Forgotten(w)
           ok == {l \in S : lights[l] # "gone"}
           q == sequence + 1
           c == Submitted(core, "appearance", s, ok, S, q)
           r == IF c = core THEN o ELSE Established(o, ok)
           step == Step(r, c, {})
<1>1. /\ Becomes(step) /\ sequence' = q /\ q \in 0..MaxSequence /\ q \in Nat
      /\ UNCHANGED <<topology, managed, lights>>
      /\ \A l \in Leaves : IF l \in ok THEN newest'[l].op = "appearance" ELSE newest'[l] = newest[l]
  BY Bounds DEF SceneRecall, Numbered, TypeOK, NowAsked
<1>2. /\ topology \in [Aggregates -> SUBSET Leaves] /\ managed \in SUBSET Leaves
      /\ core \in CoreState /\ Sound(obs) /\ uses \in [1..MaxSequence -> Nat]
      /\ Known(core, sequence) /\ sequence \in Nat
      /\ Reported(newest) /\ Reported(newest')
      /\ Placed(obs) /\ Grouped(core) /\ Lasting(obs, core, uses, newest)
  BY ObserverAssumption DEF TypeOK, Records, Counting, Account, Holding, Reported
<1>3. Sound(p) /\ Shrunk(obs, p) /\ Placed(p) /\ p.retained = obs.retained /\ Lasting(p, core, uses, newest)
  <2> DEFINE f == [obs.displaced EXCEPT ![s] = Closed]
             h == [obs.recall EXCEPT ![s] = Burst]
  <2>1. f \in [Surfaces -> Window] /\ h \in [Surfaces -> -1..Burst]
    BY <1>2, Bounds DEF Sound, ObserverState
  <2>2. p = [obs EXCEPT !.cache = topology, !.displaced = f, !.recall = h]
    BY <1>2 DEF Sound, ObserverState
  <2> HIDE DEF f, h
  <2>3. Sound(p)
    BY <1>2, <2>1, <2>2 DEF Sound, Quiet, ObserverState
  <2>4. /\ p.retained = obs.retained /\ p.deferred = obs.deferred /\ p.burst = obs.burst
        /\ p.cache = topology /\ p.shown = obs.shown
    BY <1>2, <2>2 DEF Sound, ObserverState
  <2> HIDE DEF p
  <2>5. Placed(p) /\ Lasting(p, core, uses, newest)
    BY <1>2, <2>4 DEF Placed, Lasting, Recent, Same, Kept
  <2> QED BY <2>3, <2>4, <2>5 DEF Shrunk
<1>4. ok \in SUBSET Leaves /\ ok \subseteq S /\ S \in SUBSET Leaves /\ S = Managed(topology[s])
      /\ \A l \in S \ ok : lights[l] = "gone"
  BY <1>2 DEF Managed
<1> HIDE DEF p, ok, S
<1>5. /\ Sound(w) /\ Shrunk(p, w) /\ Stays(p, w)
      /\ \A l \in Leaves : w.retained[l] = IF l \in S THEN Nothing ELSE p.retained[l]
  BY <1>3, DroppedSound, DroppedShrinks, DroppedStays, DroppedRetains
<1> HIDE DEF w
<1>6. Sound(o) /\ Shrunk(w, o) /\ Stays(w, o) /\ o.retained = w.retained
  BY <1>5, ForgottenSound, RetiredShrinks, RetiredStays, RetiredRetains
<1> HIDE DEF o
<1>7. Sound(r) /\ Shrunk(o, r) /\ Stays(o, r) /\ r.retained = o.retained
  <2> HIDE DEF c
  <2> QED BY <1>6, EstablishedSound, Shrinking, Staying, RetiredRetains
<1>8. step.o = r /\ step.c = c /\ step.taken = {}
  BY DEF Step
<1> HIDE DEF r, step
<1>9. Shrunk(p, r) /\ Placed(r) /\ \A l \in Leaves \ S : r.retained[l] = p.retained[l]
  <2>1. Shrunk(w, r) /\ Stays(w, r)
    BY <1>6, <1>7, ShrunkTwice, StaysTwice
  <2>2. Shrunk(p, r) /\ Stays(p, r)
    BY <1>5, <2>1, ShrunkTwice, StaysTwice
  <2> QED BY <1>3, <1>5, <1>6, <1>7, <2>2, StaysPlaced
<1>10. \A k \in ok : ~(q <= core.latest[k])
  <2> SUFFICES ASSUME NEW k \in ok PROVE ~(q <= core.latest[k])
    OBVIOUS
  <2> DEFINE x == core.latest[k]
  <2>1. x <= sequence /\ x \in Nat
    BY <1>2, <1>4, Bounds DEF Known, CoreState
  <2> HIDE DEF x
  <2>2. ~(q <= x)
    BY <1>2, <2>1
  <2> QED BY <2>2 DEF x
<1>11. Receipt("appearance", s, ok)
  BY <1>4, ObserverAssumption DEF Receipt
<1> HIDE DEF q
<1>12. Grouped(c) /\ Lasting(r, c, After({}), newest) /\ c \in CoreState
  <2>1. CASE ok = {}
    <3>1. c = core
      BY <2>1 DEF Submitted
    <3>2. Spared(p, r, core, uses, newest)
      <4> SUFFICES ASSUME NEW t \in Surfaces, Whole(core, t), NEW k \in core.armed[t],
                          Needed(core, uses, newest, k)
                   PROVE  r.retained[k] = p.retained[k]
        BY DEF Spared
      <4>1. k \in Leaves /\ newest[k].op = "off"
        BY <1>2, ObserverAssumption DEF CoreState, Needed
      <4>2. k \notin S
        BY <1>4, <2>1, <4>1 DEF Holding, GoneIsSilent
      <4> QED BY <1>9, <4>1, <4>2
    <3>3. Lasting(r, core, uses, newest)
      BY <1>2, <1>3, <1>9, <3>2, SparedLasts
    <3> QED BY <1>2, <3>1, <3>3, AfterNothing
  <2>2. CASE ok # {}
    <3>1. /\ c \in CoreState /\ Took(core, c, "appearance", s, ok) /\ Noticed(core, c, S, q)
          /\ \A l \in ok : core.latest[l] < q
      BY <1>1, <1>2, <1>4, <1>10, <1>11, <2>2, Accepting
    <3> HIDE DEF c
    <3>2. ASSUME NEW t \in Surfaces, Whole(core, t), core.armed[t] \cap ok = {}
          PROVE  core.armed[t] \cap S = {}
      <4> SUFFICES ASSUME NEW l \in core.armed[t] \cap S PROVE FALSE
        OBVIOUS
      <4>1. t = s
        BY <1>4, <3>2, OwnSurface DEF Whole
      <4> QED BY <1>4, <2>2, <3>2, <4>1 DEF Whole
    <3>3. "appearance" \in Kinds /\ "appearance" # "off" /\ {} \in SUBSET (1..MaxSequence)
      BY DEF Kinds
    <3>4. Taking(p, r, c, "appearance", s, ok, S, q, {})
      BY <1>1, <1>3, <1>4, <1>7, <1>9, <3>1, <3>2, <3>3 DEF Taking
    <3> QED BY <1>2, <1>3, <3>1, <3>4, TakenLasts
  <2> QED BY <2>1, <2>2
<1> HIDE DEF c
<1>13. Lasting(r, c, After({}), newest')
  BY <1>1, <1>2, <1>12, UnneededLasts
<1>14. StepLasts(step, newest')
  BY <1>8, <1>9, <1>12, <1>13 DEF StepLasts
<1>15. GoneIsSilent(newest', lights')
  BY <1>1 DEF GoneIsSilent, Holding
<1> QED BY <1>1, <1>14, <1>15, BecomesLasts

LEMMA SceneDisplacedLasts ==
  ASSUME Records, Holding, NEW s \in Surfaces, SceneDisplaced(s)
  PROVE  Holding'
<1> DEFINE f == [obs.displaced EXCEPT ![s] = [(IF obs.recent[s].left >= 0 THEN obs.recent[s] ELSE Closed)
                                               EXCEPT !.left = Hold]]
           o == [obs EXCEPT !.displaced = f]
<1>1. Becomes(Waiting(o)) /\ UNCHANGED <<topology, managed, lights, sequence, newest>>
  BY DEF SceneDisplaced
<1>2. /\ core \in CoreState /\ Sound(obs) /\ uses \in [1..MaxSequence -> Nat]
      /\ Placed(obs) /\ Grouped(core) /\ Lasting(obs, core, uses, newest)
  BY DEF Records, Holding
<1> HIDE DEF f
<1>3. o.retained = obs.retained /\ o.deferred = obs.deferred /\ Stays(obs, o)
  BY <1>2 DEF Sound, ObserverState, Stays
<1> HIDE DEF o
<1>4. Placed(o) /\ Lasting(o, core, uses, newest)
  BY <1>2, <1>3, UntouchedLasts
<1>5. StepLasts(Waiting(o), newest') /\ GoneIsSilent(newest', lights')
  BY <1>1, <1>2, <1>4, WaitingLasts DEF Holding
<1> QED BY <1>1, <1>5, BecomesLasts

-----------------------------------------------------------------------------
(* Timers, time and the lifecycle *)

LEMMA SingleFiresLasts ==
  ASSUME TypeOK, TypeOK', Records, Holding, NEW l \in Leaves, SingleFires(l)
  PROVE  Holding'
<1> DEFINE o == Uncalled(obs, {l})
           timer == obs.singles[l]
           step == IF o.retained[l].op = timer.op THEN SingleApplied(o, l) ELSE Waiting(o)
<1>1. Becomes(step) /\ UNCHANGED <<topology, managed, lights, newest>>
  BY DEF SingleFires
<1>2. /\ core \in CoreState /\ Sound(obs) /\ uses \in [1..MaxSequence -> Nat] /\ Reported(newest)
      /\ Placed(obs) /\ Grouped(core) /\ Lasting(obs, core, uses, newest)
  BY DEF Records, Holding, TypeOK, Reported
<1>3. Sound(o) /\ Placed(o) /\ Lasting(o, core, uses, newest)
  BY <1>2, UncalledLasts
<1> HIDE DEF o, timer
<1>4. StepLasts(SingleApplied(o, l), newest) /\ StepLasts(Waiting(o), newest)
  BY <1>2, <1>3, SingleAppliedLasts, WaitingLasts
<1>5. StepLasts(step, newest') /\ GoneIsSilent(newest', lights')
  BY <1>1, <1>4 DEF Holding
<1> HIDE DEF step
<1> QED BY <1>1, <1>5, BecomesLasts

\* A group that waited is part of an armed one.  The ledger refuses it, when the whole
\* surface is armed, only if its reports are no evidence any more.
LEMMA GroupFiresLasts ==
  ASSUME TypeOK, TypeOK', Records, Counting, Holding, NEW d \in obs.deferred, GroupFires(d)
  PROVE  Holding'
<1> DEFINE o == [obs EXCEPT !.deferred = @ \ {d}]
           S == LeavesOf(d)
           parts == d.parts
           g == d.group
           step == IF StillNested(d) THEN GroupApplied(o, g, "off", parts) ELSE Waiting(o)
<1>1. Becomes(step) /\ UNCHANGED <<topology, managed, lights, newest>>
  BY DEF GroupFires
<1>2. /\ core \in CoreState /\ Sound(obs) /\ uses \in [1..MaxSequence -> Nat] /\ Reported(newest)
      /\ Placed(obs) /\ Grouped(core) /\ Lasting(obs, core, uses, newest)
  BY DEF Records, Holding, TypeOK, Reported
<1>3. o.retained = obs.retained /\ o.deferred \subseteq obs.deferred /\ Stays(obs, o) /\ Sound(o)
  <2>1. /\ o.deferred = obs.deferred \ {d} /\ o.retained = obs.retained /\ o.burst = obs.burst
        /\ o.cache = obs.cache /\ o.shown = obs.shown
    BY <1>2 DEF Sound, ObserverState
  <2>2. Sound(o)
    BY <1>2 DEF Sound, Quiet, ObserverState
  <2> QED BY <2>1, <2>2 DEF Stays
<1> HIDE DEF o
<1>4. Placed(o) /\ Lasting(o, core, uses, newest)
  BY <1>2, <1>3, UntouchedLasts
<1>5. /\ g \in Aggregates /\ d.parent \in Aggregates /\ parts \in SUBSET (Leaves \X (1..MaxSequence))
      /\ S \in SUBSET Leaves /\ S = {p[1] : p \in parts}
      /\ \A p \in parts : p[1] \in S /\ p[1] \in Leaves /\ p[2] \in 1..MaxSequence
  <2>1. d.group \in Aggregates /\ d.parent \in Aggregates
    BY <1>2 DEF Sound, ObserverState, Deferral
  <2> QED BY <1>2, <2>1, PartsOf DEF LeavesOf
<1>6. parts # {}
  BY DEF Counting, Account, Ordered, BurstIsLater
<1>7. ASSUME StillNested(d)
      PROVE  StepLasts(GroupApplied(o, g, "off", parts), newest)
  <2> DEFINE P == core.armed[d.parent]
  <2>1. S \subseteq P /\ S # P /\ Local(P) /\ Local(S)
    <3>1. S \subseteq P /\ S # P
      BY <1>7 DEF StillNested
    <3>2. Local(P)
      BY <1>2, <1>5 DEF Grouped
    <3> QED BY <3>1, <3>2, LocalParts
  <2>2. ~(g \in Surfaces /\ S = Managed(topology[g]))
    <3> SUFFICES ASSUME g \in Surfaces, S = Managed(topology[g]) PROVE FALSE
      OBVIOUS
    <3>1. PICK p \in parts : TRUE
      BY <1>6
    <3>2. p[1] \in P /\ p[1] \in Managed(topology[g])
      BY <1>5, <2>1, <3>1
    <3>3. P \subseteq Managed(topology[g])
      BY <2>1, <3>2, SharedSurface
    <3> QED BY <2>1, <3>3
  <2>3. ASSUME NEW k \in S, Earliest(parts) <= core.latest[k], NEW s \in Surfaces, Whole(core, s),
               NEW l \in core.armed[s] \cap S, <<l, o.retained[l].seq>> \in parts
        PROVE  FALSE
    <3>1. d.parent = s
      BY <1>2, <1>5, <2>1, <2>3, ObserverAssumption DEF Grouped
    <3>2. \/ \A p \in parts : p[1] \in core.armed[s] => p[2] > core.latest[p[1]]
          \/ \A p \in parts : p[1] \in core.armed[s] => obs.retained[p[1]].seq # p[2]
      BY <1>2, <2>3 DEF Lasting, Recent
    <3>3. CASE \A p \in parts : p[1] \in core.armed[s] => p[2] > core.latest[p[1]]
      <4>1. PICK p \in parts : Earliest(parts) = p[2]
        BY <1>5, <1>6, EarliestLeast
      <4> DEFINE q == Earliest(parts)
                 x == core.latest[k]
      <4>2. p[1] \in core.armed[s] /\ k \in core.armed[s]
        BY <1>5, <2>1, <3>1, <4>1
      <4>3. core.latest[p[1]] = x /\ q > core.latest[p[1]]
        BY <1>2, <2>3, <3>3, <4>1, <4>2 DEF Grouped
      <4>4. q \in Nat /\ x \in Nat /\ q <= x
        <5>1. q \in 1..MaxSequence /\ x \in 0..MaxSequence
          BY <1>2, <1>5, <2>3, <4>1 DEF CoreState
        <5> QED BY <5>1, <2>3, Bounds
      <4> HIDE DEF q, x
      <4> QED BY <4>3, <4>4
    <3>4. CASE \A p \in parts : p[1] \in core.armed[s] => obs.retained[p[1]].seq # p[2]
      <4> DEFINE n == o.retained[l].seq
      <4>1. <<l, n>> \in parts /\ l \in core.armed[s] /\ n = obs.retained[l].seq
        BY <1>3, <2>3
      <4> HIDE DEF n
      <4> QED BY <3>4, <4>1
    <3> QED BY <3>2, <3>3, <3>4
  <2>4. "off" \in Kinds
    BY DEF Kinds
  <2> HIDE DEF S, parts, g, P
  <2>5. StepLasts(GroupApplied(o, g, "off", parts), newest)
    BY <1>2, <1>3, <1>4, <1>5, <1>6, <2>1, <2>2, <2>3, <2>4, GroupAppliedLasts
  <2> QED BY <2>5 DEF parts, g
<1>8. StepLasts(Waiting(o), newest)
  BY <1>2, <1>4, WaitingLasts
<1>9. StepLasts(step, newest') /\ GoneIsSilent(newest', lights')
  BY <1>1, <1>7, <1>8 DEF Holding
<1> HIDE DEF step
<1> QED BY <1>1, <1>9, BecomesLasts

LEMMA ExpiryFiresLasts ==
  ASSUME TypeOK, TypeOK', Records, Holding, ExpiryFires
  PROVE  Holding'
<1> DEFINE old == Expirable(obs)
           rest == Without(obs, old)
           n == IF Held(rest) = {} THEN -1 ELSE Burst
           o == [rest EXCEPT !.expiry = n]
<1>1. Becomes(Waiting(o)) /\ UNCHANGED <<topology, managed, lights, newest>>
  BY DEF ExpiryFires, Expired
<1>2. /\ core \in CoreState /\ Sound(obs) /\ uses \in [1..MaxSequence -> Nat] /\ Reported(newest)
      /\ Placed(obs) /\ Grouped(core) /\ Lasting(obs, core, uses, newest)
  BY DEF Records, Holding, TypeOK, Reported
<1>3. ASSUME NEW s \in Surfaces, Whole(core, s), NEW l \in core.armed[s],
             Needed(core, uses, newest, l)
      PROVE  l \in Leaves /\ l \notin old
  <2>1. l \in Leaves /\ obs.retained[l] = newest[l]
    BY <1>2, <1>3, ObserverAssumption DEF CoreState, Lasting, Kept
  <2>2. newest[l].op = "off" /\ newest[l].age < Hold /\ newest[l].age \in Nat
    BY <1>2, <1>3, <2>1, Bounds DEF Needed, Reported
  <2>3. HoldOf(obs, l, "off") = Hold
    <3>1. obs.cache[s] = topology[s]
      BY <1>2 DEF Placed
    <3> QED BY <1>3, <3>1 DEF HoldOf, Whole
  <2>4. ~(obs.retained[l].age >= Hold) /\ obs.retained[l].op = "off"
    BY <2>1, <2>2, Bounds
  <2> QED BY <2>1, <2>3, <2>4 DEF Expirable
<1> HIDE DEF old
<1>4. /\ Sound(rest) /\ Shrunk(obs, rest) /\ Stays(obs, rest)
      /\ \A l \in Leaves : rest.retained[l] = IF l \in old THEN Nothing ELSE obs.retained[l]
  BY <1>2, WithoutSound, Shrinking, Staying, WithoutRetains
<1> HIDE DEF rest, n
<1>5. Spared(obs, rest, core, uses, newest)
  BY <1>3, <1>4 DEF Spared
<1>6. Lasting(rest, core, uses, newest) /\ Placed(rest)
  BY <1>2, <1>4, <1>5, SparedLasts, StaysPlaced
<1>7. o.retained = rest.retained /\ o.deferred = rest.deferred /\ Stays(rest, o)
  BY <1>4 DEF Sound, ObserverState, Stays
<1> HIDE DEF o
<1>8. Placed(o) /\ Lasting(o, core, uses, newest)
  BY <1>6, <1>7, UntouchedLasts
<1>9. StepLasts(Waiting(o), newest') /\ GoneIsSilent(newest', lights')
  BY <1>1, <1>2, <1>8, WaitingLasts DEF Holding
<1> QED BY <1>1, <1>9, BecomesLasts

\* A report and the evidence of it grow old together.
LEMMA TickLasts ==
  ASSUME TypeOK, Records, Holding, Tick
  PROVE  Holding'
<1>1. /\ Sound(obs) /\ obs \in ObserverState /\ Reported(newest) /\ core \in CoreState
      /\ Placed(obs) /\ Grouped(core) /\ Lasting(obs, core, uses, newest)
  BY DEF Records, Sound, TypeOK, Reported, Holding
<1>2. /\ obs'.retained = [l \in Leaves |-> Older(obs.retained[l])]
      /\ obs'.deferred = {Nearer(d) : d \in obs.deferred}
      /\ obs'.burst = [obs.burst EXCEPT !.idle = Later(@)]
      /\ obs'.cache = obs.cache /\ obs'.shown = obs.shown
  BY <1>1 DEF Tick, ObserverState
<1>3. UNCHANGED <<topology, managed, lights, core, uses>>
  BY DEF Tick
<1>4. \A s \in Surfaces : (Whole(core, s)' <=> Whole(core, s)) /\ core.armed[s] \in SUBSET Leaves
  BY <1>1, <1>3, ObserverAssumption DEF Whole, Managed, CoreState
<1>5. \A l \in Leaves : /\ obs'.retained[l] = Older(obs.retained[l])
                        /\ obs'.retained[l] = Nothing <=> obs.retained[l] = Nothing
                        /\ obs'.retained[l].seq = obs.retained[l].seq
  <2> SUFFICES ASSUME NEW l \in Leaves
               PROVE  /\ obs'.retained[l] = Older(obs.retained[l])
                      /\ obs'.retained[l] = Nothing <=> obs.retained[l] = Nothing
                      /\ obs'.retained[l].seq = obs.retained[l].seq
    OBVIOUS
  <2> DEFINE e == obs.retained[l]
  <2>1. e \in Evidence \cup {Nothing} /\ obs'.retained[l] = Older(e)
    BY <1>1, <1>2 DEF ObserverState
  <2> HIDE DEF e
  <2>2. Older(e).seq = e.seq /\ Older(e).op = e.op
    BY <2>1 DEF Older, Evidence, Nothing
  <2>3. Older(e) = Nothing <=> e = Nothing
    BY <2>1, <2>2 DEF Older, Evidence, Nothing, Kinds
  <2> QED BY <2>1, <2>2, <2>3 DEF e
<1>6. \A e \in obs'.deferred : \E d \in obs.deferred : e.parts = d.parts
  <2> SUFFICES ASSUME NEW d \in obs.deferred PROVE Nearer(d).parts = d.parts
    BY <1>2
  <2> QED BY <1>1 DEF Nearer, ObserverState, Deferral
<1>7. ASSUME NEW l \in Leaves
      PROVE  /\ newest'[l].op = newest[l].op /\ newest'[l].seq = newest[l].seq
             /\ newest'[l].op = "off" => newest'[l] = Older(newest[l])
             /\ newest'[l].op = "off" /\ newest'[l].age < Hold => newest[l].age < Hold
  <2> DEFINE e == newest[l]
  <2>1. newest'[l] = IF e.op = "off" THEN Older(e) ELSE e
    BY DEF Tick, TypeOK
  <2>2. e \in [op : Kinds \cup {"none"}, seq : 0..MaxSequence, age : 0..Hold + 1]
    BY DEF TypeOK
  <2> HIDE DEF e
  <2>3. Older(e).seq = e.seq /\ Older(e).op = e.op
    BY <2>2 DEF Older
  <2>4. e.op = "off" /\ Older(e).age < Hold => e.age < Hold
    <3> SUFFICES ASSUME e.op = "off", ~(e.age < Hold) PROVE ~(Older(e).age < Hold)
      OBVIOUS
    <3> DEFINE a == e.age
    <3>1. a \in 0..Hold + 1
      BY <2>2
    <3>2. Older(e).age = IF a > Hold THEN a ELSE a + 1
      BY <2>2 DEF Older
    <3> HIDE DEF a
    <3>3. ~(a < Hold)
      BY DEF a
    <3>4. ~((IF a > Hold THEN a ELSE a + 1) < Hold)
      BY <3>1, <3>3, Bounds
    <3> QED BY <3>2, <3>4
  <2> QED BY <2>1, <2>3, <2>4 DEF e
<1>8. Placed(obs)'
  <2>1. obs'.burst.leaves = obs.burst.leaves
    BY <1>1, <1>2 DEF ObserverState, BurstState
  <2> QED BY <1>1, <1>2, <1>3, <2>1 DEF Placed, Local
<1>9. Grouped(core)'
  BY <1>1, <1>3, <1>4 DEF Grouped, Local
<1>10. Recent(obs, core)'
  <2> SUFFICES ASSUME NEW s \in Surfaces, Whole(core, s)
               PROVE  /\ \A l \in core.armed[s] : obs'.retained[l] # Nothing => obs'.retained[l].seq > core.latest[l]
                      /\ \A e \in obs'.deferred :
                           \/ \A p \in e.parts : p[1] \in core.armed[s] => p[2] > core.latest[p[1]]
                           \/ \A p \in e.parts : p[1] \in core.armed[s] => obs'.retained[p[1]].seq # p[2]
    BY <1>3, <1>4 DEF Recent
  <2>1. /\ \A l \in core.armed[s] : obs.retained[l] # Nothing => obs.retained[l].seq > core.latest[l]
        /\ \A e \in obs.deferred :
             \/ \A p \in e.parts : p[1] \in core.armed[s] => p[2] > core.latest[p[1]]
             \/ \A p \in e.parts : p[1] \in core.armed[s] => obs.retained[p[1]].seq # p[2]
    BY <1>1 DEF Lasting, Recent
  <2>2. \A l \in core.armed[s] : l \in Leaves
    BY <1>4
  <2>3. \A l \in core.armed[s] : obs'.retained[l] # Nothing => obs'.retained[l].seq > core.latest[l]
    BY <1>5, <2>1, <2>2
  <2>4. ASSUME NEW e \in obs'.deferred
        PROVE  \/ \A p \in e.parts : p[1] \in core.armed[s] => p[2] > core.latest[p[1]]
               \/ \A p \in e.parts : p[1] \in core.armed[s] => obs'.retained[p[1]].seq # p[2]
    <3>1. PICK d \in obs.deferred : e.parts = d.parts
      BY <1>6
    <3>2. CASE \A p \in d.parts : p[1] \in core.armed[s] => p[2] > core.latest[p[1]]
      BY <3>1, <3>2
    <3>3. CASE \A p \in d.parts : p[1] \in core.armed[s] => obs.retained[p[1]].seq # p[2]
      BY <1>5, <2>2, <3>1, <3>3
    <3> QED BY <2>1, <3>2, <3>3
  <2> QED BY <2>3, <2>4
<1>11. Same(obs, core, newest)'
  <2> SUFFICES ASSUME NEW l \in Leaves, obs'.retained[l] # Nothing, newest'[l].op = "off",
                      newest'[l].seq > core.latest[l]
               PROVE  obs'.retained[l] = newest'[l]
    BY <1>3 DEF Same
  <2>1. obs.retained[l] = newest[l]
    BY <1>1, <1>5, <1>7 DEF Lasting, Same
  <2> QED BY <1>5, <1>7, <2>1
<1>12. Kept(obs, core, uses, newest)'
  <2> SUFFICES ASSUME NEW s \in Surfaces, Whole(core, s), NEW l \in core.armed[s],
                      Needed(core, uses, newest', l)
               PROVE  obs'.retained[l] = newest'[l]
    BY <1>3, <1>4 DEF Kept, Needed
  <2>1. l \in Leaves
    BY <1>4
  <2>2. newest'[l].op = "off" /\ Needed(core, uses, newest, l)
    BY <1>7, <2>1 DEF Needed
  <2>3. obs.retained[l] = newest[l]
    BY <1>1, <2>2 DEF Lasting, Kept
  <2> QED BY <1>5, <1>7, <2>1, <2>2, <2>3
<1>13. GoneIsSilent(newest, lights)'
  BY <1>3, <1>7 DEF Holding, GoneIsSilent
<1> QED BY <1>8, <1>9, <1>10, <1>11, <1>12, <1>13 DEF Holding, Lasting

\* Where nothing is armed, nothing must last.
LEMMA DisarmedLasts ==
  ASSUME \A g \in Aggregates : core'.armed[g] = {}, \A s \in Surfaces : obs'.cache[s] = topology'[s],
         obs'.shown = {}, obs'.burst.leaves = {}, Same(obs', core', newest'),
         GoneIsSilent(newest', lights')
  PROVE  Holding'
<1>1. \A s \in Surfaces : ~Whole(core, s)'
  BY ObserverAssumption DEF Whole
<1>2. Local({})'
  BY DEF Local
<1>3. Placed(obs)' /\ Grouped(core)'
  BY <1>1, <1>2 DEF Placed, Grouped
<1>4. Recent(obs, core)' /\ Kept(obs, core, uses, newest)'
  BY <1>1 DEF Recent, Kept
<1> QED BY <1>3, <1>4 DEF Holding, Lasting

LEMMA ClearedForgets ==
  ASSUME NEW o, Sound(o)
  PROVE  /\ Cleared(o).cache = o.cache /\ Cleared(o).shown = {} /\ Cleared(o).burst.leaves = {}
<1> DEFINE w == Dropped(o, Leaves)
           f == Forgotten(w)
           r == Cleared(o)
<1>1. Sound(w) /\ Stays(o, w)
  BY DroppedSound, DroppedStays
<1> HIDE DEF w
<1>2. Sound(f) /\ Stays(w, f) /\ f.shown = {}
  BY <1>1, ForgottenSound, RetiredStays
<1>3. f.burst.leaves = {}
  BY <1>1 DEF Forgotten, Retired, NoBurst, Sound, ObserverState
<1>4. r.cache = f.cache /\ r.shown = f.shown /\ r.burst = f.burst
  <2> HIDE DEF f
  <2> QED BY <1>2 DEF Cleared, f, w, Sound, ObserverState
<1> HIDE DEF f, r
<1> QED BY <1>1, <1>2, <1>3, <1>4 DEF Stays, r

LEMMA BoundaryLasts ==
  ASSUME TypeOK, Records, Counting, Holding, NightlyBoundary \/ Reset
  PROVE  Holding'
<1> DEFINE o == Cleared(obs)
<1>1. Sound(obs) /\ Ordered(obs, sequence) /\ core \in CoreState
  BY DEF Records, Counting, Account
<1>2. /\ Sound(o) /\ (\A l \in Leaves : o.retained[l] = Nothing)
      /\ o.cache = obs.cache /\ o.shown = {} /\ o.burst.leaves = {}
  BY <1>1, ClearedSound, ClearedCounts, ClearedForgets
<1>3. Relinquished(core) \in CoreState /\ Relinquished(core).armed = [g \in Aggregates |-> {}]
  BY <1>1, RelinquishedTables
<1>4. obs'.retained = o.retained /\ obs'.cache = o.cache /\ obs'.shown = {} /\ obs'.burst.leaves = {}
  <2>1. \/ obs' = [o EXCEPT !.quarantine = Nightly(obs), !.settling = Settle]
        \/ obs' = [o EXCEPT !.quarantine = Nightly(obs), !.recall = [s \in Surfaces |-> -1]]
    BY DEF NightlyBoundary, Reset, Becomes, Step
  <2> HIDE DEF o
  <2> QED BY <1>2, <2>1 DEF Sound, ObserverState
<1>5. core'.armed = [g \in Aggregates |-> {}]
  <2> DEFINE r == Relinquished(core)
  <2>1. core' = r \/ core' = [r EXCEPT !.latest = [l \in Leaves |-> 0]]
    BY DEF NightlyBoundary, Reset, Becomes, Step
  <2> HIDE DEF r
  <2> QED BY <1>3, <2>1 DEF r, CoreState
<1>6. UNCHANGED <<topology, newest, lights>>
  BY DEF NightlyBoundary, Reset
<1> HIDE DEF o
<1>7. \A s \in Surfaces : obs'.cache[s] = topology'[s]
  BY <1>2, <1>4, <1>6 DEF Holding, Placed
<1>8. Same(obs', core', newest')
  BY <1>2, <1>4 DEF Same
<1>9. GoneIsSilent(newest', lights')
  BY <1>6 DEF Holding
<1> QED BY <1>4, <1>5, <1>7, <1>8, <1>9, DisarmedLasts

LEMMA MembershipChangesLasts ==
  ASSUME TypeOK, Records, Holding, NEW t \in Topologies, NEW scope \in Scopes, MembershipChanges(t, scope)
  PROVE  Holding'
<1> DEFINE affected == (managed \ scope) \cup (scope \ managed)
           p == [obs EXCEPT !.cache = t]
           w == Dropped(p, affected)
           o == Forgotten(w)
           touched == {s \in Surfaces : t[s] \cap affected # {} /\ obs.displaced[s].left >= 0}
           a == Asked(core, managed \ scope, "none", None)
<1>1. Sound(obs) /\ core \in CoreState /\ t \in [Aggregates -> SUBSET Leaves]
  BY ObserverAssumption DEF Records
<1>2. /\ core' = [a EXCEPT !.armed = [g \in Aggregates |-> {}]]
      /\ topology' = t /\ UNCHANGED <<lights, newest>>
  BY DEF MembershipChanges, Becomes, Step
<1>3. obs' = [o EXCEPT !.quarantine = @ \cap scope,
                       !.displaced = [s \in Surfaces |-> IF s \in touched THEN Closed ELSE @[s]],
                       !.recent = [s \in Surfaces |-> IF s \in touched THEN Closed ELSE @[s]]]
  BY DEF MembershipChanges, Becomes, Step
<1>4. Sound(p) /\ Shrunk(obs, p) /\ p.cache = t
  BY <1>1, Shrinking DEF Sound, Quiet, ObserverState, Shrunk
<1> HIDE DEF p, affected, touched
<1>5. Sound(w) /\ Shrunk(p, w) /\ Stays(p, w)
  BY <1>4, DroppedSound, DroppedShrinks, DroppedStays
<1> HIDE DEF w
<1>6. Sound(o) /\ Shrunk(w, o) /\ Stays(w, o) /\ o.shown = {}
  BY <1>5, ForgottenSound, RetiredShrinks, RetiredStays
<1>7. o.burst.leaves = {}
  BY <1>5 DEF Forgotten, Retired, NoBurst, Sound, ObserverState
<1> HIDE DEF o
<1>8. /\ obs'.retained = o.retained /\ obs'.cache = t /\ obs'.shown = {} /\ obs'.burst.leaves = {}
  <2>1. o.cache = t
    BY <1>4, <1>5, <1>6 DEF Stays
  <2> QED BY <1>3, <1>6, <1>7, <2>1 DEF Sound, ObserverState
<1>9. \A l \in Leaves : obs'.retained[l] \in {obs.retained[l], Nothing}
  <2>1. Shrunk(obs, w)
    BY <1>4, <1>5, ShrunkTwice
  <2>2. Shrunk(obs, o)
    BY <1>6, <2>1, ShrunkTwice
  <2> QED BY <1>8, <2>2 DEF Shrunk
<1>10. a \in CoreState /\ a.latest = core.latest
  <2>1. a \in CoreState
    BY <1>1, AskedTables
  <2> QED BY <1>1, <2>1 DEF Asked, CoreState
<1> HIDE DEF a
<1>11. core'.latest = core.latest /\ \A g \in Aggregates : core'.armed[g] = {}
  BY <1>2, <1>10 DEF CoreState
<1>12. Same(obs', core', newest')
  BY <1>2, <1>9, <1>11 DEF Holding, Lasting, Same
<1>13. GoneIsSilent(newest', lights') /\ \A s \in Surfaces : obs'.cache[s] = topology'[s]
  BY <1>2, <1>8 DEF Holding
<1> QED BY <1>8, <1>11, <1>12, <1>13, DisarmedLasts

\* Surfaces keep their lights when other groups are edited, and what is armed stays so.
LEMMA RegroupLasts ==
  ASSUME Holding, NEW t \in Topologies, Regroup(t)
  PROVE  Holding'
<1>1. /\ \A s \in Surfaces : topology'[s] = topology[s]
      /\ UNCHANGED <<managed, lights, obs, core, newest, uses>>
  BY DEF Regroup
<1>2. \A s \in Surfaces : Whole(core, s)' <=> Whole(core, s)
  BY <1>1 DEF Whole, Managed
<1>3. \A S : Local(S)' <=> Local(S)
  BY <1>1 DEF Local
<1>4. Placed(obs)'
  BY <1>1, <1>3 DEF Holding, Placed
<1>5. Grouped(core)'
  BY <1>1, <1>2, <1>3 DEF Holding, Grouped
<1>6. Recent(obs, core)' /\ Kept(obs, core, uses, newest)'
  BY <1>1, <1>2 DEF Holding, Lasting, Recent, Kept, Needed
<1>7. Same(obs, core, newest)' /\ GoneIsSilent(newest, lights)'
  BY <1>1 DEF Holding, Lasting, Same, GoneIsSilent
<1> QED BY <1>4, <1>5, <1>6, <1>7 DEF Holding, Lasting

-----------------------------------------------------------------------------
(* The second OFF *)

LEMMA HoldingInitially == Init => Holding
<1> SUFFICES ASSUME Init PROVE Holding
  OBVIOUS
<1>1. /\ \A g \in Aggregates : core.armed[g] = {}
      /\ \A l \in Leaves : obs.retained[l] = Nothing /\ newest[l].op = "none"
      /\ obs.cache = topology /\ obs.shown = {} /\ obs.burst.leaves = {}
  BY DEF Init, FreshCore, FreshObserver, NoBurst, Nothing
<1>2. \A s \in Surfaces : ~Whole(core, s)
  BY <1>1, ObserverAssumption DEF Whole
<1>3. Local({})
  BY DEF Local
<1> QED BY <1>1, <1>2, <1>3
        DEF Holding, Placed, Grouped, Lasting, Recent, Same, Kept, GoneIsSilent

LEMMA EveryStepLasts ==
  ASSUME OneSurface, ObserverInv, ObserverInv', Counting, Holding, Next
  PROVE  Holding'
<1>1. TypeOK /\ TypeOK' /\ Records
  BY InvariantParts DEF ObserverInv
<1>2. CASE Reports
  BY <1>1, <1>2, LeafReportLasts, AggregateReportLasts, UserCommandLasts, ChainReportLasts,
     SceneRecallLasts, SceneDisplacedLasts DEF Reports
<1>3. CASE Timers
  BY <1>1, <1>3, SingleFiresLasts, GroupFiresLasts, ExpiryFiresLasts DEF Timers
<1>4. CASE Lifecycle
  BY <1>1, <1>4, BoundaryLasts, MembershipChangesLasts, RegroupLasts DEF Lifecycle
<1> QED BY <1>1, <1>2, <1>3, <1>4, TickLasts DEF Next

LEMMA HoldingHolds == Spec /\ []OneSurface => [](ObserverInv /\ Counting /\ Holding)
<1>1. OneSurface /\ ObserverInv /\ ObserverInv' /\ Counting /\ Holding /\ [Next]_vars => Holding'
  <2> SUFFICES ASSUME OneSurface, ObserverInv, ObserverInv', Counting, Holding, [Next]_vars
               PROVE  Holding'
    OBVIOUS
  <2>1. CASE UNCHANGED vars
    BY <2>1 DEF vars, Holding, Placed, Local, Grouped, Whole, Managed, Lasting, Recent, Same, Kept,
       Needed, GoneIsSilent
  <2> QED BY <2>1, EveryStepLasts
<1> QED BY <1>1, HoldingInitially, CountingHolds, PTL DEF Spec

\* In a house whose lights are each on one surface, the second OFF of an armed surface
\* that finds all of its lights' own OFF reports, none older than the hold, holds all
\* of its lights off, whatever else was reported, waited or expired meanwhile.
THEOREM SecondOffsLand == Spec /\ []OneSurface => SecondOffLands
<1>1. ASSUME OneSurface, ObserverInv, ObserverInv', Counting, Holding, [Next]_vars,
             NEW s \in Surfaces, SecondOffComplete(s), AggregateReport(s, "off", TRUE),
             NEW l \in core.armed[s]
      PROVE  core'.intent[l] = "manual_off"
  <2>1. TypeOK /\ TypeOK' /\ Records
    BY <1>1, InvariantParts DEF ObserverInv
  <2>2. s \in Aggregates /\ "off" \in Kinds
    BY ObserverAssumption DEF Kinds
  <2> QED BY <1>1, <2>1, <2>2, AggregateReportLasts
<1>2. OneSurface /\ ObserverInv /\ ObserverInv' /\ Counting /\ Holding /\ [Next]_vars =>
        [\A s \in Surfaces : SecondOffComplete(s) /\ AggregateReport(s, "off", TRUE) =>
           \A l \in core.armed[s] : core'.intent[l] = "manual_off"]_vars
  BY <1>1
<1> QED BY <1>2, HoldingHolds, PTL DEF Spec, SecondOffLands
=============================================================================
