-------------------------- MODULE OwnershipEngine --------------------------
(***************************************************************************)
(* The pure ownership engine of home_lighting_manager                      *)
(* (custom_components/home_lighting_manager/engine.py).  For every light   *)
(* entity it keeps a pile of ownership layers; the topmost layer that is   *)
(* eligible is the one the light should show.  System layers come from     *)
(* automations and may belong to one session of an automation family;      *)
(* homeowner layers (Manual, Manual-OFF) come from the homeowner.          *)
(*                                                                         *)
(* The engine is synchronous and has no I/O, so a public method is one     *)
(* action and a helper is an operator on the engine's state record.  A     *)
(* call that raises ValueError changes nothing: it is an action that is    *)
(* not enabled, and its condition is the action's guard.                   *)
(*                                                                         *)
(* A Python list of layers is modelled by a pile: the set of its layers    *)
(* and the strict order "nearer the bottom" on their ids.                  *)
(***************************************************************************)
EXTENDS Integers, FiniteSets, Sequences

CONSTANTS
  Entities,     \* the light entities, numbered in the order of their sorted IDs
  Families,     \* automation families
  Sessions,     \* session identities (reusable by a mistaken caller)
  Groups,       \* homeowner-addressable light groups
  Owners,       \* owners of system layers
  LayerIds,     \* layer ids of system layers, chosen by their callers
  Looks,        \* desired appearances
  Offered,      \* the system layers the adapters offer
  MaxLayers,    \* MAX_LAYERS
  MaxGroups,    \* MAX_GROUPS
  MaxFamilies,  \* MAX_FAMILIES
  RetiredLimit, \* how many ended sessions are remembered (128)
  MaxSequence,  \* bound of the model: highest session sequence
  MaxGeneration,\* bound of the model: highest configuration generation
  None

HomeownerKinds == {"manual", "manual_off"}
SystemKinds    == {"automatic", "functional", "overlay"}
HomeownerId    == "homeowner"
HomeownerReasons == {"homeowner_off", "homeowner_group_off", "homeowner_override"}
Reasons        == HomeownerReasons \cup {"adapter"}

(* One OwnershipLayer.  Every homeowner layer carries HomeownerId: the     *)
(* code's ids for them are fresh and never meet another layer's id.        *)
(* sequence 0 is the code's None; boundary says expires_at_boundary.       *)
Layer ==
  [id : LayerIds \cup {HomeownerId}, kind : HomeownerKinds \cup SystemKinds,
   owner : Owners \cup {"manual"}, family : Families \cup {None},
   session : Sessions \cup {None}, sequence : Nat,
   parent : LayerIds \cup {None}, precedence : Int,
   priority : Int \cup {None}, protects : BOOLEAN, removable : BOOLEAN,
   boundary : BOOLEAN, look : Looks \cup {"dark"}]

FamilySession ==
  [family : Families, session : Sessions, sequence : Nat,
   reason : Reasons \cup {None}]

Ids == LayerIds \cup {HomeownerId}
Pile == [layers : SUBSET Layer, below : SUBSET (Ids \X Ids)]

ASSUME ConstantsAssumption ==
  /\ Entities \subseteq Nat
  /\ None \notin Families \cup Sessions \cup LayerIds \cup Reasons
  /\ HomeownerId \notin LayerIds
  /\ Offered \subseteq {l \in Layer : l.kind \in SystemKinds /\ l.id \in LayerIds}
  /\ \A n \in {MaxLayers, MaxGroups, MaxFamilies, RetiredLimit} : n \in Nat \ {0}
  /\ {MaxSequence, MaxGeneration} \subseteq Nat

VARIABLES
  engine,      \* the OwnershipEngine object
  generation   \* its configuration generation

engineVars == <<engine, generation>>

EngineState ==
  [pile         : [Entities -> Pile],               \* _layers
   sessions     : SUBSET FamilySession,             \* _families
   lastSequence : [Families -> Nat],                \* _session_sequences
   lastSession  : [Families -> Sessions \cup {None}], \* _session_ids
   ended        : Seq(Families \X Sessions),        \* _ended_sessions
   exhausted    : BOOLEAN,                          \* _legacy_sessions_exhausted
   armed        : [Groups -> SUBSET Entities],      \* _group_off_armed ({}: absent)
   earlier      : SUBSET (Groups \X Groups),        \* its insertion order
   managed      : SUBSET Entities,                  \* managed_entities
   moved        : BOOLEAN]  \* revision moved since the outstanding WorkToken

-----------------------------------------------------------------------------
(* Layers and piles *)

IsHomeowner(l) == l.kind \in HomeownerKinds

\* _identity: what makes two layers the same logical owner.
SameIdentity(k, l) ==
  \/ IsHomeowner(k) /\ IsHomeowner(l)
  \/ /\ ~IsHomeowner(k) /\ ~IsHomeowner(l)
     /\ k.owner = l.owner /\ k.kind = l.kind /\ k.family = l.family
     /\ k.session = l.session /\ k.parent = l.parent

IdsOf(S) == {l.id : l \in S}
EmptyPile == [layers |-> {}, below |-> {}]

\* The list comprehensions that drop layers keep the order of the rest.
Kept(p, S) ==
  [layers |-> S, below |-> p.below \cap (IdsOf(S) \X IdsOf(S))]

\* list.insert before the first of the blocking layers, else at the top.
Inserted(p, l, blockers) ==
  LET lower == {k \in p.layers : \A b \in blockers : <<k.id, b.id>> \in p.below}
  IN [layers |-> p.layers \cup {l},
      below  |-> p.below \cup {<<k.id, l.id>> : k \in lower}
                         \cup {<<l.id, k.id>> : k \in p.layers \ lower}]

WithoutHomeowner(p) == Kept(p, {l \in p.layers : ~IsHomeowner(l)})

\* _changed is called exactly when a pile really changes.
SetPile(E, e, p) ==
  [E EXCEPT !.pile[e] = p, !.moved = @ \/ p # E.pile[e]]

SetPiles(E, f) == [E EXCEPT !.pile = f, !.moved = @ \/ f # E.pile]

-----------------------------------------------------------------------------
(* Eligibility and exposure *)

SessionEligible(E, l) ==
  \/ l.family = None
  \/ \E x \in E.sessions : /\ x.family = l.family /\ x.session = l.session
                           /\ x.sequence = l.sequence /\ x.reason = None

\* An overlay of a family is never eligible on its own.
Orphan(l) == l.kind = "overlay" /\ l.family # None /\ l.parent = None

\* _layer_eligible; the parent has no parent itself, so one level is enough.
Eligible(E, e, l) ==
  /\ ~Orphan(l)
  /\ SessionEligible(E, l)
  /\ l.parent # None =>
       \E p \in E.pile[e].layers :
          /\ p.id = l.parent /\ p.parent = None
          /\ p.family = l.family /\ p.session = l.session
          /\ ~Orphan(p) /\ SessionEligible(E, p)

\* resolve: the topmost eligible layer, as a set of at most one layer.
Exposed(E, e) ==
  LET p == E.pile[e]
      eligible == {l \in p.layers : Eligible(E, e, l)}
  IN {l \in eligible : \A k \in eligible \ {l} : <<k.id, l.id>> \in p.below}

-----------------------------------------------------------------------------
(* Group-OFF arming *)

Armed(E) == {g \in Groups : E.armed[g] # {}}

Disarmed(E, G) ==
  [E EXCEPT !.armed = [g \in Groups |-> IF g \in G THEN {} ELSE E.armed[g]],
            !.earlier = E.earlier \cap ((Groups \ G) \X (Groups \ G))]

\* dict[g] = members: a new key goes last, an old one keeps its place.
ArmedWith(E, g, members) ==
  [E EXCEPT !.armed[g] = members,
            !.earlier = IF g \in Armed(E) THEN @
                        ELSE @ \cup ((Armed(E) \ {g}) \X {g})]

OldestArmed(E) ==
  {g \in Armed(E) : \A h \in Armed(E) \ {g} : <<g, h>> \in E.earlier}

\* Mutant: only a group armed with exactly the same members counts as overlapping.
OverlappingEqual(E, members) == {g \in Groups : E.armed[g] = members /\ members # {}}

Overlapping(E, members) == {g \in Groups : E.armed[g] \cap members # {}}

\* Mutant: intent on a part of an armed group leaves it armed.
DisarmedWholly(E, members) ==
  Disarmed(E, {g \in Groups : E.armed[g] \subseteq members})

\* reset_group_off_for_members
DisarmedMembers(E, members) ==
  [Disarmed(E, Overlapping(E, members)) EXCEPT
     !.moved = @ \/ Overlapping(E, members) # {}]

-----------------------------------------------------------------------------
(* Admission *)

SessionOf(E, l) == {x \in E.sessions : x.family = l.family /\ x.session = l.session}
InSession(l) == l.family # None /\ l.session # None

\* push binds a session layer to the live session's sequence.
Bound(E, l) ==
  IF InSession(l)
    THEN [l EXCEPT !.sequence = (CHOOSE x \in SessionOf(E, l) : TRUE).sequence]
    ELSE l

\* Mutant: push looks only for the layer id.
MatchById(p, l) == {k \in p.layers : k.id = l.id}

Match(p, l) == {k \in p.layers : k.id = l.id \/ SameIdentity(k, l)}

\* The conditions under which push raises ValueError are the negation of this.
PushAdmitted(E, e, l) ==
  /\ e \in E.managed
  /\ InSession(l) => \E x \in SessionOf(E, l) : l.sequence \in {0, x.sequence}
  /\ \A k \in E.pile[e].layers : k.id = l.id => SameIdentity(k, l)
  /\ Match(E.pile[e], l) = {} => Cardinality(E.pile[e].layers) < MaxLayers

\* Mutants: a refresh goes to the top of the pile, or takes its new id.
UpdatedOnTop(p, l) ==
  LET rest == p.layers \ Match(p, l)
  IN Inserted(Kept(p, rest), l, {})
UpdatedNewId(p, l) == [p EXCEPT !.layers = (@ \ Match(p, l)) \cup {l}]

\* An update in place: the old id, hence the old slot, is kept.
Updated(p, l) ==
  [p EXCEPT !.layers = (@ \ Match(p, l)) \cup
                       {[l EXCEPT !.id = k.id] : k \in Match(p, l)}]

PrecedenceBlockers(p, l) == {k \in p.layers : k.precedence > l.precedence}

Pushed(E, e, layer) ==
  LET p == E.pile[e]
      l == Bound(E, layer)
  IN SetPile(E, e, IF Match(p, l) # {} THEN Updated(p, l)
                   ELSE Inserted(p, l, PrecedenceBlockers(p, l)))

\* A homeowner layer fits unless the system layers alone fill the pile.
HomeownerFits(E, e) ==
  /\ e \in E.managed
  /\ Cardinality(WithoutHomeowner(E.pile[e]).layers) < MaxLayers

HomeownerLayer(kind, precedence, look) ==
  [id |-> HomeownerId, kind |-> kind, owner |-> "manual", family |-> None,
   session |-> None, sequence |-> 0, parent |-> None,
   precedence |-> precedence, priority |-> None, protects |-> FALSE,
   removable |-> FALSE, boundary |-> TRUE, look |-> look]

\* admit_manual: below the lowest eligible layer that protects itself.
AdmittedPile(E, e, l) ==
  LET p == WithoutHomeowner(E.pile[e])
  IN Inserted(p, l, {k \in p.layers : k.protects /\ Eligible(E, e, k)})

\* push_manual_off takes the precedence of what it covers.
ExposedPrecedence(E, e) ==
  IF Exposed(E, e) = {} THEN 0
  ELSE (CHOOSE l \in Exposed(E, e) : TRUE).precedence

ManualOffPile(E, e) ==
  AdmittedPile(E, e, HomeownerLayer("manual_off", ExposedPrecedence(E, e), "dark"))

-----------------------------------------------------------------------------
(* Families *)

\* Mutant: suppressing a session forgets the revision.
SuppressedSilently(E, layers, reason) ==
  LET hit == UNION {SessionOf(E, l) : l \in {k \in layers : InSession(k)}}
  IN [E EXCEPT !.sessions =
        (@ \ hit) \cup {[x EXCEPT !.reason = reason] : x \in hit}]

\* suppress_family for the sessions of a set of exposed layers.
Suppressed(E, layers, reason) ==
  LET hit == UNION {SessionOf(E, l) : l \in {k \in layers : InSession(k)}}
      new == (E.sessions \ hit) \cup {[x EXCEPT !.reason = reason] : x \in hit}
  IN [E EXCEPT !.sessions = new, !.moved = @ \/ new # E.sessions]

LiveSession(E, f, s) == {x \in E.sessions : x.family = f /\ x.session = s}

\* Mutant: ending a session forgets its overlays.
EndedKeepingOverlays(E, f, s) ==
  LET rest(p) == Kept(p, {l \in p.layers :
                            ~(l.family = f /\ l.session = s /\ l.parent = None)})
  IN Disarmed([E EXCEPT
       !.sessions = @ \ LiveSession(E, f, s),
       !.pile = [e \in Entities |-> rest(E.pile[e])],
       !.moved = TRUE], Groups)

\* end_family of a live session.
Ended(E, f, s) ==
  LET log == Append(E.ended, <<f, s>>)
      full == Len(log) > RetiredLimit
      rest(p) == Kept(p, {l \in p.layers : ~(l.family = f /\ l.session = s)})
  IN Disarmed([E EXCEPT
       !.sessions = @ \ LiveSession(E, f, s),
       !.ended = IF full THEN Tail(log) ELSE log,
       !.exhausted = @ \/ full,
       !.pile = [e \in Entities |-> rest(E.pile[e])],
       !.moved = TRUE], Groups)

\* start_family first ends the family's other session, if there is one.
EndedOthers(E, f) ==
  LET others == {x \in E.sessions : x.family = f}
  IN IF others = {} THEN E
     ELSE Ended(E, f, (CHOOSE x \in others : TRUE).session)

Started(E, f, s, q) ==
  [EndedOthers(E, f) EXCEPT
     !.lastSequence[f] = q,
     !.lastSession[f] = s,
     !.sessions = @ \cup {[family |-> f, session |-> s, sequence |-> q,
                           reason |-> None]},
     !.moved = TRUE]

StartAdmitted(E, f, s, q, explicit) ==
  /\ LiveSession(E, f, s) = {}
  /\ \A i \in DOMAIN E.ended : E.ended[i] # <<f, s>>
  /\ ~explicit => ~E.exhausted /\ q = E.lastSequence[f] + 1
  /\ q > E.lastSequence[f]
  /\ E.lastSession[f] # s
  /\ E.lastSequence[f] = 0 =>
       Cardinality({g \in Families : E.lastSequence[g] > 0}) < MaxFamilies

-----------------------------------------------------------------------------
(* OFF semantics *)

\* apply_off raises only when a Manual-OFF must be created and does not fit.
OffAdmitted(E, e) ==
  \/ \E l \in Exposed(E, e) : InSession(l) \/ l.removable \/ IsHomeowner(l)
  \/ HomeownerFits(E, e)

AppliedOff(E, e) ==
  LET top == Exposed(E, e)
      without == Kept(E.pile[e], E.pile[e].layers \ top)
  IN IF \E l \in top : l.kind = "manual" THEN SetPile(E, e, without)
     ELSE IF \E l \in top : InSession(l) THEN Suppressed(E, top, "homeowner_off")
     ELSE IF \E l \in top : l.removable THEN SetPile(E, e, without)
     ELSE IF \E l \in top : l.kind = "manual_off" THEN E
     ELSE [E EXCEPT !.pile[e] = ManualOffPile(E, e), !.moved = TRUE]

\* Mutant: any OFF of an armed group is its second one.
EscalatesWithAnyMembers(E, g, members) == g \in Armed(E)

\* A second OFF of the same group and the same requested members.
Escalates(E, g, members) == E.armed[g] = members

FirstGroupOff(E, g, members, eligible) ==
  LET released == [e \in Entities |-> IF e \in eligible
                     THEN WithoutHomeowner(E.pile[e]) ELSE E.pile[e]]
      full == g \notin Armed(E) /\ Cardinality(Armed(E)) >= MaxGroups
      room == IF full THEN Disarmed(E, OldestArmed(E)) ELSE E
  IN ArmedWith([room EXCEPT !.pile = released, !.moved = TRUE], g, members)

\* Mutant: the sessions exposed by the suppression are suppressed as well.
SecondGroupOffCascading(E, eligible) ==
  LET once == Suppressed(E, UNION {Exposed(E, e) : e \in eligible},
                         "homeowner_group_off")
      twice == Suppressed(once, UNION {Exposed(once, e) : e \in eligible},
                          "homeowner_group_off")
  IN [twice EXCEPT
        !.pile = [e \in Entities |-> IF e \in eligible
                    THEN ManualOffPile(twice, e) ELSE E.pile[e]],
        !.moved = TRUE]

SecondGroupOff(E, eligible) ==
  LET covered == Suppressed(E, UNION {Exposed(E, e) : e \in eligible},
                            "homeowner_group_off")
  IN [covered EXCEPT
        !.pile = [e \in Entities |-> IF e \in eligible
                    THEN ManualOffPile(covered, e) ELSE E.pile[e]],
        !.moved = TRUE]

GroupOffAdmitted(E, g, members, eligible) ==
  Escalates(E, g, members) => \A e \in eligible : HomeownerFits(E, e)

AppliedGroupOff(E, g, members, eligible) ==
  LET alone == Disarmed(E, Overlapping(E, members) \ {g})
  IN IF eligible = {} THEN E
     ELSE IF Escalates(E, g, members) THEN SecondGroupOff(alone, eligible)
     ELSE FirstGroupOff(alone, g, members, eligible)

-----------------------------------------------------------------------------
(* Lifecycle *)

Blank(managed) ==
  [pile |-> [e \in Entities |-> EmptyPile], sessions |-> {},
   lastSequence |-> [f \in Families |-> 0],
   lastSession |-> [f \in Families |-> None],
   ended |-> <<>>, exhausted |-> FALSE,
   armed |-> [g \in Groups |-> {}], earlier |-> {},
   managed |-> managed, moved |-> TRUE]

KeptEverywhere(E, S) == [e \in Entities |-> Kept(E.pile[e], S[e])]

\* expire_boundary and evening_activation always bump the revision.
Expired(E) ==
  LET lasting == [e \in Entities |-> {l \in E.pile[e].layers : ~l.boundary}]
  IN Disarmed([E EXCEPT !.pile = KeptEverywhere(E, lasting), !.moved = TRUE], Groups)

EveningActivated(E) ==
  LET notOff == [e \in Entities |-> {l \in E.pile[e].layers : l.kind # "manual_off"}]
  IN Disarmed([E EXCEPT !.pile = KeptEverywhere(E, notOff), !.moved = TRUE], Groups)

\* Mutant: a homeowner reset lifts every suppression.
ResetHomeownerLiftingAll(E) ==
  LET system == [e \in Entities |-> {l \in E.pile[e].layers : ~IsHomeowner(l)}]
  IN Disarmed([E EXCEPT
       !.pile = KeptEverywhere(E, system),
       !.sessions = {[x EXCEPT !.reason = None] : x \in @},
       !.moved = TRUE], Groups)

\* reset_homeowner_control keeps suppressions nobody at home asked for.
ResetHomeowner(E) ==
  LET system == [e \in Entities |-> {l \in E.pile[e].layers : ~IsHomeowner(l)}]
      lifted == {x \in E.sessions : x.reason \in HomeownerReasons}
  IN Disarmed([E EXCEPT
       !.pile = KeptEverywhere(E, system),
       !.sessions = (@ \ lifted) \cup {[x EXCEPT !.reason = None] : x \in lifted},
       !.moved = TRUE], Groups)

\* update_managed_entities with a scope that differs from the current one.
ManagedUpdated(E, desired) ==
  Disarmed([E EXCEPT
    !.pile = [e \in Entities |-> IF e \in E.managed \ desired
                                   THEN EmptyPile ELSE E.pile[e]],
    !.managed = desired, !.moved = TRUE], Groups)

-----------------------------------------------------------------------------
(* activate_automatic *)

AdmissionPriority(l) == IF l.priority = None THEN l.precedence ELSE l.priority

PriorityBlockers(p, l, supersede) ==
  {k \in p.layers : IF IsHomeowner(k) THEN ~supersede
                    ELSE AdmissionPriority(k) > l.priority}

Known(p, l) == {k \in p.layers : SameIdentity(k, l)}

\* An activation without an explicit priority takes the numeric precedence.
WithPriority(l) == [l EXCEPT !.priority = AdmissionPriority(l)]

ActivateAdmitted(E, e, layer) ==
  LET l == WithPriority(layer) IN
  /\ layer.priority # None /\ l.family # None => l.sequence # 0
  /\ PushAdmitted(E, e, l)
  /\ \A k \in Known(E.pile[e], l) :
        k.priority = l.priority /\ k.protects = l.protects

Activated(E, e, layer, supersede) ==
  LET p == E.pile[e]
      l == Bound(E, WithPriority(layer))
  IN IF Known(p, l) # {} THEN Pushed(E, e, WithPriority(layer))
     ELSE SetPile(E, e, Inserted(p, l, PriorityBlockers(p, l, supersede)))

-----------------------------------------------------------------------------
(* The engine's public operations as actions *)

EngineInit ==
  /\ \E managed \in SUBSET Entities : engine = [Blank(managed) EXCEPT !.moved = FALSE]
  /\ generation = 1

Becomes(E) == engine' = E /\ UNCHANGED generation

\* A caller captures a WorkToken for later work.
CaptureWork == Becomes([engine EXCEPT !.moved = FALSE])

Push(e, l) == PushAdmitted(engine, e, l) /\ Becomes(Pushed(engine, e, l))

ActivateAutomatic(e, l, supersede) ==
  /\ ActivateAdmitted(engine, e, l)
  /\ Becomes(Activated(engine, e, l, supersede))

RemoveLayer(e, id) ==
  Becomes(SetPile(engine, e, Kept(engine.pile[e],
            {l \in engine.pile[e].layers : l.id # id})))

RemoveOwner(e, owner) ==
  Becomes(SetPile(engine, e, Kept(engine.pile[e],
            {l \in engine.pile[e].layers : l.owner # owner})))

AdmitManual(e, look) ==
  /\ HomeownerFits(engine, e)
  /\ Becomes([engine EXCEPT
       !.pile[e] = AdmittedPile(engine, e, HomeownerLayer("manual", 0, look)),
       !.moved = TRUE])

PushManualOff(e) ==
  /\ HomeownerFits(engine, e)
  /\ Becomes([engine EXCEPT !.pile[e] = ManualOffPile(engine, e), !.moved = TRUE])

ManualRelease(e) ==
  /\ \E l \in Exposed(engine, e) : l.kind = "manual"
  /\ Becomes(SetPile(engine, e, Kept(engine.pile[e],
               engine.pile[e].layers \ Exposed(engine, e))))

ApplyOff(e) == OffAdmitted(engine, e) /\ Becomes(AppliedOff(engine, e))

ApplyGroupOff(g, members, eligible) ==
  /\ GroupOffAdmitted(engine, g, members, eligible)
  /\ Becomes(AppliedGroupOff(engine, g, members, eligible))

ResetGroupOffSequence(G) ==
  Becomes([Disarmed(engine, G) EXCEPT !.moved = @ \/ Armed(engine) # {}])

StartFamily(f, s, q, explicit) ==
  /\ StartAdmitted(engine, f, s, q, explicit)
  /\ Becomes(Started(engine, f, s, q))

SuppressFamily(f, s) ==
  \E x \in LiveSession(engine, f, s) :
     LET new == (engine.sessions \ {x}) \cup {[x EXCEPT !.reason = "adapter"]}
     IN Becomes([engine EXCEPT !.sessions = new,
                               !.moved = @ \/ new # engine.sessions])

EndFamily(f, s) ==
  /\ LiveSession(engine, f, s) # {}
  /\ Becomes(Ended(engine, f, s))

ExpireBoundary == Becomes(Expired(engine))
EveningActivation == Becomes(EveningActivated(engine))
ResetHomeownerControl == Becomes(ResetHomeowner(engine))

UpdateManagedEntities(desired) ==
  /\ desired # engine.managed
  /\ Becomes(ManagedUpdated(engine, desired))

\* reconfigure, and next_generation when the scope stays the same.
Reconfigure(managed) ==
  /\ generation < MaxGeneration
  /\ generation' = generation + 1
  /\ engine' = Blank(managed)

SystemAdapters ==
  \/ \E e \in Entities, l \in Offered :
        \/ Push(e, l)
        \/ \E supersede \in BOOLEAN : ActivateAutomatic(e, l, supersede)
  \/ \E e \in Entities, id \in Ids : RemoveLayer(e, id)
  \/ \E e \in Entities, owner \in Owners : RemoveOwner(e, owner)

FamilyAdapters ==
  \E f \in Families, s \in Sessions :
     \/ \E q \in 1..MaxSequence, explicit \in BOOLEAN : StartFamily(f, s, q, explicit)
     \/ SuppressFamily(f, s)
     \/ EndFamily(f, s)

Homeowner ==
  \/ \E e \in Entities : ManualRelease(e) \/ ApplyOff(e) \/ PushManualOff(e)
  \/ \E e \in Entities, look \in Looks : AdmitManual(e, look)
  \/ \E g \in Groups, members \in SUBSET engine.managed :
       \E eligible \in SUBSET members :
          members # {} /\ ApplyGroupOff(g, members, eligible)

Lifecycle ==
  \/ CaptureWork
  \/ ExpireBoundary
  \/ EveningActivation
  \/ ResetHomeownerControl
  \/ \E G \in {Groups} \cup {{g} : g \in Groups} : ResetGroupOffSequence(G)
  \/ \E scope \in SUBSET Entities : UpdateManagedEntities(scope) \/ Reconfigure(scope)

EngineNext == SystemAdapters \/ FamilyAdapters \/ Homeowner \/ Lifecycle

EngineSpec == EngineInit /\ [][EngineNext]_engineVars

-----------------------------------------------------------------------------
(* Properties *)

\* What a pile must be to stand for a Python list: a strict total order.
IsList(p) ==
  /\ \A k, l \in p.layers : k.id = l.id => k = l
  /\ p.below \subseteq IdsOf(p.layers) \X IdsOf(p.layers)
  /\ \A a \in IdsOf(p.layers) : <<a, a>> \notin p.below
  /\ \A a, b \in IdsOf(p.layers) : a # b => <<a, b>> \in p.below \/ <<b, a>> \in p.below
  /\ \A a, b, c \in IdsOf(p.layers) :
        <<a, b>> \in p.below /\ <<b, c>> \in p.below => <<a, c>> \in p.below

\* Type invariant: the engine's tables have their types and every pile is a list.
EngineTypeOK ==
  /\ engine \in EngineState
  /\ generation \in Nat
  /\ \A e \in Entities : IsList(engine.pile[e])

\* However layers are pushed, refreshed under new ids, released and replaced, a
\* light never holds two layers of one logical owner: in particular Manual and
\* Manual-OFF never coexist (the single homeowner slot of _identity).
OneLayerPerOwner ==
  \A e \in Entities : \A k, l \in engine.pile[e].layers :
     SameIdentity(k, l) => k = l

LayersBelongToLiveSession ==
  \A e \in Entities : \A l \in engine.pile[e].layers :
     InSession(l) => \E x \in engine.sessions :
        x.family = l.family /\ x.session = l.session /\ x.sequence = l.sequence

LiveSessionIsNewest ==
  \A x \in engine.sessions :
     /\ \A y \in engine.sessions : x.family = y.family => x = y
     /\ x.sequence = engine.lastSequence[x.family]
     /\ x.session = engine.lastSession[x.family]
     /\ \A i \in DOMAIN engine.ended : engine.ended[i] # <<x.family, x.session>>

\* One live session per family, the newest one started and not one that is still
\* remembered as ended; and no layer of a session outlives it or stays bound to an
\* earlier session of the same name: ending a session sweeps every light, and push
\* refuses a session that is gone.
SessionsSound == LiveSessionIsNewest /\ LayersBelongToLiveSession

\* Armed two-OFF sequences never overlap, stay inside the managed scope and
\* never exceed MAX_GROUPS, whatever mix of groups and memberships is commanded.
ArmingSound ==
  /\ \A g, h \in Groups : g # h => engine.armed[g] \cap engine.armed[h] = {}
  /\ \A g \in Groups : engine.armed[g] \subseteq engine.managed
  /\ Cardinality(Armed(engine)) <= MaxGroups

\* What a WorkToken vouches for.
Authority(E) == <<E.pile, E.sessions, Armed(E), E.managed>>

\* A step that changes layers, sessions, armed groups or scope always bumps the
\* revision, so a plan made under a captured WorkToken can never be taken for
\* current after what it was computed from has changed.
NoSilentChange ==
  [][Authority(engine') # Authority(engine) => engine'.moved]_engineVars

\* A suppressed session is never quietly re-enabled: within a generation it
\* stays suppressed until it ends, or a homeowner reset lifts a homeowner's
\* suppression together with every homeowner layer and armed group.
SuppressionKept ==
  [][\A x \in engine.sessions, y \in engine'.sessions :
       /\ generation' = generation
       /\ x.family = y.family /\ x.session = y.session /\ x.sequence = y.sequence
       /\ x.reason # None /\ y.reason = None
       => /\ x.reason \in HomeownerReasons
          /\ \A e \in Entities : \A l \in engine'.pile[e].layers : ~IsHomeowner(l)
          /\ Armed(engine') = {}]_engineVars

\* Refreshing, inserting, releasing or expiring layers never reorders the system
\* layers that stay: updating a hidden layer does not raise it.
SlotsKept ==
  [][\A e \in Entities : \A k, l \in engine'.pile[e].layers :
       ~IsHomeowner(k) /\ ~IsHomeowner(l) /\ <<k.id, l.id>> \in engine.pile[e].below
       => <<k.id, l.id>> \in engine'.pile[e].below]_engineVars
=============================================================================
