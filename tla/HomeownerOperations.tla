------------------------ MODULE HomeownerOperations ------------------------
(***************************************************************************)
(* Homeowner operations over the ownership engine                          *)
(* (custom_components/home_lighting_manager/operations.py, and the reset   *)
(* in shadow.py).  An operation is one receipt of something a person did:  *)
(* an identity, the position at which it was observed, the lights it       *)
(* names, and which of them were seen to take part.  apply is one          *)
(* synchronous transaction: it refuses the receipt, consumes it without    *)
(* effect, or commits it to the engine; a failure rolls the engine back.   *)
(***************************************************************************)
EXTENDS OwnershipEngine

CONSTANTS
  OperationIds,
  Receipts,    \* the operations that reach apply, in any order and any number of times
  SeenLimit    \* maxlen of _seen (128)

(* token: the operation carries a WorkToken; ok: the members observed      *)
(* available and successful; look None: appearance missing or invalid;     *)
(* precedence: the legacy shadow adapter's hint, which legacy requires.    *)
Operation ==
  [id : OperationIds, sequence : Nat \ {0}, generation : Nat,
   kind : {"appearance", "off"}, group : Groups \cup {None},
   members : SUBSET Entities, ok : SUBSET Entities,
   look : Looks \cup {None}, precedence : Int \cup {None}, legacy : BOOLEAN,
   token : BOOLEAN]

ASSUME OperationsAssumption ==
  /\ Receipts \subseteq {op \in Operation : op.ok \subseteq op.members}
  /\ \A op \in Receipts : IsFiniteSet(op.members)
  /\ SeenLimit \in Nat \ {0}
  /\ None \notin Groups \cup Looks

VARIABLES
  ledger,    \* OwnershipOperations: _latest_sequence, _seen, _retired_sequence
  history,   \* history: the receipts the present ledger answers for
  intruded   \* history: members of an armed group touched by other intent since

vars == <<engine, generation, ledger, history, intruded>>

Ledger ==
  [latest : [Entities -> Nat], seen : Seq(OperationIds \X Nat),
   retired : Nat, generation : Nat]

EmptyLedger ==
  [latest |-> [e \in Entities |-> 0], seen |-> <<>>, retired |-> 0,
   generation |-> generation]

\* The ledger of an older configuration generation is cleared on first use.
Current == IF ledger.generation = generation THEN ledger ELSE EmptyLedger

-----------------------------------------------------------------------------
(* Admission of a receipt *)

ExactScope(op) ==
  /\ op.members # {}
  /\ op.members \subseteq engine.managed
  /\ op.group = None => Cardinality(op.members) = 1

Consumable(op) ==
  /\ op.generation = generation
  /\ \A i \in DOMAIN Current.seen : Current.seen[i][1] # op.id
  /\ op.sequence > Current.retired
  /\ op.token => ~engine.moved
  /\ ExactScope(op)

\* Mutant: an evicted receipt leaves no floor.
ConsumedWithoutFloor(op) ==
  [Current EXCEPT
     !.seen = Append(IF Len(@) = SeenLimit THEN Tail(@) ELSE @, <<op.id, op.sequence>>)]

\* deque(maxlen): the evicted receipt leaves its sequence behind as a floor.
Consumed(op) ==
  LET full == Len(Current.seen) = SeenLimit
      oldest == Head(Current.seen)[2]
  IN [Current EXCEPT
        !.retired = IF full /\ oldest > @ THEN oldest ELSE @,
        !.seen = Append(IF full THEN Tail(@) ELSE @, <<op.id, op.sequence>>)]

\* Mutant: only the members that took part are recorded.
RecordedForPresent(op) ==
  [Consumed(op) EXCEPT
     !.latest = [e \in Entities |->
        IF e \in op.ok /\ op.sequence > @[e] THEN op.sequence ELSE @[e]]]

\* Every member's position is consumed, the skipped ones' too.
Recorded(op) ==
  [Consumed(op) EXCEPT
     !.latest = [e \in Entities |->
        IF e \in op.members /\ op.sequence > @[e] THEN op.sequence ELSE @[e]]]

Effective(op) ==
  /\ op.ok # {}
  /\ \A e \in op.ok : op.sequence > Current.latest[e]
  /\ op.kind = "appearance" => op.look # None /\ (op.legacy => op.precedence # None)

-----------------------------------------------------------------------------
(* The ownership transaction *)

Shown(E, S) == UNION {Exposed(E, e) : e \in S}

\* Members are handled in order of their IDs: when e's turn comes, the families
\* that showed on the members up to e are suppressed.
Overridden(E, ok, e) ==
  Suppressed(E, Shown(E, {d \in ok : d <= e}), "homeowner_override")

ManualPrecedence(E, op, e) ==
  LET hint == IF op.precedence = None THEN 0 ELSE op.precedence
      dismissed == {l.precedence : l \in {k \in Exposed(E, e) : InSession(k)}}
  IN CHOOSE n \in dismissed \cup {hint} : \A m \in dismissed \cup {hint} : n >= m

\* Mutant: an explicit appearance over a legacy stack is ranked by its number.
ExplicitOnlyOverExplicit(E, op, e) ==
  \E l \in E.pile[e].layers : l.priority # None

\* Placement is explicit unless the legacy hint meets a stack that has no
\* explicitly admitted system layer.
Explicit(E, op, e) ==
  op.precedence = None \/ \E l \in E.pile[e].layers : l.priority # None

ManualPile(E, op, e) ==
  LET l == HomeownerLayer("manual", ManualPrecedence(E, op, e), op.look)
      p == WithoutHomeowner(E.pile[e])
  IN IF Explicit(E, op, e) THEN AdmittedPile(Overridden(E, op.ok, e), e, l)
     ELSE Inserted(p, l, PrecedenceBlockers(p, l))

AppliedAppearance(E, op) ==
  [Suppressed(E, Shown(E, op.ok), "homeowner_override") EXCEPT
     !.pile = [e \in Entities |-> IF e \in op.ok THEN ManualPile(E, op, e)
                                                 ELSE E.pile[e]]]

\* Whether no call of the transaction raises ValueError.
Committable(op) ==
  IF op.kind = "appearance" THEN \A e \in op.ok : HomeownerFits(engine, e)
  ELSE IF op.group = None THEN \A e \in op.ok : OffAdmitted(engine, e)
  ELSE GroupOffAdmitted(engine, op.group, op.members, op.ok)

\* Any intent but a group OFF first disarms the groups it reaches into.
Committed(op) ==
  LET alone == DisarmedMembers(engine, op.ok)
  IN IF op.kind = "appearance" THEN AppliedAppearance(alone, op)
     ELSE IF op.group = None
            THEN AppliedOff(alone, CHOOSE e \in op.ok : TRUE)
            ELSE AppliedGroupOff(engine, op.group, op.members, op.ok)

Acceptable(op) == Consumable(op) /\ Effective(op) /\ Committable(op)

-----------------------------------------------------------------------------
(* History *)

Entry(op, accepted) ==
  [id |-> op.id, sequence |-> op.sequence, members |-> op.members,
   accepted |-> accepted]

\* Who reached into an armed group since it was armed (only while it is armed).
Intruded(op, E) ==
  [g \in Groups |->
     IF E.armed[g] = {} \/ (op.kind = "off" /\ op.group = g) THEN {}
     ELSE intruded[g] \cup op.ok]

StillArmed(E) == [g \in Groups |-> IF E.armed[g] = {} THEN {} ELSE intruded[g]]

-----------------------------------------------------------------------------
(* Actions *)

Init ==
  /\ EngineInit
  /\ ledger = [latest |-> [e \in Entities |-> 0], seen |-> <<>>, retired |-> 0,
               generation |-> 1]
  /\ history = {}
  /\ intruded = [g \in Groups |-> {}]

\* Turned away before anything is consumed.
Refuse(op) ==
  /\ ~Consumable(op)
  /\ ledger' = Current
  /\ UNCHANGED <<engine, generation, history, intruded>>

\* Consumed for good, but without effect: no member took part, newer intent is
\* recorded, the appearance is unusable, or the transaction was rolled back.
Spend(op) ==
  /\ Consumable(op)
  /\ ~Effective(op) \/ ~Committable(op)
  /\ ledger' = Consumed(op)
  /\ history' = history \cup {Entry(op, FALSE)}
  /\ UNCHANGED <<engine, generation, intruded>>

Accept(op) ==
  /\ Acceptable(op)
  /\ engine' = [Committed(op) EXCEPT !.moved = TRUE]
  /\ ledger' = Recorded(op)
  /\ history' = history \cup {Entry(op, TRUE)}
  /\ intruded' = Intruded(op, engine')
  /\ UNCHANGED generation

\* ShadowRuntime.reset_homeowner_control replaces the operations object.
Reset ==
  /\ ResetHomeownerControl
  /\ ledger' = EmptyLedger
  /\ history' = {}
  /\ intruded' = StillArmed(engine')

\* What else drives the engine: membership, boundaries and system adapters.
Surroundings ==
  /\ \/ CaptureWork
     \/ ExpireBoundary
     \/ \E scope \in SUBSET Entities : UpdateManagedEntities(scope)
     \/ FamilyAdapters
     \/ \E e \in Entities, l \in Offered :
           Push(e, l) \/ ActivateAutomatic(e, l, FALSE)
  /\ intruded' = StillArmed(engine')
  /\ UNCHANGED <<ledger, history>>

NewGeneration ==
  /\ Reconfigure(engine.managed)
  /\ history' = {}
  /\ intruded' = StillArmed(engine')
  /\ UNCHANGED ledger

Next ==
  \/ \E op \in Receipts : Refuse(op) \/ Spend(op) \/ Accept(op)
  \/ Reset
  \/ Surroundings
  \/ NewGeneration

Spec == Init /\ [][Next]_vars

-----------------------------------------------------------------------------
(* Properties *)

TypeOK ==
  /\ EngineTypeOK
  /\ ledger \in Ledger
  /\ Len(ledger.seen) <= SeenLimit
  /\ intruded \in [Groups -> SUBSET Entities]

Repeats == [id \in OperationIds |-> {op \in Receipts : op.id = id}]

\* A receipt that was consumed, with or without effect, can never be applied
\* again, even after its identity has left the bounded window of _seen.
NoReplay ==
  \A h \in history : \A op \in Repeats[h.id] :
     op.sequence = h.sequence => ~Acceptable(op)

\* Whatever the order in which receipts arrive, one can only be applied to a
\* light if it was observed after every accepted operation that named that
\* light, including those that skipped it because it was unavailable.
NewestIntentWins ==
  \A h \in history : \A op \in Receipts :
     /\ op.sequence <= h.sequence /\ h.accepted
     /\ op.ok \cap h.members # {}
     => ~Acceptable(op)

\* While a group is armed for its second OFF nobody has changed any of its
\* members since: intervening intent always disarms it.
ArmedUninterrupted ==
  \A g \in Groups : engine.armed[g] \cap intruded[g] = {}

OnlyShownFamilyDismissed ==
  \A x \in engine.sessions, y \in engine'.sessions :
     /\ x.family = y.family /\ x.session = y.session
     /\ x.reason = None /\ y.reason \in HomeownerReasons
     => \E l \in Shown(engine, Entities) :
          l.family = x.family /\ l.session = x.session

\* The step accepts op, which leaves h in the history.
Accepts(op, h) == Entry(op, TRUE) = h /\ Accept(op)

TakesOver(op) ==
  \/ op.kind = "appearance"
  \/ op.group # None /\ Escalates(engine, op.group, op.members)

DismissedEverywhere ==
  \A h \in history' \ history : \A op \in Repeats[h.id] :
     TakesOver(op) /\ Accepts(op, h)
     => \A l \in Shown(engine, op.ok), k \in Shown(engine', Entities) :
          InSession(l) => k.family # l.family \/ k.session # l.session

\* Taking a light over from a family, by an appearance or a second group OFF,
\* dismisses that session on every light, and no session that was not showing:
\* suppressing a family never exposes the next one and dismisses it as well.
DismissalExact == [][OnlyShownFamilyDismissed /\ DismissedEverywhere]_vars

\* An accepted explicit appearance is what every light that took part shows,
\* unless a structural barrier covered it when the light's turn came.  (A later
\* member may suppress the family of that barrier: the appearance then stays
\* below it, and an ordinary layer above the barrier is what shows.)
AcceptedAppearanceShows ==
  [][\A h \in history' \ history : \A op \in Repeats[h.id] :
       op.kind = "appearance" /\ op.precedence = None /\ Accepts(op, h)
       => \A e \in op.ok :
            \/ \E l \in Exposed(engine', e) : l.kind = "manual" /\ l.look = op.look
            \/ \E b \in engine'.pile[e].layers :
                  b.protects /\ Eligible(Overridden(engine, op.ok, e), e, b)]_vars

-----------------------------------------------------------------------------
(* Refinement of HomeownerControl *)

\* The homeowner slot of a light, whatever lies around it.
Intent(e) ==
  IF \E l \in engine.pile[e].layers : l.kind = "manual" THEN "manual"
  ELSE IF \E l \in engine.pile[e].layers : l.kind = "manual_off" THEN "manual_off"
  ELSE "none"

Control == INSTANCE HomeownerControl WITH
  Lights <- Entities, Areas <- Groups,
  intent <- [e \in Entities |-> Intent(e)], armed <- engine.armed

\* The engine under its operations keeps the promises of homeowner control: no
\* system adapter ever takes a light from the homeowner, and OFF takes effect
\* in the two stages the ADR describes, however receipts are ordered, repeated
\* or partly successful.
ImplementsControl == Control!ControlSpec
=============================================================================
