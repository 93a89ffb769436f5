--------------------- MODULE HomeownerOperationsProofs ---------------------
(***************************************************************************)
(* Proofs about the ownership engine, for every set of lights, families,   *)
(* groups and offered layers and for every value of the limits, and about  *)
(* the homeowner operations over it, for every set of receipts, in any     *)
(* order and any number of times.  The first half proves what the system   *)
(* adapters and the lifecycle do to the engine; the second joins to it the *)
(* one transaction that is not an engine action of its own, the acceptance *)
(* of a receipt.                                                           *)
(***************************************************************************)
EXTENDS HomeownerOperations, FiniteSetTheorems, TLAPS

-----------------------------------------------------------------------------
(* Layers *)

\* Homeowner layers are exactly the ones with the homeowner id, and a generic OFF
\* never pops one as a removable notice.
Tagged(l) ==
  /\ IsHomeowner(l) <=> l.id = HomeownerId
  /\ IsHomeowner(l) => ~l.removable

\* What every pile of the engine is: a list of properly tagged layers, one for
\* each logical owner.
SoundPile(p) ==
  /\ p \in Pile
  /\ IsList(p)
  /\ \A k, l \in p.layers : SameIdentity(k, l) => k = l
  /\ \A l \in p.layers : Tagged(l)

\* The fields of a layer that lists and identities look at.
LEMMA LayerFields ==
  ASSUME NEW l \in Layer
  PROVE  /\ l.id \in Ids
         /\ l.sequence \in Nat
         /\ l.precedence \in Int
         /\ l.priority \in Int \cup {None}
  BY DEF Layer, Ids

\* Identity is an equivalence relation.
LEMMA IdentityEquivalence ==
  /\ \A k : SameIdentity(k, k)
  /\ \A k, l : SameIdentity(k, l) => SameIdentity(l, k)
  /\ \A k, l, m : SameIdentity(k, l) /\ SameIdentity(l, m) => SameIdentity(k, m)
  BY DEF SameIdentity

\* Taking over another layer's id changes nothing but the id.
LEMMA RenamedLayer ==
  ASSUME NEW l \in Layer, NEW i \in Ids
  PROVE  /\ [l EXCEPT !.id = i] \in Layer
         /\ [l EXCEPT !.id = i].id = i
         /\ \A k : SameIdentity(k, [l EXCEPT !.id = i]) <=> SameIdentity(k, l)
         /\ IsHomeowner([l EXCEPT !.id = i]) <=> IsHomeowner(l)
         /\ [l EXCEPT !.id = i].removable = l.removable
  BY DEF Layer, Ids, SameIdentity, IsHomeowner

-----------------------------------------------------------------------------
(* Piles *)

LEMMA EmptyPileSound == SoundPile(EmptyPile)
  BY DEF SoundPile, EmptyPile, Pile, IsList, IdsOf

\* Dropping layers keeps a list a list.
LEMMA KeptSound ==
  ASSUME NEW p, SoundPile(p), NEW S \in SUBSET p.layers
  PROVE  SoundPile(Kept(p, S))
  <1>1. IdsOf(S) \subseteq IdsOf(p.layers)
    BY DEF IdsOf
  <1>2. Kept(p, S) \in Pile
    BY DEF SoundPile, Kept, Pile
  <1>3. IsList(Kept(p, S))
    BY <1>1 DEF SoundPile, Kept, IsList
  <1>4. QED
    BY <1>2, <1>3 DEF SoundPile, Kept

\* Inserting a layer of a new id and owner keeps a list a list.
LEMMA InsertedSound ==
  ASSUME NEW p, SoundPile(p), NEW l \in Layer, Tagged(l),
         \A k \in p.layers : k.id # l.id /\ ~SameIdentity(k, l),
         NEW B \in SUBSET p.layers
  PROVE  SoundPile(Inserted(p, l, B))
  <1> DEFINE lower == {k \in p.layers : \A b \in B : <<k.id, b.id>> \in p.below}
             q == Inserted(p, l, B)
             new == {<<k.id, l.id>> : k \in lower} \cup {<<l.id, k.id>> : k \in p.layers \ lower}
  <1>1. q.layers = p.layers \cup {l} /\ q.below = p.below \cup new
    BY DEF Inserted
  <1>2. q = [layers |-> q.layers, below |-> q.below]
    BY DEF Inserted
  <1>3. p.layers \in SUBSET Layer /\ p.below \in SUBSET (Ids \X Ids)
    BY DEF SoundPile, Pile
  <1>4. \A k \in p.layers \cup {l} : k.id \in Ids
    BY <1>3, LayerFields
  <1>5. q \in Pile
    BY <1>1, <1>2, <1>3, <1>4 DEF Pile
  <1>6. IsList(q)
    <2>1. IsList(p) BY DEF SoundPile
    <2>2. IdsOf(q.layers) = IdsOf(p.layers) \cup {l.id}
      BY <1>1 DEF IdsOf
    <2>3. l.id \notin IdsOf(p.layers)
      BY DEF IdsOf
    <2>4. \A a \in IdsOf(p.layers) : \E k \in p.layers : k.id = a
      BY DEF IdsOf
    <2>5. \A k, m \in q.layers : k.id = m.id => k = m
      BY <1>1, <2>1 DEF IsList
    <2>6. q.below \subseteq IdsOf(q.layers) \X IdsOf(q.layers)
      BY <1>1, <2>1, <2>2 DEF IsList, IdsOf
    <2>7. \A a, b \in IdsOf(p.layers) : <<a, b>> \in q.below <=> <<a, b>> \in p.below
      BY <1>1, <2>3
    <2>8. \A k \in p.layers : /\ <<k.id, l.id>> \in q.below <=> k \in lower
                              /\ <<l.id, k.id>> \in q.below <=> k \notin lower
      <3>1. \A k, m \in p.layers : k.id = m.id => k = m
        BY <2>1 DEF IsList
      <3>2. \A k \in p.layers : <<k.id, l.id>> \notin p.below /\ <<l.id, k.id>> \notin p.below
        BY <2>1, <2>3 DEF IsList
      <3> QED BY <1>1, <3>1, <3>2
    <2>9. \A a \in IdsOf(q.layers) : <<a, a>> \notin q.below
      <3>1. <<l.id, l.id>> \notin q.below
        BY <1>1, <2>1, <2>3 DEF IsList
      <3> QED BY <2>1, <2>2, <2>7, <3>1 DEF IsList
    <2>10. \A a, b \in IdsOf(q.layers) :
              a # b => <<a, b>> \in q.below \/ <<b, a>> \in q.below
      BY <2>1, <2>2, <2>4, <2>7, <2>8 DEF IsList
    <2>11. \A k, m \in p.layers :
              <<k.id, m.id>> \in p.below /\ m \in lower => k \in lower
      <3> SUFFICES ASSUME NEW k \in p.layers, NEW m \in p.layers,
                          <<k.id, m.id>> \in p.below, m \in lower, NEW b \in B
                   PROVE  <<k.id, b.id>> \in p.below
        OBVIOUS
      <3>1. <<m.id, b.id>> \in p.below /\ k.id \in IdsOf(p.layers)
            /\ m.id \in IdsOf(p.layers) /\ b.id \in IdsOf(p.layers)
        BY DEF IdsOf
      <3> QED BY <2>1, <3>1 DEF IsList
    <2>12. ASSUME NEW a \in IdsOf(q.layers), NEW b \in IdsOf(q.layers),
                  NEW c \in IdsOf(q.layers),
                  <<a, b>> \in q.below, <<b, c>> \in q.below
           PROVE  <<a, c>> \in q.below
      <3>1. CASE a # l.id /\ b # l.id /\ c # l.id
        BY <2>1, <2>2, <2>7, <2>12, <3>1 DEF IsList
      <3>2. CASE b = l.id
        <4>1. a # l.id /\ c # l.id
          BY <2>9, <2>12, <3>2
        <4>2. PICK k \in p.layers, m \in p.layers : k.id = a /\ m.id = c
          BY <2>2, <2>4, <4>1
        <4>3. k \in lower /\ m \notin lower
          BY <2>8, <2>12, <3>2, <4>2
        <4>4. k # m /\ k.id # m.id /\ k.id \in IdsOf(p.layers) /\ m.id \in IdsOf(p.layers)
          BY <2>1, <4>3 DEF IsList, IdsOf
        <4>5. <<m.id, k.id>> \notin p.below
          BY <2>11, <4>3
        <4>6. <<k.id, m.id>> \in p.below
          BY <2>1, <4>4, <4>5 DEF IsList
        <4> QED BY <2>7, <4>2, <4>4, <4>6
      <3>3. CASE a = l.id /\ b # l.id
        <4>1. c # l.id
          <5> SUFFICES ASSUME c = l.id PROVE FALSE
            OBVIOUS
          <5>1. PICK m \in p.layers : m.id = b
            BY <2>2, <2>4, <3>3
          <5> QED BY <2>8, <2>12, <3>3, <5>1
        <4>2. PICK k \in p.layers, m \in p.layers : k.id = b /\ m.id = c
          BY <2>2, <2>4, <3>3, <4>1
        <4>3. k \notin lower
          BY <2>8, <2>12, <3>3, <4>2
        <4>4. <<k.id, m.id>> \in p.below
          BY <2>2, <2>7, <2>12, <3>3, <4>1, <4>2
        <4>5. m \notin lower
          BY <2>11, <4>3, <4>4
        <4> QED BY <2>8, <3>3, <4>2, <4>5
      <3>4. CASE c = l.id /\ a # l.id /\ b # l.id
        <4>1. PICK k \in p.layers, m \in p.layers : k.id = a /\ m.id = b
          BY <2>2, <2>4, <3>4
        <4>2. m \in lower
          BY <2>8, <2>12, <3>4, <4>1
        <4>3. <<k.id, m.id>> \in p.below
          BY <2>2, <2>7, <2>12, <3>4, <4>1
        <4>4. k \in lower
          BY <2>11, <4>2, <4>3
        <4> QED BY <2>8, <3>4, <4>1, <4>4
      <3> QED BY <3>1, <3>2, <3>3, <3>4
    <2> QED BY <2>5, <2>6, <2>9, <2>10, <2>12 DEF IsList
  <1>7. \A k, m \in q.layers : SameIdentity(k, m) => k = m
    BY <1>1, IdentityEquivalence DEF SoundPile
  <1>8. \A k \in q.layers : Tagged(k)
    BY <1>1 DEF SoundPile
  <1> QED BY <1>5, <1>6, <1>7, <1>8 DEF SoundPile

\* An update in place replaces the one layer of the same owner, in its slot.
LEMMA UpdatedSound ==
  ASSUME NEW p, SoundPile(p), NEW l \in Layer, Tagged(l), Match(p, l) # {},
         \A k \in p.layers : k.id = l.id => SameIdentity(k, l)
  PROVE  SoundPile(Updated(p, l))
  <1>1. PICK old \in p.layers : Match(p, l) = {old} /\ SameIdentity(old, l)
    <2>1. \A k \in Match(p, l) : k \in p.layers /\ SameIdentity(k, l)
      BY DEF Match
    <2>2. \A k, m \in Match(p, l) : k = m
      BY <2>1, IdentityEquivalence DEF SoundPile
    <2> QED BY <2>1, <2>2
  <1> DEFINE new == [l EXCEPT !.id = old.id]
             q == Updated(p, l)
  <1>2. /\ q.layers = (p.layers \ {old}) \cup {new}
        /\ q.below = p.below
        /\ q = [layers |-> q.layers, below |-> q.below]
    <2>1. p = [layers |-> p.layers, below |-> p.below]
      BY DEF SoundPile, Pile
    <2>2. {[l EXCEPT !.id = k.id] : k \in Match(p, l)} = {new}
      BY <1>1
    <2>3. q = [p EXCEPT !.layers = (p.layers \ {old}) \cup {new}]
      BY <1>1, <2>2 DEF Updated
    <2> QED BY <2>1, <2>3
  <1>3. old \in Layer /\ old.id \in Ids /\ p.layers \subseteq Layer
    BY LayerFields DEF SoundPile, Pile
  <1>4. /\ new \in Layer
        /\ new.id = old.id
        /\ \A k : SameIdentity(k, new) <=> SameIdentity(k, l)
        /\ IsHomeowner(new) <=> IsHomeowner(l)
        /\ new.removable = l.removable
    BY <1>3, RenamedLayer
  <1>5. IdsOf(q.layers) = IdsOf(p.layers)
    BY <1>2, <1>4 DEF IdsOf
  <1>6. q \in Pile
    BY <1>2, <1>3, <1>4 DEF Pile, SoundPile
  <1>7. \A k, m \in q.layers : k.id = m.id => k = m
    BY <1>2, <1>4 DEF SoundPile, IsList
  <1>8. IsList(q)
    BY <1>2, <1>5, <1>7 DEF SoundPile, IsList
  <1>9. \A k \in p.layers \ {old} : ~SameIdentity(k, new) /\ ~SameIdentity(new, k)
    BY <1>1, <1>4, IdentityEquivalence DEF SoundPile
  <1>10. \A k, m \in q.layers : SameIdentity(k, m) => k = m
    BY <1>2, <1>9 DEF SoundPile
  <1>11. Tagged(new)
    BY <1>1, <1>4 DEF Tagged, SoundPile, SameIdentity
  <1> QED BY <1>2, <1>6, <1>8, <1>10, <1>11 DEF SoundPile

\* Releasing the homeowner layer leaves only system layers.
LEMMA WithoutHomeownerSound ==
  ASSUME NEW p, SoundPile(p)
  PROVE  /\ SoundPile(WithoutHomeowner(p))
         /\ \A k \in WithoutHomeowner(p).layers : ~IsHomeowner(k)
  BY KeptSound DEF WithoutHomeowner, Kept

LEMMA HomeownerLayerType ==
  ASSUME NEW kind \in HomeownerKinds, NEW n \in Int, NEW look \in Looks \cup {"dark"}
  PROVE  /\ HomeownerLayer(kind, n, look) \in Layer
         /\ IsHomeowner(HomeownerLayer(kind, n, look))
         /\ HomeownerLayer(kind, n, look).id = HomeownerId
         /\ ~HomeownerLayer(kind, n, look).removable
  BY DEF HomeownerLayer, Layer, IsHomeowner

-----------------------------------------------------------------------------
(* The engine's state *)

Good(E) == E \in EngineState /\ \A e \in Entities : SoundPile(E.pile[e])

LEMMA SetPileGood ==
  ASSUME NEW E, Good(E), NEW e \in Entities, NEW p, SoundPile(p)
  PROVE  Good(SetPile(E, e, p)) /\ Good([E EXCEPT !.pile[e] = p, !.moved = TRUE])
  BY DEF Good, SetPile, EngineState, SoundPile

LEMMA AllPilesGood ==
  ASSUME NEW E, Good(E), NEW f, f = [e \in Entities |-> f[e]],
         \A e \in Entities : SoundPile(f[e])
  PROVE  Good([E EXCEPT !.pile = f, !.moved = TRUE])
  BY DEF Good, EngineState, SoundPile

LEMMA DisarmedGood ==
  ASSUME NEW E, Good(E), NEW G
  PROVE  Good(Disarmed(E, G))
  BY DEF Good, Disarmed, EngineState

LEMMA MovedGood ==
  ASSUME NEW E, Good(E), NEW m \in BOOLEAN
  PROVE  Good([E EXCEPT !.moved = m])
  BY DEF Good, EngineState

LEMMA ArmedWithGood ==
  ASSUME NEW E, Good(E), NEW g \in Groups, NEW members \in SUBSET Entities
  PROVE  Good(ArmedWith(E, g, members))
  BY DEF Good, ArmedWith, EngineState, Armed

LEMMA SuppressedGood ==
  ASSUME NEW E, Good(E), NEW S, NEW reason \in Reasons
  PROVE  Good(Suppressed(E, S, reason))
  <1> DEFINE hit == UNION {SessionOf(E, l) : l \in {k \in S : InSession(k)}}
             new == (E.sessions \ hit) \cup {[x EXCEPT !.reason = reason] : x \in hit}
  <1>1. hit \subseteq E.sessions
    BY DEF SessionOf
  <1>2. new \subseteq FamilySession
    BY <1>1 DEF Good, EngineState, FamilySession
  <1> QED BY <1>2 DEF Suppressed, Good, EngineState

-----------------------------------------------------------------------------
(* Admission *)

\* Completing an offered layer with its session's sequence or with a priority
\* touches neither its id nor its owner.
LEMMA BoundLayer ==
  ASSUME NEW E, Good(E), NEW e \in Entities, NEW l \in Layer, PushAdmitted(E, e, l)
  PROVE  /\ Bound(E, l) \in Layer
         /\ Bound(E, l).id = l.id
         /\ \A k : SameIdentity(k, Bound(E, l)) <=> SameIdentity(k, l)
         /\ IsHomeowner(Bound(E, l)) <=> IsHomeowner(l)
         /\ Bound(E, l).removable = l.removable
         /\ \A p : Match(p, Bound(E, l)) = Match(p, l)
  <1>1. CASE ~InSession(l)
    BY <1>1 DEF Bound
  <1>2. CASE InSession(l)
    <2> DEFINE n == (CHOOSE x \in SessionOf(E, l) : TRUE).sequence
    <2>1. SessionOf(E, l) # {} /\ SessionOf(E, l) \subseteq FamilySession
      BY <1>2 DEF PushAdmitted, SessionOf, Good, EngineState
    <2>2. n \in Nat
      BY <2>1 DEF FamilySession
    <2>3. Bound(E, l) = [l EXCEPT !.sequence = n]
      BY <1>2 DEF Bound
    <2>4. Bound(E, l) \in Layer /\ Bound(E, l).id = l.id
      BY <2>2, <2>3 DEF Layer
    <2>5. /\ \A k : SameIdentity(k, Bound(E, l)) <=> SameIdentity(k, l)
          /\ IsHomeowner(Bound(E, l)) <=> IsHomeowner(l)
          /\ Bound(E, l).removable = l.removable
      BY <2>3 DEF Layer, SameIdentity, IsHomeowner
    <2> QED BY <2>4, <2>5 DEF Match
  <1> QED BY <1>1, <1>2

LEMMA PrioritizedLayer ==
  ASSUME NEW l \in Layer
  PROVE  /\ WithPriority(l) \in Layer
         /\ WithPriority(l).id = l.id
         /\ \A k : SameIdentity(k, WithPriority(l)) <=> SameIdentity(k, l)
         /\ IsHomeowner(WithPriority(l)) <=> IsHomeowner(l)
         /\ WithPriority(l).removable = l.removable
  BY DEF WithPriority, AdmissionPriority, Layer, SameIdentity, IsHomeowner

LEMMA OfferedLayers ==
  ASSUME NEW l \in Offered
  PROVE  l \in Layer /\ ~IsHomeowner(l) /\ Tagged(l)
  BY ConstantsAssumption DEF IsHomeowner, Tagged, HomeownerKinds, SystemKinds

LEMMA PushedGood ==
  ASSUME NEW E, Good(E), NEW e \in Entities, NEW l \in Layer, Tagged(l),
         PushAdmitted(E, e, l)
  PROVE  Good(Pushed(E, e, l))
  <1> DEFINE p == E.pile[e]
             b == Bound(E, l)
  <1>1. SoundPile(p)
    BY DEF Good
  <1>2. /\ b \in Layer /\ b.id = l.id /\ Tagged(b)
        /\ \A k : SameIdentity(k, b) <=> SameIdentity(k, l)
    BY BoundLayer DEF Tagged
  <1>3. \A k \in p.layers : k.id = b.id => SameIdentity(k, b)
    BY <1>2 DEF PushAdmitted
  <1>4. CASE Match(p, b) # {}
    <2>1. SoundPile(Updated(p, b))
      BY <1>1, <1>2, <1>3, <1>4, UpdatedSound
    <2> QED BY <1>4, <2>1, SetPileGood DEF Pushed
  <1>5. CASE Match(p, b) = {}
    <2>1. \A k \in p.layers : k.id # b.id /\ ~SameIdentity(k, b)
      BY <1>5 DEF Match
    <2>2. PrecedenceBlockers(p, b) \in SUBSET p.layers
      BY DEF PrecedenceBlockers
    <2>3. SoundPile(Inserted(p, b, PrecedenceBlockers(p, b)))
      BY <1>1, <1>2, <2>1, <2>2, InsertedSound
    <2> QED BY <1>5, <2>3, SetPileGood DEF Pushed
  <1> QED BY <1>4, <1>5

LEMMA ActivatedGood ==
  ASSUME NEW E, Good(E), NEW e \in Entities, NEW layer \in Offered,
         ActivateAdmitted(E, e, layer), NEW supersede \in BOOLEAN
  PROVE  Good(Activated(E, e, layer, supersede))
  <1> DEFINE p == E.pile[e]
             w == WithPriority(layer)
             b == Bound(E, w)
  <1>1. SoundPile(p)
    BY DEF Good
  <1>2. w \in Layer /\ Tagged(w) /\ PushAdmitted(E, e, w)
    BY OfferedLayers, PrioritizedLayer DEF Tagged, ActivateAdmitted
  <1>3. /\ b \in Layer /\ b.id = w.id /\ Tagged(b)
        /\ \A k : SameIdentity(k, b) <=> SameIdentity(k, w)
    BY <1>2, BoundLayer DEF Tagged
  <1>4. CASE Known(p, b) # {}
    BY <1>2, <1>4, PushedGood DEF Activated
  <1>5. CASE Known(p, b) = {}
    <2>1. \A k \in p.layers : k.id # b.id /\ ~SameIdentity(k, b)
      BY <1>2, <1>3, <1>5 DEF Known, PushAdmitted
    <2>2. PriorityBlockers(p, b, supersede) \in SUBSET p.layers
      BY DEF PriorityBlockers
    <2>3. SoundPile(Inserted(p, b, PriorityBlockers(p, b, supersede)))
      BY <1>1, <1>3, <2>1, <2>2, InsertedSound
    <2> QED BY <1>5, <2>3, SetPileGood DEF Activated
  <1> QED BY <1>4, <1>5

\* A homeowner layer always finds its one slot free after the release.
LEMMA AdmittedPileSound ==
  ASSUME NEW E, Good(E), NEW e \in Entities,
         NEW l \in Layer, IsHomeowner(l), l.id = HomeownerId, ~l.removable
  PROVE  SoundPile(AdmittedPile(E, e, l))
  <1> DEFINE p == WithoutHomeowner(E.pile[e])
             B == {k \in p.layers : k.protects /\ Eligible(E, e, k)}
  <1>1. SoundPile(p) /\ \A k \in p.layers : ~IsHomeowner(k)
    BY WithoutHomeownerSound DEF Good
  <1>2. \A k \in p.layers : k.id # l.id /\ ~SameIdentity(k, l)
    BY <1>1 DEF SoundPile, Tagged, SameIdentity
  <1>3. SoundPile(Inserted(p, l, B))
    BY <1>1, <1>2, InsertedSound DEF Tagged
  <1> QED BY <1>3 DEF AdmittedPile

LEMMA ManualOffPileSound ==
  ASSUME NEW E, Good(E), NEW e \in Entities
  PROVE  SoundPile(ManualOffPile(E, e))
  <1>1. ExposedPrecedence(E, e) \in Int
    <2>1. Exposed(E, e) \subseteq E.pile[e].layers
      BY DEF Exposed
    <2>2. E.pile[e].layers \subseteq Layer
      BY DEF Good, SoundPile, Pile
    <2>3. \A l \in Exposed(E, e) : l.precedence \in Int
      BY <2>1, <2>2, LayerFields
    <2> QED BY <2>3 DEF ExposedPrecedence
  <1>2. "manual_off" \in HomeownerKinds
    BY DEF HomeownerKinds
  <1> QED BY <1>1, <1>2, HomeownerLayerType, AdmittedPileSound DEF ManualOffPile

-----------------------------------------------------------------------------
(* Operations *)

LEMMA EndedGood ==
  ASSUME NEW E, Good(E), NEW f \in Families, NEW s \in Sessions
  PROVE  Good(Ended(E, f, s))
  <1> DEFINE log == Append(E.ended, <<f, s>>)
             full == Len(log) > RetiredLimit
             rest(p) == Kept(p, {l \in p.layers : ~(l.family = f /\ l.session = s)})
             piles == [e \in Entities |-> rest(E.pile[e])]
             D == [E EXCEPT
                     !.sessions = @ \ LiveSession(E, f, s),
                     !.ended = IF full THEN Tail(log) ELSE log,
                     !.exhausted = @ \/ full,
                     !.pile = piles,
                     !.moved = TRUE]
  <1>1. \A e \in Entities : SoundPile(piles[e])
    BY KeptSound DEF Good
  <1>2. E.ended \in Seq(Families \X Sessions) /\ <<f, s>> \in Families \X Sessions
    BY DEF Good, EngineState
  <1>3. log \in Seq(Families \X Sessions) /\ Len(log) = Len(E.ended) + 1
    BY <1>2
  <1>4. (IF full THEN Tail(log) ELSE log) \in Seq(Families \X Sessions)
    BY <1>3
  <1>5. full \in BOOLEAN
    BY <1>3, ConstantsAssumption
  <1>6. (E.exhausted \/ full) \in BOOLEAN
    BY <1>5
  <1>7. Good(D)
    BY <1>1, <1>4, <1>6 DEF Good, EngineState, SoundPile
  <1>8. Ended(E, f, s) = Disarmed(D, Groups)
    BY DEF Ended
  <1> QED BY <1>7, <1>8, DisarmedGood

LEMMA StartedGood ==
  ASSUME NEW E, Good(E), NEW f \in Families, NEW s \in Sessions, NEW q \in Nat
  PROVE  Good(Started(E, f, s, q))
  <1> DEFINE others == {x \in E.sessions : x.family = f}
             D == EndedOthers(E, f)
             new == [family |-> f, session |-> s, sequence |-> q, reason |-> None]
  <1>1. Good(D)
    <2>1. CASE others = {}
      BY <2>1 DEF EndedOthers
    <2>2. CASE others # {}
      <3>1. (CHOOSE x \in others : TRUE) \in FamilySession
        BY <2>2 DEF Good, EngineState
      <3>2. (CHOOSE x \in others : TRUE).session \in Sessions
        BY <3>1 DEF FamilySession
      <3> QED BY <2>2, <3>2, EndedGood DEF EndedOthers
    <2> QED BY <2>1, <2>2
  <1>2. new \in FamilySession
    BY DEF FamilySession
  <1> QED BY <1>1, <1>2 DEF Started, Good, EngineState

LEMMA ExposedInPile ==
  ASSUME NEW E, NEW e
  PROVE  Exposed(E, e) \subseteq E.pile[e].layers
  BY DEF Exposed

LEMMA AppliedOffGood ==
  ASSUME NEW E, Good(E), NEW e \in Entities
  PROVE  Good(AppliedOff(E, e))
  <1> DEFINE top == Exposed(E, e)
             without == Kept(E.pile[e], E.pile[e].layers \ top)
  <1>1. SoundPile(without)
    BY KeptSound DEF Good
  <1>2. Good(SetPile(E, e, without))
    BY <1>1, SetPileGood
  <1>3. Good(Suppressed(E, top, "homeowner_off"))
    BY SuppressedGood DEF Reasons, HomeownerReasons
  <1>4. Good([E EXCEPT !.pile[e] = ManualOffPile(E, e), !.moved = TRUE])
    BY ManualOffPileSound, SetPileGood
  <1> QED BY <1>2, <1>3, <1>4 DEF AppliedOff

LEMMA AppliedGroupOffGood ==
  ASSUME NEW E, Good(E), NEW g \in Groups, NEW members \in SUBSET Entities,
         NEW eligible \in SUBSET members
  PROVE  Good(AppliedGroupOff(E, g, members, eligible))
  <1> DEFINE alone == Disarmed(E, Overlapping(E, members) \ {g})
  <1>1. Good(alone)
    BY DisarmedGood
  <1>2. Good(SecondGroupOff(alone, eligible))
    <2> DEFINE covered == Suppressed(alone, UNION {Exposed(alone, e) : e \in eligible},
                                     "homeowner_group_off")
               f == [e \in Entities |-> IF e \in eligible
                       THEN ManualOffPile(covered, e) ELSE alone.pile[e]]
    <2>1. Good(covered)
      BY <1>1, SuppressedGood DEF Reasons, HomeownerReasons
    <2>2. \A e \in Entities : SoundPile(f[e])
      BY <1>1, <2>1, ManualOffPileSound DEF Good
    <2>3. Good([covered EXCEPT !.pile = f, !.moved = TRUE])
      BY <2>1, <2>2, AllPilesGood
    <2> QED BY <2>3 DEF SecondGroupOff
  <1>3. Good(FirstGroupOff(alone, g, members, eligible))
    <2> DEFINE f == [e \in Entities |-> IF e \in eligible
                       THEN WithoutHomeowner(alone.pile[e]) ELSE alone.pile[e]]
               full == g \notin Armed(alone) /\ Cardinality(Armed(alone)) >= MaxGroups
               room == IF full THEN Disarmed(alone, OldestArmed(alone)) ELSE alone
    <2>1. Good(room)
      BY <1>1, DisarmedGood
    <2>2. \A e \in Entities : SoundPile(f[e])
      BY <1>1, WithoutHomeownerSound DEF Good
    <2>3. Good([room EXCEPT !.pile = f, !.moved = TRUE])
      BY <2>1, <2>2, AllPilesGood
    <2> HIDE DEF f, room
    <2>4. Good(ArmedWith([room EXCEPT !.pile = f, !.moved = TRUE], g, members))
      BY <2>3, ArmedWithGood
    <2> QED BY <2>4 DEF FirstGroupOff, f, room
  <1> QED BY <1>2, <1>3 DEF AppliedGroupOff

LEMMA BlankGood ==
  ASSUME NEW managed \in SUBSET Entities, NEW m \in BOOLEAN
  PROVE  Good([Blank(managed) EXCEPT !.moved = m]) /\ Good(Blank(managed))
  <1>1. <<>> \in Seq(Families \X Sessions)
    OBVIOUS
  <1> QED BY <1>1, EmptyPileSound DEF Good, Blank, EngineState, SoundPile

LEMMA KeptEverywhereGood ==
  ASSUME NEW E, Good(E), NEW S, \A e \in Entities : S[e] \subseteq E.pile[e].layers
  PROVE  Good([E EXCEPT !.pile = [e \in Entities |-> Kept(E.pile[e], S[e])],
                        !.moved = TRUE])
  BY KeptSound, AllPilesGood DEF Good

LEMMA ExpiredGood ==
  ASSUME NEW E, Good(E)
  PROVE  Good(Expired(E)) /\ Good(EveningActivated(E))
  <1> DEFINE L == [e \in Entities |-> {l \in E.pile[e].layers : ~l.boundary}]
             N == [e \in Entities |-> {l \in E.pile[e].layers : l.kind # "manual_off"}]
  <1>1. Good([E EXCEPT !.pile = [e \in Entities |-> Kept(E.pile[e], L[e])], !.moved = TRUE])
    BY KeptEverywhereGood
  <1>2. Good([E EXCEPT !.pile = [e \in Entities |-> Kept(E.pile[e], N[e])], !.moved = TRUE])
    BY KeptEverywhereGood
  <1> QED BY <1>1, <1>2, DisarmedGood DEF Expired, EveningActivated, KeptEverywhere

LEMMA ResetHomeownerGood ==
  ASSUME NEW E, Good(E)
  PROVE  Good(ResetHomeowner(E))
  <1> DEFINE S == [e \in Entities |-> {l \in E.pile[e].layers : ~IsHomeowner(l)}]
             piles == [e \in Entities |-> Kept(E.pile[e], S[e])]
             lifted == {x \in E.sessions : x.reason \in HomeownerReasons}
             new == (E.sessions \ lifted) \cup {[x EXCEPT !.reason = None] : x \in lifted}
             D == [E EXCEPT !.pile = piles, !.sessions = new, !.moved = TRUE]
  <1>1. \A e \in Entities : SoundPile(piles[e])
    BY KeptSound DEF Good
  <1>2. new \subseteq FamilySession
    BY DEF Good, EngineState, FamilySession
  <1>3. Good(D)
    BY <1>1, <1>2 DEF Good, EngineState, SoundPile
  <1> QED BY <1>3, DisarmedGood DEF ResetHomeowner, KeptEverywhere

LEMMA ManagedUpdatedGood ==
  ASSUME NEW E, Good(E), NEW desired \in SUBSET Entities
  PROVE  Good(ManagedUpdated(E, desired))
  <1> DEFINE f == [e \in Entities |-> IF e \in E.managed \ desired
                                       THEN EmptyPile ELSE E.pile[e]]
  <1>1. \A e \in Entities : SoundPile(f[e])
    BY EmptyPileSound DEF Good
  <1>2. Good([E EXCEPT !.pile = f, !.managed = desired, !.moved = TRUE])
    BY <1>1 DEF Good, EngineState, SoundPile
  <1> QED BY <1>2, DisarmedGood DEF ManagedUpdated

LEMMA AdapterSuppressionGood ==
  ASSUME NEW f \in Families, NEW s \in Sessions, Good(engine), SuppressFamily(f, s)
  PROVE  Good(engine')
  <1>1. PICK x \in LiveSession(engine, f, s) :
          engine' = [engine EXCEPT
             !.sessions = (engine.sessions \ {x}) \cup {[x EXCEPT !.reason = "adapter"]},
             !.moved = @ \/ (engine.sessions \ {x}) \cup {[x EXCEPT !.reason = "adapter"]}
                           # engine.sessions]
    BY DEF SuppressFamily, Becomes
  <1>2. [x EXCEPT !.reason = "adapter"] \in FamilySession
    BY DEF LiveSession, Good, EngineState, FamilySession, Reasons
  <1> QED BY <1>1, <1>2 DEF Good, EngineState

-----------------------------------------------------------------------------
(* The inductive invariant *)

EngineInv == Good(engine) /\ generation \in Nat

LEMMA InitInv == EngineInit => EngineInv
  <1> SUFFICES ASSUME EngineInit PROVE EngineInv
    OBVIOUS
  <1>1. PICK managed \in SUBSET Entities : engine = [Blank(managed) EXCEPT !.moved = FALSE]
    BY DEF EngineInit
  <1>2. Good([Blank(managed) EXCEPT !.moved = FALSE])
    BY BlankGood
  <1>3. generation \in Nat
    BY DEF EngineInit
  <1> QED BY <1>1, <1>2, <1>3, Zenon DEF EngineInv

\* One step per public operation of the engine.
LEMMA StepInv == EngineInv /\ [EngineNext]_engineVars => EngineInv'
  <1> SUFFICES ASSUME EngineInv, [EngineNext]_engineVars
               PROVE  EngineInv'
    OBVIOUS
  <1> USE DEF EngineInv, Becomes
  <1>1. ASSUME NEW e \in Entities, NEW l \in Offered, Push(e, l)
        PROVE  EngineInv'
    BY <1>1, OfferedLayers, PushedGood DEF Push
  <1>2. ASSUME NEW e \in Entities, NEW l \in Offered, NEW supersede \in BOOLEAN,
               ActivateAutomatic(e, l, supersede)
        PROVE  EngineInv'
    BY <1>2, ActivatedGood DEF ActivateAutomatic
  <1>3. ASSUME NEW e \in Entities, NEW id \in Ids, RemoveLayer(e, id)
        PROVE  EngineInv'
    <2>1. SoundPile(Kept(engine.pile[e], {l \in engine.pile[e].layers : l.id # id}))
      BY KeptSound DEF Good
    <2> QED BY <1>3, <2>1, SetPileGood DEF RemoveLayer
  <1>4. ASSUME NEW e \in Entities, NEW owner \in Owners, RemoveOwner(e, owner)
        PROVE  EngineInv'
    <2>1. SoundPile(Kept(engine.pile[e], {l \in engine.pile[e].layers : l.owner # owner}))
      BY KeptSound DEF Good
    <2> QED BY <1>4, <2>1, SetPileGood DEF RemoveOwner
  <1>5. ASSUME NEW f \in Families, NEW s \in Sessions, NEW q \in 1..MaxSequence,
               NEW explicit \in BOOLEAN, StartFamily(f, s, q, explicit)
        PROVE  EngineInv'
    BY <1>5, StartedGood DEF StartFamily
  <1>6. ASSUME NEW f \in Families, NEW s \in Sessions, SuppressFamily(f, s)
        PROVE  EngineInv'
    BY <1>6, AdapterSuppressionGood DEF SuppressFamily
  <1>7. ASSUME NEW f \in Families, NEW s \in Sessions, EndFamily(f, s)
        PROVE  EngineInv'
    BY <1>7, EndedGood DEF EndFamily
  <1>8. ASSUME NEW e \in Entities, ManualRelease(e)
        PROVE  EngineInv'
    <2>1. SoundPile(Kept(engine.pile[e], engine.pile[e].layers \ Exposed(engine, e)))
      BY KeptSound DEF Good
    <2> QED BY <1>8, <2>1, SetPileGood DEF ManualRelease
  <1>9. ASSUME NEW e \in Entities, ApplyOff(e)
        PROVE  EngineInv'
    BY <1>9, AppliedOffGood DEF ApplyOff
  <1>10. ASSUME NEW e \in Entities, PushManualOff(e)
         PROVE  EngineInv'
    BY <1>10, ManualOffPileSound, SetPileGood DEF PushManualOff
  <1>11. ASSUME NEW e \in Entities, NEW look \in Looks, AdmitManual(e, look)
         PROVE  EngineInv'
    <2>1. SoundPile(AdmittedPile(engine, e, HomeownerLayer("manual", 0, look)))
      BY HomeownerLayerType, AdmittedPileSound DEF HomeownerKinds
    <2> QED BY <1>11, <2>1, SetPileGood DEF AdmitManual
  <1>12. ASSUME NEW g \in Groups, NEW members \in SUBSET engine.managed,
                NEW eligible \in SUBSET members, ApplyGroupOff(g, members, eligible)
         PROVE  EngineInv'
    <2>1. members \in SUBSET Entities
      BY DEF Good, EngineState
    <2> QED BY <1>12, <2>1, AppliedGroupOffGood DEF ApplyGroupOff
  <1>13. ASSUME NEW G, ResetGroupOffSequence(G)
         PROVE  EngineInv'
    <2>1. Good(Disarmed(engine, G))
      BY DisarmedGood
    <2>2. Disarmed(engine, G).moved \in BOOLEAN
      BY <2>1 DEF Good, EngineState
    <2>3. (Disarmed(engine, G).moved \/ Armed(engine) # {}) \in BOOLEAN
      BY <2>2
    <2> QED BY <1>13, <2>1, <2>3, MovedGood DEF ResetGroupOffSequence
  <1>14. ASSUME NEW scope \in SUBSET Entities, UpdateManagedEntities(scope)
         PROVE  EngineInv'
    BY <1>14, ManagedUpdatedGood DEF UpdateManagedEntities
  <1>15. ASSUME NEW scope \in SUBSET Entities, Reconfigure(scope)
         PROVE  EngineInv'
    <2>1. engine' = Blank(scope) /\ generation' = generation + 1
      BY <1>15, Zenon DEF Reconfigure
    <2>2. Good(Blank(scope))
      BY BlankGood, Zenon
    <2>3. generation' \in Nat
      BY <2>1
    <2> QED BY <2>1, <2>2, <2>3, Zenon
  <1>16. CASE CaptureWork
    <2>1. Good([engine EXCEPT !.moved = FALSE])
      BY MovedGood
    <2> QED BY <1>16, <2>1, Zenon DEF CaptureWork
  <1>17. CASE ExpireBoundary \/ EveningActivation
    BY <1>17, ExpiredGood DEF ExpireBoundary, EveningActivation
  <1>18. CASE ResetHomeownerControl
    BY <1>18, ResetHomeownerGood DEF ResetHomeownerControl
  <1>19. CASE UNCHANGED engineVars
    <2>1. engine' = engine /\ generation' = generation
      BY <1>19 DEF engineVars
    <2> QED BY <2>1, Zenon DEF Good
  <1> QED
    BY <1>1, <1>2, <1>3, <1>4, <1>5, <1>6, <1>7, <1>8, <1>9, <1>10, <1>11, <1>12,
       <1>13, <1>14, <1>15, <1>16, <1>17, <1>18, <1>19
       DEF EngineNext, SystemAdapters, FamilyAdapters, Homeowner, Lifecycle

LEMMA InvHolds == EngineSpec => []EngineInv
  BY InitInv, StepInv, PTL DEF EngineSpec

\* The engine's tables keep their types and every light's layers stay a list,
\* whatever sequence of public operations is called.
THEOREM EngineTypes == EngineSpec => []EngineTypeOK
  <1>1. EngineInv => EngineTypeOK
    BY DEF EngineInv, EngineTypeOK, Good, SoundPile
  <1> QED BY <1>1, InvHolds, PTL

\* No light ever holds two layers of one logical owner; Manual and Manual-OFF
\* never coexist.
THEOREM SingleSlot == EngineSpec => []OneLayerPerOwner
  <1>1. EngineInv => OneLayerPerOwner
    BY DEF EngineInv, OneLayerPerOwner, Good, SoundPile
  <1> QED BY <1>1, InvHolds, PTL

-----------------------------------------------------------------------------
(* Armed groups *)

\* What the armed groups are in every state.  The last conjunct is what makes the
\* capacity inductive: the insertion order of the dictionary puts one of any armed
\* groups first, so that a full table always has an oldest group to disarm.
ArmingGood(E) ==
  /\ \A g, h \in Groups : g # h => E.armed[g] \cap E.armed[h] = {}
  /\ \A g \in Groups : E.armed[g] \subseteq E.managed
  /\ IsFiniteSet(Armed(E)) /\ Cardinality(Armed(E)) <= MaxGroups
  /\ \A T \in SUBSET Armed(E) : T # {} =>
       \E g \in T : \A h \in T \ {g} : <<g, h>> \in E.earlier

\* Only the tables of armed groups and the scope matter.
LEMMA SameArming ==
  ASSUME NEW D, NEW E, ArmingGood(E),
         D.armed = E.armed, D.earlier = E.earlier, D.managed = E.managed
  PROVE  ArmingGood(D)
  <1>1. Armed(D) = Armed(E)
    BY DEF Armed
  <1> QED BY <1>1 DEF ArmingGood

LEMMA DisarmedTables ==
  ASSUME NEW E, Good(E), NEW G
  PROVE  /\ Disarmed(E, G).armed = [g \in Groups |-> IF g \in G THEN {} ELSE E.armed[g]]
         /\ Disarmed(E, G).earlier = E.earlier \cap ((Groups \ G) \X (Groups \ G))
         /\ Armed(Disarmed(E, G)) = Armed(E) \ G
  BY DEF Good, EngineState, Disarmed, Armed

LEMMA DisarmedRest ==
  ASSUME NEW E, Good(E), NEW G
  PROVE  /\ Disarmed(E, G).managed = E.managed
         /\ Disarmed(E, G).pile = E.pile
         /\ Disarmed(E, G).sessions = E.sessions
         /\ Disarmed(E, G).lastSequence = E.lastSequence
         /\ Disarmed(E, G).lastSession = E.lastSession
         /\ Disarmed(E, G).ended = E.ended
         /\ Disarmed(E, G).moved = E.moved
  BY DEF Good, EngineState, Disarmed

\* Disarming groups keeps the rest in order.
LEMMA DisarmedArming ==
  ASSUME NEW E, Good(E), ArmingGood(E), NEW G
  PROVE  ArmingGood(Disarmed(E, G))
  <1> DEFINE D == Disarmed(E, G)
  <1>1. Armed(D) = Armed(E) \ G
    BY DisarmedTables
  <1>2. /\ D.armed = [g \in Groups |-> IF g \in G THEN {} ELSE E.armed[g]]
        /\ D.earlier = E.earlier \cap ((Groups \ G) \X (Groups \ G))
        /\ D.managed = E.managed
    BY DisarmedTables, DisarmedRest
  <1> HIDE DEF D
  <1>3. IsFiniteSet(Armed(D)) /\ Cardinality(Armed(D)) <= MaxGroups
    <2>1. IsFiniteSet(Armed(E)) /\ Cardinality(Armed(E)) <= MaxGroups
      BY DEF ArmingGood
    <2>2. /\ IsFiniteSet(Armed(D))
          /\ Cardinality(Armed(D)) <= Cardinality(Armed(E))
      BY <1>1, <2>1, FS_Subset
    <2>3. Cardinality(Armed(D)) \in Nat /\ Cardinality(Armed(E)) \in Nat
      BY <2>1, <2>2, FS_CardinalityType
    <2> QED BY <2>1, <2>2, <2>3, ConstantsAssumption
  <1>4. \A T \in SUBSET Armed(D) : T # {} =>
          \E g \in T : \A h \in T \ {g} : <<g, h>> \in D.earlier
    <2>1. Armed(D) \subseteq Groups \ G
      BY <1>1 DEF Armed
    <2> QED BY <1>1, <1>2, <2>1 DEF ArmingGood
  <1>5. /\ \A g, h \in Groups : g # h => D.armed[g] \cap D.armed[h] = {}
        /\ \A g \in Groups : D.armed[g] \subseteq D.managed
    BY <1>2 DEF ArmingGood
  <1> QED BY <1>3, <1>4, <1>5 DEF ArmingGood, D

\* A change that disarms every group may change the scope as well.
LEMMA AllDisarmedArming ==
  ASSUME NEW E, Good(E)
  PROVE  ArmingGood(Disarmed(E, Groups)) /\ Armed(Disarmed(E, Groups)) = {}
  <1> DEFINE D == Disarmed(E, Groups)
  <1>1. D.armed = [g \in Groups |-> IF g \in Groups THEN {} ELSE E.armed[g]]
    BY DisarmedTables
  <1> HIDE DEF D
  <1>2. Armed(D) = {}
    BY <1>1 DEF Armed
  <1>3. IsFiniteSet({}) /\ Cardinality({}) = 0 /\ 0 <= MaxGroups
    BY FS_EmptySet, ConstantsAssumption
  <1> QED BY <1>1, <1>2, <1>3 DEF ArmingGood, D

\* Arming a group that overlaps no other, in a table with room for it.
LEMMA ArmedWithArming ==
  ASSUME NEW E, Good(E), ArmingGood(E), NEW g \in Groups,
         NEW members \in SUBSET E.managed, members # {},
         \A h \in Groups \ {g} : E.armed[h] \cap members = {},
         g \in Armed(E) \/ Cardinality(Armed(E)) < MaxGroups
  PROVE  ArmingGood(ArmedWith(E, g, members))
  <1> DEFINE D == ArmedWith(E, g, members)
  <1>1. /\ D.armed = [E.armed EXCEPT ![g] = members]
        /\ D.earlier = (IF g \in Armed(E) THEN E.earlier
                        ELSE E.earlier \cup ((Armed(E) \ {g}) \X {g}))
        /\ D.managed = E.managed
    BY DEF Good, EngineState, ArmedWith
  <1>2. E.armed \in [Groups -> SUBSET Entities]
    BY DEF Good, EngineState
  <1> HIDE DEF D
  <1>3. Armed(D) = Armed(E) \cup {g}
    BY <1>1, <1>2 DEF Armed
  <1>4. IsFiniteSet(Armed(D)) /\ Cardinality(Armed(D)) <= MaxGroups
    <2>1. IsFiniteSet(Armed(E)) /\ Cardinality(Armed(E)) <= MaxGroups
      BY DEF ArmingGood
    <2>2. /\ IsFiniteSet(Armed(D))
          /\ Cardinality(Armed(D)) =
               IF g \in Armed(E) THEN Cardinality(Armed(E)) ELSE Cardinality(Armed(E)) + 1
      BY <1>3, <2>1, FS_AddElement
    <2>3. Cardinality(Armed(E)) \in Nat
      BY <2>1, FS_CardinalityType
    <2> QED BY <2>1, <2>2, <2>3, ConstantsAssumption
  <1>5. ASSUME NEW T \in SUBSET Armed(D), T # {}
        PROVE  \E i \in T : \A h \in T \ {i} : <<i, h>> \in D.earlier
    <2>1. CASE g \in Armed(E)
      BY <1>1, <1>3, <1>5, <2>1 DEF ArmingGood
    <2>2. CASE g \notin Armed(E) /\ T \ {g} = {}
      BY <1>5, <2>2
    <2>3. CASE g \notin Armed(E) /\ T \ {g} # {}
      <3>1. T \ {g} \in SUBSET Armed(E)
        BY <1>3, <2>3
      <3>2. PICK i \in T \ {g} : \A h \in (T \ {g}) \ {i} : <<i, h>> \in E.earlier
        BY <2>3, <3>1 DEF ArmingGood
      <3>3. <<i, g>> \in D.earlier /\ E.earlier \subseteq D.earlier
        BY <1>1, <2>3, <3>1
      <3> QED BY <3>2, <3>3
    <2> QED BY <2>1, <2>2, <2>3
  <1>6. /\ \A i, h \in Groups : i # h => D.armed[i] \cap D.armed[h] = {}
        /\ \A i \in Groups : D.armed[i] \subseteq D.managed
    BY <1>1, <1>2 DEF ArmingGood
  <1> QED BY <1>4, <1>5, <1>6 DEF ArmingGood, D

LEMMA AppliedGroupOffArming ==
  ASSUME NEW E, Good(E), ArmingGood(E), NEW g \in Groups,
         NEW members \in SUBSET E.managed, members # {}, NEW eligible \in SUBSET members
  PROVE  ArmingGood(AppliedGroupOff(E, g, members, eligible))
  <1> DEFINE alone == Disarmed(E, Overlapping(E, members) \ {g})
  <1>1. /\ Good(alone) /\ ArmingGood(alone) /\ alone.managed = E.managed
        /\ \A h \in Groups \ {g} : alone.armed[h] \cap members = {}
    <2>1. Good(alone) /\ ArmingGood(alone) /\ alone.managed = E.managed
      BY DisarmedGood, DisarmedArming, DisarmedRest
    <2>2. alone.armed = [h \in Groups |-> IF h \in Overlapping(E, members) \ {g}
                                            THEN {} ELSE E.armed[h]]
      BY DisarmedTables
    <2> HIDE DEF alone
    <2> QED BY <2>1, <2>2 DEF Overlapping
  <1> HIDE DEF alone
  <1>2. ArmingGood(SecondGroupOff(alone, eligible))
    <2>1. /\ SecondGroupOff(alone, eligible).armed = alone.armed
          /\ SecondGroupOff(alone, eligible).earlier = alone.earlier
          /\ SecondGroupOff(alone, eligible).managed = alone.managed
      BY <1>1 DEF SecondGroupOff, Suppressed, Good, EngineState
    <2> QED BY <1>1, <2>1, SameArming
  <1>3. ArmingGood(FirstGroupOff(alone, g, members, eligible))
    <2> DEFINE f == [e \in Entities |-> IF e \in eligible
                       THEN WithoutHomeowner(alone.pile[e]) ELSE alone.pile[e]]
               full == g \notin Armed(alone) /\ Cardinality(Armed(alone)) >= MaxGroups
               room == IF full THEN Disarmed(alone, OldestArmed(alone)) ELSE alone
               D == [room EXCEPT !.pile = f, !.moved = TRUE]
    <2>1. IsFiniteSet(Armed(alone)) /\ Cardinality(Armed(alone)) <= MaxGroups
      BY <1>1 DEF ArmingGood
    <2>2. Cardinality(Armed(alone)) \in Nat /\ MaxGroups \in Nat \ {0}
      BY <2>1, FS_CardinalityType, ConstantsAssumption
    <2>3. /\ Good(room) /\ ArmingGood(room) /\ room.managed = alone.managed
          /\ \A h \in Groups \ {g} : room.armed[h] \cap members = {}
          /\ g \in Armed(room) \/ Cardinality(Armed(room)) < MaxGroups
      <3>1. CASE full
        <4> DEFINE oldest == OldestArmed(alone)
        <4>1. oldest # {} /\ oldest \subseteq Armed(alone)
          <5>1. Armed(alone) # {}
            BY <3>1, <2>2, FS_EmptySet
          <5>2. \A T \in SUBSET Armed(alone) : T # {} =>
                  \E i \in T : \A h \in T \ {i} : <<i, h>> \in alone.earlier
            BY <1>1, Zenon DEF ArmingGood
          <5>3. Armed(alone) \in SUBSET Armed(alone)
            OBVIOUS
          <5>4. \E i \in Armed(alone) : \A h \in Armed(alone) \ {i} : <<i, h>> \in alone.earlier
            BY <5>1, <5>2, <5>3, Zenon
          <5> QED BY <5>4 DEF OldestArmed
        <4>2. /\ Good(Disarmed(alone, oldest)) /\ ArmingGood(Disarmed(alone, oldest))
              /\ Disarmed(alone, oldest).managed = alone.managed
          BY <1>1, DisarmedGood, DisarmedArming, DisarmedRest
        <4>3. /\ Disarmed(alone, oldest).armed =
                   [h \in Groups |-> IF h \in oldest THEN {} ELSE alone.armed[h]]
              /\ Armed(Disarmed(alone, oldest)) = Armed(alone) \ oldest
          BY <1>1, DisarmedTables
        <4>4. Cardinality(Armed(alone) \ oldest) < Cardinality(Armed(alone))
          <5>1. /\ Cardinality(Armed(alone) \ oldest) <= Cardinality(Armed(alone))
                /\ Cardinality(Armed(alone) \ oldest) # Cardinality(Armed(alone))
            BY <2>1, <4>1, FS_Subset
          <5>2. Cardinality(Armed(alone) \ oldest) \in Nat
            BY <2>1, FS_Subset, FS_CardinalityType
          <5> QED BY <5>1, <5>2, <2>2
        <4>5. Cardinality(Armed(alone) \ oldest) < MaxGroups
          <5>1. Cardinality(Armed(alone) \ oldest) \in Nat
            BY <2>1, FS_Subset, FS_CardinalityType
          <5> QED BY <5>1, <4>4, <2>1, <2>2
        <4>6. room = Disarmed(alone, oldest)
          BY <3>1
        <4> HIDE DEF room, oldest
        <4>7. \A h \in Groups \ {g} : room.armed[h] \cap members = {}
          BY <4>3, <4>6, <1>1
        <4>8. Cardinality(Armed(room)) < MaxGroups
          BY <4>3, <4>5, <4>6
        <4> QED BY <4>2, <4>6, <4>7, <4>8
      <3>2. CASE ~full
        BY <3>2, <1>1, <2>1, <2>2
      <3> QED BY <3>1, <3>2
    <2> HIDE DEF room
    <2>4. \A e \in Entities : SoundPile(f[e])
      BY <1>1, WithoutHomeownerSound DEF Good
    <2>5. Good(D)
      BY <2>3, <2>4, AllPilesGood
    <2>6. D.armed = room.armed /\ D.earlier = room.earlier /\ D.managed = room.managed
      BY <2>3 DEF Good, EngineState
    <2> HIDE DEF D
    <2>7. Armed(D) = Armed(room)
      BY <2>6 DEF Armed
    <2>8. ArmingGood(D)
      BY <2>3, <2>6, SameArming
    <2>9. ArmingGood(ArmedWith(D, g, members))
      BY <2>3, <2>5, <2>6, <2>7, <2>8, <1>1, ArmedWithArming
    <2> QED BY <2>9 DEF FirstGroupOff, D, room
  <1> QED BY <1>2, <1>3 DEF AppliedGroupOff, alone

ArmingInv == EngineInv /\ ArmingGood(engine)

\* Operations that change neither the armed groups nor the scope.
LEMMA UnarmedOperations ==
  ASSUME NEW E, Good(E), ArmingGood(E), NEW e \in Entities, NEW p, NEW S, NEW reason,
         NEW f, NEW m
  PROVE  /\ ArmingGood(SetPile(E, e, p))
         /\ ArmingGood([E EXCEPT !.pile[e] = p, !.moved = TRUE])
         /\ ArmingGood(Suppressed(E, S, reason))
         /\ ArmingGood([E EXCEPT !.sessions = f, !.moved = m])
         /\ ArmingGood([E EXCEPT !.moved = m])
  BY SameArming DEF SetPile, Suppressed, Good, EngineState

LEMMA EndedArming ==
  ASSUME NEW E, Good(E), NEW f \in Families, NEW s \in Sessions
  PROVE  ArmingGood(Ended(E, f, s)) /\ Armed(Ended(E, f, s)) = {}
  <1>1. Good(Ended(E, f, s))
    BY EndedGood
  <1>2. Ended(E, f, s).armed = [g \in Groups |-> {}]
    BY DEF Ended, Disarmed, Good, EngineState
  <1>3. Armed(Ended(E, f, s)) = {}
    BY <1>2 DEF Armed
  <1>4. IsFiniteSet({}) /\ Cardinality({}) = 0 /\ 0 <= MaxGroups
    BY FS_EmptySet, ConstantsAssumption
  <1> QED BY <1>2, <1>3, <1>4 DEF ArmingGood

LEMMA StartedArming ==
  ASSUME NEW E, Good(E), ArmingGood(E), NEW f \in Families, NEW s \in Sessions, NEW q \in Nat
  PROVE  ArmingGood(Started(E, f, s, q))
  <1> DEFINE others == {x \in E.sessions : x.family = f}
             D == EndedOthers(E, f)
  <1>1. Good(D) /\ ArmingGood(D)
    <2>1. CASE others = {}
      BY <2>1 DEF EndedOthers
    <2>2. CASE others # {}
      <3>1. (CHOOSE x \in others : TRUE) \in FamilySession
        BY <2>2 DEF Good, EngineState
      <3>2. (CHOOSE x \in others : TRUE).session \in Sessions
        BY <3>1 DEF FamilySession
      <3> QED BY <2>2, <3>2, EndedGood, EndedArming DEF EndedOthers
    <2> QED BY <2>1, <2>2
  <1> HIDE DEF D
  <1>2. /\ Started(E, f, s, q).armed = D.armed
        /\ Started(E, f, s, q).earlier = D.earlier
        /\ Started(E, f, s, q).managed = D.managed
    BY <1>1 DEF Started, Good, EngineState, D
  <1> QED BY <1>1, <1>2, SameArming

LEMMA AppliedOffArming ==
  ASSUME NEW E, Good(E), ArmingGood(E), NEW e \in Entities
  PROVE  ArmingGood(AppliedOff(E, e))
  BY UnarmedOperations DEF AppliedOff

LEMMA ArmingStep == ArmingInv /\ [EngineNext]_engineVars => ArmingInv'
  <1> SUFFICES ASSUME ArmingInv, [EngineNext]_engineVars
               PROVE  ArmingGood(engine)'
    BY StepInv DEF ArmingInv
  <1>0. Good(engine) /\ ArmingGood(engine)
    BY DEF ArmingInv, EngineInv
  <1> USE DEF Becomes
  <1>1. ASSUME NEW e \in Entities, NEW l \in Offered, Push(e, l)
        PROVE  ArmingGood(engine)'
    BY <1>0, <1>1, UnarmedOperations DEF Push, Pushed
  <1>2. ASSUME NEW e \in Entities, NEW l \in Offered, NEW supersede \in BOOLEAN,
               ActivateAutomatic(e, l, supersede)
        PROVE  ArmingGood(engine)'
    BY <1>0, <1>2, UnarmedOperations DEF ActivateAutomatic, Activated, Pushed
  <1>3. ASSUME NEW e \in Entities, NEW id \in Ids, RemoveLayer(e, id)
        PROVE  ArmingGood(engine)'
    BY <1>0, <1>3, UnarmedOperations DEF RemoveLayer
  <1>4. ASSUME NEW e \in Entities, NEW owner \in Owners, RemoveOwner(e, owner)
        PROVE  ArmingGood(engine)'
    BY <1>0, <1>4, UnarmedOperations DEF RemoveOwner
  <1>5. ASSUME NEW f \in Families, NEW s \in Sessions, NEW q \in 1..MaxSequence,
               NEW explicit \in BOOLEAN, StartFamily(f, s, q, explicit)
        PROVE  ArmingGood(engine)'
    BY <1>0, <1>5, StartedArming DEF StartFamily
  <1>6. ASSUME NEW f \in Families, NEW s \in Sessions, SuppressFamily(f, s)
        PROVE  ArmingGood(engine)'
    <2>1. /\ engine'.armed = engine.armed /\ engine'.earlier = engine.earlier
          /\ engine'.managed = engine.managed
      BY <1>0, <1>6 DEF SuppressFamily, Good, EngineState
    <2> QED BY <1>0, <2>1, SameArming
  <1>7. ASSUME NEW f \in Families, NEW s \in Sessions, EndFamily(f, s)
        PROVE  ArmingGood(engine)'
    BY <1>0, <1>7, EndedArming DEF EndFamily
  <1>8. ASSUME NEW e \in Entities, ManualRelease(e)
        PROVE  ArmingGood(engine)'
    BY <1>0, <1>8, UnarmedOperations DEF ManualRelease
  <1>9. ASSUME NEW e \in Entities, ApplyOff(e)
        PROVE  ArmingGood(engine)'
    BY <1>0, <1>9, AppliedOffArming DEF ApplyOff
  <1>10. ASSUME NEW e \in Entities, PushManualOff(e)
         PROVE  ArmingGood(engine)'
    BY <1>0, <1>10, UnarmedOperations DEF PushManualOff
  <1>11. ASSUME NEW e \in Entities, NEW look \in Looks, AdmitManual(e, look)
         PROVE  ArmingGood(engine)'
    BY <1>0, <1>11, UnarmedOperations DEF AdmitManual
  <1>12. ASSUME NEW g \in Groups, NEW members \in SUBSET engine.managed, members # {},
                NEW eligible \in SUBSET members, ApplyGroupOff(g, members, eligible)
         PROVE  ArmingGood(engine)'
    BY <1>0, <1>12, AppliedGroupOffArming DEF ApplyGroupOff
  <1>13. ASSUME NEW G, ResetGroupOffSequence(G)
         PROVE  ArmingGood(engine)'
    <2>1. Good(Disarmed(engine, G)) /\ ArmingGood(Disarmed(engine, G))
      BY <1>0, DisarmedGood, DisarmedArming
    <2> QED BY <1>13, <2>1, SameArming DEF ResetGroupOffSequence, Good, EngineState
  <1>14. ASSUME NEW scope \in SUBSET Entities, UpdateManagedEntities(scope)
         PROVE  ArmingGood(engine)'
    <2> DEFINE D == [engine EXCEPT
                !.pile = [e \in Entities |-> IF e \in engine.managed \ scope
                                               THEN EmptyPile ELSE engine.pile[e]],
                !.managed = scope, !.moved = TRUE]
    <2>1. Good(D)
      BY <1>0, EmptyPileSound DEF Good, EngineState, SoundPile
    <2>2. engine' = Disarmed(D, Groups)
      BY <1>14 DEF UpdateManagedEntities, ManagedUpdated
    <2> QED BY <2>1, <2>2, AllDisarmedArming
  <1>15. ASSUME NEW scope \in SUBSET Entities, Reconfigure(scope)
         PROVE  ArmingGood(engine)'
    <2>1. engine'.armed = [g \in Groups |-> {}]
      BY <1>15 DEF Reconfigure, Blank
    <2>2. Armed(engine') = {}
      BY <2>1 DEF Armed
    <2>3. IsFiniteSet({}) /\ Cardinality({}) = 0 /\ 0 <= MaxGroups
      BY FS_EmptySet, ConstantsAssumption
    <2> QED BY <2>1, <2>2, <2>3 DEF ArmingGood
  <1>16. CASE CaptureWork
    BY <1>0, <1>16, SameArming DEF CaptureWork, Good, EngineState
  <1>17. CASE ExpireBoundary \/ EveningActivation
    <2> DEFINE L == [e \in Entities |-> {l \in engine.pile[e].layers : ~l.boundary}]
               N == [e \in Entities |-> {l \in engine.pile[e].layers : l.kind # "manual_off"}]
    <2>1. /\ Good([engine EXCEPT !.pile = KeptEverywhere(engine, L), !.moved = TRUE])
          /\ Good([engine EXCEPT !.pile = KeptEverywhere(engine, N), !.moved = TRUE])
      BY <1>0, KeptEverywhereGood DEF KeptEverywhere
    <2> HIDE DEF L, N
    <2> QED BY <1>17, <2>1, AllDisarmedArming
            DEF ExpireBoundary, EveningActivation, Expired, EveningActivated, L, N
  <1>18. CASE ResetHomeownerControl
    <2>1. Armed(engine') = {} /\ engine'.armed = [g \in Groups |-> {}]
      BY <1>0, <1>18 DEF ResetHomeownerControl, ResetHomeowner, Disarmed, Armed, Good, EngineState
    <2>2. IsFiniteSet({}) /\ Cardinality({}) = 0 /\ 0 <= MaxGroups
      BY FS_EmptySet, ConstantsAssumption
    <2> QED BY <2>1, <2>2 DEF ArmingGood
  <1>19. CASE UNCHANGED engineVars
    BY <1>0, <1>19, SameArming DEF engineVars
  <1> QED
    BY <1>1, <1>2, <1>3, <1>4, <1>5, <1>6, <1>7, <1>8, <1>9, <1>10, <1>11, <1>12,
       <1>13, <1>14, <1>15, <1>16, <1>17, <1>18, <1>19
       DEF EngineNext, SystemAdapters, FamilyAdapters, Homeowner, Lifecycle

LEMMA ArmingInit == EngineInit => ArmingInv
  <1> SUFFICES ASSUME EngineInit PROVE ArmingGood(engine)
    BY InitInv DEF ArmingInv
  <1>1. engine.armed = [g \in Groups |-> {}]
    BY DEF EngineInit, Blank
  <1>2. Armed(engine) = {}
    BY <1>1 DEF Armed
  <1>3. IsFiniteSet({}) /\ Cardinality({}) = 0 /\ 0 <= MaxGroups
    BY FS_EmptySet, ConstantsAssumption
  <1> QED BY <1>1, <1>2, <1>3 DEF ArmingGood

LEMMA ArmingHolds == EngineSpec => []ArmingInv
  BY ArmingInit, ArmingStep, PTL DEF EngineSpec

\* Two armed groups never share a light, no armed group reaches outside the managed
\* scope, and there are never more than MAX_GROUPS: a second OFF can only complete
\* the sequence that its own first OFF started.
THEOREM ArmedGroupsSound == EngineSpec => []ArmingSound
  <1>1. ArmingInv => ArmingSound
    BY DEF ArmingInv, ArmingGood, ArmingSound
  <1> QED BY <1>1, ArmingHolds, PTL

-----------------------------------------------------------------------------
(* Sessions *)

\* The layer belongs to no session, or to a live one whose sequence it carries.
LiveBound(E, l) ==
  InSession(l) => \E x \in E.sessions :
     x.family = l.family /\ x.session = l.session /\ x.sequence = l.sequence

\* SessionsSound of an engine state.
SessionsGood(E) ==
  /\ \A x \in E.sessions :
       /\ \A y \in E.sessions : x.family = y.family => x = y
       /\ x.sequence = E.lastSequence[x.family]
       /\ x.session = E.lastSession[x.family]
       /\ \A i \in DOMAIN E.ended : E.ended[i] # <<x.family, x.session>>
  /\ \A e \in Entities : \A l \in E.pile[e].layers : LiveBound(E, l)

\* Operations that only rearrange layers, drop some or add live ones.
LEMMA SameSessions ==
  ASSUME NEW D, NEW E, SessionsGood(E),
         D.sessions = E.sessions, D.lastSequence = E.lastSequence,
         D.lastSession = E.lastSession, D.ended = E.ended,
         \A e \in Entities : \A l \in D.pile[e].layers : LiveBound(E, l)
  PROVE  SessionsGood(D)
  <1>1. \A l : LiveBound(D, l) <=> LiveBound(E, l)
    BY DEF LiveBound
  <1> QED BY <1>1 DEF SessionsGood

LEMMA SetPileSessions ==
  ASSUME NEW E, Good(E), SessionsGood(E), NEW e \in Entities, NEW p,
         \A l \in p.layers : LiveBound(E, l)
  PROVE  /\ SessionsGood(SetPile(E, e, p))
         /\ SessionsGood([E EXCEPT !.pile[e] = p, !.moved = TRUE])
  <1>1. /\ SetPile(E, e, p).pile = [E.pile EXCEPT ![e] = p]
        /\ SetPile(E, e, p).sessions = E.sessions
        /\ SetPile(E, e, p).lastSequence = E.lastSequence
        /\ SetPile(E, e, p).lastSession = E.lastSession
        /\ SetPile(E, e, p).ended = E.ended
    BY DEF SetPile, Good, EngineState
  <1> DEFINE D == [E EXCEPT !.pile[e] = p, !.moved = TRUE]
  <1>2. /\ D.pile = [E.pile EXCEPT ![e] = p]
        /\ D.sessions = E.sessions
        /\ D.lastSequence = E.lastSequence
        /\ D.lastSession = E.lastSession
        /\ D.ended = E.ended
    BY DEF Good, EngineState
  <1>3. \A d \in Entities : \A l \in [E.pile EXCEPT ![e] = p][d].layers : LiveBound(E, l)
    BY DEF SessionsGood, Good, EngineState
  <1> HIDE DEF D
  <1>4. SessionsGood(SetPile(E, e, p)) /\ SessionsGood(D)
    BY <1>1, <1>2, <1>3, SameSessions
  <1> QED BY <1>4 DEF D

LEMMA AllPilesSessions ==
  ASSUME NEW E, Good(E), SessionsGood(E), NEW f,
         \A e \in Entities : \A l \in f[e].layers : LiveBound(E, l)
  PROVE  SessionsGood([E EXCEPT !.pile = f, !.moved = TRUE])
  <1> DEFINE D == [E EXCEPT !.pile = f, !.moved = TRUE]
  <1>1. /\ D.pile = f
        /\ D.sessions = E.sessions
        /\ D.lastSequence = E.lastSequence
        /\ D.lastSession = E.lastSession
        /\ D.ended = E.ended
    BY DEF Good, EngineState
  <1> HIDE DEF D
  <1>2. SessionsGood(D)
    BY <1>1, SameSessions
  <1> QED BY <1>2 DEF D

LEMMA DisarmedSessions ==
  ASSUME NEW E, Good(E), SessionsGood(E), NEW G
  PROVE  SessionsGood(Disarmed(E, G))
  <1>1. \A e \in Entities : \A l \in E.pile[e].layers : LiveBound(E, l)
    BY DEF SessionsGood
  <1> QED BY <1>1, DisarmedRest, SameSessions

\* A homeowner layer belongs to no session.
LEMMA HomeownerUnbound ==
  ASSUME NEW E, NEW kind, NEW n, NEW look
  PROVE  LiveBound(E, HomeownerLayer(kind, n, look))
  BY DEF LiveBound, InSession, HomeownerLayer

LEMMA AdmittedPileSessions ==
  ASSUME NEW E, Good(E), SessionsGood(E), NEW e \in Entities, NEW kind, NEW n, NEW look
  PROVE  /\ \A l \in AdmittedPile(E, e, HomeownerLayer(kind, n, look)).layers : LiveBound(E, l)
         /\ \A l \in ManualOffPile(E, e).layers : LiveBound(E, l)
         /\ \A l \in WithoutHomeowner(E.pile[e]).layers : LiveBound(E, l)
  <1>1. \A l \in WithoutHomeowner(E.pile[e]).layers : LiveBound(E, l)
    BY DEF WithoutHomeowner, Kept, SessionsGood
  <1>2. \A h : AdmittedPile(E, e, h).layers = WithoutHomeowner(E.pile[e]).layers \cup {h}
    BY DEF AdmittedPile, Inserted
  <1> QED BY <1>1, <1>2, HomeownerUnbound DEF ManualOffPile

\* Suppressing and lifting rewrite the reasons of some sessions, nothing else.
Reasoned(S, hit, reason) == (S \ hit) \cup {[x EXCEPT !.reason = reason] : x \in hit}

LEMMA ReasonsSessions ==
  ASSUME NEW D, NEW E, Good(E), SessionsGood(E), NEW reason,
         NEW hit \in SUBSET E.sessions, D.sessions = Reasoned(E.sessions, hit, reason),
         D.lastSequence = E.lastSequence, D.lastSession = E.lastSession, D.ended = E.ended,
         \A e \in Entities : \A l \in D.pile[e].layers : LiveBound(E, l)
  PROVE  /\ SessionsGood(D)
         /\ \A l : LiveBound(E, l) => LiveBound(D, l)
  <1>1. \A y \in D.sessions : \E x \in E.sessions :
           /\ y = x \/ y = [x EXCEPT !.reason = reason]
           /\ (y = x) <=> (x \notin hit \/ x.reason = reason)
           /\ y.family = x.family /\ y.session = x.session /\ y.sequence = x.sequence
    <2>1. E.sessions \subseteq FamilySession
      BY DEF Good, EngineState
    <2> QED BY <2>1 DEF FamilySession, Reasoned
  <1>2. ASSUME NEW x \in E.sessions
        PROVE  \E y \in D.sessions :
                 y.family = x.family /\ y.session = x.session /\ y.sequence = x.sequence
    <2>1. CASE x \in hit
      <3> DEFINE y == [x EXCEPT !.reason = reason]
      <3>1. y \in D.sessions
        BY <2>1 DEF Reasoned
      <3>2. y.family = x.family /\ y.session = x.session /\ y.sequence = x.sequence
        BY DEF Good, EngineState, FamilySession
      <3> HIDE DEF y
      <3> QED BY <3>1, <3>2
    <2>2. CASE x \notin hit
      BY <2>2 DEF Reasoned
    <2> QED BY <2>1, <2>2
  <1>3. ASSUME NEW l, LiveBound(E, l)
        PROVE  LiveBound(D, l)
    <2>1. CASE InSession(l)
      <3>1. PICK x \in E.sessions :
              x.family = l.family /\ x.session = l.session /\ x.sequence = l.sequence
        BY <1>3, <2>1 DEF LiveBound
      <3> QED BY <1>2, <3>1 DEF LiveBound
    <2>2. CASE ~InSession(l)
      BY <2>2 DEF LiveBound
    <2> QED BY <2>1, <2>2
  <1>4. ASSUME NEW y \in D.sessions
        PROVE  /\ \A z \in D.sessions : y.family = z.family => y = z
               /\ y.sequence = D.lastSequence[y.family]
               /\ y.session = D.lastSession[y.family]
               /\ \A i \in DOMAIN D.ended : D.ended[i] # <<y.family, y.session>>
    BY <1>1 DEF SessionsGood
  <1> QED BY <1>3, <1>4 DEF SessionsGood

\* What push binds to a session is bound to the live one.
LEMMA BoundLive ==
  ASSUME NEW E, Good(E), NEW e \in Entities, NEW l \in Layer, PushAdmitted(E, e, l)
  PROVE  LiveBound(E, Bound(E, l))
  <1>1. CASE ~InSession(l)
    BY <1>1 DEF Bound, LiveBound
  <1>2. CASE InSession(l)
    <2> DEFINE x == CHOOSE y \in SessionOf(E, l) : TRUE
    <2>1. x \in SessionOf(E, l)
      BY <1>2 DEF PushAdmitted, SessionOf
    <2>2. Bound(E, l) = [l EXCEPT !.sequence = x.sequence]
      BY <1>2 DEF Bound
    <2>3. /\ Bound(E, l).family = l.family /\ Bound(E, l).session = l.session
          /\ Bound(E, l).sequence = x.sequence
      BY <2>2 DEF Layer
    <2> HIDE DEF x
    <2> QED BY <2>1, <2>3 DEF LiveBound, SessionOf
  <1> QED BY <1>1, <1>2

LEMMA UpdatedLive ==
  ASSUME NEW E, NEW p, p.layers \subseteq Layer, NEW l \in Layer, LiveBound(E, l),
         \A k \in p.layers : LiveBound(E, k),
         p = [layers |-> p.layers, below |-> p.below]
  PROVE  \A k \in Updated(p, l).layers : LiveBound(E, k)
  <1>1. Updated(p, l).layers =
          (p.layers \ Match(p, l)) \cup {[l EXCEPT !.id = k.id] : k \in Match(p, l)}
    BY DEF Updated
  <1>2. ASSUME NEW i
        PROVE  LiveBound(E, [l EXCEPT !.id = i])
    BY DEF LiveBound, InSession, Layer
  <1> QED BY <1>1, <1>2

LEMMA PushedSessions ==
  ASSUME NEW E, Good(E), SessionsGood(E), NEW e \in Entities, NEW l \in Layer,
         PushAdmitted(E, e, l)
  PROVE  SessionsGood(Pushed(E, e, l))
  <1> DEFINE p == E.pile[e]
             b == Bound(E, l)
             q == IF Match(p, b) # {} THEN Updated(p, b)
                  ELSE Inserted(p, b, PrecedenceBlockers(p, b))
  <1>1. p \in Pile /\ \A k \in p.layers : LiveBound(E, k)
    BY DEF Good, SoundPile, SessionsGood
  <1>2. b \in Layer /\ LiveBound(E, b)
    BY BoundLayer, BoundLive
  <1>3. \A k \in q.layers : LiveBound(E, k)
    <2>1. \A B : Inserted(p, b, B).layers = p.layers \cup {b}
      BY DEF Inserted
    <2>2. \A k \in Updated(p, b).layers : LiveBound(E, k)
      BY <1>1, <1>2, UpdatedLive DEF Pile
    <2> HIDE DEF p, b
    <2> QED BY <1>1, <1>2, <2>1, <2>2
  <1>4. Pushed(E, e, l) = SetPile(E, e, q)
    BY DEF Pushed
  <1> HIDE DEF q
  <1>5. SessionsGood(SetPile(E, e, q))
    BY <1>3, SetPileSessions, Zenon
  <1> QED BY <1>4, <1>5

LEMMA ActivatedSessions ==
  ASSUME NEW E, Good(E), SessionsGood(E), NEW e \in Entities, NEW l \in Offered,
         NEW supersede \in BOOLEAN, ActivateAdmitted(E, e, l)
  PROVE  SessionsGood(Activated(E, e, l, supersede))
  <1> DEFINE p == E.pile[e]
             w == WithPriority(l)
             b == Bound(E, w)
             q == Inserted(p, b, PriorityBlockers(p, b, supersede))
  <1>1. w \in Layer /\ PushAdmitted(E, e, w)
    BY OfferedLayers, PrioritizedLayer DEF ActivateAdmitted
  <1>2. LiveBound(E, b)
    BY <1>1, BoundLive
  <1>3. \A k \in q.layers : LiveBound(E, k)
    BY <1>2 DEF Inserted, SessionsGood
  <1>4. SessionsGood(Pushed(E, e, w)) /\ SessionsGood(SetPile(E, e, q))
    BY <1>1, <1>3, PushedSessions, SetPileSessions
  <1> QED BY <1>4 DEF Activated

LEMMA SuppressedSessions ==
  ASSUME NEW E, Good(E), SessionsGood(E), NEW S, NEW reason
  PROVE  /\ SessionsGood(Suppressed(E, S, reason))
         /\ \A l : LiveBound(E, l) => LiveBound(Suppressed(E, S, reason), l)
  <1> DEFINE hit == UNION {SessionOf(E, l) : l \in {k \in S : InSession(k)}}
             D == Suppressed(E, S, reason)
  <1>1. hit \in SUBSET E.sessions
    BY DEF SessionOf
  <1>2. /\ D.sessions = Reasoned(E.sessions, hit, reason)
        /\ D.lastSequence = E.lastSequence
        /\ D.lastSession = E.lastSession
        /\ D.ended = E.ended
        /\ D.pile = E.pile
    BY DEF Suppressed, Good, EngineState, Reasoned
  <1>3. \A e \in Entities : \A l \in D.pile[e].layers : LiveBound(E, l)
    BY <1>2 DEF SessionsGood
  <1> HIDE DEF hit, D
  <1>4. SessionsGood(D) /\ \A l : LiveBound(E, l) => LiveBound(D, l)
    BY <1>1, <1>2, <1>3, ReasonsSessions
  <1> QED BY <1>4 DEF D

LEMMA EndedSessions ==
  ASSUME NEW E, Good(E), SessionsGood(E), NEW f \in Families, NEW s \in Sessions
  PROVE  /\ SessionsGood(Ended(E, f, s))
         /\ Ended(E, f, s).sessions = E.sessions \ LiveSession(E, f, s)
         /\ Ended(E, f, s).lastSequence = E.lastSequence
         /\ Ended(E, f, s).lastSession = E.lastSession
         /\ \A i \in DOMAIN Ended(E, f, s).ended :
              \/ Ended(E, f, s).ended[i] = <<f, s>>
              \/ \E j \in DOMAIN E.ended : Ended(E, f, s).ended[i] = E.ended[j]
  <1> DEFINE D == Ended(E, f, s)
             log == Append(E.ended, <<f, s>>)
             full == Len(log) > RetiredLimit
  <1>1. /\ D.sessions = E.sessions \ LiveSession(E, f, s)
        /\ D.lastSequence = E.lastSequence
        /\ D.lastSession = E.lastSession
        /\ D.ended = IF full THEN Tail(log) ELSE log
        /\ D.pile = [e \in Entities |-> Kept(E.pile[e],
                      {l \in E.pile[e].layers : ~(l.family = f /\ l.session = s)})]
    BY DEF Ended, Disarmed, Good, EngineState
  <1>2. \A i \in DOMAIN D.ended :
          \/ D.ended[i] = <<f, s>>
          \/ \E j \in DOMAIN E.ended : D.ended[i] = E.ended[j]
    <2>1. E.ended \in Seq(Families \X Sessions) /\ <<f, s>> \in Families \X Sessions
      BY DEF Good, EngineState
    <2>2. /\ log \in Seq(Families \X Sessions) /\ Len(log) = Len(E.ended) + 1
          /\ log[Len(log)] = <<f, s>>
          /\ \A j \in 1..Len(E.ended) : log[j] = E.ended[j]
      BY <2>1
    <2> HIDE DEF log
    <2>3. \A i \in DOMAIN log :
          \/ log[i] = <<f, s>>
          \/ \E j \in DOMAIN E.ended : log[i] = E.ended[j]
      BY <2>1, <2>2
    <2>4. \A i \in DOMAIN Tail(log) : i + 1 \in DOMAIN log /\ Tail(log)[i] = log[i + 1]
      BY <2>1, <2>2
    <2> QED BY <1>1, <2>3, <2>4
  <1> HIDE DEF D, log, full
  <1>3. ASSUME NEW x \in D.sessions
        PROVE  /\ x \in E.sessions
               /\ <<x.family, x.session>> # <<f, s>>
    BY <1>1 DEF LiveSession
  <1>4. ASSUME NEW e \in Entities, NEW l \in D.pile[e].layers
        PROVE  LiveBound(D, l)
    <2>1. l \in E.pile[e].layers /\ ~(l.family = f /\ l.session = s)
      BY <1>1 DEF Kept
    <2> QED BY <1>1, <2>1 DEF SessionsGood, LiveBound, LiveSession
  <1>5. ASSUME NEW x \in D.sessions
        PROVE  /\ \A y \in D.sessions : x.family = y.family => x = y
               /\ x.sequence = D.lastSequence[x.family]
               /\ x.session = D.lastSession[x.family]
               /\ \A i \in DOMAIN D.ended : D.ended[i] # <<x.family, x.session>>
    <2>1. /\ \A y \in E.sessions : x.family = y.family => x = y
          /\ x.sequence = E.lastSequence[x.family]
          /\ x.session = E.lastSession[x.family]
          /\ \A i \in DOMAIN E.ended : E.ended[i] # <<x.family, x.session>>
      BY <1>3 DEF SessionsGood
    <2>2. \A i \in DOMAIN D.ended : D.ended[i] # <<x.family, x.session>>
      BY <1>2, <1>3, <2>1
    <2> QED BY <1>1, <2>1, <2>2
  <1>6. SessionsGood(D)
    BY <1>4, <1>5 DEF SessionsGood
  <1> QED BY <1>1, <1>2, <1>6 DEF D

\* Starting a family first leaves it without a session.
LEMMA EndedOthersSessions ==
  ASSUME NEW E, Good(E), SessionsGood(E), NEW f \in Families
  PROVE  /\ Good(EndedOthers(E, f)) /\ SessionsGood(EndedOthers(E, f))
         /\ EndedOthers(E, f).sessions = {x \in E.sessions : x.family # f}
         /\ EndedOthers(E, f).lastSequence = E.lastSequence
         /\ EndedOthers(E, f).lastSession = E.lastSession
         /\ \A i \in DOMAIN EndedOthers(E, f).ended :
              \/ \E x \in E.sessions : x.family = f /\ EndedOthers(E, f).ended[i] = <<f, x.session>>
              \/ \E j \in DOMAIN E.ended : EndedOthers(E, f).ended[i] = E.ended[j]
  <1> DEFINE others == {x \in E.sessions : x.family = f}
             x == CHOOSE y \in others : TRUE
  <1>1. CASE others = {}
    BY <1>1 DEF EndedOthers
  <1>2. CASE others # {}
    <2>1. x \in others /\ x \in FamilySession
      BY <1>2 DEF Good, EngineState
    <2>2. x.session \in Sessions /\ x.family = f /\ x \in E.sessions
      BY <2>1 DEF FamilySession
    <2>3. EndedOthers(E, f) = Ended(E, f, x.session)
      BY <1>2 DEF EndedOthers
    <2> HIDE DEF x
    <2>4. E.sessions \ LiveSession(E, f, x.session) = {y \in E.sessions : y.family # f}
      BY <2>2 DEF LiveSession, SessionsGood
    <2>5. Good(Ended(E, f, x.session)) /\ SessionsGood(Ended(E, f, x.session))
      BY <2>2, EndedGood, EndedSessions
    <2>6. /\ Ended(E, f, x.session).sessions = E.sessions \ LiveSession(E, f, x.session)
          /\ Ended(E, f, x.session).lastSequence = E.lastSequence
          /\ Ended(E, f, x.session).lastSession = E.lastSession
          /\ \A i \in DOMAIN Ended(E, f, x.session).ended :
               \/ Ended(E, f, x.session).ended[i] = <<f, x.session>>
               \/ \E j \in DOMAIN E.ended : Ended(E, f, x.session).ended[i] = E.ended[j]
      BY <2>2, EndedSessions
    <2> QED BY <2>2, <2>3, <2>4, <2>5, <2>6
  <1> QED BY <1>1, <1>2

LEMMA StartedSessions ==
  ASSUME NEW E, Good(E), SessionsGood(E), NEW f \in Families, NEW s \in Sessions,
         NEW q \in Nat, NEW explicit \in BOOLEAN, StartAdmitted(E, f, s, q, explicit)
  PROVE  SessionsGood(Started(E, f, s, q))
  <1> DEFINE D == EndedOthers(E, f)
             new == [family |-> f, session |-> s, sequence |-> q, reason |-> None]
             N == Started(E, f, s, q)
  <1>1. /\ Good(D) /\ SessionsGood(D)
        /\ D.sessions = {x \in E.sessions : x.family # f}
        /\ D.lastSequence = E.lastSequence
        /\ D.lastSession = E.lastSession
        /\ \A i \in DOMAIN D.ended :
             \/ \E x \in E.sessions : x.family = f /\ D.ended[i] = <<f, x.session>>
             \/ \E j \in DOMAIN E.ended : D.ended[i] = E.ended[j]
    BY EndedOthersSessions
  <1>2. /\ N.sessions = D.sessions \cup {new}
        /\ N.lastSequence = [D.lastSequence EXCEPT ![f] = q]
        /\ N.lastSession = [D.lastSession EXCEPT ![f] = s]
        /\ N.ended = D.ended
        /\ N.pile = D.pile
    BY <1>1 DEF Started, Good, EngineState
  <1>3. /\ D.lastSequence \in [Families -> Nat]
        /\ D.lastSession \in [Families -> Sessions \cup {None}]
        /\ D.sessions \subseteq FamilySession
    BY <1>1 DEF Good, EngineState
  <1>4. new.family = f /\ new.session = s /\ new.sequence = q
    OBVIOUS
  <1>5. \A i \in DOMAIN D.ended : D.ended[i] # <<f, s>>
    <2>1. \A x \in E.sessions : x.family = f => x.session # s
      BY DEF StartAdmitted, LiveSession
    <2>2. \A j \in DOMAIN E.ended : E.ended[j] # <<f, s>>
      BY DEF StartAdmitted
    <2> QED BY <1>1, <2>1, <2>2
  <1> HIDE DEF D, new, N
  <1>6. ASSUME NEW x \in N.sessions
        PROVE  /\ \A y \in N.sessions : x.family = y.family => x = y
               /\ x.sequence = N.lastSequence[x.family]
               /\ x.session = N.lastSession[x.family]
               /\ \A i \in DOMAIN N.ended : N.ended[i] # <<x.family, x.session>>
    <2>1. CASE x = new
      BY <1>1, <1>2, <1>3, <1>4, <1>5, <2>1
    <2>2. CASE x # new
      <3>1. x \in D.sessions /\ x.family # f /\ x.family \in Families
        BY <1>1, <1>2, <1>3, <2>2 DEF FamilySession
      <3>2. /\ \A y \in D.sessions : x.family = y.family => x = y
            /\ x.sequence = D.lastSequence[x.family]
            /\ x.session = D.lastSession[x.family]
            /\ \A i \in DOMAIN D.ended : D.ended[i] # <<x.family, x.session>>
        BY <1>1, <3>1 DEF SessionsGood
      <3> QED BY <1>2, <1>3, <1>4, <3>1, <3>2
    <2> QED BY <2>1, <2>2
  <1>7. ASSUME NEW e \in Entities, NEW l \in N.pile[e].layers
        PROVE  LiveBound(N, l)
    BY <1>1, <1>2 DEF SessionsGood, LiveBound
  <1> QED BY <1>6, <1>7 DEF SessionsGood, N

LEMMA AppliedOffSessions ==
  ASSUME NEW E, Good(E), SessionsGood(E), NEW e \in Entities
  PROVE  SessionsGood(AppliedOff(E, e))
  <1> DEFINE top == Exposed(E, e)
             without == Kept(E.pile[e], E.pile[e].layers \ top)
  <1>1. \A l \in without.layers : LiveBound(E, l)
    BY DEF Kept, SessionsGood
  <1>2. SessionsGood(SetPile(E, e, without))
    BY <1>1, SetPileSessions
  <1>3. SessionsGood(Suppressed(E, top, "homeowner_off"))
    BY SuppressedSessions
  <1>4. SessionsGood([E EXCEPT !.pile[e] = ManualOffPile(E, e), !.moved = TRUE])
    BY AdmittedPileSessions, SetPileSessions
  <1> QED BY <1>2, <1>3, <1>4 DEF AppliedOff

LEMMA AppliedGroupOffSessions ==
  ASSUME NEW E, Good(E), SessionsGood(E), NEW g \in Groups, NEW members \in SUBSET Entities,
         NEW eligible \in SUBSET members
  PROVE  SessionsGood(AppliedGroupOff(E, g, members, eligible))
  <1> DEFINE alone == Disarmed(E, Overlapping(E, members) \ {g})
  <1>1. Good(alone) /\ SessionsGood(alone)
    BY DisarmedGood, DisarmedSessions
  <1> HIDE DEF alone
  <1>2. SessionsGood(SecondGroupOff(alone, eligible))
    <2> DEFINE covered == Suppressed(alone, UNION {Exposed(alone, e) : e \in eligible},
                                     "homeowner_group_off")
               f == [e \in Entities |-> IF e \in eligible
                       THEN ManualOffPile(covered, e) ELSE alone.pile[e]]
    <2>1. /\ Good(covered) /\ SessionsGood(covered)
          /\ \A l : LiveBound(alone, l) => LiveBound(covered, l)
      BY <1>1, SuppressedGood, SuppressedSessions DEF Reasons, HomeownerReasons
    <2> HIDE DEF covered
    <2>2. \A e \in Entities : \A l \in f[e].layers : LiveBound(covered, l)
      BY <1>1, <2>1, AdmittedPileSessions DEF SessionsGood
    <2>3. SessionsGood([covered EXCEPT !.pile = f, !.moved = TRUE])
      BY <2>1, <2>2, AllPilesSessions
    <2> QED BY <2>3 DEF SecondGroupOff, covered
  <1>3. SessionsGood(FirstGroupOff(alone, g, members, eligible))
    <2> DEFINE f == [e \in Entities |-> IF e \in eligible
                       THEN WithoutHomeowner(alone.pile[e]) ELSE alone.pile[e]]
               D == FirstGroupOff(alone, g, members, eligible)
    <2>1. /\ D.sessions = alone.sessions
          /\ D.lastSequence = alone.lastSequence
          /\ D.lastSession = alone.lastSession
          /\ D.ended = alone.ended
          /\ D.pile = f
      BY <1>1 DEF FirstGroupOff, ArmedWith, Disarmed, Good, EngineState
    <2>2. \A e \in Entities : \A l \in f[e].layers : LiveBound(alone, l)
      BY <1>1, AdmittedPileSessions DEF SessionsGood
    <2> HIDE DEF D
    <2>3. SessionsGood(D)
      BY <1>1, <2>1, <2>2, SameSessions
    <2> QED BY <2>3 DEF D
  <1> QED BY <1>2, <1>3 DEF AppliedGroupOff, alone

\* Boundaries, activations, resets and scope changes drop layers and disarm.
LEMMA LifecycleSessions ==
  ASSUME NEW E, Good(E), SessionsGood(E), NEW desired \in SUBSET Entities
  PROVE  /\ SessionsGood(Expired(E)) /\ SessionsGood(EveningActivated(E))
         /\ SessionsGood(ManagedUpdated(E, desired))
         /\ SessionsGood(ResetHomeowner(E))
  <1>1. ASSUME NEW D, D \in {Expired(E), EveningActivated(E), ManagedUpdated(E, desired)}
        PROVE  SessionsGood(D)
    <2>1. /\ D.sessions = E.sessions
          /\ D.lastSequence = E.lastSequence
          /\ D.lastSession = E.lastSession
          /\ D.ended = E.ended
      BY <1>1 DEF Expired, EveningActivated, ManagedUpdated, Disarmed, Good, EngineState
    <2>2. ASSUME NEW e \in Entities
          PROVE  D.pile[e].layers \subseteq E.pile[e].layers
      <3>1. Expired(E).pile[e] = Kept(E.pile[e], {l \in E.pile[e].layers : ~l.boundary})
        BY DEF Expired, Disarmed, KeptEverywhere, Good, EngineState
      <3>2. EveningActivated(E).pile[e] =
              Kept(E.pile[e], {l \in E.pile[e].layers : l.kind # "manual_off"})
        BY DEF EveningActivated, Disarmed, KeptEverywhere, Good, EngineState
      <3>3. ManagedUpdated(E, desired).pile[e] \in {EmptyPile, E.pile[e]}
        BY DEF ManagedUpdated, Disarmed, Good, EngineState
      <3> QED BY <1>1, <3>1, <3>2, <3>3 DEF Kept, EmptyPile
    <2>3. \A e \in Entities : \A l \in D.pile[e].layers : LiveBound(E, l)
      BY <2>2 DEF SessionsGood
    <2> QED BY <2>1, <2>3, SameSessions
  <1>2. SessionsGood(ResetHomeowner(E))
    <2> DEFINE lifted == {x \in E.sessions : x.reason \in HomeownerReasons}
               D == ResetHomeowner(E)
    <2>1. /\ D.sessions = Reasoned(E.sessions, lifted, None)
          /\ D.lastSequence = E.lastSequence
          /\ D.lastSession = E.lastSession
          /\ D.ended = E.ended
      BY DEF ResetHomeowner, Disarmed, Reasoned, Good, EngineState
    <2>2. \A e \in Entities : D.pile[e].layers \subseteq E.pile[e].layers
      BY DEF ResetHomeowner, Disarmed, KeptEverywhere, Kept, Good, EngineState
    <2>3. lifted \in SUBSET E.sessions
      OBVIOUS
    <2> HIDE DEF D, lifted
    <2>4. \A e \in Entities : \A l \in D.pile[e].layers : LiveBound(E, l)
      BY <2>2 DEF SessionsGood
    <2>5. SessionsGood(D)
      BY <2>1, <2>3, <2>4, ReasonsSessions
    <2> QED BY <2>5 DEF D
  <1> QED BY <1>1, <1>2

SessionsInv == EngineInv /\ SessionsGood(engine)

LEMMA SessionsStep == SessionsInv /\ [EngineNext]_engineVars => SessionsInv'
  <1> SUFFICES ASSUME SessionsInv, [EngineNext]_engineVars
               PROVE  SessionsGood(engine)'
    BY StepInv DEF SessionsInv
  <1>0. Good(engine) /\ SessionsGood(engine)
    BY DEF SessionsInv, EngineInv
  <1>kept. \A e \in Entities : \A S \in SUBSET engine.pile[e].layers :
          \A l \in Kept(engine.pile[e], S).layers : LiveBound(engine, l)
    BY <1>0 DEF SessionsGood, Kept
  <1> USE DEF Becomes
  <1>1. ASSUME NEW e \in Entities, NEW l \in Offered, Push(e, l)
        PROVE  SessionsGood(engine)'
    BY <1>0, <1>1, OfferedLayers, PushedSessions DEF Push
  <1>2. ASSUME NEW e \in Entities, NEW l \in Offered, NEW supersede \in BOOLEAN,
               ActivateAutomatic(e, l, supersede)
        PROVE  SessionsGood(engine)'
    BY <1>0, <1>2, ActivatedSessions DEF ActivateAutomatic
  <1>3. ASSUME NEW e \in Entities, NEW id \in Ids, RemoveLayer(e, id)
        PROVE  SessionsGood(engine)'
    BY <1>0, <1>kept, <1>3, SetPileSessions DEF RemoveLayer
  <1>4. ASSUME NEW e \in Entities, NEW owner \in Owners, RemoveOwner(e, owner)
        PROVE  SessionsGood(engine)'
    BY <1>0, <1>kept, <1>4, SetPileSessions DEF RemoveOwner
  <1>5. ASSUME NEW f \in Families, NEW s \in Sessions, NEW q \in 1..MaxSequence,
               NEW explicit \in BOOLEAN, StartFamily(f, s, q, explicit)
        PROVE  SessionsGood(engine)'
    BY <1>0, <1>5, StartedSessions DEF StartFamily
  <1>6. ASSUME NEW f \in Families, NEW s \in Sessions, SuppressFamily(f, s)
        PROVE  SessionsGood(engine)'
    <2>1. PICK x \in LiveSession(engine, f, s) :
            /\ engine'.sessions = Reasoned(engine.sessions, {x}, "adapter")
            /\ engine'.lastSequence = engine.lastSequence
            /\ engine'.lastSession = engine.lastSession
            /\ engine'.ended = engine.ended
            /\ engine'.pile = engine.pile
      <3>1. PICK x \in LiveSession(engine, f, s) :
              LET new == (engine.sessions \ {x}) \cup {[x EXCEPT !.reason = "adapter"]}
              IN engine' = [engine EXCEPT !.sessions = new,
                                          !.moved = @ \/ new # engine.sessions]
        BY <1>6, Zenon DEF SuppressFamily
      <3>2. Reasoned(engine.sessions, {x}, "adapter") =
              (engine.sessions \ {x}) \cup {[x EXCEPT !.reason = "adapter"]}
        BY DEF Reasoned
      <3> QED BY <1>0, <3>1, <3>2 DEF Good, EngineState
    <2>2. {x} \in SUBSET engine.sessions
      BY DEF LiveSession
    <2>3. \A e \in Entities : \A l \in engine'.pile[e].layers : LiveBound(engine, l)
      BY <1>0, <2>1 DEF SessionsGood
    <2> QED BY <1>0, <2>1, <2>2, <2>3, ReasonsSessions
  <1>7. ASSUME NEW f \in Families, NEW s \in Sessions, EndFamily(f, s)
        PROVE  SessionsGood(engine)'
    BY <1>0, <1>7, EndedSessions DEF EndFamily
  <1>8. ASSUME NEW e \in Entities, ManualRelease(e)
        PROVE  SessionsGood(engine)'
    BY <1>0, <1>kept, <1>8, SetPileSessions DEF ManualRelease
  <1>9. ASSUME NEW e \in Entities, ApplyOff(e)
        PROVE  SessionsGood(engine)'
    BY <1>0, <1>9, AppliedOffSessions DEF ApplyOff
  <1>10. ASSUME NEW e \in Entities, PushManualOff(e)
         PROVE  SessionsGood(engine)'
    BY <1>0, <1>10, AdmittedPileSessions, SetPileSessions DEF PushManualOff
  <1>11. ASSUME NEW e \in Entities, NEW look \in Looks, AdmitManual(e, look)
         PROVE  SessionsGood(engine)'
    BY <1>0, <1>11, AdmittedPileSessions, SetPileSessions DEF AdmitManual
  <1>12. ASSUME NEW g \in Groups, NEW members \in SUBSET engine.managed,
                NEW eligible \in SUBSET members, ApplyGroupOff(g, members, eligible)
         PROVE  SessionsGood(engine)'
    <2>1. members \in SUBSET Entities
      BY <1>0 DEF Good, EngineState
    <2> QED BY <1>0, <1>12, <2>1, AppliedGroupOffSessions DEF ApplyGroupOff
  <1>13. ASSUME NEW G, ResetGroupOffSequence(G)
         PROVE  SessionsGood(engine)'
    <2>1. /\ engine'.sessions = engine.sessions /\ engine'.ended = engine.ended
          /\ engine'.lastSequence = engine.lastSequence
          /\ engine'.lastSession = engine.lastSession
          /\ engine'.pile = engine.pile
      BY <1>0, <1>13 DEF ResetGroupOffSequence, Disarmed, Good, EngineState
    <2> QED BY <1>0, <2>1, SameSessions DEF SessionsGood
  <1>14. ASSUME NEW scope \in SUBSET Entities, UpdateManagedEntities(scope)
         PROVE  SessionsGood(engine)'
    BY <1>0, <1>14, LifecycleSessions DEF UpdateManagedEntities
  <1>15. ASSUME NEW scope \in SUBSET Entities, Reconfigure(scope)
         PROVE  SessionsGood(engine)'
    BY <1>15 DEF Reconfigure, Blank, EmptyPile, SessionsGood
  <1>16. CASE CaptureWork
    <2>1. /\ engine'.sessions = engine.sessions /\ engine'.ended = engine.ended
          /\ engine'.lastSequence = engine.lastSequence
          /\ engine'.lastSession = engine.lastSession
          /\ engine'.pile = engine.pile
      BY <1>0, <1>16 DEF CaptureWork, Good, EngineState
    <2> QED BY <1>0, <2>1, SameSessions DEF SessionsGood
  <1>17. CASE ExpireBoundary \/ EveningActivation \/ ResetHomeownerControl
    BY <1>0, <1>17, LifecycleSessions
       DEF ExpireBoundary, EveningActivation, ResetHomeownerControl
  <1>18. CASE UNCHANGED engineVars
    BY <1>0, <1>18 DEF engineVars
  <1> QED
    BY <1>1, <1>2, <1>3, <1>4, <1>5, <1>6, <1>7, <1>8, <1>9, <1>10, <1>11, <1>12,
       <1>13, <1>14, <1>15, <1>16, <1>17, <1>18
       DEF EngineNext, SystemAdapters, FamilyAdapters, Homeowner, Lifecycle

LEMMA SessionsInit == EngineInit => SessionsInv
  <1> SUFFICES ASSUME EngineInit PROVE SessionsGood(engine)
    BY InitInv DEF SessionsInv
  <1> QED BY DEF EngineInit, Blank, EmptyPile, SessionsGood

LEMMA SessionsHold == EngineSpec => []SessionsInv
  BY SessionsInit, SessionsStep, PTL DEF EngineSpec

\* A family has at most one live session, the newest one started and never one that
\* is remembered as ended, and every layer that names a session is bound to that
\* live session: an ended or replaced session leaves nothing behind on any light.
THEOREM FamiliesSound == EngineSpec => []SessionsSound
  <1>1. SessionsInv => SessionsSound
    BY DEF SessionsInv, SessionsGood, SessionsSound, LiveSessionIsNewest,
           LayersBelongToLiveSession, LiveBound
  <1> QED BY <1>1, SessionsHold, PTL

-----------------------------------------------------------------------------
(* What a step may never do *)

\* Whatever a WorkToken vouches for is unchanged, or the revision has moved.
Accounted(E, D) == Authority(D) # Authority(E) => D.moved

LEMMA MovedAccounted ==
  ASSUME NEW E, NEW D, D.moved = TRUE
  PROVE  Accounted(E, D)
  BY DEF Accounted

LEMMA SetPileAccounted ==
  ASSUME NEW E, Good(E), NEW e \in Entities, NEW p
  PROVE  Accounted(E, SetPile(E, e, p))
  <1> DEFINE D == SetPile(E, e, p)
  <1>1. /\ D.pile = [E.pile EXCEPT ![e] = p] /\ D.sessions = E.sessions
        /\ D.armed = E.armed /\ D.managed = E.managed
    BY DEF SetPile, Good, EngineState
  <1>2. p # E.pile[e] => D.moved
    BY DEF SetPile, Good, EngineState
  <1>3. p = E.pile[e] => D.pile = E.pile
    BY <1>1 DEF Good, EngineState
  <1> HIDE DEF D
  <1>4. Armed(D) = Armed(E)
    BY <1>1 DEF Armed
  <1>5. p = E.pile[e] => Authority(D) = Authority(E)
    BY <1>1, <1>3, <1>4 DEF Authority
  <1> QED BY <1>2, <1>5 DEF Accounted, D

LEMMA SuppressedAccounted ==
  ASSUME NEW E, Good(E), NEW S, NEW reason
  PROVE  Accounted(E, Suppressed(E, S, reason))
  <1> DEFINE D == Suppressed(E, S, reason)
  <1>1. D.pile = E.pile /\ D.armed = E.armed /\ D.managed = E.managed
    BY DEF Suppressed, Good, EngineState
  <1>2. D.sessions # E.sessions => D.moved
    BY DEF Suppressed, Good, EngineState
  <1> HIDE DEF D
  <1>3. Armed(D) = Armed(E)
    BY <1>1 DEF Armed
  <1>4. D.sessions = E.sessions => Authority(D) = Authority(E)
    BY <1>1, <1>3 DEF Authority
  <1> QED BY <1>2, <1>4 DEF Accounted, D

LEMMA AppliedOffAccounted ==
  ASSUME NEW E, Good(E), NEW e \in Entities
  PROVE  Accounted(E, AppliedOff(E, e))
  <1>1. Accounted(E, E)
    BY DEF Accounted
  <1>2. Accounted(E, [E EXCEPT !.pile[e] = ManualOffPile(E, e), !.moved = TRUE])
    <2>1. [E EXCEPT !.pile[e] = ManualOffPile(E, e), !.moved = TRUE].moved = TRUE
      BY DEF Good, EngineState
    <2> QED BY <2>1, MovedAccounted, Zenon
  <1> QED BY <1>1, <1>2, SetPileAccounted, SuppressedAccounted DEF AppliedOff

LEMMA AppliedGroupOffAccounted ==
  ASSUME NEW E, Good(E), NEW g \in Groups, NEW members, NEW eligible
  PROVE  Accounted(E, AppliedGroupOff(E, g, members, eligible))
  <1> DEFINE alone == Disarmed(E, Overlapping(E, members) \ {g})
  <1>1. Good(alone)
    BY DisarmedGood
  <1> HIDE DEF alone
  <1>2. SecondGroupOff(alone, eligible).moved = TRUE
    BY <1>1 DEF SecondGroupOff, Suppressed, Good, EngineState
  <1>3. FirstGroupOff(alone, g, members, eligible).moved = TRUE
    BY <1>1 DEF FirstGroupOff, ArmedWith, Disarmed, Good, EngineState
  <1>4. Accounted(E, E)
    BY DEF Accounted
  <1> QED BY <1>2, <1>3, <1>4, MovedAccounted DEF AppliedGroupOff, alone

LEMMA NoSilentStep == EngineInv /\ [EngineNext]_engineVars => Accounted(engine, engine')
  <1> SUFFICES ASSUME EngineInv, [EngineNext]_engineVars
               PROVE  Accounted(engine, engine')
    OBVIOUS
  <1>0. Good(engine)
    BY DEF EngineInv
  <1> USE DEF Becomes
  <1>1. ASSUME NEW e \in Entities, NEW l \in Offered, Push(e, l)
        PROVE  Accounted(engine, engine')
    BY <1>0, <1>1, SetPileAccounted DEF Push, Pushed
  <1>2. ASSUME NEW e \in Entities, NEW l \in Offered, NEW supersede \in BOOLEAN,
               ActivateAutomatic(e, l, supersede)
        PROVE  Accounted(engine, engine')
    BY <1>0, <1>2, SetPileAccounted DEF ActivateAutomatic, Activated, Pushed
  <1>3. ASSUME NEW e \in Entities, NEW id \in Ids, RemoveLayer(e, id)
        PROVE  Accounted(engine, engine')
    BY <1>0, <1>3, SetPileAccounted DEF RemoveLayer
  <1>4. ASSUME NEW e \in Entities, NEW owner \in Owners, RemoveOwner(e, owner)
        PROVE  Accounted(engine, engine')
    BY <1>0, <1>4, SetPileAccounted DEF RemoveOwner
  <1>5. ASSUME NEW f \in Families, NEW s \in Sessions, NEW q \in 1..MaxSequence,
               NEW explicit \in BOOLEAN, StartFamily(f, s, q, explicit)
        PROVE  Accounted(engine, engine')
    <2>1. Good(EndedOthers(engine, f))
      <3> DEFINE others == {x \in engine.sessions : x.family = f}
      <3>1. CASE others # {}
        <4>1. (CHOOSE x \in others : TRUE) \in FamilySession
          BY <1>0, <3>1 DEF Good, EngineState
        <4>2. (CHOOSE x \in others : TRUE).session \in Sessions
          BY <4>1 DEF FamilySession
        <4> QED BY <1>0, <3>1, <4>2, EndedGood DEF EndedOthers
      <3> QED BY <1>0, <3>1 DEF EndedOthers
    <2>2. engine'.moved = TRUE
      BY <1>5, <2>1 DEF StartFamily, Started, Good, EngineState
    <2> QED BY <2>2, MovedAccounted
  <1>6. ASSUME NEW f \in Families, NEW s \in Sessions, SuppressFamily(f, s)
        PROVE  Accounted(engine, engine')
    <2>1. engine'.pile = engine.pile /\ engine'.armed = engine.armed
          /\ engine'.managed = engine.managed
      BY <1>0, <1>6 DEF SuppressFamily, Good, EngineState
    <2>2. engine'.sessions # engine.sessions => engine'.moved
      BY <1>0, <1>6 DEF SuppressFamily, Good, EngineState
    <2>3. Armed(engine') = Armed(engine)
      BY <2>1 DEF Armed
    <2> QED BY <2>1, <2>2, <2>3 DEF Accounted, Authority
  <1>7. ASSUME NEW f \in Families, NEW s \in Sessions, EndFamily(f, s)
        PROVE  Accounted(engine, engine')
    <2>1. engine'.moved = TRUE
      BY <1>0, <1>7 DEF EndFamily, Ended, Disarmed, Good, EngineState
    <2> QED BY <2>1, MovedAccounted
  <1>8. ASSUME NEW e \in Entities, ManualRelease(e)
        PROVE  Accounted(engine, engine')
    BY <1>0, <1>8, SetPileAccounted DEF ManualRelease
  <1>9. ASSUME NEW e \in Entities, ApplyOff(e)
        PROVE  Accounted(engine, engine')
    BY <1>0, <1>9, AppliedOffAccounted DEF ApplyOff
  <1>10. ASSUME NEW e \in Entities,
                PushManualOff(e) \/ \E look \in Looks : AdmitManual(e, look)
         PROVE  Accounted(engine, engine')
    <2>1. engine'.moved = TRUE
      BY <1>0, <1>10 DEF PushManualOff, AdmitManual, Good, EngineState
    <2> QED BY <2>1, MovedAccounted
  <1>11. ASSUME NEW g \in Groups, NEW members, NEW eligible,
                ApplyGroupOff(g, members, eligible)
         PROVE  Accounted(engine, engine')
    BY <1>0, <1>11, AppliedGroupOffAccounted DEF ApplyGroupOff
  <1>12. ASSUME NEW G, ResetGroupOffSequence(G)
         PROVE  Accounted(engine, engine')
    <2>1. /\ engine'.pile = engine.pile /\ engine'.sessions = engine.sessions
          /\ engine'.managed = engine.managed
      BY <1>0, <1>12 DEF ResetGroupOffSequence, Disarmed, Good, EngineState
    <2>2. Armed(engine) # {} => engine'.moved
      BY <1>0, <1>12 DEF ResetGroupOffSequence, Disarmed, Good, EngineState
    <2>3. Armed(engine) = {} => Armed(engine') = {}
      BY <1>0, <1>12 DEF ResetGroupOffSequence, Disarmed, Armed, Good, EngineState
    <2> QED BY <2>1, <2>2, <2>3 DEF Accounted, Authority
  <1>13. ASSUME NEW scope \in SUBSET Entities,
                UpdateManagedEntities(scope) \/ Reconfigure(scope)
         PROVE  Accounted(engine, engine')
    <2>1. Reconfigure(scope) => engine'.moved = TRUE
      BY DEF Reconfigure, Blank
    <2>2. UpdateManagedEntities(scope) => engine'.moved = TRUE
      BY <1>0 DEF UpdateManagedEntities, ManagedUpdated, Disarmed, Good, EngineState
    <2> QED BY <1>13, <2>1, <2>2, MovedAccounted
  <1>14. CASE CaptureWork
    <2>1. /\ engine'.pile = engine.pile /\ engine'.sessions = engine.sessions
          /\ engine'.managed = engine.managed /\ engine'.armed = engine.armed
      BY <1>0, <1>14 DEF CaptureWork, Good, EngineState
    <2> QED BY <2>1 DEF Accounted, Authority, Armed
  <1>15. CASE ExpireBoundary \/ EveningActivation \/ ResetHomeownerControl
    <2>1. engine'.moved = TRUE
      BY <1>0, <1>15 DEF ExpireBoundary, EveningActivation, ResetHomeownerControl, Expired,
                         EveningActivated, ResetHomeowner, Disarmed, Good, EngineState
    <2> QED BY <2>1, MovedAccounted
  <1>16. CASE UNCHANGED engineVars
    BY <1>16 DEF engineVars, Accounted
  <1> QED
    BY <1>1, <1>2, <1>3, <1>4, <1>5, <1>6, <1>7, <1>8, <1>9, <1>10, <1>11, <1>12,
       <1>13, <1>14, <1>15, <1>16
       DEF EngineNext, SystemAdapters, FamilyAdapters, Homeowner, Lifecycle

\* No step changes layers, sessions, armed groups or the scope without moving the
\* revision: what a caller planned under a WorkToken is recognisably stale.
THEOREM RevisionTellsAll == EngineSpec => NoSilentChange
  <1>1. EngineInv /\ [EngineNext]_engineVars
          => [Authority(engine') # Authority(engine) => engine'.moved]_engineVars
    BY NoSilentStep DEF Accounted
  <1> QED BY <1>1, InvHolds, PTL DEF EngineSpec, NoSilentChange

-----------------------------------------------------------------------------
(* Slots *)

\* The system layers of q stand in the order they had in p.
Ordered(p, q) ==
  \A k, l \in q.layers :
     ~IsHomeowner(k) /\ ~IsHomeowner(l) /\ <<k.id, l.id>> \in p.below
     => <<k.id, l.id>> \in q.below

SlotsStay(E, D) == \A e \in Entities : Ordered(E.pile[e], D.pile[e])

\* Every way of making a new pile from an old one keeps the order of its layers.
LEMMA OrderedPiles ==
  ASSUME NEW p \in Pile
  PROVE  /\ Ordered(p, p)
         /\ Ordered(p, EmptyPile)
         /\ Ordered(p, WithoutHomeowner(p))
         /\ \A S : Ordered(p, Kept(p, S))
         /\ \A l, B : Ordered(p, Inserted(p, l, B))
         /\ \A l : Ordered(p, Updated(p, l))
  <1>1. \A S : Ordered(p, Kept(p, S))
    BY DEF Ordered, Kept, IdsOf
  <1>2. \A l, B : p.below \subseteq Inserted(p, l, B).below
    BY DEF Inserted
  <1>3. \A l : Updated(p, l).below = p.below
    BY DEF Updated, Pile
  <1>4. Ordered(p, p) /\ Ordered(p, EmptyPile)
    BY DEF Ordered, EmptyPile
  <1> QED BY <1>1, <1>2, <1>3, <1>4 DEF Ordered, WithoutHomeowner

LEMMA OrderedAdmitted ==
  ASSUME NEW E, NEW e, NEW kind \in HomeownerKinds, NEW n, NEW look
  PROVE  /\ Ordered(E.pile[e], AdmittedPile(E, e, HomeownerLayer(kind, n, look)))
         /\ Ordered(E.pile[e], ManualOffPile(E, e))
  <1>1. ASSUME NEW h, IsHomeowner(h)
        PROVE  Ordered(E.pile[e], AdmittedPile(E, e, h))
    <2> DEFINE p == E.pile[e]
               w == WithoutHomeowner(p)
               q == AdmittedPile(E, e, h)
    <2>1. q.layers = w.layers \cup {h} /\ w.below \subseteq q.below
      BY DEF AdmittedPile, Inserted
    <2>2. Ordered(p, w)
      BY DEF Ordered, WithoutHomeowner, Kept, IdsOf
    <2> HIDE DEF w, q
    <2>3. Ordered(p, q)
      BY <1>1, <2>1, <2>2 DEF Ordered
    <2> QED BY <2>3 DEF q
  <1>2. \A k \in HomeownerKinds : \A m, d : IsHomeowner(HomeownerLayer(k, m, d))
    BY DEF HomeownerLayer, IsHomeowner
  <1>3. "manual_off" \in HomeownerKinds
    BY DEF HomeownerKinds
  <1> QED BY <1>1, <1>2, <1>3 DEF ManualOffPile

LEMMA SamePilesOrdered ==
  ASSUME NEW E, Good(E), NEW D, D.pile = E.pile
  PROVE  SlotsStay(E, D)
  BY OrderedPiles DEF SlotsStay, Good, SoundPile

LEMMA SetPileOrdered ==
  ASSUME NEW E, Good(E), NEW e \in Entities, NEW p, Ordered(E.pile[e], p)
  PROVE  /\ SlotsStay(E, SetPile(E, e, p))
         /\ SlotsStay(E, [E EXCEPT !.pile[e] = p, !.moved = TRUE])
  <1>1. /\ SetPile(E, e, p).pile = [E.pile EXCEPT ![e] = p]
        /\ [E EXCEPT !.pile[e] = p, !.moved = TRUE].pile = [E.pile EXCEPT ![e] = p]
    BY DEF SetPile, Good, EngineState
  <1>2. \A d \in Entities : Ordered(E.pile[d], [E.pile EXCEPT ![e] = p][d])
    BY OrderedPiles DEF Good, SoundPile, EngineState
  <1> QED BY <1>1, <1>2 DEF SlotsStay

LEMMA PushedOrdered ==
  ASSUME NEW E, Good(E), NEW e \in Entities, NEW l
  PROVE  SlotsStay(E, Pushed(E, e, l))
  <1> DEFINE p == E.pile[e]
             b == Bound(E, l)
             q == IF Match(p, b) # {} THEN Updated(p, b)
                  ELSE Inserted(p, b, PrecedenceBlockers(p, b))
  <1>1. Ordered(p, q)
    BY OrderedPiles DEF Good, SoundPile
  <1>2. Pushed(E, e, l) = SetPile(E, e, q)
    BY DEF Pushed
  <1> HIDE DEF p, q
  <1>3. SlotsStay(E, SetPile(E, e, q))
    BY <1>1, SetPileOrdered, Zenon DEF p
  <1> QED BY <1>2, <1>3

LEMMA ActivatedOrdered ==
  ASSUME NEW E, Good(E), NEW e \in Entities, NEW l, NEW supersede
  PROVE  SlotsStay(E, Activated(E, e, l, supersede))
  <1>1. \A b, B : Ordered(E.pile[e], Inserted(E.pile[e], b, B))
    BY OrderedPiles DEF Good, SoundPile
  <1> QED BY <1>1, SetPileOrdered, PushedOrdered DEF Activated

LEMMA AppliedOffOrdered ==
  ASSUME NEW E, Good(E), NEW e \in Entities
  PROVE  SlotsStay(E, AppliedOff(E, e))
  <1>1. \A S : Ordered(E.pile[e], Kept(E.pile[e], S))
    BY OrderedPiles DEF Good, SoundPile
  <1>2. Suppressed(E, Exposed(E, e), "homeowner_off").pile = E.pile
    BY DEF Suppressed, Good, EngineState
  <1>3. SlotsStay(E, E) /\ SlotsStay(E, Suppressed(E, Exposed(E, e), "homeowner_off"))
    BY <1>2, SamePilesOrdered
  <1>4. SlotsStay(E, [E EXCEPT !.pile[e] = ManualOffPile(E, e), !.moved = TRUE])
    BY OrderedAdmitted, SetPileOrdered DEF HomeownerKinds
  <1>5. SlotsStay(E, SetPile(E, e, Kept(E.pile[e], E.pile[e].layers \ Exposed(E, e))))
    BY <1>1, SetPileOrdered
  <1> QED BY <1>3, <1>4, <1>5 DEF AppliedOff

LEMMA AppliedGroupOffOrdered ==
  ASSUME NEW E, Good(E), NEW g \in Groups, NEW members, NEW eligible
  PROVE  SlotsStay(E, AppliedGroupOff(E, g, members, eligible))
  <1> DEFINE alone == Disarmed(E, Overlapping(E, members) \ {g})
             covered == Suppressed(alone, UNION {Exposed(alone, e) : e \in eligible},
                                   "homeowner_group_off")
             second == SecondGroupOff(alone, eligible)
             first == FirstGroupOff(alone, g, members, eligible)
  <1>1. Good(alone) /\ alone.pile = E.pile
    BY DisarmedGood, DisarmedRest
  <1> HIDE DEF alone
  <1>2. covered.pile = E.pile
    BY <1>1 DEF Suppressed, Good, EngineState
  <1>3. second.pile = [e \in Entities |-> IF e \in eligible
                         THEN ManualOffPile(covered, e) ELSE E.pile[e]]
    BY <1>1 DEF SecondGroupOff, Suppressed, Good, EngineState
  <1>4. first.pile = [e \in Entities |-> IF e \in eligible
                        THEN WithoutHomeowner(E.pile[e]) ELSE E.pile[e]]
    BY <1>1 DEF FirstGroupOff, ArmedWith, Disarmed, Good, EngineState
  <1> HIDE DEF covered, second, first
  <1>5. \A e : Ordered(covered.pile[e], ManualOffPile(covered, e))
    BY OrderedAdmitted DEF HomeownerKinds
  <1>6. \A e \in Entities : /\ Ordered(E.pile[e], E.pile[e])
                            /\ Ordered(E.pile[e], WithoutHomeowner(E.pile[e]))
    BY OrderedPiles DEF Good, SoundPile
  <1>7. SlotsStay(E, second)
    BY <1>2, <1>3, <1>5, <1>6 DEF SlotsStay
  <1>8. SlotsStay(E, first)
    BY <1>4, <1>6 DEF SlotsStay
  <1>9. SlotsStay(E, E)
    BY SamePilesOrdered
  <1> QED BY <1>7, <1>8, <1>9 DEF AppliedGroupOff, second, first, alone

\* Operations that keep some layers of every light and drop the others.
LEMMA KeptEverywhereOrdered ==
  ASSUME NEW E, Good(E), NEW D,
         \A e \in Entities : \/ D.pile[e] \in {E.pile[e], EmptyPile}
                             \/ \E S : D.pile[e] = Kept(E.pile[e], S)
  PROVE  SlotsStay(E, D)
  <1>1. \A e \in Entities : E.pile[e] \in Pile
    BY DEF Good, SoundPile
  <1>2. ASSUME NEW e \in Entities
        PROVE  Ordered(E.pile[e], D.pile[e])
    BY <1>1, <1>2, OrderedPiles
  <1> QED BY <1>2 DEF SlotsStay

LEMMA EndedOrdered ==
  ASSUME NEW E, Good(E), NEW f, NEW s
  PROVE  SlotsStay(E, Ended(E, f, s))
  <1>1. Ended(E, f, s).pile = [e \in Entities |-> Kept(E.pile[e],
                      {l \in E.pile[e].layers : ~(l.family = f /\ l.session = s)})]
    BY DEF Ended, Disarmed, Good, EngineState
  <1>2. \A e \in Entities : \E S : Ended(E, f, s).pile[e] = Kept(E.pile[e], S)
    BY <1>1
  <1> QED BY <1>2, KeptEverywhereOrdered

LEMMA StartedOrdered ==
  ASSUME NEW E, Good(E), NEW f \in Families, NEW s \in Sessions, NEW q \in Nat
  PROVE  SlotsStay(E, Started(E, f, s, q))
  <1> DEFINE others == {x \in E.sessions : x.family = f}
             D == EndedOthers(E, f)
  <1>1. Good(D) /\ SlotsStay(E, D)
    <2>1. CASE others = {}
      BY <2>1, SamePilesOrdered DEF EndedOthers
    <2>2. CASE others # {}
      <3>1. (CHOOSE x \in others : TRUE) \in FamilySession
        BY <2>2 DEF Good, EngineState
      <3>2. (CHOOSE x \in others : TRUE).session \in Sessions
        BY <3>1 DEF FamilySession
      <3> QED BY <2>2, <3>2, EndedGood, EndedOrdered DEF EndedOthers
    <2> QED BY <2>1, <2>2
  <1>2. Started(E, f, s, q).pile = D.pile
    BY <1>1 DEF Started, Good, EngineState
  <1> QED BY <1>1, <1>2 DEF SlotsStay

LEMMA LifecycleOrdered ==
  ASSUME NEW E, Good(E), NEW desired
  PROVE  /\ SlotsStay(E, Expired(E)) /\ SlotsStay(E, EveningActivated(E))
         /\ SlotsStay(E, ManagedUpdated(E, desired))
         /\ SlotsStay(E, ResetHomeowner(E))
  <1>1. \A e \in Entities :
          Expired(E).pile[e] = Kept(E.pile[e], {l \in E.pile[e].layers : ~l.boundary})
    BY DEF Expired, Disarmed, KeptEverywhere, Good, EngineState
  <1>2. \A e \in Entities :
          EveningActivated(E).pile[e] =
            Kept(E.pile[e], {l \in E.pile[e].layers : l.kind # "manual_off"})
    BY DEF EveningActivated, Disarmed, KeptEverywhere, Good, EngineState
  <1>3. \A e \in Entities : ManagedUpdated(E, desired).pile[e] \in {EmptyPile, E.pile[e]}
    BY DEF ManagedUpdated, Disarmed, Good, EngineState
  <1>4. \A e \in Entities :
          ResetHomeowner(E).pile[e] =
            Kept(E.pile[e], {l \in E.pile[e].layers : ~IsHomeowner(l)})
    BY DEF ResetHomeowner, Disarmed, KeptEverywhere, Good, EngineState
  <1>5. SlotsStay(E, Expired(E))
    <2>1. \A e \in Entities : \E S : Expired(E).pile[e] = Kept(E.pile[e], S)
      BY <1>1
    <2> QED BY <2>1, KeptEverywhereOrdered
  <1>6. SlotsStay(E, EveningActivated(E))
    <2>1. \A e \in Entities : \E S : EveningActivated(E).pile[e] = Kept(E.pile[e], S)
      BY <1>2
    <2> QED BY <2>1, KeptEverywhereOrdered
  <1>7. SlotsStay(E, ManagedUpdated(E, desired))
    BY <1>3, KeptEverywhereOrdered
  <1>8. SlotsStay(E, ResetHomeowner(E))
    <2>1. \A e \in Entities : \E S : ResetHomeowner(E).pile[e] = Kept(E.pile[e], S)
      BY <1>4
    <2> QED BY <2>1, KeptEverywhereOrdered
  <1> QED BY <1>5, <1>6, <1>7, <1>8

LEMMA SlotsStep == EngineInv /\ [EngineNext]_engineVars => SlotsStay(engine, engine')
  <1> SUFFICES ASSUME EngineInv, [EngineNext]_engineVars
               PROVE  SlotsStay(engine, engine')
    OBVIOUS
  <1>0. Good(engine)
    BY DEF EngineInv
  <1>kept. \A e \in Entities : \A S : Ordered(engine.pile[e], Kept(engine.pile[e], S))
    BY <1>0, OrderedPiles DEF Good, SoundPile
  <1> USE DEF Becomes
  <1>1. ASSUME NEW e \in Entities, NEW l \in Offered, Push(e, l)
        PROVE  SlotsStay(engine, engine')
    BY <1>0, <1>1, PushedOrdered DEF Push
  <1>2. ASSUME NEW e \in Entities, NEW l \in Offered, NEW supersede \in BOOLEAN,
               ActivateAutomatic(e, l, supersede)
        PROVE  SlotsStay(engine, engine')
    BY <1>0, <1>2, ActivatedOrdered DEF ActivateAutomatic
  <1>3. ASSUME NEW e \in Entities, NEW id \in Ids, RemoveLayer(e, id)
        PROVE  SlotsStay(engine, engine')
    BY <1>0, <1>kept, <1>3, SetPileOrdered DEF RemoveLayer
  <1>4. ASSUME NEW e \in Entities, NEW owner \in Owners, RemoveOwner(e, owner)
        PROVE  SlotsStay(engine, engine')
    BY <1>0, <1>kept, <1>4, SetPileOrdered DEF RemoveOwner
  <1>5. ASSUME NEW f \in Families, NEW s \in Sessions, NEW q \in 1..MaxSequence,
               NEW explicit \in BOOLEAN, StartFamily(f, s, q, explicit)
        PROVE  SlotsStay(engine, engine')
    BY <1>0, <1>5, StartedOrdered DEF StartFamily
  <1>6. ASSUME NEW f \in Families, NEW s \in Sessions, SuppressFamily(f, s)
        PROVE  SlotsStay(engine, engine')
    <2>1. engine'.pile = engine.pile
      BY <1>0, <1>6 DEF SuppressFamily, Good, EngineState
    <2> QED BY <1>0, <2>1, SamePilesOrdered
  <1>7. ASSUME NEW f \in Families, NEW s \in Sessions, EndFamily(f, s)
        PROVE  SlotsStay(engine, engine')
    BY <1>0, <1>7, EndedOrdered DEF EndFamily
  <1>8. ASSUME NEW e \in Entities, ManualRelease(e)
        PROVE  SlotsStay(engine, engine')
    BY <1>0, <1>kept, <1>8, SetPileOrdered DEF ManualRelease
  <1>9. ASSUME NEW e \in Entities, ApplyOff(e)
        PROVE  SlotsStay(engine, engine')
    BY <1>0, <1>9, AppliedOffOrdered DEF ApplyOff
  <1>10. ASSUME NEW e \in Entities,
                PushManualOff(e) \/ \E look \in Looks : AdmitManual(e, look)
         PROVE  SlotsStay(engine, engine')
    <2>1. /\ Ordered(engine.pile[e], ManualOffPile(engine, e))
          /\ \A look : Ordered(engine.pile[e],
                AdmittedPile(engine, e, HomeownerLayer("manual", 0, look)))
      BY OrderedAdmitted DEF HomeownerKinds
    <2>2. CASE PushManualOff(e)
      BY <1>0, <2>1, <2>2, SetPileOrdered DEF PushManualOff
    <2>3. ASSUME NEW look \in Looks, AdmitManual(e, look)
          PROVE  SlotsStay(engine, engine')
      BY <1>0, <2>1, <2>3, SetPileOrdered DEF AdmitManual
    <2> QED BY <1>10, <2>2, <2>3
  <1>11. ASSUME NEW g \in Groups, NEW members, NEW eligible,
                ApplyGroupOff(g, members, eligible)
         PROVE  SlotsStay(engine, engine')
    BY <1>0, <1>11, AppliedGroupOffOrdered DEF ApplyGroupOff
  <1>12. ASSUME NEW G, ResetGroupOffSequence(G)
         PROVE  SlotsStay(engine, engine')
    <2>1. engine'.pile = engine.pile
      BY <1>0, <1>12 DEF ResetGroupOffSequence, Disarmed, Good, EngineState
    <2> QED BY <1>0, <2>1, SamePilesOrdered
  <1>13. ASSUME NEW scope \in SUBSET Entities, UpdateManagedEntities(scope)
         PROVE  SlotsStay(engine, engine')
    BY <1>0, <1>13, LifecycleOrdered DEF UpdateManagedEntities
  <1>14. ASSUME NEW scope \in SUBSET Entities, Reconfigure(scope)
         PROVE  SlotsStay(engine, engine')
    BY <1>14 DEF Reconfigure, Blank, EmptyPile, SlotsStay, Ordered
  <1>15. CASE CaptureWork
    <2>1. engine'.pile = engine.pile
      BY <1>0, <1>15 DEF CaptureWork, Good, EngineState
    <2> QED BY <1>0, <2>1, SamePilesOrdered
  <1>16. CASE ExpireBoundary \/ EveningActivation \/ ResetHomeownerControl
    BY <1>0, <1>16, LifecycleOrdered
       DEF ExpireBoundary, EveningActivation, ResetHomeownerControl
  <1>17. CASE UNCHANGED engineVars
    BY <1>0, <1>17, SamePilesOrdered DEF engineVars
  <1> QED
    BY <1>1, <1>2, <1>3, <1>4, <1>5, <1>6, <1>7, <1>8, <1>9, <1>10, <1>11, <1>12,
       <1>13, <1>14, <1>15, <1>16, <1>17
       DEF EngineNext, SystemAdapters, FamilyAdapters, Homeowner, Lifecycle

\* Whatever is pushed, refreshed, released, expired or swept, the system layers that
\* remain on a light keep their relative order: an update never raises a hidden layer.
THEOREM LayersKeepTheirSlots == EngineSpec => SlotsKept
  <1>1. EngineInv /\ [EngineNext]_engineVars
          => [\A e \in Entities : \A k, l \in engine'.pile[e].layers :
                ~IsHomeowner(k) /\ ~IsHomeowner(l) /\ <<k.id, l.id>> \in engine.pile[e].below
                => <<k.id, l.id>> \in engine'.pile[e].below]_engineVars
    BY SlotsStep DEF SlotsStay, Ordered
  <1> QED BY <1>1, InvHolds, PTL DEF EngineSpec, SlotsKept

-----------------------------------------------------------------------------
(* Suppressions *)

\* A session suppressed in E is lifted in D only by a homeowner reset.
Persists(E, D) ==
  \A x \in E.sessions, y \in D.sessions :
     /\ x.family = y.family /\ x.session = y.session /\ x.sequence = y.sequence
     /\ x.reason # None /\ y.reason = None
     => /\ x.reason \in HomeownerReasons
        /\ \A e \in Entities : \A l \in D.pile[e].layers : ~IsHomeowner(l)
        /\ Armed(D) = {}

\* It takes the uniqueness of a family's session: the entry seen afterwards is the
\* one that was suppressed.
LEMMA FewerSessionsPersist ==
  ASSUME NEW E, SessionsGood(E), NEW D, D.sessions \subseteq E.sessions
  PROVE  Persists(E, D)
  BY DEF SessionsGood, Persists

LEMMA ReasonedPersist ==
  ASSUME NEW E, Good(E), SessionsGood(E), NEW D, NEW hit \in SUBSET E.sessions,
         NEW reason \in Reasons, D.sessions = Reasoned(E.sessions, hit, reason)
  PROVE  Persists(E, D)
  <1>1. reason # None
    BY ConstantsAssumption
  <1>2. \A y \in D.sessions : y \in E.sessions \/ y.reason = reason
    BY DEF Reasoned, Good, EngineState, FamilySession
  <1> QED BY <1>1, <1>2 DEF SessionsGood, Persists

LEMMA SuppressedPersist ==
  ASSUME NEW E, Good(E), SessionsGood(E), NEW F, Good(F), F.sessions = E.sessions,
         NEW S, NEW reason \in Reasons,
         NEW D, D.sessions = Suppressed(F, S, reason).sessions
  PROVE  Persists(E, D)
  <1> DEFINE hit == UNION {SessionOf(F, l) : l \in {k \in S : InSession(k)}}
  <1>1. hit \in SUBSET E.sessions
    BY DEF SessionOf
  <1>2. Suppressed(F, S, reason).sessions = Reasoned(E.sessions, hit, reason)
    BY DEF Suppressed, Reasoned, Good, EngineState
  <1> HIDE DEF hit
  <1> QED BY <1>1, <1>2, ReasonedPersist

LEMMA StartedPersist ==
  ASSUME NEW E, Good(E), SessionsGood(E), NEW f \in Families, NEW s \in Sessions,
         NEW q \in Nat, NEW explicit \in BOOLEAN, StartAdmitted(E, f, s, q, explicit)
  PROVE  Persists(E, Started(E, f, s, q))
  <1> DEFINE D == EndedOthers(E, f)
             new == [family |-> f, session |-> s, sequence |-> q, reason |-> None]
  <1>1. Good(D) /\ D.sessions \subseteq E.sessions
    BY EndedOthersSessions
  <1>2. Started(E, f, s, q).sessions = D.sessions \cup {new}
    BY <1>1 DEF Started, Good, EngineState
  <1>3. \A x \in E.sessions : ~(x.family = new.family /\ x.session = new.session)
    BY DEF StartAdmitted, LiveSession
  <1> HIDE DEF D, new
  <1> QED BY <1>1, <1>2, <1>3 DEF SessionsGood, Persists

LEMMA AppliedOffPersist ==
  ASSUME NEW E, Good(E), SessionsGood(E), NEW e \in Entities
  PROVE  Persists(E, AppliedOff(E, e))
  <1>1. Persists(E, Suppressed(E, Exposed(E, e), "homeowner_off"))
    BY SuppressedPersist DEF Reasons, HomeownerReasons
  <1>2. /\ \A p : SetPile(E, e, p).sessions = E.sessions
        /\ [E EXCEPT !.pile[e] = ManualOffPile(E, e), !.moved = TRUE].sessions = E.sessions
    BY DEF SetPile, Good, EngineState
  <1>3. /\ \A p : Persists(E, SetPile(E, e, p))
        /\ Persists(E, [E EXCEPT !.pile[e] = ManualOffPile(E, e), !.moved = TRUE])
        /\ Persists(E, E)
    BY <1>2, FewerSessionsPersist
  <1> QED BY <1>1, <1>3 DEF AppliedOff

LEMMA AppliedGroupOffPersist ==
  ASSUME NEW E, Good(E), SessionsGood(E), NEW g \in Groups, NEW members, NEW eligible
  PROVE  Persists(E, AppliedGroupOff(E, g, members, eligible))
  <1> DEFINE alone == Disarmed(E, Overlapping(E, members) \ {g})
             S == UNION {Exposed(alone, e) : e \in eligible}
             second == SecondGroupOff(alone, eligible)
             first == FirstGroupOff(alone, g, members, eligible)
  <1>1. Good(alone) /\ alone.sessions = E.sessions
    BY DisarmedGood, DisarmedRest
  <1> HIDE DEF alone
  <1>2. second.sessions = Suppressed(alone, S, "homeowner_group_off").sessions
    BY <1>1 DEF SecondGroupOff, Suppressed, Good, EngineState
  <1>3. first.sessions = E.sessions
    BY <1>1 DEF FirstGroupOff, ArmedWith, Disarmed, Good, EngineState
  <1> HIDE DEF S, second, first
  <1>4. Persists(E, second)
    BY <1>1, <1>2, SuppressedPersist DEF Reasons, HomeownerReasons
  <1>5. Persists(E, first) /\ Persists(E, E)
    BY <1>3, FewerSessionsPersist
  <1> QED BY <1>4, <1>5 DEF AppliedGroupOff, second, first, alone

LEMMA ResetPersist ==
  ASSUME NEW E, Good(E), SessionsGood(E)
  PROVE  Persists(E, ResetHomeowner(E))
  <1> DEFINE lifted == {x \in E.sessions : x.reason \in HomeownerReasons}
             D == ResetHomeowner(E)
  <1>1. D.sessions = Reasoned(E.sessions, lifted, None)
    BY DEF ResetHomeowner, Disarmed, Reasoned, Good, EngineState
  <1>2. Armed(D) = {}
    BY DEF ResetHomeowner, Disarmed, Armed, Good, EngineState
  <1>3. \A e \in Entities : \A l \in D.pile[e].layers : ~IsHomeowner(l)
    BY DEF ResetHomeowner, Disarmed, KeptEverywhere, Kept, Good, EngineState
  <1> HIDE DEF D
  <1>4. ASSUME NEW x \in E.sessions, NEW y \in D.sessions,
               x.family = y.family, x.reason # None, y.reason = None
        PROVE  x.reason \in HomeownerReasons
    <2>1. CASE y \in E.sessions
      BY <1>4, <2>1 DEF SessionsGood
    <2>2. CASE y \notin E.sessions
      <3>1. PICK z \in lifted : y = [z EXCEPT !.reason = None]
        BY <1>1, <2>2 DEF Reasoned
      <3>2. z \in E.sessions /\ z.reason \in HomeownerReasons /\ z.family = x.family
        BY <1>4, <3>1 DEF Good, EngineState, FamilySession
      <3> QED BY <3>2 DEF SessionsGood
    <2> QED BY <2>1, <2>2
  <1>5. Persists(E, D)
    BY <1>2, <1>3, <1>4 DEF Persists
  <1> QED BY <1>5 DEF D

LEMMA SuppressionStep ==
  SessionsInv /\ [EngineNext]_engineVars
    => (generation' = generation => Persists(engine, engine'))
  <1> SUFFICES ASSUME SessionsInv, [EngineNext]_engineVars, generation' = generation
               PROVE  Persists(engine, engine')
    OBVIOUS
  <1>0. Good(engine) /\ SessionsGood(engine) /\ generation \in Nat
    BY DEF SessionsInv, EngineInv
  <1>pile. \A e \in Entities : \A p : SetPile(engine, e, p).sessions = engine.sessions
    BY <1>0 DEF SetPile, Good, EngineState
  <1>same. engine'.sessions \subseteq engine.sessions => Persists(engine, engine')
    BY <1>0, FewerSessionsPersist
  <1> USE DEF Becomes
  <1>1. ASSUME NEW e \in Entities, NEW l \in Offered, Push(e, l)
        PROVE  Persists(engine, engine')
    BY <1>pile, <1>same, <1>1 DEF Push, Pushed
  <1>2. ASSUME NEW e \in Entities, NEW l \in Offered, NEW supersede \in BOOLEAN,
               ActivateAutomatic(e, l, supersede)
        PROVE  Persists(engine, engine')
    BY <1>pile, <1>same, <1>2 DEF ActivateAutomatic, Activated, Pushed
  <1>3. ASSUME NEW e \in Entities, NEW id \in Ids, RemoveLayer(e, id)
        PROVE  Persists(engine, engine')
    BY <1>pile, <1>same, <1>3 DEF RemoveLayer
  <1>4. ASSUME NEW e \in Entities, NEW owner \in Owners, RemoveOwner(e, owner)
        PROVE  Persists(engine, engine')
    BY <1>pile, <1>same, <1>4 DEF RemoveOwner
  <1>5. ASSUME NEW f \in Families, NEW s \in Sessions, NEW q \in 1..MaxSequence,
               NEW explicit \in BOOLEAN, StartFamily(f, s, q, explicit)
        PROVE  Persists(engine, engine')
    BY <1>0, <1>5, StartedPersist DEF StartFamily
  <1>6. ASSUME NEW f \in Families, NEW s \in Sessions, SuppressFamily(f, s)
        PROVE  Persists(engine, engine')
    <2>1. PICK x \in LiveSession(engine, f, s) :
            LET new == (engine.sessions \ {x}) \cup {[x EXCEPT !.reason = "adapter"]}
            IN engine' = [engine EXCEPT !.sessions = new,
                                        !.moved = @ \/ new # engine.sessions]
      BY <1>6, Zenon DEF SuppressFamily
    <2>2. Reasoned(engine.sessions, {x}, "adapter") =
            (engine.sessions \ {x}) \cup {[x EXCEPT !.reason = "adapter"]}
      BY DEF Reasoned
    <2>3. engine'.sessions = Reasoned(engine.sessions, {x}, "adapter")
      BY <1>0, <2>1, <2>2 DEF Good, EngineState
    <2>4. {x} \in SUBSET engine.sessions
      BY DEF LiveSession
    <2> QED BY <1>0, <2>3, <2>4, ReasonedPersist DEF Reasons
  <1>7. ASSUME NEW f \in Families, NEW s \in Sessions, EndFamily(f, s)
        PROVE  Persists(engine, engine')
    BY <1>0, <1>same, <1>7, EndedSessions DEF EndFamily
  <1>8. ASSUME NEW e \in Entities, ManualRelease(e)
        PROVE  Persists(engine, engine')
    BY <1>pile, <1>same, <1>8 DEF ManualRelease
  <1>9. ASSUME NEW e \in Entities, ApplyOff(e)
        PROVE  Persists(engine, engine')
    BY <1>0, <1>9, AppliedOffPersist DEF ApplyOff
  <1>10. ASSUME NEW e \in Entities,
                PushManualOff(e) \/ \E look \in Looks : AdmitManual(e, look)
         PROVE  Persists(engine, engine')
    <2>1. engine'.sessions = engine.sessions
      BY <1>0, <1>10 DEF PushManualOff, AdmitManual, Good, EngineState
    <2> QED BY <1>same, <2>1
  <1>11. ASSUME NEW g \in Groups, NEW members, NEW eligible,
                ApplyGroupOff(g, members, eligible)
         PROVE  Persists(engine, engine')
    BY <1>0, <1>11, AppliedGroupOffPersist DEF ApplyGroupOff
  <1>12. ASSUME NEW G, ResetGroupOffSequence(G)
         PROVE  Persists(engine, engine')
    <2>1. engine'.sessions = engine.sessions
      BY <1>0, <1>12 DEF ResetGroupOffSequence, Disarmed, Good, EngineState
    <2> QED BY <1>same, <2>1
  <1>13. ASSUME NEW scope \in SUBSET Entities, UpdateManagedEntities(scope)
         PROVE  Persists(engine, engine')
    <2>1. engine'.sessions = engine.sessions
      BY <1>0, <1>13 DEF UpdateManagedEntities, ManagedUpdated, Disarmed, Good, EngineState
    <2> QED BY <1>same, <2>1
  <1>14. ASSUME NEW scope \in SUBSET Entities, Reconfigure(scope)
         PROVE  FALSE
    BY <1>0, <1>14 DEF Reconfigure
  <1>15. CASE CaptureWork
    <2>1. engine'.sessions = engine.sessions
      BY <1>0, <1>15 DEF CaptureWork, Good, EngineState
    <2> QED BY <1>same, <2>1
  <1>16. CASE ExpireBoundary \/ EveningActivation
    <2>1. engine'.sessions = engine.sessions
      BY <1>0, <1>16 DEF ExpireBoundary, EveningActivation, Expired, EveningActivated, Disarmed,
                         Good, EngineState
    <2> QED BY <1>same, <2>1
  <1>17. CASE ResetHomeownerControl
    BY <1>0, <1>17, ResetPersist DEF ResetHomeownerControl
  <1>18. CASE UNCHANGED engineVars
    BY <1>same, <1>18 DEF engineVars
  <1> QED
    BY <1>1, <1>2, <1>3, <1>4, <1>5, <1>6, <1>7, <1>8, <1>9, <1>10, <1>11, <1>12,
       <1>13, <1>14, <1>15, <1>16, <1>17, <1>18
       DEF EngineNext, SystemAdapters, FamilyAdapters, Homeowner, Lifecycle

\* A suppressed session stays suppressed until it ends; only a homeowner reset lifts
\* it, only if a homeowner suppressed it, and never without removing every homeowner
\* layer and armed group in the same step.
THEOREM SuppressionsPersist == EngineSpec => SuppressionKept
  <1>1. SessionsInv /\ [EngineNext]_engineVars
          => [\A x \in engine.sessions, y \in engine'.sessions :
                /\ generation' = generation
                /\ x.family = y.family /\ x.session = y.session /\ x.sequence = y.sequence
                /\ x.reason # None /\ y.reason = None
                => /\ x.reason \in HomeownerReasons
                   /\ \A e \in Entities : \A l \in engine'.pile[e].layers : ~IsHomeowner(l)
                   /\ Armed(engine') = {}]_engineVars
    BY SuppressionStep DEF Persists
  <1> QED BY <1>1, SessionsHold, PTL DEF EngineSpec, SuppressionKept

-----------------------------------------------------------------------------
(* Receipts *)

LEMMA ReceiptFields ==
  ASSUME NEW op \in Receipts
  PROVE  /\ op.id \in OperationIds /\ op.sequence \in Nat \ {0}
         /\ op.kind \in {"appearance", "off"} /\ op.group \in Groups \cup {None}
         /\ op.members \subseteq Entities /\ IsFiniteSet(op.members)
         /\ op.ok \subseteq op.members
         /\ op.look \in Looks \cup {None} /\ op.precedence \in Int \cup {None}
  BY OperationsAssumption DEF Operation

\* An accepted receipt names managed lights, one or more of which took part; a
\* receipt without a group names exactly one light.
LEMMA AcceptableScope ==
  ASSUME NEW op \in Receipts, Acceptable(op)
  PROVE  /\ op.members # {} /\ op.members \subseteq engine.managed /\ op.ok # {}
         /\ op.group = None => op.ok = {CHOOSE e \in op.ok : TRUE}
         /\ op.kind = "appearance" => op.look \in Looks
  <1>1. /\ op.members # {} /\ op.members \subseteq engine.managed /\ op.ok # {}
        /\ op.group = None => Cardinality(op.members) = 1
    BY DEF Acceptable, Consumable, ExactScope, Effective
  <1>2. op.group = None => op.ok = {CHOOSE e \in op.ok : TRUE}
    <2> SUFFICES ASSUME op.group = None PROVE op.ok = {CHOOSE e \in op.ok : TRUE}
      OBVIOUS
    <2>1. \E x : op.members = {x}
      BY <1>1, ReceiptFields, FS_Singleton
    <2> QED BY <1>1, <2>1, ReceiptFields
  <1>3. op.kind = "appearance" => op.look \in Looks
    BY ReceiptFields DEF Acceptable, Effective
  <1> QED BY <1>1, <1>2, <1>3

-----------------------------------------------------------------------------
(* What a light shows *)

\* The layer a light shows depends only on its pile and on the sessions.
LEMMA SameShown ==
  ASSUME NEW D, NEW E, D.pile = E.pile, D.sessions = E.sessions
  PROVE  /\ \A e, l : Eligible(D, e, l) <=> Eligible(E, e, l)
         /\ \A e : Exposed(D, e) = Exposed(E, e)
  <1>1. \A l : SessionEligible(D, l) <=> SessionEligible(E, l)
    BY DEF SessionEligible
  <1>2. \A e, l : Eligible(D, e, l) <=> Eligible(E, e, l)
    BY <1>1 DEF Eligible
  <1> QED BY <1>2 DEF Exposed

\* resolve returns at most one layer: the list is totally ordered.
LEMMA ExposedAtMostOne ==
  ASSUME NEW E, Good(E), NEW e \in Entities
  PROVE  \A k, l \in Exposed(E, e) : k = l
  <1> SUFFICES ASSUME NEW k \in Exposed(E, e), NEW l \in Exposed(E, e), k # l
               PROVE  FALSE
    OBVIOUS
  <1> DEFINE p == E.pile[e]
  <1>1. IsList(p) /\ k \in p.layers /\ l \in p.layers
    BY DEF Good, SoundPile, Exposed
  <1>2. <<k.id, l.id>> \in p.below /\ <<l.id, k.id>> \in p.below
    BY DEF Exposed
  <1>3. k.id \in IdsOf(p.layers) /\ l.id \in IdsOf(p.layers)
    BY <1>1 DEF IdsOf
  <1> HIDE DEF p
  <1>4. <<k.id, k.id>> \in p.below
    BY <1>1, <1>2, <1>3, Zenon DEF IsList
  <1> QED BY <1>1, <1>3, <1>4 DEF IsList

\* Manual takes the greater of the hint and what it dismisses: the maximum exists,
\* because a light shows at most one layer.
LEMMA ManualPrecedenceType ==
  ASSUME NEW E, Good(E), NEW op \in Receipts, NEW e \in Entities
  PROVE  ManualPrecedence(E, op, e) \in Int
  <1> DEFINE hint == IF op.precedence = None THEN 0 ELSE op.precedence
             dismissed == {l.precedence : l \in {k \in Exposed(E, e) : InSession(k)}}
             Greatest(n) == n \in dismissed \cup {hint} /\ \A m \in dismissed \cup {hint} : n >= m
  <1>1. hint \in Int
    BY ReceiptFields
  <1>2. dismissed \subseteq Int
    <2>1. E.pile[e].layers \subseteq Layer
      BY DEF Good, SoundPile, Pile
    <2> QED BY <2>1, LayerFields, ExposedInPile
  <1>3. \A m, n \in dismissed : m = n
    BY ExposedAtMostOne
  <1> HIDE DEF hint, dismissed
  <1>4. \E n : Greatest(n)
    <2>1. CASE dismissed = {}
      <3>1. Greatest(hint) BY <1>1, <2>1
      <3> QED BY <3>1
    <2>2. ASSUME NEW d \in dismissed PROVE \E n : Greatest(n)
      <3>1. CASE d >= hint
        <4>1. Greatest(d) BY <1>1, <1>2, <1>3, <2>2, <3>1
        <4> QED BY <4>1
      <3>2. CASE ~(d >= hint)
        <4>1. Greatest(hint) BY <1>1, <1>2, <1>3, <2>2, <3>2
        <4> QED BY <4>1
      <3> QED BY <3>1, <3>2
    <2> QED BY <2>1, <2>2
  <1>5. ManualPrecedence(E, op, e) =
          CHOOSE n \in dismissed \cup {hint} : \A m \in dismissed \cup {hint} : n >= m
    BY DEF ManualPrecedence, hint, dismissed
  <1>6. ManualPrecedence(E, op, e) \in dismissed \cup {hint}
    BY <1>4, <1>5
  <1> QED BY <1>1, <1>2, <1>6

-----------------------------------------------------------------------------
(* The transaction keeps the engine sound *)

EngineSound(E) == Good(E) /\ ArmingGood(E) /\ SessionsGood(E)

\* The sessions that a set of layers belongs to.
HitBy(E, S) == UNION {SessionOf(E, l) : l \in {k \in S : InSession(k)}}

LEMMA SuppressedTables ==
  ASSUME NEW E, Good(E), NEW S, NEW reason
  PROVE  /\ HitBy(E, S) \in SUBSET E.sessions
         /\ Suppressed(E, S, reason).sessions = Reasoned(E.sessions, HitBy(E, S), reason)
         /\ Suppressed(E, S, reason).pile = E.pile
         /\ Suppressed(E, S, reason).armed = E.armed
         /\ Suppressed(E, S, reason).earlier = E.earlier
         /\ Suppressed(E, S, reason).managed = E.managed
  BY DEF Suppressed, Good, EngineState, Reasoned, HitBy, SessionOf

LEMMA ManualPileSound ==
  ASSUME NEW E, Good(E), SessionsGood(E), NEW op \in Receipts, op.look \in Looks,
         NEW e \in Entities
  PROVE  /\ SoundPile(ManualPile(E, op, e))
         /\ \A k \in ManualPile(E, op, e).layers : LiveBound(E, k)
  <1> DEFINE n == ManualPrecedence(E, op, e)
             l == HomeownerLayer("manual", n, op.look)
             p == WithoutHomeowner(E.pile[e])
             over == Overridden(E, op.ok, e)
  <1>1. l \in Layer /\ IsHomeowner(l) /\ l.id = HomeownerId /\ ~l.removable
    BY ManualPrecedenceType, HomeownerLayerType DEF HomeownerKinds
  <1>2. Good(over) /\ over.pile = E.pile
    <2>1. "homeowner_override" \in Reasons
      BY DEF Reasons, HomeownerReasons
    <2> QED BY <2>1, SuppressedGood, SuppressedTables DEF Overridden
  <1>3. SoundPile(p) /\ \A k \in p.layers : ~IsHomeowner(k)
    BY WithoutHomeownerSound DEF Good
  <1>4. /\ AdmittedPile(over, e, l).layers = p.layers \cup {l}
        /\ Inserted(p, l, PrecedenceBlockers(p, l)).layers = p.layers \cup {l}
    BY <1>2 DEF AdmittedPile, Inserted
  <1>5. \A k \in p.layers \cup {l} : LiveBound(E, k)
    BY AdmittedPileSessions, HomeownerUnbound
  <1>6. SoundPile(AdmittedPile(over, e, l))
    <2> HIDE DEF over, l
    <2> QED BY <1>1, <1>2, AdmittedPileSound
  <1>7. SoundPile(Inserted(p, l, PrecedenceBlockers(p, l)))
    <2> HIDE DEF l
    <2>1. \A k \in p.layers : k.id # l.id /\ ~SameIdentity(k, l)
      BY <1>1, <1>3 DEF SoundPile, Tagged, SameIdentity
    <2>2. PrecedenceBlockers(p, l) \in SUBSET p.layers
      BY DEF PrecedenceBlockers
    <2> QED BY <1>1, <1>3, <2>1, <2>2, InsertedSound DEF Tagged
  <1>8. ManualPile(E, op, e) = IF Explicit(E, op, e) THEN AdmittedPile(over, e, l)
                               ELSE Inserted(p, l, PrecedenceBlockers(p, l))
    BY DEF ManualPile
  <1> QED BY <1>4, <1>5, <1>6, <1>7, <1>8

LEMMA AppliedAppearanceTables ==
  ASSUME NEW E, Good(E), NEW op
  PROVE  LET D == AppliedAppearance(E, op)
         IN /\ D.pile = [e \in Entities |-> IF e \in op.ok THEN ManualPile(E, op, e)
                                                           ELSE E.pile[e]]
            /\ D.sessions = Reasoned(E.sessions, HitBy(E, Shown(E, op.ok)),
                                     "homeowner_override")
            /\ D.armed = E.armed
            /\ D.earlier = E.earlier
            /\ D.managed = E.managed
  <1> DEFINE C == Suppressed(E, Shown(E, op.ok), "homeowner_override")
  <1>1. Good(C)
    BY SuppressedGood DEF Reasons, HomeownerReasons
  <1>2. /\ C.sessions = Reasoned(E.sessions, HitBy(E, Shown(E, op.ok)), "homeowner_override")
        /\ C.armed = E.armed
        /\ C.earlier = E.earlier
        /\ C.managed = E.managed
    BY SuppressedTables
  <1>3. AppliedAppearance(E, op) =
          [C EXCEPT !.pile = [e \in Entities |-> IF e \in op.ok THEN ManualPile(E, op, e)
                                                                ELSE E.pile[e]]]
    BY DEF AppliedAppearance
  <1> HIDE DEF C
  <1> QED BY <1>1, <1>2, <1>3 DEF Good, EngineState

LEMMA AppliedAppearanceSound ==
  ASSUME NEW E, EngineSound(E), NEW op \in Receipts, op.look \in Looks
  PROVE  EngineSound(AppliedAppearance(E, op))
  <1> DEFINE C == Suppressed(E, Shown(E, op.ok), "homeowner_override")
             f == [e \in Entities |-> IF e \in op.ok THEN ManualPile(E, op, e)
                                                     ELSE E.pile[e]]
             D == AppliedAppearance(E, op)
  <1>0. Good(E) /\ ArmingGood(E) /\ SessionsGood(E)
    BY DEF EngineSound
  <1>1. /\ Good(C) /\ ArmingGood(C) /\ SessionsGood(C)
        /\ \A l : LiveBound(E, l) => LiveBound(C, l)
    <2>1. Good(C)
      BY <1>0, SuppressedGood DEF Reasons, HomeownerReasons
    <2>2. C.armed = E.armed /\ C.earlier = E.earlier /\ C.managed = E.managed
      BY <1>0, SuppressedTables
    <2>3. SessionsGood(C) /\ \A l : LiveBound(E, l) => LiveBound(C, l)
      BY <1>0, SuppressedSessions
    <2> HIDE DEF C
    <2> QED BY <1>0, <2>1, <2>2, <2>3, SameArming
  <1>2. \A e \in Entities : /\ SoundPile(f[e])
                            /\ \A l \in f[e].layers : LiveBound(C, l)
    BY <1>0, <1>1, ManualPileSound DEF Good, SessionsGood
  <1>3. D = [C EXCEPT !.pile = f]
    BY DEF AppliedAppearance
  <1> HIDE DEF C, f, D
  <1>4. /\ D.pile = f /\ D.sessions = C.sessions /\ D.lastSequence = C.lastSequence
        /\ D.lastSession = C.lastSession /\ D.ended = C.ended
        /\ D.armed = C.armed /\ D.earlier = C.earlier /\ D.managed = C.managed
    BY <1>1, <1>3 DEF Good, EngineState
  <1>5. Good(D)
    <2>1. f \in [Entities -> Pile]
      BY <1>2 DEF f, SoundPile
    <2> QED BY <1>1, <1>2, <1>3, <1>4, <2>1 DEF Good, EngineState
  <1>6. ArmingGood(D)
    BY <1>1, <1>4, SameArming
  <1>7. SessionsGood(D)
    BY <1>1, <1>2, <1>4, SameSessions
  <1> QED BY <1>5, <1>6, <1>7 DEF EngineSound, D

LEMMA DisarmedMembersTables ==
  ASSUME NEW E, EngineSound(E), NEW S
  PROVE  LET D == DisarmedMembers(E, S)
         IN /\ EngineSound(D)
            /\ D.pile = E.pile /\ D.sessions = E.sessions /\ D.managed = E.managed
            /\ D.armed = [g \in Groups |-> IF g \in Overlapping(E, S) THEN {} ELSE E.armed[g]]
  <1> DEFINE G == Overlapping(E, S)
             D == Disarmed(E, G)
             M == DisarmedMembers(E, S)
  <1>1. /\ Good(D) /\ ArmingGood(D) /\ SessionsGood(D)
        /\ D.pile = E.pile /\ D.sessions = E.sessions /\ D.managed = E.managed
        /\ D.armed = [g \in Groups |-> IF g \in G THEN {} ELSE E.armed[g]]
    BY DisarmedGood, DisarmedArming, DisarmedSessions, DisarmedRest, DisarmedTables
       DEF EngineSound
  <1>2. M = [D EXCEPT !.moved = D.moved \/ G # {}]
    BY DEF DisarmedMembers
  <1>3. (D.moved \/ G # {}) \in BOOLEAN
    BY <1>1 DEF Good, EngineState
  <1> HIDE DEF D, M, G
  <1>4. /\ M.pile = D.pile /\ M.sessions = D.sessions /\ M.lastSequence = D.lastSequence
        /\ M.lastSession = D.lastSession /\ M.ended = D.ended
        /\ M.armed = D.armed /\ M.earlier = D.earlier /\ M.managed = D.managed
    BY <1>1, <1>2 DEF Good, EngineState
  <1>5. Good(M)
    BY <1>1, <1>2, <1>3, MovedGood
  <1>6. ArmingGood(M)
    BY <1>1, <1>4, SameArming
  <1>7. \A e \in Entities : \A l \in M.pile[e].layers : LiveBound(D, l)
    BY <1>1, <1>4 DEF SessionsGood
  <1>8. SessionsGood(M)
    BY <1>1, <1>4, <1>7, SameSessions
  <1> QED BY <1>1, <1>4, <1>5, <1>6, <1>8 DEF EngineSound, D, M, G

\* A commit of anything but a group OFF: it starts by disarming every group that
\* its lights reach into.
Alone(E, op) == DisarmedMembers(E, op.ok)

\* A commit of an OFF of a group.
Together(E, op) == AppliedGroupOff(E, op.group, op.members, op.ok)

LEMMA CommittedForms ==
  ASSUME NEW op \in Receipts
  PROVE  \/ op.kind = "appearance" /\ Committed(op) = AppliedAppearance(Alone(engine, op), op)
         \/ /\ op.kind = "off" /\ op.group = None
            /\ Committed(op) = AppliedOff(Alone(engine, op), CHOOSE e \in op.ok : TRUE)
         \/ op.kind = "off" /\ op.group \in Groups /\ Committed(op) = Together(engine, op)
  BY ReceiptFields DEF Committed, Alone, Together

LEMMA CommittedSound ==
  ASSUME EngineSound(engine), NEW op \in Receipts, Acceptable(op)
  PROVE  /\ EngineSound(Committed(op))
         /\ EngineSound([Committed(op) EXCEPT !.moved = TRUE])
  <1> DEFINE A == Alone(engine, op)
             D == Committed(op)
  <1>1. EngineSound(A)
    BY DisarmedMembersTables DEF Alone
  <1>2. EngineSound(D)
    <2> HIDE DEF A
    <2>1. CASE op.kind = "appearance" /\ D = AppliedAppearance(A, op)
      BY <1>1, <2>1, AcceptableScope, AppliedAppearanceSound
    <2>2. CASE op.kind = "off" /\ op.group = None /\ D = AppliedOff(A, CHOOSE e \in op.ok : TRUE)
      <3>1. (CHOOSE e \in op.ok : TRUE) \in Entities
        BY AcceptableScope, ReceiptFields
      <3> QED BY <1>1, <2>2, <3>1, AppliedOffGood, AppliedOffArming, AppliedOffSessions
              DEF EngineSound
    <2>3. CASE op.kind = "off" /\ op.group \in Groups /\ D = Together(engine, op)
      <3>1. /\ op.members \in SUBSET engine.managed /\ op.members # {}
            /\ op.members \in SUBSET Entities /\ op.ok \in SUBSET op.members
        BY AcceptableScope, ReceiptFields
      <3>2. Good(Together(engine, op)) /\ SessionsGood(Together(engine, op))
        BY <2>3, <3>1, AppliedGroupOffGood, AppliedGroupOffSessions DEF EngineSound, Together
      <3>3. ArmingGood(Together(engine, op))
        BY <2>3, <3>1, AppliedGroupOffArming DEF EngineSound, Together
      <3> QED BY <2>3, <3>2, <3>3 DEF EngineSound
    <2> QED BY <2>1, <2>2, <2>3, CommittedForms DEF A
  <1> HIDE DEF D
  <1> DEFINE M == [D EXCEPT !.moved = TRUE]
  <1>3. /\ M.pile = D.pile /\ M.sessions = D.sessions /\ M.lastSequence = D.lastSequence
        /\ M.lastSession = D.lastSession /\ M.ended = D.ended
        /\ M.armed = D.armed /\ M.earlier = D.earlier /\ M.managed = D.managed
    BY <1>2 DEF EngineSound, Good, EngineState
  <1>4. Good(M)
    BY <1>2, MovedGood DEF EngineSound
  <1> HIDE DEF M
  <1>5. \A e \in Entities : \A l \in M.pile[e].layers : LiveBound(D, l)
    BY <1>2, <1>3 DEF EngineSound, SessionsGood
  <1>6. ArmingGood(M) /\ SessionsGood(M)
    BY <1>2, <1>3, <1>5, SameArming, SameSessions DEF EngineSound
  <1> QED BY <1>2, <1>4, <1>6 DEF EngineSound, D, M

-----------------------------------------------------------------------------
(* What the rest of the house may do *)

\* The homeowner slot of a light: its Manual or Manual-OFF layer, if any.
Slot(E, e) == {l \in E.pile[e].layers : IsHomeowner(l)}

\* Nothing but an accepted receipt changes what the homeowner asked for, short of
\* withdrawing it together with every armed group; and nothing but a receipt
\* suppresses a session in the homeowner's name.
Untouched(E, D) == D.armed = E.armed /\ \A e \in Entities : Slot(D, e) = Slot(E, e)
Withdrawn(E, D) ==
  /\ \A g \in Groups : D.armed[g] = {}
  /\ \A e \in Entities : Slot(D, e) \subseteq Slot(E, e)
NoOrders(E, D) == \A y \in D.sessions : y \in E.sessions \/ y.reason \notin HomeownerReasons

LeftAlone(E, D) == (Untouched(E, D) \/ Withdrawn(E, D)) /\ NoOrders(E, D)

LEMMA SetPileUntouched ==
  ASSUME NEW E, Good(E), NEW e \in Entities, NEW p,
         {l \in p.layers : IsHomeowner(l)} = Slot(E, e)
  PROVE  LeftAlone(E, SetPile(E, e, p))
  <1>1. /\ SetPile(E, e, p).pile = [E.pile EXCEPT ![e] = p]
        /\ SetPile(E, e, p).sessions = E.sessions
        /\ SetPile(E, e, p).armed = E.armed
    BY DEF SetPile, Good, EngineState
  <1>2. E.pile = [d \in Entities |-> E.pile[d]]
    BY DEF Good, EngineState
  <1>3. \A d \in Entities : Slot(SetPile(E, e, p), d) = Slot(E, d)
    BY <1>1, <1>2 DEF Slot
  <1> QED BY <1>1, <1>3 DEF LeftAlone, Untouched, NoOrders

LEMMA PushedUntouched ==
  ASSUME NEW E, Good(E), NEW e \in Entities, NEW l \in Layer, ~IsHomeowner(l),
         PushAdmitted(E, e, l)
  PROVE  LeftAlone(E, Pushed(E, e, l))
  <1> DEFINE p == E.pile[e]
             b == Bound(E, l)
             q == IF Match(p, b) # {} THEN Updated(p, b)
                  ELSE Inserted(p, b, PrecedenceBlockers(p, b))
  <1>1. b \in Layer /\ ~IsHomeowner(b) /\ Match(p, b) = Match(p, l)
    BY BoundLayer
  <1>2. \A k \in Match(p, b) : ~IsHomeowner(k)
    BY <1>1 DEF Match, PushAdmitted, SameIdentity
  <1>3. \A i : ~IsHomeowner([b EXCEPT !.id = i])
    BY <1>1 DEF IsHomeowner, Layer
  <1>4. p \in Pile
    BY DEF Good, SoundPile
  <1>5. {k \in q.layers : IsHomeowner(k)} = Slot(E, e)
    <2>1. \A B : Inserted(p, b, B).layers = p.layers \cup {b}
      BY DEF Inserted
    <2>2. Updated(p, b).layers = (p.layers \ Match(p, b)) \cup
                                 {[b EXCEPT !.id = k.id] : k \in Match(p, b)}
      BY <1>4 DEF Updated, Pile
    <2>3. {k \in Updated(p, b).layers : IsHomeowner(k)} = Slot(E, e)
      BY <1>2, <1>3, <2>2 DEF Slot
    <2>4. \A B : {k \in Inserted(p, b, B).layers : IsHomeowner(k)} = Slot(E, e)
      BY <1>1, <2>1 DEF Slot
    <2> QED BY <2>3, <2>4
  <1>6. Pushed(E, e, l) = SetPile(E, e, q)
    BY DEF Pushed
  <1> HIDE DEF q
  <1> QED BY <1>5, <1>6, SetPileUntouched

LEMMA ActivatedUntouched ==
  ASSUME NEW E, Good(E), NEW e \in Entities, NEW l \in Offered, NEW supersede \in BOOLEAN,
         ActivateAdmitted(E, e, l)
  PROVE  LeftAlone(E, Activated(E, e, l, supersede))
  <1> DEFINE w == WithPriority(l)
             b == Bound(E, w)
             q == Inserted(E.pile[e], b, PriorityBlockers(E.pile[e], b, supersede))
  <1>1. w \in Layer /\ ~IsHomeowner(w) /\ PushAdmitted(E, e, w)
    BY OfferedLayers, PrioritizedLayer DEF ActivateAdmitted
  <1>2. ~IsHomeowner(b)
    BY <1>1, BoundLayer
  <1>3. {k \in q.layers : IsHomeowner(k)} = Slot(E, e)
    BY <1>2 DEF Inserted, Slot
  <1>4. LeftAlone(E, Pushed(E, e, w))
    BY <1>1, PushedUntouched
  <1> HIDE DEF q
  <1>5. LeftAlone(E, SetPile(E, e, q))
    BY <1>3, SetPileUntouched
  <1> QED BY <1>4, <1>5 DEF Activated, q

LEMMA WithdrawnLeftAlone ==
  ASSUME NEW E, NEW D, D.armed = [g \in Groups |-> {}],
         \A e \in Entities : D.pile[e].layers \subseteq E.pile[e].layers,
         \A y \in D.sessions : y \in E.sessions \/ y.reason \notin HomeownerReasons
  PROVE  LeftAlone(E, D)
  BY DEF LeftAlone, Withdrawn, NoOrders, Slot

LEMMA EndedWithdrawn ==
  ASSUME NEW E, Good(E), NEW f \in Families, NEW s \in Sessions
  PROVE  LeftAlone(E, Ended(E, f, s))
  <1> DEFINE D == Ended(E, f, s)
  <1>1. /\ D.armed = [g \in Groups |-> {}]
        /\ D.sessions = E.sessions \ LiveSession(E, f, s)
        /\ D.pile = [e \in Entities |-> Kept(E.pile[e], {l \in E.pile[e].layers :
                                            ~(l.family = f /\ l.session = s)})]
    BY DEF Ended, Disarmed, Good, EngineState
  <1>2. \A e \in Entities : D.pile[e].layers \subseteq E.pile[e].layers
    BY <1>1 DEF Kept
  <1> HIDE DEF D
  <1>3. LeftAlone(E, D)
    BY <1>1, <1>2, WithdrawnLeftAlone
  <1> QED BY <1>3 DEF D

LEMMA StartedLeftAlone ==
  ASSUME NEW E, Good(E), NEW f \in Families, NEW s \in Sessions, NEW q \in Nat
  PROVE  LeftAlone(E, Started(E, f, s, q))
  <1> DEFINE others == {x \in E.sessions : x.family = f}
             C == EndedOthers(E, f)
             D == Started(E, f, s, q)
             new == [family |-> f, session |-> s, sequence |-> q, reason |-> None]
  <1>1. Good(C) /\ LeftAlone(E, C)
    <2>1. CASE others = {}
      BY <2>1 DEF EndedOthers, LeftAlone, Untouched, NoOrders
    <2>2. CASE others # {}
      <3>1. (CHOOSE x \in others : TRUE) \in FamilySession
        BY <2>2 DEF Good, EngineState
      <3>2. (CHOOSE x \in others : TRUE).session \in Sessions
        BY <3>1 DEF FamilySession
      <3>3. C = Ended(E, f, (CHOOSE x \in others : TRUE).session)
        BY <2>2 DEF EndedOthers
      <3> HIDE DEF C
      <3> QED BY <3>2, <3>3, EndedGood, EndedWithdrawn
    <2> QED BY <2>1, <2>2
  <1> HIDE DEF C
  <1>2. D.armed = C.armed /\ D.pile = C.pile /\ D.sessions = C.sessions \cup {new}
    BY <1>1 DEF Started, Good, EngineState, C
  <1>3. None \notin HomeownerReasons
    BY ConstantsAssumption DEF Reasons
  <1> HIDE DEF D
  <1>4. LeftAlone(E, D)
    BY <1>1, <1>2, <1>3 DEF LeftAlone, Untouched, Withdrawn, NoOrders, Slot
  <1> QED BY <1>4 DEF D

LEMMA LifecycleLeftAlone ==
  ASSUME NEW E, Good(E)
  PROVE  /\ LeftAlone(E, Expired(E))
         /\ LeftAlone(E, ResetHomeowner(E))
         /\ \A m \in SUBSET Entities : LeftAlone(E, ManagedUpdated(E, m))
         /\ \A m : LeftAlone(E, Blank(m))
         /\ \A m : LeftAlone(E, [E EXCEPT !.moved = m])
  <1>1. LeftAlone(E, Expired(E))
    <2>1. /\ Expired(E).armed = [g \in Groups |-> {}]
          /\ Expired(E).sessions = E.sessions
          /\ Expired(E).pile = [e \in Entities |->
                Kept(E.pile[e], {l \in E.pile[e].layers : ~l.boundary})]
      BY DEF Expired, KeptEverywhere, Disarmed, Good, EngineState
    <2>2. \A e \in Entities : Expired(E).pile[e].layers \subseteq E.pile[e].layers
      BY <2>1 DEF Kept
    <2> QED BY <2>1, <2>2, WithdrawnLeftAlone
  <1>2. LeftAlone(E, ResetHomeowner(E))
    <2> DEFINE lifted == {x \in E.sessions : x.reason \in HomeownerReasons}
               D == ResetHomeowner(E)
    <2>1. /\ D.armed = [g \in Groups |-> {}]
          /\ D.sessions = (E.sessions \ lifted) \cup {[x EXCEPT !.reason = None] : x \in lifted}
          /\ D.pile = [e \in Entities |->
                Kept(E.pile[e], {l \in E.pile[e].layers : ~IsHomeowner(l)})]
      BY DEF ResetHomeowner, KeptEverywhere, Disarmed, Good, EngineState
    <2>2. \A e \in Entities : D.pile[e].layers \subseteq E.pile[e].layers
      BY <2>1 DEF Kept
    <2>3. \A x \in E.sessions : [x EXCEPT !.reason = None].reason = None
      BY DEF Good, EngineState, FamilySession
    <2>4. None \notin HomeownerReasons
      BY ConstantsAssumption DEF Reasons
    <2> HIDE DEF D
    <2>5. \A y \in D.sessions : y \in E.sessions \/ y.reason \notin HomeownerReasons
      BY <2>1, <2>3, <2>4
    <2>6. LeftAlone(E, D)
      BY <2>1, <2>2, <2>5, WithdrawnLeftAlone
    <2> QED BY <2>6 DEF D
  <1>3. ASSUME NEW m \in SUBSET Entities
        PROVE  LeftAlone(E, ManagedUpdated(E, m))
    <2> DEFINE D == ManagedUpdated(E, m)
    <2>1. /\ D.armed = [g \in Groups |-> {}]
          /\ D.sessions = E.sessions
          /\ D.pile = [e \in Entities |-> IF e \in E.managed \ m THEN EmptyPile ELSE E.pile[e]]
      BY DEF ManagedUpdated, Disarmed, Good, EngineState
    <2>2. \A e \in Entities : D.pile[e].layers \subseteq E.pile[e].layers
      BY <2>1 DEF EmptyPile
    <2> HIDE DEF D
    <2>3. LeftAlone(E, D)
      BY <2>1, <2>2, WithdrawnLeftAlone
    <2> QED BY <2>3 DEF D
  <1>4. ASSUME NEW m
        PROVE  LeftAlone(E, Blank(m))
    <2>1. /\ Blank(m).armed = [g \in Groups |-> {}]
          /\ Blank(m).sessions = {}
          /\ \A e \in Entities : Blank(m).pile[e].layers = {}
      BY DEF Blank, EmptyPile
    <2> QED BY <2>1, WithdrawnLeftAlone
  <1>5. \A m : LeftAlone(E, [E EXCEPT !.moved = m])
    BY DEF LeftAlone, Untouched, NoOrders, Slot, Good, EngineState
  <1> QED BY <1>1, <1>2, <1>3, <1>4, <1>5

Elsewhere == Reset \/ Surroundings \/ NewGeneration

\* Every step of the engine that is not a receipt is one of its public operations.
LEMMA ElsewhereStep ==
  ASSUME EngineSound(engine), generation \in Nat, Elsewhere
  PROVE  EngineSound(engine') /\ generation' \in Nat /\ LeftAlone(engine, engine')
  <1>0. Good(engine)
    BY DEF EngineSound
  <1>1. LeftAlone(engine, engine') /\ EngineNext
    <2> USE DEF Becomes
    <2>1. CASE Reset
      BY <1>0, <2>1, LifecycleLeftAlone
         DEF Reset, ResetHomeownerControl, EngineNext, Lifecycle
    <2>2. CASE NewGeneration
      <3>1. Reconfigure(engine.managed) /\ engine.managed \in SUBSET Entities
        BY <1>0, <2>2 DEF NewGeneration, Good, EngineState
      <3>2. engine' = Blank(engine.managed)
        BY <3>1 DEF Reconfigure
      <3> QED BY <1>0, <3>1, <3>2, LifecycleLeftAlone DEF EngineNext, Lifecycle
    <2>3. CASE CaptureWork
      BY <1>0, <2>3, LifecycleLeftAlone DEF CaptureWork, EngineNext, Lifecycle
    <2>4. CASE ExpireBoundary
      BY <1>0, <2>4, LifecycleLeftAlone DEF ExpireBoundary, EngineNext, Lifecycle
    <2>5. ASSUME NEW scope \in SUBSET Entities, UpdateManagedEntities(scope)
          PROVE  LeftAlone(engine, engine') /\ EngineNext
      BY <1>0, <2>5, LifecycleLeftAlone DEF UpdateManagedEntities, EngineNext, Lifecycle
    <2>6. CASE FamilyAdapters
      <3>1. ASSUME NEW f \in Families, NEW s \in Sessions, NEW q \in 1..MaxSequence,
                   NEW explicit \in BOOLEAN, StartFamily(f, s, q, explicit)
            PROVE  LeftAlone(engine, engine')
        <4>1. q \in Nat /\ engine' = Started(engine, f, s, q)
          BY <3>1 DEF StartFamily
        <4> QED BY <1>0, <4>1, StartedLeftAlone
      <3>2. ASSUME NEW f \in Families, NEW s \in Sessions, SuppressFamily(f, s)
            PROVE  LeftAlone(engine, engine')
        <4>1. PICK x \in LiveSession(engine, f, s) :
                engine' = [engine EXCEPT
                   !.sessions = (engine.sessions \ {x}) \cup {[x EXCEPT !.reason = "adapter"]},
                   !.moved = @ \/ (engine.sessions \ {x}) \cup {[x EXCEPT !.reason = "adapter"]}
                                 # engine.sessions]
          BY <3>2 DEF SuppressFamily
        <4>2. /\ engine'.armed = engine.armed /\ engine'.pile = engine.pile
              /\ engine'.sessions = (engine.sessions \ {x}) \cup {[x EXCEPT !.reason = "adapter"]}
          BY <1>0, <4>1 DEF Good, EngineState
        <4>3. [x EXCEPT !.reason = "adapter"].reason \notin HomeownerReasons
          BY <1>0 DEF LiveSession, Good, EngineState, FamilySession, HomeownerReasons
        <4> QED BY <4>2, <4>3 DEF LeftAlone, Untouched, NoOrders, Slot
      <3>3. ASSUME NEW f \in Families, NEW s \in Sessions, EndFamily(f, s)
            PROVE  LeftAlone(engine, engine')
        BY <1>0, <3>3, EndedWithdrawn DEF EndFamily
      <3> QED BY <2>6, <3>1, <3>2, <3>3 DEF FamilyAdapters, EngineNext
    <2>7. ASSUME NEW e \in Entities, NEW l \in Offered, Push(e, l)
          PROVE  LeftAlone(engine, engine') /\ EngineNext
      <3>1. LeftAlone(engine, engine')
        BY <1>0, <2>7, OfferedLayers, PushedUntouched DEF Push
      <3> QED BY <2>7, <3>1 DEF EngineNext, SystemAdapters
    <2>8. ASSUME NEW e \in Entities, NEW l \in Offered, ActivateAutomatic(e, l, FALSE)
          PROVE  LeftAlone(engine, engine') /\ EngineNext
      <3>1. LeftAlone(engine, engine')
        BY <1>0, <2>8, ActivatedUntouched DEF ActivateAutomatic
      <3> QED BY <2>8, <3>1 DEF EngineNext, SystemAdapters
    <2> QED BY <2>1, <2>2, <2>3, <2>4, <2>5, <2>6, <2>7, <2>8 DEF Elsewhere, Surroundings
  <1>2. ArmingInv /\ SessionsInv
    BY DEF EngineSound, ArmingInv, SessionsInv, EngineInv
  <1>3. ArmingInv' /\ SessionsInv'
    BY <1>1, <1>2, ArmingStep, SessionsStep
  <1> QED BY <1>1, <1>3 DEF EngineSound, ArmingInv, SessionsInv, EngineInv

-----------------------------------------------------------------------------
(* What an accepted receipt does *)

\* Which areas stay armed: no other one that S reaches into, and none is armed anew.
OthersDisarmed(E, D, S, kept) ==
  \A g \in Groups \ kept : D.armed[g] \in {E.armed[g], {}} /\ D.armed[g] \cap S = {}

ArmedOn(D, g, members) == D.armed[g] = members

\* The first OFF of a group releases the homeowner's layers; the second one sets
\* Manual-OFF and dismisses what was showing.
ReleasedOn(E, D, S) ==
  /\ D.sessions = E.sessions
  /\ D.pile = [e \in Entities |-> IF e \in S THEN WithoutHomeowner(E.pile[e]) ELSE E.pile[e]]
HeldOffOn(E, D, S) ==
  /\ D.sessions = Reasoned(E.sessions, HitBy(E, Shown(E, S)), "homeowner_group_off")
  /\ \E C : /\ Good(C) /\ C.pile = E.pile
            /\ D.pile = [e \in Entities |-> IF e \in S THEN ManualOffPile(C, e) ELSE E.pile[e]]

\* Either way the group is armed with its members.
LEMMA TogetherTables ==
  ASSUME NEW E, EngineSound(E), NEW g \in Groups, NEW members \in SUBSET E.managed,
         members # {}, NEW S \in SUBSET members, S # {}
  PROVE  /\ ArmedOn(AppliedGroupOff(E, g, members, S), g, members)
         /\ OthersDisarmed(E, AppliedGroupOff(E, g, members, S), members, {g})
         /\ Escalates(E, g, members) => HeldOffOn(E, AppliedGroupOff(E, g, members, S), S)
         /\ ~Escalates(E, g, members) => ReleasedOn(E, AppliedGroupOff(E, g, members, S), S)
  <1> DEFINE alone == Disarmed(E, Overlapping(E, members) \ {g})
             shown == UNION {Exposed(alone, e) : e \in S}
             covered == Suppressed(alone, shown, "homeowner_group_off")
             second == SecondGroupOff(alone, S)
             full == g \notin Armed(alone) /\ Cardinality(Armed(alone)) >= MaxGroups
             room == IF full THEN Disarmed(alone, OldestArmed(alone)) ELSE alone
             first == FirstGroupOff(alone, g, members, S)
  <1>0. Good(E)
    BY DEF EngineSound
  <1>1. /\ Good(alone) /\ alone.pile = E.pile /\ alone.sessions = E.sessions
        /\ alone.armed = [h \in Groups |-> IF h \in Overlapping(E, members) \ {g}
                                             THEN {} ELSE E.armed[h]]
    BY <1>0, DisarmedGood, DisarmedRest, DisarmedTables
  <1> HIDE DEF alone
  <1>2. /\ alone.armed[g] = E.armed[g]
        /\ \A h \in Groups \ {g} :
             alone.armed[h] \in {E.armed[h], {}} /\ alone.armed[h] \cap members = {}
    BY <1>1 DEF Overlapping
  <1>3. ASSUME Escalates(E, g, members)
        PROVE  /\ second.armed[g] = members
               /\ OthersDisarmed(E, second, members, {g})
               /\ second.sessions = Reasoned(E.sessions, HitBy(E, Shown(E, S)), "homeowner_group_off")
               /\ Good(covered) /\ covered.pile = E.pile
               /\ second.pile = [e \in Entities |-> IF e \in S THEN ManualOffPile(covered, e)
                                                               ELSE E.pile[e]]
    <2>1. shown = Shown(E, S)
      <3>1. \A e : Exposed(alone, e) = Exposed(E, e)
        BY <1>1, SameShown
      <3> QED BY <3>1 DEF Shown
    <2>2. Good(covered)
      BY <1>1, SuppressedGood DEF Reasons, HomeownerReasons
    <2>3. /\ covered.pile = alone.pile /\ covered.armed = alone.armed
          /\ covered.sessions = Reasoned(alone.sessions, HitBy(alone, shown), "homeowner_group_off")
      BY <1>1, SuppressedTables
    <2>4. HitBy(alone, shown) = HitBy(E, Shown(E, S))
      BY <1>1, <2>1 DEF HitBy, SessionOf
    <2>5. second = [covered EXCEPT
                     !.pile = [e \in Entities |-> IF e \in S THEN ManualOffPile(covered, e)
                                                             ELSE alone.pile[e]],
                     !.moved = TRUE]
      BY DEF SecondGroupOff
    <2> HIDE DEF covered, second, shown
    <2>6. /\ second.armed = alone.armed /\ second.sessions = covered.sessions
          /\ second.pile = [e \in Entities |-> IF e \in S THEN ManualOffPile(covered, e)
                                                          ELSE alone.pile[e]]
      BY <2>2, <2>3, <2>5 DEF Good, EngineState
    <2>7. OthersDisarmed(E, second, members, {g})
      BY <1>2, <2>6 DEF OthersDisarmed
    <2>8. second.armed[g] = members
      BY <1>2, <1>3, <2>6 DEF Escalates
    <2> QED BY <1>1, <2>2, <2>3, <2>4, <2>6, <2>7, <2>8
  <1>4. /\ first.armed[g] = members
        /\ OthersDisarmed(E, first, members, {g})
        /\ first.sessions = E.sessions
        /\ first.pile = [e \in Entities |-> IF e \in S THEN WithoutHomeowner(E.pile[e])
                                                       ELSE E.pile[e]]
    <2> DEFINE f == [e \in Entities |-> IF e \in S THEN WithoutHomeowner(alone.pile[e])
                                                   ELSE alone.pile[e]]
    <2>1. /\ Good(room) /\ room.sessions = alone.sessions
          /\ \A h \in Groups : room.armed[h] \in {alone.armed[h], {}}
      <3>1. CASE full
        <4> DEFINE oldest == OldestArmed(alone)
        <4>1. room = Disarmed(alone, oldest)
          BY <3>1
        <4> HIDE DEF room, oldest
        <4>2. Good(Disarmed(alone, oldest)) /\ Disarmed(alone, oldest).sessions = alone.sessions
          BY <1>1, DisarmedGood, DisarmedRest
        <4>3. Disarmed(alone, oldest).armed =
                [h \in Groups |-> IF h \in oldest THEN {} ELSE alone.armed[h]]
          BY <1>1 DEF Disarmed, Good, EngineState
        <4> QED BY <4>1, <4>2, <4>3
      <3>2. CASE ~full
        BY <1>1, <3>2
      <3> QED BY <3>1, <3>2
    <2>2. first = ArmedWith([room EXCEPT !.pile = f, !.moved = TRUE], g, members)
      BY DEF FirstGroupOff
    <2> HIDE DEF room, first
    <2>3. /\ first.armed = [room.armed EXCEPT ![g] = members]
          /\ first.sessions = room.sessions /\ first.pile = f
      BY <2>1, <2>2 DEF ArmedWith, Good, EngineState
    <2>4. room.armed \in [Groups -> SUBSET Entities]
      BY <2>1 DEF Good, EngineState
    <2>5. OthersDisarmed(E, first, members, {g}) /\ first.armed[g] = members
      BY <1>2, <2>1, <2>3, <2>4 DEF OthersDisarmed
    <2> QED BY <1>1, <2>1, <2>3, <2>5
  <1>5. AppliedGroupOff(E, g, members, S) =
          IF Escalates(E, g, members) THEN second ELSE first
    BY DEF AppliedGroupOff, alone
  <1> HIDE DEF second, first, covered
  <1>6. Escalates(E, g, members) => HeldOffOn(E, second, S)
    BY <1>3 DEF HeldOffOn
  <1>7. ReleasedOn(E, first, S)
    BY <1>4 DEF ReleasedOn
  <1>8. /\ Escalates(E, g, members) => ArmedOn(second, g, members)
        /\ ArmedOn(first, g, members)
    BY <1>3, <1>4 DEF ArmedOn
  <1> QED BY <1>3, <1>4, <1>5, <1>6, <1>7, <1>8

\* An OFF of one light: it releases the Manual it shows, dismisses the session it
\* shows, pops a removable notice, keeps a Manual-OFF, or sets one.
OffCase(E, D, e, pile, sessions) ==
  D.armed = E.armed /\ D.pile = [E.pile EXCEPT ![e] = pile] /\ D.sessions = sessions

LEMMA OffTables ==
  ASSUME NEW E, Good(E), NEW e \in Entities
  PROVE  LET D == AppliedOff(E, e)
             top == Exposed(E, e)
             without == Kept(E.pile[e], E.pile[e].layers \ top)
         IN \/ /\ \E l \in top : l.kind = "manual"
               /\ OffCase(E, D, e, without, E.sessions)
            \/ OffCase(E, D, e, E.pile[e], Reasoned(E.sessions, HitBy(E, top), "homeowner_off"))
            \/ /\ \E l \in top : l.removable
               /\ OffCase(E, D, e, without, E.sessions)
            \/ OffCase(E, D, e, E.pile[e], E.sessions)
            \/ OffCase(E, D, e, ManualOffPile(E, e), E.sessions)
  <1> DEFINE top == Exposed(E, e)
             without == Kept(E.pile[e], E.pile[e].layers \ top)
  <1>1. E.pile = [E.pile EXCEPT ![e] = E.pile[e]]
    BY DEF Good, EngineState
  <1>2. \A p : OffCase(E, SetPile(E, e, p), e, p, E.sessions)
    BY DEF OffCase, SetPile, Good, EngineState
  <1>3. OffCase(E, Suppressed(E, top, "homeowner_off"), e, E.pile[e],
                Reasoned(E.sessions, HitBy(E, top), "homeowner_off"))
    BY <1>1, SuppressedTables DEF OffCase
  <1>4. OffCase(E, E, e, E.pile[e], E.sessions)
    BY <1>1 DEF OffCase
  <1>5. OffCase(E, [E EXCEPT !.pile[e] = ManualOffPile(E, e), !.moved = TRUE], e,
                ManualOffPile(E, e), E.sessions)
    BY DEF OffCase, Good, EngineState
  <1> HIDE DEF top, without
  <1>6. AppliedOff(E, e) =
          IF \E l \in top : l.kind = "manual" THEN SetPile(E, e, without)
          ELSE IF \E l \in top : InSession(l) THEN Suppressed(E, top, "homeowner_off")
          ELSE IF \E l \in top : l.removable THEN SetPile(E, e, without)
          ELSE IF \E l \in top : l.kind = "manual_off" THEN E
          ELSE [E EXCEPT !.pile[e] = ManualOffPile(E, e), !.moved = TRUE]
    BY DEF AppliedOff, top, without
  <1>7. LET D == AppliedOff(E, e)
        IN \/ (\E l \in top : l.kind = "manual") /\ OffCase(E, D, e, without, E.sessions)
           \/ OffCase(E, D, e, E.pile[e], Reasoned(E.sessions, HitBy(E, top), "homeowner_off"))
           \/ (\E l \in top : l.removable) /\ OffCase(E, D, e, without, E.sessions)
           \/ OffCase(E, D, e, E.pile[e], E.sessions)
           \/ OffCase(E, D, e, ManualOffPile(E, e), E.sessions)
    BY <1>2, <1>3, <1>4, <1>5, <1>6
  <1> QED BY <1>7 DEF top, without

\* Intent that is not a group OFF leaves no group armed that its lights belong to.
LEMMA AloneDisarms ==
  ASSUME EngineSound(engine), NEW op \in Receipts, Acceptable(op),
         op.kind = "appearance" \/ op.group = None
  PROVE  OthersDisarmed(engine, Committed(op), op.ok, {})
  <1> DEFINE A == Alone(engine, op)
  <1>1. /\ Good(A)
        /\ A.armed = [g \in Groups |-> IF g \in Overlapping(engine, op.ok)
                                         THEN {} ELSE engine.armed[g]]
    BY DisarmedMembersTables DEF Alone, EngineSound
  <1>2. Committed(op).armed = A.armed
    <2> HIDE DEF A
    <2>1. CASE op.kind = "appearance"
      <3>1. Committed(op) = AppliedAppearance(A, op)
        BY <2>1, CommittedForms DEF A
      <3>2. AppliedAppearance(A, op).armed = A.armed
        BY <1>1, AppliedAppearanceTables
      <3> QED BY <3>1, <3>2
    <2>2. CASE op.kind # "appearance"
      <3>1. Committed(op) = AppliedOff(A, CHOOSE e \in op.ok : TRUE)
        BY <2>2, OperationsAssumption, CommittedForms DEF A
      <3>2. (CHOOSE e \in op.ok : TRUE) \in Entities
        BY AcceptableScope, ReceiptFields
      <3>3. AppliedOff(A, CHOOSE e \in op.ok : TRUE).armed = A.armed
        BY <1>1, <3>2, OffTables DEF OffCase
      <3> QED BY <3>1, <3>3
    <2> QED BY <2>1, <2>2
  <1> HIDE DEF A
  <1> QED BY <1>1, <1>2 DEF OthersDisarmed, Overlapping

-----------------------------------------------------------------------------
(* The ledger *)

\* The ledger remembers the receipt, or has a floor at or above it.
Answers(L, id, n) == (\E i \in DOMAIN L.seen : L.seen[i] = <<id, n>>) \/ n <= L.retired

\* An accepted receipt has left its position on every light it named.
Records(L, h) == h.accepted => \A e \in h.members : L.latest[e] >= h.sequence

LedgerOK(L) == L \in Ledger /\ Len(L.seen) <= SeenLimit

LEMMA EmptyLedgerOK ==
  ASSUME generation \in Nat
  PROVE  LedgerOK(EmptyLedger)
  <1>1. <<>> \in Seq(OperationIds \X Nat) /\ Len(<<>>) = 0 /\ 0 <= SeenLimit
    BY OperationsAssumption
  <1> QED BY <1>1 DEF LedgerOK, EmptyLedger, Ledger

LEMMA CurrentOK ==
  ASSUME LedgerOK(ledger), generation \in Nat
  PROVE  LedgerOK(Current) /\ Current.generation = generation
  BY EmptyLedgerOK DEF Current, EmptyLedger

\* Consuming a receipt forgets no other: the evicted one is below the new floor.
LEMMA ConsumedOK ==
  ASSUME LedgerOK(Current), NEW op \in Receipts
  PROVE  /\ LedgerOK(Consumed(op))
         /\ Consumed(op).latest = Current.latest
         /\ Consumed(op).generation = Current.generation
         /\ Answers(Consumed(op), op.id, op.sequence)
         /\ \A id \in OperationIds, n \in Nat :
              Answers(Current, id, n) => Answers(Consumed(op), id, n)
  <1> DEFINE L == Current
             seen == L.seen
             full == Len(seen) = SeenLimit
             oldest == Head(seen)[2]
             entry == <<op.id, op.sequence>>
             rest == IF full THEN Tail(seen) ELSE seen
             floor == IF full /\ oldest > L.retired THEN oldest ELSE L.retired
             C == Consumed(op)
  <1>1. /\ L \in Ledger /\ seen \in Seq(OperationIds \X Nat) /\ Len(seen) <= SeenLimit
        /\ L.retired \in Nat /\ SeenLimit \in Nat \ {0}
    BY OperationsAssumption DEF LedgerOK, Ledger
  <1>2. entry \in OperationIds \X Nat
    BY ReceiptFields
  <1>3. /\ C.latest = L.latest /\ C.generation = L.generation
        /\ C.retired = floor /\ C.seen = Append(rest, entry)
        /\ C = [latest |-> C.latest, seen |-> C.seen, retired |-> C.retired,
                generation |-> C.generation]
    <2>1. C = [L EXCEPT !.retired = floor, !.seen = Append(rest, entry)]
      BY DEF Consumed
    <2>2. L = [latest |-> L.latest, seen |-> L.seen, retired |-> L.retired,
               generation |-> L.generation]
      BY <1>1 DEF Ledger
    <2> HIDE DEF C, L, floor, rest, entry
    <2> QED BY <2>1, <2>2
  <1> HIDE DEF L, C
  <1>4. full => /\ seen # <<>> /\ Len(Tail(seen)) = Len(seen) - 1
                /\ Tail(seen) \in Seq(OperationIds \X Nat)
                /\ \A i \in 1..(Len(seen) - 1) : Tail(seen)[i] = seen[i + 1]
                /\ Head(seen) = seen[1] /\ seen[1] \in OperationIds \X Nat /\ oldest \in Nat
    BY <1>1
  <1>5. rest \in Seq(OperationIds \X Nat) /\ Len(rest) < SeenLimit
    BY <1>1, <1>4
  <1>6. floor \in Nat /\ floor >= L.retired /\ (full => floor >= oldest)
    BY <1>1, <1>4
  <1>7. /\ C.seen \in Seq(OperationIds \X Nat)
        /\ Len(C.seen) = Len(rest) + 1
        /\ C.seen[Len(rest) + 1] = entry
        /\ \A i \in 1..Len(rest) : C.seen[i] = rest[i]
        /\ Len(rest) \in Nat /\ DOMAIN C.seen = 1..(Len(rest) + 1)
    BY <1>2, <1>3, <1>5
  <1>8. LedgerOK(C)
    <2>1. L.latest \in [Entities -> Nat] /\ L.generation \in Nat
      BY <1>1 DEF Ledger
    <2>2. Len(C.seen) <= SeenLimit
      BY <1>1, <1>5, <1>7
    <2> QED BY <1>3, <1>6, <1>7, <2>1, <2>2 DEF LedgerOK, Ledger
  <1>9. Answers(C, op.id, op.sequence)
    <2>1. Len(rest) + 1 \in DOMAIN C.seen
      BY <1>7
    <2> QED BY <1>7, <2>1 DEF Answers
  <1>10. ASSUME NEW id \in OperationIds, NEW n \in Nat, Answers(L, id, n)
         PROVE  Answers(C, id, n)
    <2>1. CASE n <= L.retired
      BY <1>1, <1>3, <1>6, <2>1 DEF Answers
    <2>2. ASSUME NEW i \in DOMAIN seen, seen[i] = <<id, n>>
          PROVE  Answers(C, id, n)
      <3>1. i \in 1..Len(seen)
        BY <1>1, <2>2
      <3>2. CASE ~full
        <4>1. rest = seen /\ i \in 1..Len(rest)
          BY <3>1, <3>2
        <4>2. i \in DOMAIN C.seen
          BY <1>7, <4>1
        <4>3. C.seen[i] = <<id, n>>
          BY <1>7, <2>2, <4>1
        <4> QED BY <4>2, <4>3 DEF Answers
      <3>3. CASE full /\ i = 1
        <4>1. oldest = n
          BY <1>4, <2>2, <3>3
        <4> QED BY <1>3, <1>6, <3>3, <4>1 DEF Answers
      <3>4. CASE full /\ i # 1
        <4>1. i - 1 \in 1..(Len(seen) - 1) /\ (i - 1) + 1 = i /\ Len(rest) = Len(seen) - 1
          BY <1>1, <1>4, <3>1, <3>4
        <4>2. rest[i - 1] = <<id, n>>
          BY <1>4, <2>2, <3>4, <4>1
        <4>3. i - 1 \in 1..Len(rest)
          BY <4>1
        <4> HIDE DEF rest
        <4>4. i - 1 \in DOMAIN C.seen
          BY <1>7, <4>3
        <4>5. C.seen[i - 1] = <<id, n>>
          BY <1>7, <4>2, <4>3
        <4> QED BY <4>4, <4>5 DEF Answers
      <3> QED BY <3>2, <3>3, <3>4
    <2> QED BY <1>10, <2>1, <2>2 DEF Answers
  <1> QED BY <1>3, <1>8, <1>9, <1>10 DEF L, C

\* Recording an accepted receipt only raises positions.
LEMMA RecordedOK ==
  ASSUME LedgerOK(Current), NEW op \in Receipts
  PROVE  /\ LedgerOK(Recorded(op))
         /\ Recorded(op).seen = Consumed(op).seen
         /\ Recorded(op).retired = Consumed(op).retired
         /\ Recorded(op).generation = Current.generation
         /\ \A e \in Entities : Recorded(op).latest[e] >= Current.latest[e]
         /\ \A e \in op.members : Recorded(op).latest[e] >= op.sequence
  <1> DEFINE C == Consumed(op)
             f == [e \in Entities |-> IF e \in op.members /\ op.sequence > C.latest[e]
                                        THEN op.sequence ELSE C.latest[e]]
  <1>1. LedgerOK(C) /\ C.latest = Current.latest /\ C.generation = Current.generation
    BY ConsumedOK
  <1>2. /\ Recorded(op) = [C EXCEPT !.latest = f]
        /\ C.latest \in [Entities -> Nat]
    BY <1>1 DEF Recorded, LedgerOK, Ledger
  <1> HIDE DEF C
  <1>3. op.sequence \in Nat /\ op.members \subseteq Entities
    BY ReceiptFields
  <1>4. f \in [Entities -> Nat]
    BY <1>2, <1>3
  <1>5. /\ \A e \in Entities : f[e] >= C.latest[e]
        /\ \A e \in op.members : f[e] >= op.sequence
    BY <1>2, <1>3
  <1> HIDE DEF f
  <1> QED BY <1>1, <1>2, <1>4, <1>5 DEF LedgerOK, Ledger, C

-----------------------------------------------------------------------------
(* The inductive invariant *)

HistoryEntry == [id : OperationIds, sequence : Nat, members : SUBSET Entities,
                 accepted : BOOLEAN]

Ledgered ==
  /\ LedgerOK(ledger)
  /\ history \subseteq HistoryEntry
  /\ \A h \in history : Answers(Current, h.id, h.sequence) /\ Records(Current, h)

Uninterrupted ==
  /\ intruded \in [Groups -> SUBSET Entities]
  /\ \A g \in Groups : engine.armed[g] \cap intruded[g] = {}

OpsInv == EngineSound(engine) /\ generation \in Nat /\ Ledgered /\ Uninterrupted

LEMMA OpsInit == Init => OpsInv
  <1> SUFFICES ASSUME Init PROVE OpsInv
    OBVIOUS
  <1>1. ArmingInv /\ SessionsInv
    BY ArmingInit, SessionsInit DEF Init
  <1>2. EngineSound(engine) /\ generation \in Nat
    BY <1>1 DEF EngineSound, ArmingInv, SessionsInv, EngineInv
  <1>3. ledger = EmptyLedger /\ history = {}
    BY DEF Init, EmptyLedger, EngineInit
  <1>4. Ledgered
    BY <1>2, <1>3, EmptyLedgerOK DEF Ledgered
  <1>5. Uninterrupted
    BY DEF Init, Uninterrupted
  <1> QED BY <1>2, <1>4, <1>5 DEF OpsInv

\* The ledger of the present generation after a step that leaves it as L.
LEMMA LedgerStep ==
  ASSUME NEW L, ledger' = L, L.generation = generation, UNCHANGED generation
  PROVE  Current' = L
  BY DEF Current

LEMMA EntryType ==
  ASSUME NEW op \in Receipts, NEW accepted \in BOOLEAN
  PROVE  /\ Entry(op, accepted) \in HistoryEntry
         /\ Entry(op, accepted).id = op.id /\ Entry(op, accepted).sequence = op.sequence
         /\ Entry(op, accepted).members = op.members
         /\ Entry(op, accepted).accepted = accepted
  BY ReceiptFields DEF Entry, HistoryEntry

LEMMA SpendLedgered ==
  ASSUME Ledgered, generation \in Nat, NEW op \in Receipts, Spend(op)
  PROVE  Ledgered'
  <1> DEFINE C == Consumed(op)
  <1>1. LedgerOK(Current) /\ Current.generation = generation
    BY CurrentOK DEF Ledgered
  <1>2. /\ LedgerOK(C) /\ C.latest = Current.latest /\ C.generation = generation
        /\ Answers(C, op.id, op.sequence)
        /\ \A id \in OperationIds, n \in Nat : Answers(Current, id, n) => Answers(C, id, n)
    BY <1>1, ConsumedOK
  <1> HIDE DEF C
  <1>3. ledger' = C /\ history' = history \cup {Entry(op, FALSE)} /\ UNCHANGED generation
    BY DEF Spend, C
  <1>4. Current' = C
    BY <1>2, <1>3, LedgerStep
  <1>5. LedgerOK(ledger)' /\ (history \subseteq HistoryEntry)'
    BY <1>2, <1>3, EntryType DEF Ledgered, LedgerOK
  <1>6. ASSUME NEW h \in history
        PROVE  Answers(C, h.id, h.sequence) /\ Records(C, h)
    <2>1. h.id \in OperationIds /\ h.sequence \in Nat
      BY DEF Ledgered, HistoryEntry
    <2> QED BY <1>2, <2>1 DEF Ledgered, Records
  <1>7. Answers(C, Entry(op, FALSE).id, Entry(op, FALSE).sequence) /\ Records(C, Entry(op, FALSE))
    BY <1>2, EntryType DEF Records
  <1>8. \A h \in history' : Answers(Current', h.id, h.sequence) /\ Records(Current', h)
    BY <1>3, <1>4, <1>6, <1>7
  <1> QED BY <1>5, <1>8 DEF Ledgered, Answers, Records

LEMMA AcceptLedgered ==
  ASSUME Ledgered, generation \in Nat, NEW op \in Receipts, Accept(op)
  PROVE  Ledgered'
  <1> DEFINE C == Consumed(op)
             R == Recorded(op)
             x == Entry(op, TRUE)
  <1>1. LedgerOK(Current) /\ Current.generation = generation
    BY CurrentOK DEF Ledgered
  <1>2. /\ Answers(C, op.id, op.sequence)
        /\ \A id \in OperationIds, n \in Nat : Answers(Current, id, n) => Answers(C, id, n)
    BY <1>1, ConsumedOK
  <1>3. /\ LedgerOK(R) /\ R.generation = generation
        /\ R.seen = C.seen /\ R.retired = C.retired
        /\ \A e \in Entities : R.latest[e] >= Current.latest[e]
        /\ \A e \in op.members : R.latest[e] >= op.sequence
    BY <1>1, RecordedOK
  <1> HIDE DEF C, R, x
  <1>4. ledger' = R /\ history' = history \cup {x} /\ UNCHANGED generation
    BY DEF Accept, R, x
  <1>5. Current' = R
    BY <1>3, <1>4, LedgerStep
  <1>6. x \in HistoryEntry /\ x.id = op.id /\ x.sequence = op.sequence /\ x.members = op.members
    BY EntryType DEF x
  <1>7. LedgerOK(ledger)' /\ (history \subseteq HistoryEntry)'
    BY <1>3, <1>4, <1>6 DEF Ledgered, LedgerOK
  <1>8. \A id, n : Answers(R, id, n) <=> Answers(C, id, n)
    BY <1>3 DEF Answers
  <1>9. ASSUME NEW h \in history
        PROVE  Answers(R, h.id, h.sequence) /\ Records(R, h)
    <2>1. h.id \in OperationIds /\ h.sequence \in Nat /\ h.members \subseteq Entities
      BY DEF Ledgered, HistoryEntry
    <2>2. Answers(R, h.id, h.sequence)
      BY <1>2, <1>8, <2>1 DEF Ledgered
    <2>3. \A e \in Entities : R.latest[e] \in Nat /\ Current.latest[e] \in Nat
      BY <1>1, <1>3 DEF LedgerOK, Ledger
    <2>4. Records(Current, h)
      BY DEF Ledgered
    <2>5. Records(R, h)
      BY <1>3, <2>1, <2>3, <2>4 DEF Records
    <2> QED BY <2>2, <2>5
  <1>10. Answers(R, x.id, x.sequence) /\ Records(R, x)
    BY <1>2, <1>3, <1>6, <1>8 DEF Records
  <1>11. \A h \in history' : Answers(Current', h.id, h.sequence) /\ Records(Current', h)
    BY <1>4, <1>5, <1>9, <1>10
  <1> QED BY <1>7, <1>11 DEF Ledgered, Answers, Records

\* A step that only disarms leaves the armed groups as untouched as they were.
LEMMA StillUninterrupted ==
  ASSUME Uninterrupted, intruded' = StillArmed(engine'),
         \A g \in Groups : engine'.armed[g] \in {engine.armed[g], {}}
  PROVE  Uninterrupted'
  BY DEF Uninterrupted, StillArmed

LEMMA AcceptUninterrupted ==
  ASSUME EngineSound(engine), Uninterrupted, NEW op \in Receipts, Accept(op)
  PROVE  Uninterrupted'
  <1> DEFINE D == Committed(op)
  <1>1. Acceptable(op) /\ intruded' = Intruded(op, engine')
    BY DEF Accept
  <1>2. engine'.armed = D.armed
    <2>1. Good(D)
      BY <1>1, CommittedSound DEF EngineSound
    <2> QED BY <2>1 DEF Accept, Good, EngineState
  <1>3. op.ok \subseteq Entities /\ op.ok \subseteq op.members
    BY ReceiptFields
  <1>4. intruded' \in [Groups -> SUBSET Entities]
    BY <1>1, <1>3 DEF Intruded, Uninterrupted
  <1>5. CASE op.kind = "appearance" \/ op.group = None
    <2>1. OthersDisarmed(engine, D, op.ok, {})
      BY <1>1, <1>5, AloneDisarms
    <2> HIDE DEF D
    <2> QED BY <1>1, <1>2, <1>4, <2>1 DEF Uninterrupted, Intruded, OthersDisarmed
  <1>6. CASE ~(op.kind = "appearance" \/ op.group = None)
    <2>1. op.kind = "off" /\ op.group \in Groups /\ D = Together(engine, op)
      BY <1>6, CommittedForms
    <2>2. OthersDisarmed(engine, Together(engine, op), op.members, {op.group})
      <3>1. /\ op.members \in SUBSET engine.managed /\ op.members # {}
            /\ op.ok \in SUBSET op.members /\ op.ok # {}
        BY <1>1, AcceptableScope, ReceiptFields
      <3> QED BY <2>1, <3>1, TogetherTables DEF Together
    <2> HIDE DEF D
    <2>3. OthersDisarmed(engine, D, op.members, {op.group})
      BY <2>1, <2>2
    <2> QED BY <1>1, <1>2, <1>3, <1>4, <2>1, <2>3 DEF Uninterrupted, Intruded, OthersDisarmed
  <1> QED BY <1>5, <1>6

LEMMA ElsewhereLedgered ==
  ASSUME Ledgered, generation \in Nat, Elsewhere
  PROVE  Ledgered'
  <1>1. CASE Reset
    <2>1. ledger' = EmptyLedger /\ history' = {} /\ LedgerOK(EmptyLedger)
      BY <1>1, EmptyLedgerOK DEF Reset
    <2>2. LedgerOK(ledger')
      BY <2>1
    <2> QED BY <2>1, <2>2 DEF Ledgered, LedgerOK
  <1>2. CASE NewGeneration
    <2>1. ledger' = ledger /\ history' = {}
      BY <1>2 DEF NewGeneration
    <2> QED BY <2>1 DEF Ledgered, LedgerOK
  <1>3. CASE Surroundings
    <2>1. ledger' = ledger /\ history' = history
      BY <1>3 DEF Surroundings
    <2>2. generation' = generation
      BY <1>3 DEF Surroundings, CaptureWork, ExpireBoundary, UpdateManagedEntities,
                  FamilyAdapters, StartFamily, SuppressFamily, EndFamily, Push,
                  ActivateAutomatic, Becomes
    <2>3. Current' = Current
      BY <2>1, <2>2 DEF Current, EmptyLedger
    <2> QED BY <2>1, <2>3 DEF Ledgered, LedgerOK, Answers, Records
  <1> QED BY <1>1, <1>2, <1>3 DEF Elsewhere

\* One step per way a receipt is received, and one for the rest of the house.
LEMMA OpsStep == OpsInv /\ [Next]_vars => OpsInv'
  <1> SUFFICES ASSUME OpsInv, [Next]_vars
               PROVE  OpsInv'
    OBVIOUS
  <1>0. EngineSound(engine) /\ generation \in Nat /\ Ledgered /\ Uninterrupted
    BY DEF OpsInv
  <1>1. ASSUME NEW op \in Receipts, Refuse(op)
        PROVE  OpsInv'
    <2>1. UNCHANGED <<engine, generation, history, intruded>> /\ ledger' = Current
      BY <1>1 DEF Refuse
    <2>2. LedgerOK(Current) /\ Current.generation = generation
      BY <1>0, CurrentOK DEF Ledgered
    <2>3. Current' = Current
      BY <2>1, <2>2, LedgerStep
    <2>4. Ledgered'
      BY <1>0, <2>1, <2>2, <2>3 DEF Ledgered, LedgerOK, Answers, Records
    <2>5. Uninterrupted'
      BY <1>0, <2>1 DEF Uninterrupted
    <2>6. EngineSound(engine)' /\ (generation \in Nat)'
      BY <1>0, <2>1
    <2> QED BY <2>4, <2>5, <2>6 DEF OpsInv
  <1>2. ASSUME NEW op \in Receipts, Spend(op)
        PROVE  OpsInv'
    <2>1. UNCHANGED <<engine, generation, intruded>>
      BY <1>2 DEF Spend
    <2>2. Ledgered'
      BY <1>0, <1>2, SpendLedgered
    <2>3. Uninterrupted'
      BY <1>0, <2>1 DEF Uninterrupted
    <2>4. EngineSound(engine)' /\ (generation \in Nat)'
      BY <1>0, <2>1
    <2> QED BY <2>2, <2>3, <2>4 DEF OpsInv
  <1>3. ASSUME NEW op \in Receipts, Accept(op)
        PROVE  OpsInv'
    <2>1. EngineSound(engine)' /\ (generation \in Nat)'
      BY <1>0, <1>3, CommittedSound DEF Accept
    <2>2. Ledgered' /\ Uninterrupted'
      BY <1>0, <1>3, AcceptLedgered, AcceptUninterrupted
    <2> QED BY <2>1, <2>2 DEF OpsInv
  <1>4. CASE Elsewhere
    <2>1. EngineSound(engine') /\ generation' \in Nat /\ LeftAlone(engine, engine')
      BY <1>0, <1>4, ElsewhereStep
    <2>2. Ledgered'
      BY <1>0, <1>4, ElsewhereLedgered
    <2>3. Uninterrupted'
      <3>1. intruded' = StillArmed(engine')
        BY <1>4 DEF Elsewhere, Reset, Surroundings, NewGeneration
      <3>2. \A g \in Groups : engine'.armed[g] \in {engine.armed[g], {}}
        BY <2>1 DEF LeftAlone, Untouched, Withdrawn
      <3> QED BY <1>0, <3>1, <3>2, StillUninterrupted
    <2> QED BY <2>1, <2>2, <2>3 DEF OpsInv
  <1>5. CASE UNCHANGED vars
    <2>1. /\ engine' = engine /\ generation' = generation /\ ledger' = ledger
          /\ history' = history /\ intruded' = intruded
      BY <1>5 DEF vars
    <2>2. Current' = Current
      BY <2>1 DEF Current, EmptyLedger
    <2>3. Ledgered'
      BY <1>0, <2>1, <2>2 DEF Ledgered, LedgerOK, Answers, Records
    <2>4. Uninterrupted' /\ EngineSound(engine)' /\ (generation \in Nat)'
      BY <1>0, <2>1 DEF Uninterrupted
    <2> QED BY <2>3, <2>4 DEF OpsInv
  <1> QED BY <1>1, <1>2, <1>3, <1>4, <1>5 DEF Next, Elsewhere

LEMMA OpsHold == Spec => []OpsInv
  BY OpsInit, OpsStep, PTL DEF Spec

\* The engine under its operations, the ledger of receipts and the record of who
\* reached into an armed group keep their types, and the window of remembered
\* receipts never exceeds its limit.
THEOREM OperationTypes == Spec => []TypeOK
  <1>1. OpsInv => TypeOK
    BY DEF OpsInv, TypeOK, EngineSound, EngineTypeOK, Good, SoundPile, Ledgered, LedgerOK,
           Uninterrupted
  <1> QED BY <1>1, OpsHold, PTL

\* No receipt is applied twice: a consumed one is still in the window of _seen, or
\* its position is at or below the floor the window left behind.
THEOREM ReceiptsApplyOnce == Spec => []NoReplay
  <1>1. OpsInv => NoReplay
    <2> SUFFICES ASSUME OpsInv, NEW h \in history, NEW op \in Repeats[h.id],
                        op.sequence = h.sequence, Acceptable(op)
                 PROVE  FALSE
      BY DEF NoReplay
    <2>1. Answers(Current, h.id, h.sequence) /\ h.id \in OperationIds
      BY DEF OpsInv, Ledgered, HistoryEntry
    <2>2. op \in Receipts /\ op.id = h.id
      BY <2>1 DEF Repeats
    <2>3. /\ \A i \in DOMAIN Current.seen : Current.seen[i][1] # op.id
          /\ op.sequence > Current.retired
      BY DEF Acceptable, Consumable
    <2>4. Current.retired \in Nat /\ op.sequence \in Nat
      BY <2>2, CurrentOK, ReceiptFields DEF OpsInv, Ledgered, LedgerOK, Ledger
    <2>5. \A i \in DOMAIN Current.seen : Current.seen[i] # <<h.id, h.sequence>>
      BY <2>2, <2>3
    <2> QED BY <2>1, <2>3, <2>4, <2>5 DEF Answers
  <1> QED BY <1>1, OpsHold, PTL

\* No operation observed before an accepted one is applied to a light that one
\* named, in whatever order they arrive.
THEOREM NewestIntentStands == Spec => []NewestIntentWins
  <1>1. OpsInv => NewestIntentWins
    <2> SUFFICES ASSUME OpsInv, NEW h \in history, NEW op \in Receipts,
                        op.sequence <= h.sequence, h.accepted,
                        NEW e \in op.ok \cap h.members, Acceptable(op)
                 PROVE  FALSE
      BY DEF NewestIntentWins
    <2>1. e \in Entities /\ op.sequence \in Nat
      BY ReceiptFields
    <2>2. Current.latest[e] \in Nat /\ h.sequence \in Nat
      BY <2>1, CurrentOK DEF OpsInv, Ledgered, LedgerOK, Ledger, HistoryEntry
    <2>3. Current.latest[e] >= h.sequence
      BY DEF OpsInv, Ledgered, Records
    <2>4. op.sequence > Current.latest[e]
      BY DEF Acceptable, Effective
    <2> QED BY <2>1, <2>2, <2>3, <2>4
  <1> QED BY <1>1, OpsHold, PTL

\* While a group waits for its second OFF, no accepted intent has reached any of
\* its lights: whatever did has disarmed it.
THEOREM ArmedGroupsUndisturbed == Spec => []ArmedUninterrupted
  <1>1. OpsInv => ArmedUninterrupted
    BY DEF OpsInv, Uninterrupted, ArmedUninterrupted
  <1> QED BY <1>1, OpsHold, PTL

-----------------------------------------------------------------------------
(* Dismissal *)

\* What the homeowner saw on the lights that took part, and only that, is dismissed.
DismissesShown(E, D, S) ==
  \E reason \in HomeownerReasons :
     D.sessions = Reasoned(E.sessions, HitBy(E, Shown(E, S)), reason)

LEMMA SameHit ==
  ASSUME NEW D, NEW E, D.pile = E.pile, D.sessions = E.sessions
  PROVE  /\ \A S : Shown(D, S) = Shown(E, S)
         /\ \A S : HitBy(D, Shown(D, S)) = HitBy(E, Shown(E, S))
  <1>1. \A S : Shown(D, S) = Shown(E, S)
    BY SameShown DEF Shown
  <1>2. \A l : SessionOf(D, l) = SessionOf(E, l)
    BY DEF SessionOf
  <1> QED BY <1>1, <1>2 DEF HitBy

LEMMA CommittedSessions ==
  ASSUME EngineSound(engine), NEW op \in Receipts, Acceptable(op)
  PROVE  \/ ~TakesOver(op) /\ Committed(op).sessions = engine.sessions
         \/ DismissesShown(engine, Committed(op), op.ok)
  <1> DEFINE A == Alone(engine, op)
             D == Committed(op)
  <1>1. Good(A) /\ A.pile = engine.pile /\ A.sessions = engine.sessions
    BY DisarmedMembersTables DEF Alone, EngineSound
  <1>2. HitBy(A, Shown(A, op.ok)) = HitBy(engine, Shown(engine, op.ok))
    BY <1>1, SameHit
  <1> HIDE DEF A
  <1>3. CASE op.kind = "appearance"
    <2>1. D = AppliedAppearance(A, op)
      BY <1>3, CommittedForms DEF A
    <2>2. AppliedAppearance(A, op).sessions =
            Reasoned(A.sessions, HitBy(A, Shown(A, op.ok)), "homeowner_override")
      BY <1>1, AppliedAppearanceTables
    <2> QED BY <1>1, <1>2, <2>1, <2>2 DEF DismissesShown, HomeownerReasons
  <1>4. CASE op.kind # "appearance" /\ op.group = None
    <2> DEFINE e == CHOOSE d \in op.ok : TRUE
    <2>1. e \in Entities /\ op.ok = {e}
      BY <1>4, AcceptableScope, ReceiptFields
    <2>2. D = AppliedOff(A, e)
      BY <1>4, OperationsAssumption, CommittedForms DEF A
    <2> HIDE DEF e, D
    <2>3. Shown(A, op.ok) = Exposed(A, e)
      BY <2>1 DEF Shown
    <2>4. \/ AppliedOff(A, e).sessions = A.sessions
          \/ AppliedOff(A, e).sessions = Reasoned(A.sessions, HitBy(A, Exposed(A, e)), "homeowner_off")
      BY <1>1, <2>1, OffTables DEF OffCase
    <2>5. ~TakesOver(op)
      BY <1>4 DEF TakesOver
    <2>6. \/ D.sessions = engine.sessions
          \/ D.sessions = Reasoned(engine.sessions, HitBy(engine, Shown(engine, op.ok)), "homeowner_off")
      BY <1>1, <1>2, <2>2, <2>3, <2>4
    <2> QED BY <2>5, <2>6 DEF DismissesShown, HomeownerReasons, D
  <1>5. CASE op.kind # "appearance" /\ op.group # None
    <2>1. op.group \in Groups /\ D = Together(engine, op)
      BY <1>5, ReceiptFields, CommittedForms
    <2>2. /\ op.members \in SUBSET engine.managed /\ op.members # {}
          /\ op.ok \in SUBSET op.members /\ op.ok # {}
      BY AcceptableScope, ReceiptFields
    <2>3. /\ Escalates(engine, op.group, op.members) =>
               HeldOffOn(engine, Together(engine, op), op.ok)
          /\ ~Escalates(engine, op.group, op.members) =>
               ReleasedOn(engine, Together(engine, op), op.ok)
      BY <2>1, <2>2, TogetherTables DEF Together
    <2>4. TakesOver(op) => Escalates(engine, op.group, op.members)
      BY <1>5 DEF TakesOver
    <2> HIDE DEF D
    <2> QED BY <2>1, <2>3, <2>4 DEF DismissesShown, HomeownerReasons, HeldOffOn, ReleasedOn, D
  <1> QED BY <1>3, <1>4, <1>5

LEMMA AcceptSessions ==
  ASSUME EngineSound(engine), NEW op \in Receipts, Accept(op)
  PROVE  \/ ~TakesOver(op) /\ engine'.sessions = engine.sessions
         \/ DismissesShown(engine, engine', op.ok)
  <1>1. EngineSound(Committed(op)) /\ Acceptable(op)
    BY CommittedSound DEF Accept
  <1>2. engine'.sessions = Committed(op).sessions
    BY <1>1 DEF Accept, EngineSound, Good, EngineState
  <1> QED BY <1>1, <1>2, CommittedSessions DEF DismissesShown

\* A session newly suppressed in the homeowner's name was showing somewhere.
LEMMA OnlyShownStep ==
  ASSUME EngineSound(engine),
         \/ NoOrders(engine, engine')
         \/ \E S \in SUBSET Entities : DismissesShown(engine, engine', S)
  PROVE  OnlyShownFamilyDismissed
  <1> SUFFICES ASSUME NEW x \in engine.sessions, NEW y \in engine'.sessions,
                      x.family = y.family, x.session = y.session,
                      x.reason = None, y.reason \in HomeownerReasons
               PROVE  \E l \in Shown(engine, Entities) :
                        l.family = x.family /\ l.session = x.session
    BY DEF OnlyShownFamilyDismissed
  <1>1. y \notin engine.sessions
    <2>1. y \in engine.sessions => x = y
      BY DEF EngineSound, SessionsGood
    <2>2. None \notin HomeownerReasons
      BY ConstantsAssumption DEF Reasons
    <2> QED BY <2>1, <2>2
  <1>2. PICK S \in SUBSET Entities, reason \in HomeownerReasons :
          engine'.sessions = Reasoned(engine.sessions, HitBy(engine, Shown(engine, S)), reason)
    BY <1>1 DEF NoOrders, DismissesShown
  <1>3. PICK z \in HitBy(engine, Shown(engine, S)) : y = [z EXCEPT !.reason = reason]
    BY <1>1, <1>2 DEF Reasoned
  <1>4. PICK l \in Shown(engine, S) : z \in SessionOf(engine, l)
    BY <1>3 DEF HitBy
  <1>5. /\ z \in FamilySession /\ z.family = l.family /\ z.session = l.session
    BY <1>4 DEF SessionOf, EngineSound, Good, EngineState
  <1>6. l.family = x.family /\ l.session = x.session
    BY <1>3, <1>5 DEF FamilySession
  <1>7. l \in Shown(engine, Entities)
    BY <1>4 DEF Shown
  <1> QED BY <1>6, <1>7

\* After its session has been dismissed, no light shows a layer of it.
LEMMA DismissedNowhere ==
  ASSUME EngineSound(engine), NEW D, NEW S, DismissesShown(engine, D, S),
         NEW l \in Shown(engine, S), InSession(l), NEW k \in Shown(D, Entities)
  PROVE  k.family # l.family \/ k.session # l.session
  <1> SUFFICES ASSUME k.family = l.family, k.session = l.session
               PROVE  FALSE
    OBVIOUS
  <1>1. PICK e \in Entities : k \in Exposed(D, e)
    BY DEF Shown
  <1>2. SessionEligible(D, k)
    BY <1>1 DEF Exposed, Eligible
  <1>3. PICK x \in D.sessions : x.family = k.family /\ x.session = k.session /\ x.reason = None
    BY <1>2 DEF SessionEligible, InSession
  <1>4. PICK reason \in HomeownerReasons :
          D.sessions = Reasoned(engine.sessions, HitBy(engine, Shown(engine, S)), reason)
    BY DEF DismissesShown
  <1>5. reason # None
    BY ConstantsAssumption DEF Reasons
  <1>6. \A z \in engine.sessions : [z EXCEPT !.reason = reason].reason = reason
    BY DEF EngineSound, Good, EngineState, FamilySession
  <1>7. HitBy(engine, Shown(engine, S)) \subseteq engine.sessions
    BY DEF HitBy, SessionOf
  <1>8. x \in engine.sessions \ HitBy(engine, Shown(engine, S))
    BY <1>3, <1>4, <1>5, <1>6, <1>7 DEF Reasoned
  <1>9. x \in SessionOf(engine, l)
    BY <1>3, <1>8 DEF SessionOf
  <1> QED BY <1>8, <1>9 DEF HitBy

\* Taking a light over dismisses the session it shows on every light, and no
\* session that was not showing.
THEOREM DismissalsExact == Spec => DismissalExact
  <1>1. OpsInv /\ [Next]_vars => [OnlyShownFamilyDismissed /\ DismissedEverywhere]_vars
    <2> SUFFICES ASSUME OpsInv, Next
                 PROVE  OnlyShownFamilyDismissed /\ DismissedEverywhere
      OBVIOUS
    <2>0. EngineSound(engine) /\ generation \in Nat
      BY DEF OpsInv
    <2>1. \/ NoOrders(engine, engine')
          \/ \E S \in SUBSET Entities : DismissesShown(engine, engine', S)
      <3>1. ASSUME NEW op \in Receipts, Refuse(op) \/ Spend(op)
            PROVE  NoOrders(engine, engine')
        BY <3>1 DEF Refuse, Spend, NoOrders
      <3>2. ASSUME NEW op \in Receipts, Accept(op)
            PROVE  \/ NoOrders(engine, engine')
                   \/ \E S \in SUBSET Entities : DismissesShown(engine, engine', S)
        <4>1. op.ok \in SUBSET Entities
          BY ReceiptFields
        <4> QED BY <2>0, <3>2, <4>1, AcceptSessions DEF NoOrders
      <3>3. Elsewhere => NoOrders(engine, engine')
        BY <2>0, ElsewhereStep DEF LeftAlone
      <3> QED BY <3>1, <3>2, <3>3 DEF Next, Elsewhere
    <2>2. OnlyShownFamilyDismissed
      BY <2>0, <2>1, OnlyShownStep
    <2>3. DismissedEverywhere
      <3> SUFFICES ASSUME NEW h \in history' \ history, NEW op \in Repeats[h.id],
                          TakesOver(op), Accepts(op, h),
                          NEW l \in Shown(engine, op.ok), NEW k \in Shown(engine', Entities),
                          InSession(l)
                   PROVE  k.family # l.family \/ k.session # l.session
        BY DEF DismissedEverywhere
      <3>1. OpsInv'
        BY OpsStep
      <3>2. h.id \in OperationIds
        BY <3>1 DEF OpsInv, Ledgered, HistoryEntry
      <3>3. op \in Receipts /\ Accept(op)
        BY <3>2 DEF Repeats, Accepts
      <3>4. DismissesShown(engine, engine', op.ok)
        BY <2>0, <3>3, AcceptSessions
      <3> QED BY <2>0, <3>4, DismissedNowhere
    <2> QED BY <2>2, <2>3
  <1> QED BY <1>1, OpsHold, PTL DEF Spec, DismissalExact

-----------------------------------------------------------------------------
(* An accepted appearance *)

\* A layer inserted with nothing to stay below is on top, and a homeowner layer is
\* always eligible: the light shows it.
LEMMA UnblockedManualShows ==
  ASSUME NEW D, NEW e, NEW p, NEW n, NEW look,
         D.pile[e] = Inserted(p, HomeownerLayer("manual", n, look), {})
  PROVE  \E l \in Exposed(D, e) : l.kind = "manual" /\ l.look = look
  <1> DEFINE l == HomeownerLayer("manual", n, look)
             q == D.pile[e]
  <1>1. l.kind = "manual" /\ l.look = look /\ l.family = None /\ l.parent = None
    BY DEF HomeownerLayer
  <1>2. Eligible(D, e, l)
    BY <1>1 DEF Eligible, Orphan, SessionEligible
  <1> HIDE DEF l
  <1>3. q.layers = p.layers \cup {l} /\ \A k \in p.layers : <<k.id, l.id>> \in q.below
    BY DEF Inserted, l
  <1>4. l \in Exposed(D, e)
    BY <1>2, <1>3 DEF Exposed
  <1> QED BY <1>1, <1>4

LEMMA SameOverridden ==
  ASSUME NEW D, NEW E, Good(D), Good(E), D.pile = E.pile, D.sessions = E.sessions, NEW S, NEW e
  PROVE  \A l : Eligible(Overridden(D, S, e), e, l) <=> Eligible(Overridden(E, S, e), e, l)
  <1> DEFINE T == {d \in S : d <= e}
  <1>1. /\ Overridden(D, S, e).pile = D.pile
        /\ Overridden(D, S, e).sessions =
             Reasoned(D.sessions, HitBy(D, Shown(D, T)), "homeowner_override")
    BY SuppressedTables DEF Overridden
  <1>2. /\ Overridden(E, S, e).pile = E.pile
        /\ Overridden(E, S, e).sessions =
             Reasoned(E.sessions, HitBy(E, Shown(E, T)), "homeowner_override")
    BY SuppressedTables DEF Overridden
  <1>3. HitBy(D, Shown(D, T)) = HitBy(E, Shown(E, T))
    BY SameHit
  <1> HIDE DEF T
  <1> QED BY <1>1, <1>2, <1>3, SameShown

LEMMA AppearanceShowsStep ==
  ASSUME EngineSound(engine), NEW op \in Receipts, Accept(op),
         op.kind = "appearance", op.precedence = None, NEW e \in op.ok
  PROVE  \/ \E l \in Exposed(engine', e) : l.kind = "manual" /\ l.look = op.look
         \/ \E b \in engine'.pile[e].layers :
               b.protects /\ Eligible(Overridden(engine, op.ok, e), e, b)
  <1> DEFINE A == Alone(engine, op)
             over == Overridden(A, op.ok, e)
             n == ManualPrecedence(A, op, e)
             l == HomeownerLayer("manual", n, op.look)
             p == WithoutHomeowner(over.pile[e])
             B == {k \in p.layers : k.protects /\ Eligible(over, e, k)}
  <1>1. Good(A) /\ A.pile = engine.pile /\ A.sessions = engine.sessions /\ Good(engine)
    BY DisarmedMembersTables DEF Alone, EngineSound
  <1>2. e \in Entities
    BY ReceiptFields
  <1> HIDE DEF A
  <1>3. engine'.pile = AppliedAppearance(A, op).pile
    <2>1. Committed(op) = AppliedAppearance(A, op)
      BY CommittedForms DEF A
    <2>2. Good(Committed(op))
      BY CommittedSound DEF Accept, EngineSound
    <2> QED BY <2>1, <2>2 DEF Accept, Good, EngineState
  <1>4. AppliedAppearance(A, op).pile =
          [d \in Entities |-> IF d \in op.ok THEN ManualPile(A, op, d) ELSE A.pile[d]]
    BY <1>1, AppliedAppearanceTables
  <1>5. ManualPile(A, op, e) = Inserted(p, l, B)
    BY DEF ManualPile, Explicit, AdmittedPile
  <1> HIDE DEF p, B, l, over
  <1>6. engine'.pile[e] = Inserted(p, l, B)
    BY <1>2, <1>3, <1>4, <1>5
  <1>7. CASE B = {}
    BY <1>6, <1>7, UnblockedManualShows DEF l
  <1>8. ASSUME NEW b \in B
        PROVE  \E k \in engine'.pile[e].layers :
                  k.protects /\ Eligible(Overridden(engine, op.ok, e), e, k)
    <2>1. b \in engine'.pile[e].layers
      BY <1>6 DEF Inserted, B
    <2>2. b.protects /\ Eligible(over, e, b)
      BY DEF B
    <2>3. Eligible(Overridden(engine, op.ok, e), e, b)
      BY <1>1, <2>2, SameOverridden DEF over
    <2> QED BY <2>1, <2>2, <2>3
  <1> QED BY <1>7, <1>8

\* An accepted explicit appearance shows on every light that took part, unless a
\* barrier that was eligible when the light's turn came covers it.
THEOREM AppearancesShow == Spec => AcceptedAppearanceShows
  <1>1. OpsInv /\ [Next]_vars =>
          [\A h \in history' \ history : \A op \in Repeats[h.id] :
             op.kind = "appearance" /\ op.precedence = None /\ Accepts(op, h)
             => \A e \in op.ok :
                  \/ \E l \in Exposed(engine', e) : l.kind = "manual" /\ l.look = op.look
                  \/ \E b \in engine'.pile[e].layers :
                        b.protects /\ Eligible(Overridden(engine, op.ok, e), e, b)]_vars
    <2> SUFFICES ASSUME OpsInv, Next, NEW h \in history' \ history, NEW op \in Repeats[h.id],
                        op.kind = "appearance", op.precedence = None, Accepts(op, h),
                        NEW e \in op.ok
                 PROVE  \/ \E l \in Exposed(engine', e) : l.kind = "manual" /\ l.look = op.look
                        \/ \E b \in engine'.pile[e].layers :
                              b.protects /\ Eligible(Overridden(engine, op.ok, e), e, b)
      OBVIOUS
    <2>1. OpsInv'
      BY OpsStep
    <2>2. h.id \in OperationIds
      BY <2>1 DEF OpsInv, Ledgered, HistoryEntry
    <2>3. op \in Receipts /\ Accept(op)
      BY <2>2 DEF Repeats, Accepts
    <2> QED BY <2>3, AppearanceShowsStep DEF OpsInv
  <1> QED BY <1>1, OpsHold, PTL DEF Spec, AcceptedAppearanceShows

-----------------------------------------------------------------------------
(* Refinement of HomeownerControl *)

\* The homeowner slot of a light of E, as the abstract specification sees it.
IntentOf(E, e) ==
  IF \E l \in Slot(E, e) : l.kind = "manual" THEN "manual"
  ELSE IF \E l \in Slot(E, e) : l.kind = "manual_off" THEN "manual_off"
  ELSE "none"

LEMMA IntentIsOfSlot ==
  ASSUME NEW e
  PROVE  Intent(e) = IntentOf(engine, e) /\ Intent(e)' = IntentOf(engine', e)
  BY DEF Intent, IntentOf, Slot, IsHomeowner, HomeownerKinds

\* A light has at most one homeowner layer.
LEMMA OneSlot ==
  ASSUME NEW E, Good(E), NEW e \in Entities
  PROVE  \A k, l \in Slot(E, e) : k = l
  BY DEF Slot, Good, SoundPile, SameIdentity

\* What the operations do to the slot of a light.
LEMMA SlotResults ==
  ASSUME NEW E, Good(E), NEW D, NEW e \in Entities
  PROVE  /\ Slot(D, e) = Slot(E, e) => IntentOf(D, e) = IntentOf(E, e)
         /\ Slot(D, e) \subseteq Slot(E, e) => IntentOf(D, e) \in {IntentOf(E, e), "none"}
         /\ Slot(D, e) = {} => IntentOf(D, e) = "none"
         /\ \A l : Slot(D, e) = {l} /\ IsHomeowner(l) => IntentOf(D, e) = l.kind
  <1>1. Slot(D, e) \subseteq Slot(E, e) => Slot(D, e) = Slot(E, e) \/ Slot(D, e) = {}
    BY OneSlot
  <1>2. \A l : IsHomeowner(l) => l.kind \in {"manual", "manual_off"}
    BY DEF IsHomeowner, HomeownerKinds
  <1> QED BY <1>1, <1>2 DEF IntentOf

\* A homeowner layer that is placed is the only one of its light.
LEMMA PlacedSlot ==
  ASSUME NEW D, NEW e, NEW E, NEW kind \in HomeownerKinds, NEW n, NEW look,
         D.pile[e].layers = WithoutHomeowner(E.pile[e]).layers \cup {HomeownerLayer(kind, n, look)}
  PROVE  IntentOf(D, e) = kind
  <1> DEFINE l == HomeownerLayer(kind, n, look)
  <1>1. l.kind = kind /\ IsHomeowner(l)
    BY DEF HomeownerLayer, IsHomeowner
  <1> HIDE DEF l
  <1>2. \A k \in WithoutHomeowner(E.pile[e]).layers : ~IsHomeowner(k)
    BY DEF WithoutHomeowner, Kept
  <1>3. Slot(D, e) = {l}
    BY <1>1, <1>2 DEF Slot, l
  <1> QED BY <1>1, <1>3 DEF IntentOf, HomeownerKinds

LEMMA PlacedIntents ==
  ASSUME NEW D, NEW C, NEW e
  PROVE  /\ \A op : D.pile[e] = ManualPile(C, op, e) /\ Good(C) => IntentOf(D, e) = "manual"
         /\ D.pile[e] = ManualOffPile(C, e) => IntentOf(D, e) = "manual_off"
         /\ D.pile[e] = WithoutHomeowner(C.pile[e]) => IntentOf(D, e) = "none"
  <1>1. ASSUME NEW op, D.pile[e] = ManualPile(C, op, e), Good(C)
        PROVE  IntentOf(D, e) = "manual"
    <2> DEFINE l == HomeownerLayer("manual", ManualPrecedence(C, op, e), op.look)
    <2>1. Overridden(C, op.ok, e).pile = C.pile
      BY <1>1, SuppressedTables DEF Overridden
    <2>2. ManualPile(C, op, e).layers = WithoutHomeowner(C.pile[e]).layers \cup {l}
      BY <2>1 DEF ManualPile, AdmittedPile, Inserted
    <2> QED BY <1>1, <2>2, PlacedSlot DEF HomeownerKinds
  <1>2. ASSUME D.pile[e] = ManualOffPile(C, e)
        PROVE  IntentOf(D, e) = "manual_off"
    <2>1. ManualOffPile(C, e).layers = WithoutHomeowner(C.pile[e]).layers \cup
            {HomeownerLayer("manual_off", ExposedPrecedence(C, e), "dark")}
      BY DEF ManualOffPile, AdmittedPile, Inserted
    <2> QED BY <1>2, <2>1, PlacedSlot DEF HomeownerKinds
  <1>3. ASSUME D.pile[e] = WithoutHomeowner(C.pile[e])
        PROVE  IntentOf(D, e) = "none"
    BY <1>3 DEF WithoutHomeowner, Kept, IntentOf, Slot
  <1> QED BY <1>1, <1>2, <1>3

\* The intents after an engine operation, light by light.
AskedOf(E, D, S, what) ==
  \A e \in Entities : IntentOf(D, e) = IF e \in S THEN what ELSE IntentOf(E, e)

SameIntents(E, D) == \A e \in Entities : IntentOf(D, e) = IntentOf(E, e)

LEMMA PileIntent ==
  ASSUME NEW D, NEW E, NEW e, D.pile[e] = E.pile[e]
  PROVE  Slot(D, e) = Slot(E, e) /\ IntentOf(D, e) = IntentOf(E, e)
  BY DEF IntentOf, Slot

LEMMA AppearanceAsked ==
  ASSUME NEW E, Good(E), NEW op, NEW D, D.pile = AppliedAppearance(E, op).pile
  PROVE  AskedOf(E, D, op.ok, "manual")
  <1>1. AppliedAppearance(E, op).pile =
          [e \in Entities |-> IF e \in op.ok THEN ManualPile(E, op, e) ELSE E.pile[e]]
    BY AppliedAppearanceTables
  <1>2. ASSUME NEW e \in Entities
        PROVE  IntentOf(D, e) = IF e \in op.ok THEN "manual" ELSE IntentOf(E, e)
    <2>1. D.pile[e] = IF e \in op.ok THEN ManualPile(E, op, e) ELSE E.pile[e]
      BY <1>1
    <2>2. CASE e \in op.ok
      <3>1. D.pile[e] = ManualPile(E, op, e)
        BY <2>1, <2>2
      <3>2. IntentOf(D, e) = "manual"
        BY <3>1, PlacedIntents, Zenon
      <3> QED BY <2>2, <3>2
    <2>3. CASE e \notin op.ok
      BY <2>1, <2>3, PileIntent
    <2> QED BY <2>2, <2>3
  <1> QED BY <1>2 DEF AskedOf

\* An OFF of one light releases its Manual, sets Manual-OFF or leaves the slot alone.
LEMMA OffAsked ==
  ASSUME NEW E, Good(E), NEW e \in Entities, NEW D, D.pile = AppliedOff(E, e).pile
  PROVE  \/ IntentOf(E, e) = "manual" /\ AskedOf(E, D, {e}, "none")
         \/ AskedOf(E, D, {e}, "manual_off")
         \/ SameIntents(E, D)
  <1> DEFINE top == Exposed(E, e)
             without == Kept(E.pile[e], E.pile[e].layers \ top)
  <1>1. E.pile = [d \in Entities |-> E.pile[d]]
    BY DEF Good, EngineState
  <1>2. \A k, l \in top : k = l
    BY ExposedAtMostOne
  <1>3. top \subseteq E.pile[e].layers
    BY ExposedInPile
  <1>4. without.layers = E.pile[e].layers \ top
    BY DEF Kept
  <1>5. ASSUME NEW p, D.pile = [E.pile EXCEPT ![e] = p]
        PROVE  D.pile[e] = p /\ \A d \in Entities \ {e} : IntentOf(D, d) = IntentOf(E, d)
    BY <1>1, <1>5, PileIntent
  <1> HIDE DEF without, top
  <1>6. ASSUME NEW l \in top, l.kind = "manual", D.pile = [E.pile EXCEPT ![e] = without]
        PROVE  IntentOf(E, e) = "manual" /\ AskedOf(E, D, {e}, "none")
    <2>1. l \in Slot(E, e)
      BY <1>3, <1>6 DEF Slot, IsHomeowner, HomeownerKinds
    <2>2. IntentOf(E, e) = "manual"
      BY <1>6, <2>1 DEF IntentOf
    <2>3. Slot(D, e) = {}
      BY <1>4, <1>5, <1>6, <2>1, OneSlot DEF Slot
    <2>4. IntentOf(D, e) = "none"
      BY <2>3 DEF IntentOf
    <2> QED BY <1>5, <1>6, <2>2, <2>4 DEF AskedOf
  <1>7. ASSUME D.pile = [E.pile EXCEPT ![e] = E.pile[e]]
        PROVE  SameIntents(E, D)
    <2>1. D.pile[e] = E.pile[e] /\ \A d \in Entities \ {e} : IntentOf(D, d) = IntentOf(E, d)
      BY <1>5, <1>7
    <2>2. IntentOf(D, e) = IntentOf(E, e)
      BY <2>1, PileIntent
    <2> QED BY <2>1, <2>2 DEF SameIntents
  <1>8. ASSUME NEW l \in top, l.removable, D.pile = [E.pile EXCEPT ![e] = without]
        PROVE  SameIntents(E, D)
    <2>1. ~IsHomeowner(l)
      BY <1>3, <1>8 DEF Good, SoundPile, Tagged
    <2>2. Slot(D, e) = Slot(E, e)
      BY <1>2, <1>4, <1>5, <1>8, <2>1 DEF Slot
    <2>3. IntentOf(D, e) = IntentOf(E, e)
      BY <2>2 DEF IntentOf
    <2> QED BY <1>5, <1>8, <2>3 DEF SameIntents
  <1>9. ASSUME D.pile = [E.pile EXCEPT ![e] = ManualOffPile(E, e)]
        PROVE  AskedOf(E, D, {e}, "manual_off")
    BY <1>5, <1>9, PlacedIntents DEF AskedOf
  <1>10. \/ (\E l \in top : l.kind = "manual") /\ D.pile = [E.pile EXCEPT ![e] = without]
         \/ D.pile = [E.pile EXCEPT ![e] = E.pile[e]]
         \/ (\E l \in top : l.removable) /\ D.pile = [E.pile EXCEPT ![e] = without]
         \/ D.pile = [E.pile EXCEPT ![e] = ManualOffPile(E, e)]
    BY OffTables DEF OffCase, top, without
  <1> QED BY <1>6, <1>7, <1>8, <1>9, <1>10

LEMMA TogetherAsked ==
  ASSUME NEW E, NEW S, NEW D, NEW T, D.pile = T.pile
  PROVE  /\ ReleasedOn(E, T, S) => AskedOf(E, D, S, "none")
         /\ HeldOffOn(E, T, S) => AskedOf(E, D, S, "manual_off")
  <1>1. ASSUME ReleasedOn(E, T, S)
        PROVE  AskedOf(E, D, S, "none")
    <2>1. D.pile = [e \in Entities |-> IF e \in S THEN WithoutHomeowner(E.pile[e])
                                                   ELSE E.pile[e]]
      BY <1>1 DEF ReleasedOn
    <2>2. ASSUME NEW e \in Entities
          PROVE  IntentOf(D, e) = IF e \in S THEN "none" ELSE IntentOf(E, e)
      <3>1. CASE e \in S
        <4>1. D.pile[e] = WithoutHomeowner(E.pile[e])
          BY <2>1, <3>1
        <4>2. IntentOf(D, e) = "none"
          BY <4>1, PlacedIntents, Zenon
        <4> QED BY <3>1, <4>2
      <3>2. CASE e \notin S
        BY <2>1, <3>2, PileIntent
      <3> QED BY <3>1, <3>2
    <2> QED BY <2>2 DEF AskedOf
  <1>2. ASSUME HeldOffOn(E, T, S)
        PROVE  AskedOf(E, D, S, "manual_off")
    <2>1. PICK C : D.pile = [e \in Entities |-> IF e \in S THEN ManualOffPile(C, e)
                                                           ELSE E.pile[e]]
      BY <1>2 DEF HeldOffOn
    <2> QED BY <2>1, PlacedIntents, PileIntent DEF AskedOf
  <1> QED BY <1>1, <1>2

\* The engine's terms and the abstract specification's.
LEMMA AskedMapped ==
  ASSUME NEW S, NEW what, AskedOf(engine, engine', S, what)
  PROVE  Control!Asked(S, what)
  <1>1. \A e : Intent(e) = IntentOf(engine, e) /\ Intent(e)' = IntentOf(engine', e)
    BY IntentIsOfSlot
  <1>2. \A e \in Entities : Intent(e)' = IF e \in S THEN what ELSE Intent(e)
    BY <1>1 DEF AskedOf
  <1> QED BY <1>2 DEF Control!Asked

LEMMA SameMapped ==
  ASSUME SameIntents(engine, engine')
  PROVE  UNCHANGED [e \in Entities |-> Intent(e)]
  <1>1. \A e : Intent(e) = IntentOf(engine, e) /\ Intent(e)' = IntentOf(engine', e)
    BY IntentIsOfSlot
  <1>2. \A e \in Entities : Intent(e)' = Intent(e)
    BY <1>1 DEF SameIntents
  <1> QED BY <1>2

LEMMA DisarmedMapped ==
  ASSUME EngineSound(engine'), NEW S, NEW kept, OthersDisarmed(engine, engine', S, kept)
  PROVE  Control!DisarmedBy(S, kept) /\ engine.armed' \in [Groups -> SUBSET Entities]
  BY DEF OthersDisarmed, Control!DisarmedBy, EngineSound, Good, EngineState

\* An accepted receipt is an appearance, an OFF of a light, or the first or second
\* OFF of a group.
LEMMA AcceptMapped ==
  ASSUME EngineSound(engine), NEW op \in Receipts, Accept(op)
  PROVE  Control!ControlNext
  <1> DEFINE A == Alone(engine, op)
             D == Committed(op)
  <1>1. Acceptable(op) /\ EngineSound(D) /\ EngineSound(engine')
    BY CommittedSound DEF Accept
  <1>2. engine'.pile = D.pile /\ engine'.armed = D.armed
    BY <1>1 DEF Accept, EngineSound, Good, EngineState
  <1>3. Good(A) /\ A.pile = engine.pile
    BY DisarmedMembersTables DEF Alone, EngineSound
  <1>4. \A e \in Entities : IntentOf(A, e) = IntentOf(engine, e)
    BY <1>3, PileIntent
  <1>5. op.ok \in SUBSET Entities /\ op.members \in SUBSET Entities
    BY ReceiptFields
  <1> HIDE DEF A
  <1>6. CASE op.kind = "appearance"
    <2>1. D = AppliedAppearance(A, op)
      BY <1>6, CommittedForms DEF A
    <2>2. AskedOf(A, engine', op.ok, "manual")
      BY <1>2, <1>3, <2>1, AppearanceAsked
    <2>3. Control!Asked(op.ok, "manual")
      BY <1>4, <2>2, AskedMapped DEF AskedOf
    <2>4. OthersDisarmed(engine, engine', op.ok, {})
      BY <1>1, <1>2, <1>6, AloneDisarms DEF OthersDisarmed
    <2>5. Control!DisarmedBy(op.ok, {}) /\ engine.armed' \in [Groups -> SUBSET Entities]
      BY <1>1, <2>4, DisarmedMapped
    <2> QED BY <1>5, <2>3, <2>5 DEF Control!ControlNext, Control!Appear
  <1>7. CASE op.kind # "appearance" /\ op.group = None
    <2> DEFINE e == CHOOSE d \in op.ok : TRUE
    <2>1. e \in Entities /\ op.ok = {e}
      BY <1>1, <1>7, AcceptableScope, ReceiptFields
    <2>2. D = AppliedOff(A, e)
      BY <1>7, OperationsAssumption, CommittedForms DEF A
    <2> HIDE DEF e
    <2>3. \/ IntentOf(A, e) = "manual" /\ AskedOf(A, engine', {e}, "none")
          \/ AskedOf(A, engine', {e}, "manual_off")
          \/ SameIntents(A, engine')
      BY <1>2, <1>3, <2>1, <2>2, OffAsked
    <2>4. \/ IntentOf(engine, e) = "manual" /\ AskedOf(engine, engine', {e}, "none")
          \/ AskedOf(engine, engine', {e}, "manual_off")
          \/ SameIntents(engine, engine')
      BY <1>4, <2>1, <2>3 DEF AskedOf, SameIntents
    <2>5. OthersDisarmed(engine, engine', {e}, {})
      BY <1>1, <1>2, <1>7, <2>1, AloneDisarms DEF OthersDisarmed
    <2>6. Control!DisarmedBy({e}, {}) /\ engine.armed' \in [Groups -> SUBSET Entities]
      BY <1>1, <2>5, DisarmedMapped
    <2>7. \/ Intent(e) = "manual" /\ Control!Asked({e}, "none")
          \/ Control!Asked({e}, "manual_off")
          \/ UNCHANGED [d \in Entities |-> Intent(d)]
      BY <2>4, AskedMapped, SameMapped, IntentIsOfSlot
    <2>8. [d \in Entities |-> Intent(d)][e] = Intent(e)
      BY <2>1
    <2>9. Control!Off(e)
      BY <2>6, <2>7, <2>8 DEF Control!Off
    <2> QED BY <2>1, <2>9 DEF Control!ControlNext
  <1>8. CASE op.kind # "appearance" /\ op.group # None
    <2> DEFINE g == op.group
               members == op.members
               S == op.ok
               T == Together(engine, op)
    <2>1. g \in Groups /\ D = T
      BY <1>8, ReceiptFields, CommittedForms
    <2>2. /\ members \in SUBSET engine.managed /\ members # {}
          /\ S \in SUBSET members /\ S # {}
      BY <1>1, AcceptableScope, ReceiptFields
    <2>3. T = AppliedGroupOff(engine, g, members, S)
      BY DEF Together
    <2> HIDE DEF g, members, S, T, D
    <2>4. /\ T.armed[g] = members /\ OthersDisarmed(engine, T, members, {g})
          /\ Escalates(engine, g, members) => HeldOffOn(engine, T, S)
          /\ ~Escalates(engine, g, members) => ReleasedOn(engine, T, S)
      <3>1. /\ ArmedOn(AppliedGroupOff(engine, g, members, S), g, members)
            /\ OthersDisarmed(engine, AppliedGroupOff(engine, g, members, S), members, {g})
        BY <2>1, <2>2, TogetherTables, Zenon
      <3>2. /\ Escalates(engine, g, members)
                 => HeldOffOn(engine, AppliedGroupOff(engine, g, members, S), S)
            /\ ~Escalates(engine, g, members)
                 => ReleasedOn(engine, AppliedGroupOff(engine, g, members, S), S)
        BY <2>1, <2>2, TogetherTables, Zenon
      <3> QED BY <2>3, <3>1, <3>2, Zenon DEF ArmedOn
    <2>5. OthersDisarmed(engine, engine', members, {g}) /\ engine'.armed[g] = members
      BY <1>2, <2>1, <2>4 DEF OthersDisarmed
    <2>6. Control!DisarmedBy(members, {g}) /\ engine.armed' \in [Groups -> SUBSET Entities]
      BY <1>1, <2>5, DisarmedMapped
    <2>7. CASE Escalates(engine, g, members)
      <3>1. Control!Asked(S, "manual_off")
        BY <1>2, <2>1, <2>4, <2>7, TogetherAsked, AskedMapped
      <3>2. Control!SecondOff(g, members, S)
        BY <2>5, <2>6, <2>7, <3>1 DEF Control!SecondOff, Escalates
      <3> QED BY <1>5, <2>1, <2>2, <3>2 DEF Control!ControlNext, members
    <2>8. CASE ~Escalates(engine, g, members)
      <3>1. Control!Asked(S, "none")
        BY <1>2, <2>1, <2>4, <2>8, TogetherAsked, AskedMapped
      <3>2. Control!FirstOff(g, members, S)
        BY <2>5, <2>6, <2>8, <3>1 DEF Control!FirstOff, Escalates
      <3> QED BY <1>5, <2>1, <2>2, <3>2 DEF Control!ControlNext, members
    <2> QED BY <2>7, <2>8
  <1> QED BY <1>6, <1>7, <1>8

\* The rest of the house withdraws what the homeowner asked for, or changes none of it.
LEMMA ElsewhereMapped ==
  ASSUME EngineSound(engine), EngineSound(engine'), LeftAlone(engine, engine')
  PROVE  Control!ControlNext \/ UNCHANGED Control!controlVars
  <1>1. CASE Untouched(engine, engine')
    <2>1. SameIntents(engine, engine')
      BY <1>1 DEF Untouched, SameIntents, IntentOf
    <2>2. UNCHANGED [e \in Entities |-> Intent(e)]
      BY <2>1, SameMapped
    <2> QED BY <1>1, <2>2 DEF Untouched, Control!controlVars
  <1>2. CASE Withdrawn(engine, engine')
    <2> DEFINE S == {e \in Entities : IntentOf(engine', e) = "none"}
    <2>1. AskedOf(engine, engine', S, "none")
      BY <1>2, SlotResults DEF Withdrawn, AskedOf, EngineSound
    <2>2. Control!Asked(S, "none") /\ S \in SUBSET Entities
      BY <2>1, AskedMapped
    <2>3. engine'.armed \in [Groups -> SUBSET Entities]
      BY DEF EngineSound, Good, EngineState
    <2>4. engine'.armed = [a \in Groups |-> {}]
      BY <1>2, <2>3 DEF Withdrawn
    <2> HIDE DEF S
    <2>5. Control!Withdraw(S)
      BY <2>2, <2>4 DEF Control!Withdraw
    <2> QED BY <2>2, <2>5 DEF Control!ControlNext
  <1> QED BY <1>1, <1>2 DEF LeftAlone

LEMMA RefusalMapped ==
  ASSUME engine' = engine
  PROVE  UNCHANGED Control!controlVars
  <1>1. SameIntents(engine, engine')
    BY DEF SameIntents
  <1>2. UNCHANGED [e \in Entities |-> Intent(e)]
    BY <1>1, SameMapped
  <1> QED BY <1>2 DEF Control!controlVars

\* The layered engine under its operations keeps the promises of homeowner control:
\* what a light was last asked for changes by a receipt, in the two stages of the
\* ADR when it is an OFF, or is withdrawn; nothing else takes a light over.
THEOREM ControlImplemented == Spec => ImplementsControl
  <1>1. Init => Control!ControlInit
    <2> SUFFICES ASSUME Init PROVE Control!ControlInit
      OBVIOUS
    <2>1. engine.armed = [a \in Groups |-> {}]
      BY DEF Init, EngineInit, Blank
    <2>2. \A e \in Entities : Intent(e) = "none"
      BY DEF Init, EngineInit, Blank, EmptyPile, Intent
    <2> QED BY <2>1, <2>2 DEF Control!ControlInit
  <1>2. OpsInv /\ [Next]_vars => [Control!ControlNext]_(Control!controlVars)
    <2> SUFFICES ASSUME OpsInv, [Next]_vars
                 PROVE  Control!ControlNext \/ UNCHANGED Control!controlVars
      OBVIOUS
    <2>1. EngineSound(engine) /\ generation \in Nat
      BY DEF OpsInv
    <2>2. ASSUME NEW op \in Receipts, Accept(op)
          PROVE  Control!ControlNext
      BY <2>1, <2>2, AcceptMapped
    <2>3. ASSUME NEW op \in Receipts, Refuse(op) \/ Spend(op)
          PROVE  UNCHANGED Control!controlVars
      BY <2>3, RefusalMapped DEF Refuse, Spend
    <2>4. ASSUME Elsewhere
          PROVE  Control!ControlNext \/ UNCHANGED Control!controlVars
      BY <2>1, <2>4, ElsewhereStep, ElsewhereMapped
    <2>5. ASSUME UNCHANGED vars
          PROVE  UNCHANGED Control!controlVars
      BY <2>5, RefusalMapped DEF vars
    <2> QED BY <2>2, <2>3, <2>4, <2>5 DEF Next, Elsewhere
  <1> QED BY <1>1, <1>2, OpsHold, PTL DEF Spec, ImplementsControl, Control!ControlSpec
=============================================================================
