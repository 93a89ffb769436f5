---------------------------- MODULE MCOperations ----------------------------
(***************************************************************************)
(* Small instances of the homeowner operations for TLC.  A behaviour       *)
(* follows one theme: the receipts that reach apply, and what else may     *)
(* happen meanwhile.                                                       *)
(***************************************************************************)
EXTENDS HomeownerOperations

CONSTANTS l1, l2, l3, l4, l5, f1, f2, s1, s2, sys, alert, bright, o1, o2, o3, o4,
  a1, a2, a3, a4, b1, b2, b3,
  Themes   \* the themes of an instance

VARIABLE theme

System(id, kind, owner) ==
  [id |-> id, kind |-> kind, owner |-> owner, family |-> None, session |-> None,
   sequence |-> 0, parent |-> None, precedence |-> 0, priority |-> None,
   protects |-> FALSE, removable |-> FALSE, boundary |-> FALSE, look |-> bright]

Receipt(r, kind, group, members, ok) ==
  [id |-> r[1], sequence |-> r[2], generation |-> 1, kind |-> kind,
   group |-> group, members |-> members, ok |-> ok,
   look |-> bright, precedence |-> None, legacy |-> FALSE, token |-> FALSE]

\* Three operations and a repeated report of the first under a later position.
Identities == {<<o1, 1>>, <<o2, 2>>, <<o3, 3>>, <<o1, 4>>}

\* Single and group commands on two lights, each member present or not.
LedgerReceipts ==
  {Receipt(r, "off", None, {e}, ok) : r \in Identities, e \in {1}, ok \in {{}, {1}}}
  \cup {Receipt(r, "appearance", "bar", {1, 2}, ok) : r \in Identities, ok \in {{1}, {2}, {1, 2}}}

\* Overlapping groups and the single commands that come between their OFFs.
Arrivals == {<<a1, 1>>, <<a2, 2>>, <<a3, 3>>, <<a4, 4>>}
ArmingReceipts ==
  {Receipt(r, "off", "bar", {1, 2}, ok) : r \in Arrivals, ok \in {{1}, {1, 2}}}
  \cup {Receipt(r, "off", "bar", {1}, {1}) : r \in Arrivals}
  \cup {Receipt(r, "off", "den", {2}, {2}) : r \in Arrivals}
  \cup {Receipt(r, "off", None, {2}, {2}) : r \in Arrivals}
  \cup {Receipt(r, "appearance", None, {e}, {e}) : r \in Arrivals, e \in {1, 2}}

\* Two families, the second over the first; a barrier; a plain ranked layer.
Effect(id, f) ==
  [System(id, "automatic", sys) EXCEPT !.family = f, !.session = s1, !.sequence = 1]
Barrier == [System(l3, "functional", alert) EXCEPT !.priority = 5, !.protects = TRUE]
Ranked  == [System(l4, "automatic", alert) EXCEPT !.precedence = 3]
Shield  == [Effect(l5, f1) EXCEPT !.priority = 1, !.protects = TRUE]
SystemLayers ==
  {Effect(l1, f1), [Effect(l2, f2) EXCEPT !.precedence = 2], Barrier, Ranked, Shield}

FamilyReceipts ==
  {Receipt(<<b1, 1>>, "appearance", "bar", {1, 2}, {1, 2}),
   Receipt(<<b1, 1>>, "appearance", None, {1}, {1}),
   Receipt(<<b2, 2>>, "off", "bar", {1, 2}, {1, 2}),
   Receipt(<<b3, 3>>, "off", "bar", {1, 2}, {1, 2}),
   Receipt(<<b3, 3>>, "off", "bar", {1, 2}, {2}),
   Receipt(<<b3, 3>>, "off", None, {1}, {1})}

\* Explicit intent, and intent of the legacy adapter with its numeric hint.
Hinted(r, hint) ==
  [Receipt(r, "appearance", None, {1}, {1}) EXCEPT !.precedence = hint, !.legacy = TRUE]
PlacementReceipts ==
  {Receipt(<<o1, 1>>, "appearance", None, {1}, {1}), Hinted(<<o2, 2>>, None),
   Hinted(<<o3, 3>>, 1), [Hinted(<<o4, 4>>, 9) EXCEPT !.token = TRUE],
   [Receipt(<<o4, 4>>, "appearance", None, {1}, {1}) EXCEPT !.look = None],
   Receipt(<<o3, 3>>, "off", None, {1}, {1}), Receipt(<<o2, 2>>, "off", "bar", {1}, {1}),
   Receipt(<<o4, 4>>, "off", "bar", {1}, {1})}

\* A barrier of a family below a ranked layer, and a group appearance whose later
\* member shows that family.
ShieldedReceipts == {Receipt(<<b1, 1>>, "appearance", "bar", {1, 2}, {1, 2})}

ReceiptsOf ==
  [ledger |-> LedgerReceipts, arming |-> ArmingReceipts,
   families |-> FamilyReceipts, placement |-> PlacementReceipts,
   shielded |-> ShieldedReceipts]

ThemedReceipts == UNION {ReceiptsOf[t] : t \in Themes}

LayersOf ==
  [ledger |-> {}, arming |-> {}, families |-> {l1, l2}, placement |-> {l3, l4},
   shielded |-> {l4, l5}]

\* With families every light stays managed, nobody captures a WorkToken, which no
\* receipt of that theme carries, and only the homeowner suppresses; a new
\* generation only matters to the others.
InTheme(E, g) ==
  /\ \A e \in Entities : IdsOf(E.pile[e].layers) \subseteq LayersOf[theme] \cup {HomeownerId}
  /\ theme \in {"families", "shielded"} =>
       E.managed = Entities /\ \A x \in E.sessions : x.reason # "adapter"
  /\ theme = "shielded" => \A x \in E.sessions : x.family = f1
  /\ theme \notin {"families", "shielded"} => E.sessions = {}
  /\ theme = "placement" => E.managed \subseteq {1}
  /\ theme \in {"arming", "families", "shielded"} => g = 1

ThemedNext ==
  /\ \/ \E op \in ReceiptsOf[theme] : Refuse(op) \/ Spend(op) \/ Accept(op)
     \/ Reset \/ Surroundings \/ NewGeneration
  /\ InTheme(engine', generation')
  /\ theme \in {"families", "shielded"} => engine'.moved
  /\ UNCHANGED theme

ThemedInit == Init /\ theme \in Themes /\ InTheme(engine, generation)

ThemedSpec == ThemedInit /\ [][ThemedNext]_<<vars, theme>>
=============================================================================
