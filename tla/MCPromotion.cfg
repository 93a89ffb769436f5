SPECIFICATION ThemedSpec
CONSTANTS
  None = None
  k1 = k1
  k2 = k2
  k3 = k3
  room = room
  pair = pair
  Themes = {"nested", "single", "twice", "scenes", "lifecycle"}
  Leaves = {k1, k2, k3}
  Aggregates = {room, pair}
  Surfaces = {room}
  Topologies <- Houses
  Scopes <- ManagedScopes
  Precedence = {}
  Burst = 1
  Hold = 2
  Settle = 1
  MaxSequence = 5
INVARIANTS
  PromotedOnce
  ExpiryScheduled
PROPERTIES
  NewestReportRules
  SecondOffLands
  QuarantineHolds
  CoreImplementsControl
