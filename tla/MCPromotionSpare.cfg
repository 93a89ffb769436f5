SPECIFICATION ThemedSpec
CONSTANTS
  None = None
  k1 = k1
  k2 = k2
  k3 = k3
  room = room
  pair = pair
  Themes = {"apart"}
  Leaves = {k1, k2, k3}
  Aggregates = {room, pair}
  Surfaces = {room, pair}
  Topologies <- TwoHouses
  Scopes <- ManagedScopes
  Precedence = {}
  Burst = 2
  Hold = 3
  Settle = 1
  MaxSequence = 4
PROPERTIES
  UnrelatedReportsSpare
