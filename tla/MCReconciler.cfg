SPECIFICATION FairSpec
CONSTANTS
  None = None
  c1 = c1
  c2 = c2
  Commands = {c1, c2}
  Owners = {"daily", "manual"}
  Unmanaged = {"manual"}
INVARIANTS
  BudgetKept
  NoEventLost
  PendingMeansRunning
PROPERTIES
  RepairIsCurrent
  Quiesces
