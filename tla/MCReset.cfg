SPECIFICATION ResetSpec
CONSTANTS
  None = None
  l1 = l1
  l2 = l2
  l3 = l3
  l4 = l4
  l5 = l5
  f1 = f1
  f2 = f2
  s1 = s1
  s2 = s2
  sys = sys
  alert = alert
  bright = bright
  o1 = o1
  o2 = o2
  o3 = o3
  o4 = o4
  a1 = a1
  a2 = a2
  a3 = a3
  a4 = a4
  b1 = b1
  b2 = b2
  b3 = b3
  Entities = {1, 2}
  Families = {}
  Sessions = {}
  Groups = {"bar"}
  Owners = {sys, alert}
  LayerIds = {l1, l2, l3, l4, l5}
  Looks = {bright}
  Offered = {}
  MaxLayers = 1
  MaxGroups = 1
  MaxFamilies = 1
  RetiredLimit = 1
  MaxSequence = 1
  MaxGeneration = 1
  OperationIds = {o1, o2, o3, o4}
  Receipts <- ThemedReceipts
  SeenLimit = 1
  Themes = {"ledger"}
INVARIANT ResetInvalidatesEarlier
