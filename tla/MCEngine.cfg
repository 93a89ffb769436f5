SPECIFICATION ThemedSpec
CONSTANTS
  None = None
  l1 = l1
  l2 = l2
  l3 = l3
  l4 = l4
  l5 = l5
  l6 = l6
  l7 = l7
  f1 = f1
  s1 = s1
  s2 = s2
  sys = sys
  alert = alert
  bright = bright
  dim = dim
  Entities = {1, 2, 3}
  Families = {f1}
  Sessions = {s1, s2}
  Groups = {"bar", "den", "hall"}
  Owners = {sys, alert}
  LayerIds = {l1, l2, l3, l4, l5, l6, l7}
  Looks = {bright, dim}
  Offered <- ThemedLayers
  MaxLayers = 3
  MaxGroups = 2
  MaxFamilies = 1
  RetiredLimit = 1
  MaxSequence = 3
  MaxGeneration = 2
INVARIANTS
  EngineTypeOK
  OneLayerPerOwner
  ArmingSound
  SessionsSound
PROPERTIES
  SlotsKept
  NoSilentChange
  SuppressionKept
