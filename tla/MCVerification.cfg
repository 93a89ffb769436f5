SPECIFICATION FocusSpec
CONSTANTS
  k1 = k1
  k2 = k2
  k3 = k3
  day = day
  white = white
  Lights = {k1, k2, k3}
  Liquor = k1
  Eve = k1
  BrightWhite = {k1, k2}
  Looks = {day, white}
  White = white
  Daily <- SmallDaily
  Scene <- SmallScene
  Surfaces = {"main_area", "backyard"}
INVARIANTS
  SilenceMeansRight
PROPERTIES
  HandsOff
  RepairsShrink
