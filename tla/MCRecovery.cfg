SPECIFICATION FocusSpec
CONSTANTS
  Nothing = Nothing
  k1 = k1
  k2 = k2
  Lights = {k1, k2}
  Configured = {k1}
  Day = 2
  MaxDowntime = 2
  MaxNow = 3
  MaxGeneration = 2
INVARIANTS
  NoManualPastBoundary
  RetiredStaysOut
PROPERTIES
  GenerationAdvances
  ShortRestartKeepsManual
  IntentBecomesDurable
