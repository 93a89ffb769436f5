SPECIFICATION FairSpec
CONSTANTS
  Nothing = Nothing
  k1 = k1
  k2 = k2
  bar = bar
  den = den
  Surfaces = {bar, den}
  Lights = {k1, k2}
  Configured = {k1}
  Confirm = 2
PROPERTIES
  OnlyConfirmedRemovals
  StableReportAdopted
