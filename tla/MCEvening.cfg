SPECIFICATION ThemeSpec
CONSTANTS
  k1 = k1
  Looks = {k1}
  Legacy = {"path"}
  MaxQueued = 3
  Themes = {"clock", "surfaces", "visits", "cabinet"}
INVARIANTS
  HelpersFollowClock
  OwnersShown
  OpenDoorIsLit
  LookReturned
