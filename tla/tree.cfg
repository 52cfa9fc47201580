CONSTANTS
  Cables <- Doubled
  NoFlood = FALSE
  HoldDown = FALSE
  MayBreak <- Two
  MayRestart <- Third
  Hasty = FALSE
SPECIFICATION MCSpec
INVARIANT NoLoop
INVARIANT ReachesAll
INVARIANT NeverSoupHeldDown
CHECK_DEADLOCK FALSE
