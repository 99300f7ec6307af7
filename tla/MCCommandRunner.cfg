SPECIFICATION FairSpec
CONSTANTS
  Leader = leader
  Child = {child}
  PipeCap = 1
  Writes <- Overrun
  Feed = 1
  MaxOutput = 1
INVARIANTS
  Consistent
  NothingLeftBehind
  SuccessIsWhole
  PipesServed
PROPERTIES
  KillsOwnGroup
  ImplementsBoundedCommand
  EveryCommandEnds
CHECK_DEADLOCK FALSE
