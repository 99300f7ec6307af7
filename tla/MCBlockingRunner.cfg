SPECIFICATION PollFairSpec
CONSTANTS
  Leader = leader
  Child = {child}
  PipeCap = 1
  Writes <- Overrun
  MaxBlockingOutput = 2
  MaxDrain = 2
INVARIANTS
  PollConsistent
PROPERTIES
  PollImplementsBoundedCommand
  EveryCallReturns
  PipesDrained
CHECK_DEADLOCK FALSE
