SPECIFICATION FairSpec
CONSTANTS
  None = None
  Fold <- LowerCase
  Within <- Parts
  Suffix <- Ends1
  Tail <- Tails
  Unsafe = {2, 3}
  Json <- Rounded
  Largest = 8
  c1 = c1
  c2 = c2
  Call = {c1, c2}
  Plans <- SomePlans
  Window = {1, 2}
  Facts <- TwoWindows
  Titles = {"Notes", "old notes"}
  FirstTitle = "Notes"
  Places = {0}
  Sizes = {1, 2}
  Workspaces = {1, 2, 3}
  Patterns = {"vi"}
  Layout <- TwoMonitors
  Attempts = 2
  MaxPolls = 2
  MaxEvents = 1
  MaxFailures = 1
INVARIANTS
  Consistent
PROPERTIES
  LayoutUntouched
  
CHECK_DEADLOCK FALSE
