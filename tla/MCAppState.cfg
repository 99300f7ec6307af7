SPECIFICATION FairSpec
CONSTANTS
  None = None
  c1 = c1
  c2 = c2
  w1 = w1
  w2 = w2
  a = a
  b = b
  a1 = a1
  a2 = a2
  x = x
  a3 = a3
  a4 = a4
  Obj <- SomeObjects
  PidOf <- SomePids
  Named <- SomeNames
  Useful = {a3}
  ChildLimit = 2
  Call = {c1, c2}
  Plans <- SomePlans
  Window = {w1, w2}
  WindowPid <- SomeWindowPids
  Candidates <- SomeCandidates
  Apps <- SomeApps
  FirstKids <- SomeKids
  MaxPids = 1
  Places <- SomePlaces
  Hideable = {w1}
  Mortal = {a1, a4}
  Hosts = {a}
  Desktops = {5, 8}
  Height = 3
  Weight = 1
  Header = 2
  MaxEvents = 1
  MaxFailures = 1
INVARIANTS
  Consistent
  PixelsAgree
PROPERTIES
  EveryRequestEnds
CHECK_DEADLOCK FALSE
