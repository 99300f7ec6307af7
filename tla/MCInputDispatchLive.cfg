SPECIFICATION FairSpec
CONSTANTS
  Call = {c1, c2}
  Kinds <- LiveTools
  AbsPointer = TRUE
  Cancels = TRUE
  Me = Me
  Other = Other
  Nobody = Nobody
  Idle <- Windows
  Lag = 0
PROPERTIES
  EveryCallEnds
  IdleServerGivesBack
