SPECIFICATION Spec
CONSTANTS
  Call = {c1, c2}
  Kinds <- InputTools
  AbsPointer = FALSE
  Cancels = TRUE
  Me = Me
  Other = Other
  Nobody = Nobody
  Idle <- Windows
  Lag = 0
INVARIANTS
  Consistent
  OneInputAtATime
  InputUnderLease
  QuietServerHoldsNothing
PROPERTIES
  KeysTogether
  RaisesInTurn
