SPECIFICATION FairSpec
CONSTANTS
  a = a
  b = b
  c = c
  Nobody = Nobody
  Server = {a, b, c}
  Guard = {g1, g2}
  Idle <- Windows
  Lag = 1
INVARIANTS
  Consistent
  OneServerOperates
  WindowNotStretched
PROPERTIES
  RefusalNamesLease
  ImplementsLease
  IdleLockComesFree
