SPECIFICATION FairSpec
CONSTANTS
  Call = {c1, c2}
  Dirs = 2
  Bases = 2
  Features <- TwoFeatures
  Builds <- ThreeBuilds
  Ttl = 1
  MaxFiles = 2
  MaxMishaps = 1
  Nobody = Nobody
INVARIANTS
  Consistent
PROPERTIES
  Recovers
