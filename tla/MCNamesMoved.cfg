SPECIFICATION Spec
CONSTANTS
  MaxFid = 3
  MaxGen = 2
  Names <- TwoNames
  HashOf <- SecondFirst
  Buckets = 2
  Paths <- MCPaths
  PerSector = 2
  Handles = {h1, h2}
  MaxOps = 5
SYMMETRY Descriptors
INVARIANT
  StubsPlucked
CHECK_DEADLOCK FALSE
