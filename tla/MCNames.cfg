SPECIFICATION Spec
CONSTANTS
  MaxFid = 3
  MaxGen = 2
  Names <- TwoNames
  HashOf <- OneChain
  Buckets = 1
  Paths <- MCPaths
  PerSector = 2
  Handles = {h1, h2}
  MaxOps = 5
SYMMETRY Descriptors
INVARIANTS
  TypeOK
  NamesSound
  HandlesSound
  ScansComplete
PROPERTIES
  AtomicNames
CHECK_DEADLOCK FALSE
