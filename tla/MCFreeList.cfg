SPECIFICATION Spec
CONSTANTS
  f1 = f1  f2 = f2
  Files <- TwoFiles
  Area <- TwoAreas
  Home <- TwoHomes
  Chunk = 4
  MaxPtrs = 3
  Word = 64
  MaxLba = 25
  SysSize <- SmallSystem
  DirExtend = 1
  CreateSizes = {1, 2}
  GrowSizes = {1}
  SetSizes = {0}
  MaxClusters = 4
  DirSizes = {0, 1}
  JournSizes = {0, 1}
  Crashes = TRUE
SYMMETRY Symmetric
INVARIANTS
  TypeOK
  Separated
  TotalRight
  FreeFileHolds
PROPERTIES
  ConservesSpace
