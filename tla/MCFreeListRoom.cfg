SPECIFICATION Spec
CONSTANTS
  f1 = f1  f2 = f2
  Files <- TwoFiles
  Area <- WiderAreas
  Home <- WiderHomes
  Chunk = 2
  MaxPtrs = 2
  Word = 64
  MaxLba = 29
  SysSize <- WiderFree
  DirExtend = 1
  CreateSizes = {1}
  GrowSizes = {2}
  SetSizes = {0, 3}
  MaxClusters = 2
  DirSizes = {0}
  JournSizes = {0}
  Crashes = FALSE
SYMMETRY Symmetric
INVARIANTS
  RoomLeft
  NeverTorn

  
  
