SPECIFICATION FairSpec
CONSTANTS
  f1 = f1  f2 = f2
  s1 = s1  s2 = s2  s3 = s3  s4 = s4  s5 = s5
  Files <- TwoFiles
  Sectors <- ThreeSectors
  NCopies = 2
  HdrSects = 1
  MaxExtent = 1
  MaxSize = 1
  MaxHandles = 2
  MaxOps = 2
  MaxCrash = 1
  Faults = {"extend"}
CHECK_DEADLOCK FALSE
PROPERTIES
  SyncEnds
  MountEnds
