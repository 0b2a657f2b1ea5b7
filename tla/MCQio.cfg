SPECIFICATION Spec
CONSTANTS
  i1 = i1
  i2 = i2
  i3 = i3
  a1 = a1
  a2 = a2
  a3 = a3
  p1 = p1
  Nobody = Nobody
  Ioqs <- MCIoqs
  Asyncs <- ThreeAsyncs
  Programs <- NoPrograms
  AsyncOps = {"open", "close"}
  Mutexes = {"rd0"}
  Watched = "rd0"
  Files = {1, 2, 3}
  GenCount = 2
  OpenModes = {{"R"}}
  ImageSize = 1
  Sectors = {0}
  MaxFrees = 1
  MaxLeaks = 1
INVARIANTS
  FdsAccounted
PROPERTIES
  CallsEnd
  LockSpec
CHECK_DEADLOCK FALSE
