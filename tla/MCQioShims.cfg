SPECIFICATION Spec
CONSTANTS
  i1 = i1
  i2 = i2
  i3 = i3
  a1 = a1
  a2 = a2
  a3 = a3
  p1 = p1
  Nobody = Nobody
  Ioqs <- MCIoqs
  Asyncs <- OneAsync
  Programs <- OneProgram
  AsyncOps = {"open", "readwpos", "close", "opendir", "readdir", "rewdir", "closedir"}
  Mutexes = {"rd0"}
  Watched = "rd0"
  Files = {1, 2}
  GenCount = 2
  OpenModes = {{"R"}, {"W"}}
  ImageSize = 1
  Sectors = {0}
  MaxFrees = 2
  MaxLeaks = 1
INVARIANTS
  TypeOK
  IoqsAccounted
  StaleFdDead
CHECK_DEADLOCK FALSE
