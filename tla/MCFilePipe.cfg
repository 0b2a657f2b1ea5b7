SPECIFICATION Spec
CONSTANTS
  u1 = u1
  u2 = u2
  u3 = u3
  q1 = q1
  q2 = q2
  q3 = q3
  q4 = q4
  m1 = m1
  m2 = m2
  vop = vop
  Nobody = Nobody
  VolOp = vop
  Ioqs <- MCIoqs
  Users <- TwoUsers
  Fqs <- MCFqs
  MIoqs <- TwoMIoqs
  Mutexes <- MCMutexes
  Fds <- TwoFds
  NCopies = 2
  DefExtend = 1
  MaxSectors = 3
  Calls <- MCCalls
  MaxCalls = 3
  Joins <- MCJoins
  MaxErrors = 1
  MaxVolOps = 1
  PosWrap = 16
INVARIANTS
  TypeOK
  Serialised
  PoolSound
PROPERTIES
  ReadsRight
  CallsEnd
CHECK_DEADLOCK FALSE
