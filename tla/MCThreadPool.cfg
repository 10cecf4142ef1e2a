SPECIFICATION FairSpec
CONSTANTS
  Jobs = {j1, j2, j3}
  Closers = {c1}
  Waiters = {c1}
  Size = 2
  MaxDepth = 2
  NoLimit = NoLimit
  TicketMod = 2
  None = None
INVARIANTS
  FifoPerWorker
  JoinMeansDone
PROPERTIES
  AcceptedJobsRun
  ShutdownReturns
CHECK_DEADLOCK FALSE
