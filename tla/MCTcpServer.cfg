SPECIFICATION FairSpec
CONSTANTS
  Conns = {k1, k2}
  Callers = {s1, s2, s3}
  Waiters = {s1}
  Dispatchers = {"inline", "thread", "pool"}
  WakeCap = 2
  RecvMax = 1
INVARIANTS
  TypeOK
  NoLostShutdown
PROPERTIES
  NoAcceptAfterShutdown
  ShutdownStops
  ShutdownReturns
  DispatchedIsSettled
CHECK_DEADLOCK FALSE
