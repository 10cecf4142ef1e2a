SPECIFICATION FairSpec
CONSTANTS
  Tasks = {t1, t2}
  Fds = {fd1}
  Handles = {h1}
  Yielders = {}
  Sleepers = {t2}
  MaxWaits = 1
  HasReactor = TRUE
  MayShutdown = FALSE
  NoSignal = NoSignal
  Sleep = Sleep
  NoTask = NoTask
PROPERTIES
  BoundedWaitsEnd
  ReadinessServed
CHECK_DEADLOCK FALSE
