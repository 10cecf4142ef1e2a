SPECIFICATION Spec
CONSTANTS
  Tasks = {t1, t2}
  Fds = {fd1}
  Handles = {h1}
  Yielders = {t1}
  Sleepers = {t1}
  MaxWaits = 1
  HasReactor = TRUE
  MayShutdown = TRUE
  NoSignal = NoSignal
  Sleep = Sleep
  NoTask = NoTask
INVARIANTS
  FiberInOnePlace
  RegisteredIffWaited
  ResultJustified
  NoStrandedWork
PROPERTIES
  ExitsDrained

CHECK_DEADLOCK FALSE
