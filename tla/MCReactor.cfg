SPECIFICATION FairSpec
CONSTANTS
  Tasks = {t1, t2, t3}
  N = 2
  MaxYields = 1
  SpawnAnytime = FALSE
  Outside = Outside
INVARIANTS
  TypeOK
  LiveTasksExact
  NoTaskStranded
PROPERTIES
  QuietAfterExit
  RunReturns
CHECK_DEADLOCK FALSE
