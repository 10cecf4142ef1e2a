SPECIFICATION FairSpec
CONSTANTS
  Fibers = {f1, f2}
  MaxOps = 2
  PoolSize = 2
  Abandoners = {f1}
INVARIANTS
  DataIsThere
  OwnAnswer
PROPERTIES
  OpsReturn
CHECK_DEADLOCK FALSE
