SPECIFICATION FairStreamSpec
CONSTANTS
  Writers = {t1, t2}
  MaxWrites = 2
  MaxAttempts = 2
  MaxDels = 2
  None = None
INVARIANTS
  OutputInOrder
PROPERTIES
  DelEnds
CHECK_DEADLOCK FALSE
