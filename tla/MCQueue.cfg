SPECIFICATION FairSpec
CONSTANTS
  Producers = {p1, p2}
  Consumers = {c1, c2}
  NoLimit = NoLimit
  MaxDepth = 2
  SemMax = 1
  MaxPuts = 3
INVARIANTS
  TypeOK
  NoLostWakeup
  FifoExactlyOnce
PROPERTIES
  ImplementsBatchQueue
