SPECIFICATION Spec
CONSTANTS
  MaxConns = 1
  MaxReqs = 2
  Window = 3
  Bodies = {"none", "lines"}
  Clients = {"library", "pipelining"}
  Servers = {"library", "foreign"}
  Limits = {1, 2}
  MaxTime = 1
INVARIANTS
  HandledAsSent
  ResultsJustified
  DeadlinesNest
PROPERTIES
  ClientReturns
CHECK_DEADLOCK FALSE
