SPECIFICATION Spec
CONSTANTS
  Threads = {t1, t2}
  Keys = {"a", "b", "c"}
  Vals = {"v", "w"}
  Hash <- MCHash
  InitCap = 1
  MaxPuts = 4
SYMMETRY ThreadSymmetry
INVARIANTS
  RefsExact
PROPERTIES
  ImplementsOrderedMap
