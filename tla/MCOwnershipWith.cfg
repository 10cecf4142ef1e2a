SPECIFICATION Spec
CONSTANTS
  Locals = {"f"}
  Param = "p"
  ParamKinds = {"borrow"}
  Stmts = {"new", "if", "endif", "with", "endwith", "return", "end"}
  Shapes = {"early"}
  MaxStmts = 4
  MaxIter = 2
INVARIANTS
  ExitsOnce
