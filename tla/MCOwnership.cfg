SPECIFICATION Spec
CONSTANTS
  Locals = {"f"}
  Param = "p"
  ParamKinds = {"borrow", "copy"}
  Stmts = {"new", "alias", "del", "move", "drop", "defer", "if", "else", "endif", "while", "endwhile", "with", "endwith", "break", "continue", "return", "end"}
  Shapes = {}
  MaxStmts = 4
  MaxIter = 2
INVARIANTS
  CleanRun
  Balanced
  ExitsOnce
