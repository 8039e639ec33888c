\* Deeper trees over one operator of each of the two code shapes, with calls of
\* no argument to one more than there are registers.
SPECIFICATION Spec
CONSTANTS
  Vars = {"x"}
  Idents = {"x"}
  Funcs = {"f", "g", "h", "six", "many"}
  Callees = {"f", "g", "h", "six", "many"}
  Arity <- MC_ArityDeep
  ArgCounts = {0, 1, 2, 6, 7}
  Offsets = {0}
  Ops = {"SUB", "DIV"}
  UnaryOps = {"SUB"}
  FrameSlots = 1
  MaxNodes = 4
INVARIANTS CleanInv DispTracksStack ExprCorrect FrameKept CleanCallReceivesItsArguments
CHECK_DEADLOCK FALSE
