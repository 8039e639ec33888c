\* Every production, every operator, all kinds of failure; small trees.
SPECIFICATION Spec
CONSTANTS
  Vars = {"x", "y"}
  Idents = {"x", "y", "unknown"}
  Funcs = {"f", "g"}
  Callees = {"f", "g", "unknown"}
  Arity <- MC_AritySmall
  ArgCounts = {0, 1}
  Offsets = {0, 8}
  Ops = {"EQ", "NEQ", "LT", "LTE", "GT", "GTE", "ADD", "SUB", "MUL", "DIV", "MOD"}
  UnaryOps = {"SUB", "NOT"}
  FrameSlots = 2
  MaxNodes = 2
INVARIANTS CleanInv TypeOK DispTracksStack ExprCorrect FrameKept CleanCallReceivesItsArguments
CHECK_DEADLOCK FALSE
