\* The promise of README.md:184 for an argument that is a call, where no variable is alive.
SPECIFICATION Spec
CONSTANTS
  Vars = {}
  Idents = {"x"}
  Funcs = {"g", "h"}
  Callees = {"g", "h"}
  Arity <- MC_ArityCalls
  ArgCounts = {1, 2}
  Offsets = {0}
  Ops = {"SUB", "DIV"}
  UnaryOps = {"SUB"}
  FrameSlots = 1
  MaxNodes = 2
INVARIANTS CallReceivesItsArguments
CHECK_DEADLOCK FALSE
