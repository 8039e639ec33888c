\* A return inside an if: the statements after it lose their Context.
SPECIFICATION ExecSpec
CONSTANTS
  Programs <- MC_EarlyReturns
  Statements <- MC_Statements
  Within <- MC_Within
  NameOrder <- MC_NameOrder
  Values <- MC_Values
  MaxFrames = 3
  MaxBody = 0
  MaxCallee = 0
INVARIANTS EarlyReturnsGenerate
CHECK_DEADLOCK FALSE
