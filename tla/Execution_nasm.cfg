\* The README's example of a call, as nasm reads its labels.
SPECIFICATION ExecSpec
CONSTANTS
  Programs <- MC_ReadmeCall
  Statements <- MC_Statements
  Within <- MC_Within
  NameOrder <- MC_ReadmeOrder
  Values <- MC_Values
  MaxFrames = 3
  MaxBody = 0
  MaxCallee = 0
INVARIANTS CallsAssemble
CHECK_DEADLOCK FALSE
