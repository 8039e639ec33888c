\* Right and wrong programs of a function and main, nested twice, compiled; supported
\* programs of three functions and main, compiled and run.
SPECIFICATION ExecSpec
CONSTANTS
  Programs <- MC_Programs
  Statements <- MC_Statements
  Within <- MC_Within
  NameOrder <- MC_NameOrder
  Values <- MC_Values
  MaxFrames = 4
  MaxBody = 2
  MaxCallee = 2
INVARIANTS
  TypeOK LabelsUnique JumpsLand StaysDefined StoresStayInFrame
  SupportedGenerates ContextIsTheFunctions ReturnsBalanced
PROPERTIES GenerationEnds ImplementsSource
CHECK_DEADLOCK FALSE
