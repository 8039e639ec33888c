\* Short texts and programs with one character wrong; expressions of four tokens, longer
\* ones of operators; statements with one token wrong.
SPECIFICATION FrontSpec
CONSTANTS
  Texts <- MC_Texts
  Letters <- MC_Letters
  Digits <- MC_Digits
  Blanks <- MC_Blanks
  Vectors <- MC_Vectors
  MaxExpr = 4
  MaxText = 5
INVARIANTS FrontendTypeOK TokensTile StringsNeverEnd AcceptsExactly NothingIsLost PrecedenceKept OldOutputKept
PROPERTIES EveryStepAdvances FrontendEnds
CHECK_DEADLOCK FALSE
