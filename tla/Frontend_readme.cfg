\* The functions of the README's examples.
SPECIFICATION FrontSpec
CONSTANTS
  Texts <- MC_ReadmeTexts
  Letters <- MC_Letters
  Digits <- MC_Digits
  Blanks <- MC_Blanks
  Vectors <- MC_NoVectors
  MaxExpr = 0
  MaxText = 0
INVARIANTS ReadmeTextsParse
CHECK_DEADLOCK FALSE
