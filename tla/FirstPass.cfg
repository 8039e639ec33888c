\* All programs of at most four of the statements of MCFirstPass.
SPECIFICATION FairSpec
CONSTANTS
  Programs <- MC_Programs
  MaxStatements = 4
INVARIANTS TypeOK IdsNameTypes LayoutFits FrameFits AcceptsExactly FramesMatchDeclarations
PROPERTIES InfoOnlyGrows Terminates
CHECK_DEADLOCK FALSE
