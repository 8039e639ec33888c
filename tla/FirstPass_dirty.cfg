SPECIFICATION Spec
CONSTANTS
  Programs <- MC_Programs
  MaxStatements = 3
INVARIANTS CallsMakeDirty
CHECK_DEADLOCK FALSE
