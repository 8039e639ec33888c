SPECIFICATION Spec
CONSTANTS
  Programs <- MC_Programs
  MaxStatements = 3
INVARIANTS ParamsWhereCallsPutThem
CHECK_DEADLOCK FALSE
