\* Every operator on every pair of words of five bits.
SPECIFICATION Spec
CONSTANTS
  Half = 16
  Bytes = 4
  Left <- MC_Words
  Right <- MC_Words
  Before <- MC_Before
INVARIANTS ResultIsRight TrapsOnlyWhereItMust
CHECK_DEADLOCK FALSE
