CONSTANTS
  Inputs <- MCInputs
  MaxInt = 11
SPECIFICATION Spec
INVARIANTS NeverPanics LongestMatch BlamesTheByte
PROPERTY Returns
CHECK_DEADLOCK FALSE
