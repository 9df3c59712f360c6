CONSTANTS
  Procs = {1, 2}
  PageRows = 2
  MaxStmts = 4
  MaxFaults = 0
SPECIFICATION Spec
CHECK_DEADLOCK FALSE
INVARIANT AckedPersist
