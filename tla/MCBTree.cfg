CONSTANTS
  Keys = {1, 2, 3, 4, 5, 6}
  NoRid = 0
  MAX_KEYS = 2
  MaxInserts = 6
  MaxFaulty = 5
  MaxFaults = 2
SPECIFICATION Spec
CHECK_DEADLOCK FALSE
INVARIANTS TypeOK ChainOK NodesOK TreeOK
PROPERTY ImplementsMap
