CONSTANTS
  Procs = {1, 2, 3}
  PageRows = 2
  MaxStmts = 4
  MaxFaults = 1
SPECIFICATION FairSpec
CHECK_DEADLOCK FALSE
INVARIANTS TypeOK OneCreator AckedAlonePersist NoDuplicates SelectsSeePrefix
PROPERTY QueriesFinish
