CONSTANTS
  Procs = {p, q}
  None = None
  Args <- MCArgs
  Base <- MCBase
  Cwds <- MCCwds
  Fields <- MCFields
  Contents <- MCContents
  MaxCmds = 4
  MaxFaults = 1
SPECIFICATION Spec
INVARIANTS TypeOK OneInit AckedOpens OpenHonest
PROPERTY NothingLost
CHECK_DEADLOCK FALSE
