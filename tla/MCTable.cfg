CONSTANTS
  Keys = {1, 2}
  Null = Null
  Dead = Dead
  NoRid = NoRid
  MaxInserts = 3
  MaxEdits = 2
  MaxFaults = 2
SPECIFICATION Spec
CHECK_DEADLOCK FALSE
INVARIANTS TypeOK Openable EntriesHonest FindsNewest
