CONSTANTS
  None = None
  BITS = 2
  INT_SIZE = 2
  LEN_SIZE = 1
  COUNT_SIZE = 1
  META_ROOM = 18
  Schemas <- MCSchemas
  Inserts <- MCInserts
SPECIFICATION Spec
CHECK_DEADLOCK FALSE
INVARIANT StoresEveryValue
