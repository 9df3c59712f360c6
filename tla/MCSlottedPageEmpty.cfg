CONSTANTS
  PAGE_SIZE = 20
  HEADER_SIZE = 4
  SLOT_SIZE = 4
  Byte <- MCBytes
  Records <- MCEmptyRecord
  Dead = Dead
  None = None
SPECIFICATION Spec
PROPERTY ImplementsHeapPage
