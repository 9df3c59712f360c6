CONSTANTS
  Names = {"x", "y", "LENGTH"}
  Ints = {"1"}
  Strings = {"'s'"}
  TableColumns <- MCTableColumns
  Families <- MCFamilies
SPECIFICATION Spec
INVARIANTS ParsesTheGrammar BlamesTheToken PlanReadsBack
PROPERTY ErrorsStay
CHECK_DEADLOCK FALSE
