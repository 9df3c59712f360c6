CONSTANTS
  None = None
  Columns <- MCColumns
  Tables <- MCTables
  Exprs <- MCExprs
  Statements <- MCStatements
SPECIFICATION FairSpec
CHECK_DEADLOCK FALSE
INVARIANTS NeverPanics AnswersSelect AsksNoMore
PROPERTY Finishes
