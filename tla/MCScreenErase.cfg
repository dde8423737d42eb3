\* ED 2 leaves the rows it erases joined.
SPECIFICATION Spec
CONSTANTS
  Sizes <- MCSizes
  MaxHistory = 2
  Counts = {1, 3}
  Budgets <- MCErase
PROPERTY ErasedRowsStandAlone
CHECK_DEADLOCK FALSE
