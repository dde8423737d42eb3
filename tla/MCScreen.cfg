\* Prints, edits and resizes on small screens.
SPECIFICATION Spec
CONSTANTS
  Sizes <- MCSizes
  MaxHistory = 2
  Counts = {1, 3}
  Budgets <- MCBudgets
INVARIANTS
  TypeOK
  RunReadsAsOneLine
PROPERTIES
  EditsKeepTo
  DamageCoversChange
  ResizeKeeps
CHECK_DEADLOCK FALSE
