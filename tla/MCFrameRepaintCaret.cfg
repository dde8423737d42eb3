\* A cursor that moves within its row, or is hidden, leaves the old caret painted.
SPECIFICATION Spec
CONSTANTS
  a = a
  b = b
  Content <- MCContent
  MaxRows = 2
  Setups <- MCOneSetup
INVARIANT CaretIsFullRedraw
