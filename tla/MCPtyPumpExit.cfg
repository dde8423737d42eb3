\* A child that leaves with a batch open takes its last output along.
SPECIFICATION Spec
CONSTANTS
  Sessions <- MCExit
  Heights = {1}
  Start = 1
  Wheel <- MCNone
  Jumps = {}
  Budget = 2
  QueueCap = 1
  MaxScrollback = 1
  PromptRows = {}
  MaxEvents = 1
CHECK_DEADLOCK FALSE
INVARIANTS
  LastOutputShown
