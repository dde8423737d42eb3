\* The viewport under output, scrolls, jumps and resizes in every order; the
\* synchronized-output gate, its budget and both event queues; resizes arrive
\* and all output is shown.
SPECIFICATION FairSpec
CONSTANTS
  Sessions <- MCSessions
  Heights = {1, 2}
  Start = 2
  Wheel <- MCWheel
  Jumps = {"back", "forward"}
  Budget = 2
  QueueCap = 2
  MaxScrollback = 3
  PromptRows = {1, 3}
  MaxEvents = 2
CHECK_DEADLOCK FALSE
INVARIANTS
  TypeOK
  FrameIsCurrent
  EventsInOrder
PROPERTIES
  ViewFollows
  HalfDrawnOnlyOnBudget
  PumpServes
