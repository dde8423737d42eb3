\* A pump stuck in a reply keeps the shutdown from returning.
SPECIFICATION ShutdownFairSpec
CONSTANTS
  OutCap = 2
  InCap = 2
  Helpers = FALSE
CHECK_DEADLOCK FALSE
PROPERTY ShutdownReturns
