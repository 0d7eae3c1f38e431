SPECIFICATION Spec
CONSTANTS
  Size = 2
  Total = 3
  MaxCount = 2
  Modes = {TRUE}
INVARIANT InOrder
CHECK_DEADLOCK FALSE
