SPECIFICATION FairSpec
CONSTANTS
  Size = 2
  Total = 4
  MaxCount = 3
  Modes = {TRUE, FALSE}
INVARIANTS
  BytesExact
PROPERTIES ImplementsFifo 
CHECK_DEADLOCK FALSE
