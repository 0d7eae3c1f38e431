SPECIFICATION FairSpec
CONSTANTS
  Shell = 1
  Tasks = {2}
  RingSize = 2
  MaxKeys = 3
  Kinds = {"enter", "esc", "arrow"}
  ShellReads = TRUE
  Modes = {TRUE, FALSE}
INVARIANTS
   Ownership StreamExact
PROPERTIES KeysConsumedOrHeld
CHECK_DEADLOCK FALSE
