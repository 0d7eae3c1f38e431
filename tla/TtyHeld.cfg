SPECIFICATION FairSpec
CONSTANTS
  Shell = 1
  Tasks = {2}
  RingSize = 2
  MaxKeys = 4
  Kinds = {"enter", "esc", "arrow"}
  ShellReads = TRUE
  Modes = {FALSE}

PROPERTIES KeysConsumed
CHECK_DEADLOCK FALSE
