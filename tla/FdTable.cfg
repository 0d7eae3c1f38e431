INIT MCInit
NEXT MCNext
CONSTANTS
  Shell = sh
  Tasks = {sh, c1}
  Files = {f1, f2, f3}
  Pipes = {p1}
  NULL = NULL
  MaxFds = 3
  FirstFd = 1
  Parent = sh
  Sharers = {sh, d1, d2}
  Modes = {TRUE, FALSE}
  MaxDups = 1
SYMMETRY Symm
INVARIANTS
  CountsRight HeapRight RaceSafe
CHECK_DEADLOCK FALSE
