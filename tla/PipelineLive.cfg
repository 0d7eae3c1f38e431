SPECIFICATION FairSpec
CONSTANTS
  Tasks = {0, 1, 2, 3}
  Shell = 0
  Files = {1, 2, 3, 4, 5, 6, 7, 8, 9, 10}
  Pipes = {1, 2}
  NULL = NULL
  MaxFds = 10
  FirstFd = 3
  Plans <- LivePlans
  Size = 1
  MaxOut = 2
  BuiltinOut = 1
  MayFail = FALSE
  EarlyExit = FALSE
PROPERTY Returns
