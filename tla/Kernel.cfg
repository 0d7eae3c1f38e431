INIT Init
NEXT Next
CONSTANTS
  MaxFrames = 7
  Usable = {1, 2, 4, 5, 6}
  Tasks = {t1, t2}
  Modes = {TRUE, FALSE}
  MaxRun = 2
  MaxDrift = 1
  Page = 12
  Header = 3
  Align = 2
  MaxPages = 3
  MaxArena = 4
  Sizes = {0, 3, 8, 10}
  Stale = {0}
  Slots = {u1, u2}
  Frames = {f1, f2, f3, f4, f5, f6, f7, f8}
  Span = 4
  LastPage = 5
  ImageEnd = 2
  MmapStart = 2
  StackStart = 3
  StackEnd = 4
  MaxLen = 2
  MaxCalls = 4
  N = 3
  Root = root
  Spaces = {root, s1, s2, s3}
  FsBases = {0, 1}
  NONE = NONE
  Faults = {{}, {"load", "leave"}}
  Exes <- MCExes
  SegPage = 3
  UserPages = 3
  RamFrames = {1, 2, 3}
  StackPage = 96
  MaxArgv = 3
  MaxArgc = 3
  Lengths = {0, 1, 7, 8, 15}
SYMMETRY Symm
INVARIANTS
  FramesExact   Tiled Separate PagesRight
  TableRight FsFollowsTask SwitchSafe ImageExact ArgsExact
PROPERTIES LosesNothing
CHECK_DEADLOCK FALSE
