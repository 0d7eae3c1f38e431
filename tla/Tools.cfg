INIT Init
NEXT Next
CONSTANTS
  Names = {"a", "b"}
  Nodes = {n0, n1, n2, n3}
  RootNode = n0
  NoNode = NoNode
  Openers = {o1}
  MaxPath = 2
  Writers = {w1, w2}
  Bytes = {"x"}
  OpenModes = {"r", "w"}
  FirstCap = 2
  MaxBytes = 3
  Entries <- MCEntries
  TarBlock = 2
  MaxEntries = 3
  WholeNames <- MCNames
  CwdSize = 5
  MaxSegs = 3
  MaxArg = 2
  Keys = {"w", "2", " ", "|", ">"}
  LineMax = 7
  MaxStages = 2
  MaxArgs = 2
  Cols = 2
  Rows = 2
  HistRows = 3
  TabStop = 4
  Num <- MCNum
  Outputs <- MCOutputs
  MaxOutputs = 4
  KeysUsed = {"LShift", "RShift", "Ctrl", "RCtrl", "Caps", "a"}
  MaxPort = 3
  Users = {"ann", "bob"}
  Root = "root"
  Programs = {p1, p2}
  Uids = {1001}
  MinUid = 1000
  Atoi <- MCAtoi
  MaxLines = 3
  MaxAlone = 3
  MaxTogether = 2
  Atoms = {"a", "."}
  Letters = {"a", "b"}
  Quantifiers <- MCQuantifiers
  MaxPattern = 2
  MaxText = 3
  MaxLinesIn = 5
  Contexts = {0, 1, 3}
  CtxMax = 2
INVARIANTS
  NamesExact ListingExact FileExact AppendsAtEnd RootfsExact PathsExact 
  ShownExact HistoryRight   SearchExact 
CHECK_DEADLOCK FALSE
