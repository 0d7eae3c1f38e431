SPECIFICATION SchedSpec
CONSTANTS
  N = 3
  Root = root
  Spaces = {root, s1, s2, s3}
  FsBases = {0, 1}
  NONE = NONE
  Faults = {{"load"}}
SYMMETRY Symm
INVARIANT OwnSpace
