SPECIFICATION SchedFairSpec
CONSTANTS
  N = 3
  Root = root
  Spaces = {root, s1, s2, s3}
  FsBases = {0}
  NONE = NONE
  Faults = {{}}
PROPERTY EveryTaskRuns
