SPECIFICATION FairSpec
CONSTANTS
  r1 = r1  r2 = r2  i1 = i1  i2 = i2  l1 = l1  l2 = l2  v1 = v1  v2 = v2  none = none
  Request = {r1}
  Sid = {i1, i2}
  Leaf = {l1, l2}
  Value = {v1, v2}
  None = none
  Paths <- MCPaths
  Configs <- Everything
  UpdateInterval = 2
  Faults = {"abort", "start", "sample", "crash", "amend"}
  MaxTx = 2
  MaxChange = 1
  MaxFault = 1
  MaxOut = 1
  MaxAge = 5
CHECK_DEADLOCK FALSE
INVARIANTS FeedConsistent NoRepeats FeedsMatchConfig SilenceBounded
PROPERTIES SampleComplete CollectorsCatchUp
