SPECIFICATION FairGnmiSpec
CONSTANTS
  r1 = r1  r2 = r2  i1 = i1  l1 = l1  v1 = v1  v2 = v2  none = none
  Request = {r1, r2}
  Sid = {i1}
  Leaf = {l1}
  Value = {v1}
  None = none
  Paths <- MCPaths
  Configs <- MCConfigs
  Asks <- MCAsks
  UpdateInterval = 1
  Faults = {"start", "sample", "crash", "giveup"}
  MaxTx = 4
  MaxChange = 1
  MaxFault = 1
  MaxOut = 1
  MaxAge = 0
  MaxPoll = 1
CHECK_DEADLOCK FALSE
INVARIANTS AnswersConsistent NothingLeft
PROPERTIES AnswersComplete CallsEndIfServed
