SPECIFICATION Spec
CONSTANTS
  s1 = s1  s2 = s2  k1 = k1  k2 = k2  u1 = u1
  v1 = v1  absent = absent  default = default
  Server <- MCServer
  Key <- MCKey
  Unsupported = {u1}
  Value <- MCValue
  Absent = absent
  Default = default
  Defaulted = {k1, k2}
  Inputs <- MCPairs
  MaxTx = 1
  MaxCrash = 0
  SlowPeers = TRUE
  RevertMayRaise = FALSE
  PostMayRaise = FALSE
  ConfigDuringStart = FALSE
CHECK_DEADLOCK FALSE
INVARIANT QuietServerInSync
