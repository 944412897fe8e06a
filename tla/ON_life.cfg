CONSTANTS
  None = None
  e1 = e1
  v1 = v1
  s1 = s1
  Ifs = {e1}
  Vids = {v1}
  Speeds = {s1}
  Targets <- MCTargets
  MaxTxns = 3
  MaxFaults = 1
  MaxCrashes = 1
  MaxResets = 1
SPECIFICATION Spec
CHECK_DEADLOCK FALSE
INVARIANTS DeviceFollows CandidateClean
PROPERTIES Recovers
