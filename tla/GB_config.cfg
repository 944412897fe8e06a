SPECIFICATION Spec
CONSTANTS
  Nets = {"n1", "n2"}
  Hosts = {"h1"}
  Index <- MCIndex
  Conflicts <- MCConflicts
  Edits <- MCEdits
  GConfs <- MCGConfs
  MaxTxns = 2
  MaxSide = 2
  MaxFaults = 1
CHECK_DEADLOCK FALSE
INVARIANTS ConfiguredExists AttributesMatch MappingLive OperAnswersConfig
