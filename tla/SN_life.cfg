SPECIFICATION Spec
CONSTANTS
  Parents = {"e1", "e2"}
  Subs <- MCSubs
  Vids = {"v1"}
  Pids = {"p1"}
  Requests <- MCRequests
  MaxTxns = 3
  MaxLinks = 2
  Flapping = {"e1"}
  MaxCrashes = 1
  MaxFaults = 1
  None = None
CHECK_DEADLOCK FALSE
INVARIANTS SonicInForce UfdHolds
PROPERTIES RebootEnds
