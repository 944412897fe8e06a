SPECIFICATION Spec
CONSTANTS
  NHostifs = 3
  Rates = {"100g", "400g"}
  RateWidth <- MCRateWidth
  DefaultRate = "400g"
  Jobs = {1, 2}
  FaultPoints = {"init", "set", "cleanup"}
  MaxMoves = 3
  MaxTxns = 2
  MaxFaults = 1
  MaxGens = 3
CHECK_DEADLOCK FALSE
INVARIANTS HostConfigFits MonitorsExact OperFailsOnlyMidway
CONSTRAINT Regular
PROPERTIES SlotSettles
