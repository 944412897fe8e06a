SPECIFICATION Spec
CONSTANTS
  Xcvrs <- MCXcvrs
  IfOf <- MCIfOf
  Mods <- MCMods
  Netifs <- MCNetifs
  TpOf <- MCTpOf
  Others <- MCOthers
  Modes <- MCModes
  OrIfs <- MCOrIfs
  Hardware <- MCHardware
  MaxCounter = 4
  IdRange = 2
  MaxEvents = 3
  MaxRequests = 1
  None = None
CHECK_DEADLOCK FALSE
INVARIANTS HierarchySound ChannelsSound AnsweredUnlessOdd
