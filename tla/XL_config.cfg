SPECIFICATION Spec
CONSTANTS
  Modules <- MCModules
  HostOf <- MCHostOf
  Nets <- MCNets
  PortMap <- MCPortMap
  Modes <- MCModes
  Otsi <- MCOtsi
  Eths <- MCEths
  Requests <- MCRequests
  Envs <- MCEnvs
  MaxTxns = 3
  MaxUpsets = 1
  Unset = Unset
  Unresolved = Unresolved
  NativeClient = NativeClient
CHECK_DEADLOCK FALSE
INVARIANTS ConfiguredInForce PortReachesBothEnds
PROPERTIES EnabledEnforced
