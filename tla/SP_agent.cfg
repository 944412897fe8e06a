SPECIFICATION Spec
CONSTANTS
  Ifs = {1, 2}
  Columns <- MCColumns
  Frequency = 5
  MaxHw = 1
  MaxRestarts = 1
  MaxFaults = 1
  MaxWalks = 1
  None = None
CHECK_DEADLOCK FALSE
INVARIANTS NextIsSuccessor WalkComplete
PROPERTIES Registers TableFollows ShutdownEnds
