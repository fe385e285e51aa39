SPECIFICATION FairSpec
CONSTANTS
  Pids = {1, 2, 3}
  ProcCap = 2
  ProtectCap = 3
  MaxBorn = 3
  MaxAgents = 1
INVARIANTS
  TargetsAreTheTree
  PlacedOnce
PROPERTY SysmonIsProtected
CHECK_DEADLOCK FALSE
