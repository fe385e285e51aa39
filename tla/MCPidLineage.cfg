SPECIFICATION Spec
CONSTANTS
  p1 = p1
  p2 = p2
  p3 = p3
  Pids <- MCPids
  MaxBorn = 4
  MaxLost = 1
  Slack = 2
SYMMETRY PidSymmetry
INVARIANTS
  NoOutsider
  FamilyInScope
  LaterHoldersStayOut
CHECK_DEADLOCK FALSE
