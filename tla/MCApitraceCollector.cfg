SPECIFICATION FairSpec
CONSTANTS
  Procs = {p1, p2}
  None = None
  BufCap = 2
  MaxEvents = 4
  MaxFaults = 1
INVARIANTS
  GapsAreMarked
  PidsAreMirrored
PROPERTY StopEnds
CHECK_DEADLOCK FALSE
