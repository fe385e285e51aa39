SPECIFICATION Spec
CONSTANTS
  Pids = {1, 2}
  MaxMaps = 2
INVARIANT RemapIsReported
CHECK_DEADLOCK FALSE
