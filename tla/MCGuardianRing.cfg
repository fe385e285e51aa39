SPECIFICATION RingFairSpec
CONSTANTS
  Cap = 3
  Page = 2
  MaxEvents = 10
  MaxErrors = 2
INVARIANTS
  InOrderOnce
  OnlyOverwrittenIsLost
PROPERTY CatchesUp
CHECK_DEADLOCK FALSE
