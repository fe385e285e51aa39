SPECIFICATION FairSpec
CONSTANTS
  Users = {u1, u2}
  MaxSessions = 3
  MaxFailures = 2
INVARIANTS
  NoStrayHelper
  OpenIsWatched
  TouchedIsTagged
PROPERTY SessionEndsWithVM
CHECK_DEADLOCK FALSE
