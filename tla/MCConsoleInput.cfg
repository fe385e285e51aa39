SPECIFICATION InputFairSpec
CONSTANTS
  Senders = {u1, u2}
  StdinCap = 1
  MaxHelpers = 3
  MaxCommands = 2
  MaxFaults = 2
INVARIANT OwnAck
PROPERTIES
  TypedInOrder
  InputReturns
CHECK_DEADLOCK FALSE
