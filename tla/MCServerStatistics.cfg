SPECIFICATION Spec
CONSTANTS
  Slots = 1
  MaxConnections = 1
  MaxRequests = 2
  Failing = {"peer"}
INVARIANT ProtocolFailuresTerminal
CHECK_DEADLOCK FALSE
