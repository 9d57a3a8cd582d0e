SPECIFICATION Spec
CONSTANTS
  Slots = 2
  MaxConnections = 2
  MaxRequests = 2
  Failing = {"setup", "native", "peer"}
INVARIANTS
  IdentitiesDistinct
  LapsedNeverExecutes
  StoppedMeansReleased
  ActiveExact
CHECK_DEADLOCK FALSE
