SPECIFICATION FairSpec
CONSTANTS
  Slots = 2
  MaxConnections = 2
  MaxRequests = 2
  Failing = {"setup"}
PROPERTIES
  ShutdownDrains
  RequestEnds
  SlotRecycled
CHECK_DEADLOCK FALSE
