CONSTANTS
  MaxId = 3
  MaxPending = 2
  Unsolicited = 1
  Faults = {}
SPECIFICATION FairSpec
PROPERTIES
  OnlyStartedCallsEndSession
  ImplementsSession
  FuturesResolve
  WorkersStop
