CONSTANTS
  MaxId = 3
  MaxPending = 2
  Unsolicited = 1
  Faults = {}
SPECIFICATION Spec
INVARIANT
  CauseIsReported
