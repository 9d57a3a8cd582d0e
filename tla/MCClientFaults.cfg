CONSTANTS
  MaxId = 3
  MaxPending = 2
  Unsolicited = 1
  Faults = {"threads", "opener", "io", "leave", "forge"}
SPECIFICATION Spec
INVARIANTS
  NoForgottenPromise
  QueueMatchesPending
  NoLostWakeup
PROPERTIES
  LateResponseFails
