SPECIFICATION FairSpec
CONSTANTS
  reader = reader
  writer = writer
  Operations = {reader, writer}
INVARIANTS
  StorageOutlivesKernel
  EventsOutliveCallback
  CausesTruthful
PROPERTY StopReturns
