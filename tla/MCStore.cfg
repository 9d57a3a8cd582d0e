SPECIFICATION Spec
CONSTANTS
  s1 = s1
  Sessions = {s1}
  MaxEpochs = 1
  FirstIdentifier = 1
  MaxIdentifier = 3
  ValueLimit = 2
  ObjectLimit = 2
  ByteLimit = 700
  RecordCharge = 128
  MaxStringBytes = 40
  PageBytes = 400
  MaxEntries = 3
  MaxMessageNodes = 9
  MaxObjectStateBytes = 200
  SizeModulus = 65536
  IntMax = 3
  Definitions <- StoreDefinitions
  PageSizes = {0, 3}
  Offered <- StoreOffered
INVARIANTS
  AccountingExact
  WithinQuotas
  PublishedStateMatches
PROPERTIES
  FailurePreservesState
  IncrementExact
CHECK_DEADLOCK FALSE
