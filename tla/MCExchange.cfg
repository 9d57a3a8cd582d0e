SPECIFICATION ExchangeSpec
CONSTANTS
  s1 = s1
  s2 = s2
  Sessions = {s1, s2}
  Reader = s1
  MaxEpochs = 1
  FirstIdentifier = 1
  MaxIdentifier = 3
  ValueLimit = 3
  ObjectLimit = 1
  ByteLimit = 700
  RecordCharge = 4
  MaxStringBytes = 10
  PageBytes = 14
  MaxPayloadBytes = 28
  MaxNameBytes = 1
  MaxUnknowns = 2
  NodeBytes = 2
  MaxEntries = 3
  MaxMessageNodes = 9
  MaxObjectStateBytes = 14
  SizeModulus = 65536
  IntMax = 3
  Definitions <- ExchangeDefinitions
  PageSizes = {1, 3}
  Offered <- ExchangeOffered
  Requests <- ExchangeRequests
  Foreign <- ExchangeForeign
INVARIANTS
  WalkExact
  AnswersFit
  WireFaithful
  RejectionExact
  SessionsIsolated
PROPERTIES
  NeverReissued
CHECK_DEADLOCK FALSE
