SPECIFICATION FairSpec
CONSTANTS
  ByteBase = 2
  HeaderBytes = 2
  MaxPayload = 2
  BufferBytes = 3
  Payloads <- SmallPayloads
  RawBytes <- Junk
  MaxSends = 2
  Disconnects = TRUE
INVARIANTS
  BytesConserved
  
PROPERTIES
  AllDelivered
CHECK_DEADLOCK FALSE
