SPECIFICATION FairSpec

CONSTANTS
  c1 = c1
  c2 = c2
  c3 = c3
  Callers <- MCCallers
  Kind <- MCKind
  Length <- MCLength
  SegSize = 2
  ProtHeaderSize = 1
  OffsetModulus = 4
  Parts = 2
  SocketSize = 2
  MaxInterrupts = 1

CHECK_DEADLOCK FALSE

INVARIANTS
  MessageIntact

PROPERTIES
  EverythingArrives
