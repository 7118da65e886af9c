SPECIFICATION RxSpec
CONSTANTS
  b1 = b1
  b2 = b2
  b3 = b3
  b4 = b4
  None = None
  Blocks <- MCBlocks
  MaxSubs = 2
  Keys <- MCDistinct
  FifoDepth = 2
  AccessFaults = TRUE
SYMMETRY BlockSymmetry
INVARIANTS
  TypeOK
  SlotsOwned
  TableMatchesRegistry
  RegisteredIsLive
  RxTypeOK
  PayloadIsPrivate
  HeapAccounted
PROPERTIES
  IsSubscriptionMap
