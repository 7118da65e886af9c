SPECIFICATION Spec
CONSTANTS
  SX1262 = SX1262
  SX1268 = SX1268
  None = None
  Radios <- MCRadios
  Lines <- MCLines
  Boards <- MCBoards
INVARIANTS
  TypeOK
  LinesAccounted
  InitializedIsWired
  ConfigLostOnlyBySharing
  BusIsShared
