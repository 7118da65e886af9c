SPECIFICATION Spec
CONSTANTS
  p1 = p1
  p2 = p2
  NoPacket = NoPacket
  Packets <- MCPackets
  Damaged <- MCDamaged
  TxTimeout = 1
  VendorFaults = FALSE
PROPERTIES
  StatusOfMostRecentTx
