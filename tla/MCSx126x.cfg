SPECIFICATION FairSpec
CONSTANTS
  p1 = p1
  p2 = p2
  NoPacket = NoPacket
  Packets <- MCPackets
  Damaged <- MCDamaged
  TxTimeout = 2
  VendorFaults = TRUE
INVARIANTS
  TypeOK
  NoStuckTx
  TxIrqNotLost
PROPERTIES
  OkMeansSent
  TimeoutIsEarned
  StrandedOnlyBy
  RxLeftOnlyByTxEnd
  TxSessionSafe
  TxSessionLive
  RxIsMailbox
