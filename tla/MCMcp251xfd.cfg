SPECIFICATION FairSpec
CONSTANTS
  SysEvents <- MCEvents
  FifoDepth = 2
  EarlyFrames = FALSE
  MaxArrivals = 5
  MaxFaults = 2
INVARIANTS
  TypeOK
  ListedWhileBound
PROPERTIES
  StalledOnlyByFault
  TaskReturns
  ServedOrStalled
