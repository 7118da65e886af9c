SPECIFICATION FairSpec
CONSTANTS
  SysEvents <- MCEvents
  FifoDepth = 1
  EarlyFrames = TRUE
  MaxArrivals = 1
  MaxFaults = 0
PROPERTIES
  TaskReturns
