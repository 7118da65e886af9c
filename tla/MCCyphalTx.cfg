SPECIFICATION FairSpec
CONSTANTS
  Capacity = 3
  TxqSize = 2
  MaxFrames = 2
  Interval = 3
  Lifetime = 2
  Period = 2
  AccessFaults = TRUE
INVARIANTS
  TypeOK
  HeartbeatExpiresOnlyOvertaken
  OneHeartbeatQueued

  
