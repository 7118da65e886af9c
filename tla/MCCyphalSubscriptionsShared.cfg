SPECIFICATION Spec
CONSTANTS
  b1 = b1
  b2 = b2
  b3 = b3
  b4 = b4
  None = None
  Blocks <- MCBlocks
  MaxSubs = 2
  Keys <- MCShared
PROPERTIES
  FreedIsUnlinked
CHECK_DEADLOCK FALSE
