SPECIFICATION FairSpec
CONSTANTS
  Fields <- MCFields
  Width = 2
  MaxArg = 2
  ResetSet <- MCResetSet
  None = None
INVARIANTS
  TypeOK
  OneShotHeals
PROPERTIES
  ReadingFitsSettings
  ReadReturns
