SPECIFICATION FairSpec
CONSTANTS
  Unset = Unset
  Broken = Broken
  None = None
PROPERTY
  MenuReturns
