CONSTANTS
  v1 = v1
  v2 = v2
  Version = {v1, v2}
  Size <- Sizes
  MaxFaults = 1
  None = None
SPECIFICATION FairSpec
PROPERTY LandedCloses
CHECK_DEADLOCK FALSE
