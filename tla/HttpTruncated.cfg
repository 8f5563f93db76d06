CONSTANTS
  v1 = v1
  v2 = v2
  Version = {v1, v2}
  Size <- Sizes
  MaxFaults = 3
  None = None
SPECIFICATION FairSpec
INVARIANT NeverTruncated
CHECK_DEADLOCK FALSE
