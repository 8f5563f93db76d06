CONSTANTS
  v1 = v1
  v2 = v2
  Version = {v1, v2}
  Size <- Sizes
  MaxFaults = 4
  None = None
SPECIFICATION FairSpec
INVARIANTS
  TypeOK
  LandsWhole
  BooksMatchDisk
PROPERTIES
  LandedKept
  EventuallyLands
CHECK_DEADLOCK FALSE
