CONSTANTS
  Batches = 2
  Single = {s1}
  Foreign = {}
  Faults = {}
  None = None
SPECIFICATION FairSpec
PROPERTY QueueDrains
CHECK_DEADLOCK FALSE
