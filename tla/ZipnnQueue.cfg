CONSTANTS
  Batches = 2
  Single = {s1}
  Foreign = {f1}
  Faults = {"unresolved", "disconnect", "restart"}
  None = None
SPECIFICATION FairSpec
INVARIANTS
  TypeOK
  TasksKeptApart
  InOrder
PROPERTIES
  DrainsUnlessBroken
CHECK_DEADLOCK FALSE
