CONSTANTS
  Task = {t1, t2}
  Left = Left
  None = None
  Kinds = {"delta"}
  MaxRestarts = 0
SPECIFICATION Spec
INVARIANT CleanupOwnsTarget
CHECK_DEADLOCK FALSE
