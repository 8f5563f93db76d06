CONSTANTS
  Task = {t1, t2}
  Left = Left
  None = None
  Kinds = {"tensor", "delta"}
  MaxRestarts = 1
SPECIFICATION FairSpec
INVARIANTS
  TypeOK
  NeverLost
  OneWriterPerTarget
  WriterKeepsTmp
  RestoredIntact
  NoStrayTmp
PROPERTIES
  EveryTaskReports
CHECK_DEADLOCK FALSE
