CONSTANTS
  Task = {t1}
  Run = {r1, r2}
  Path = {p1}
  Hashed = {}
  Deletable = {t1}
  None = None
SPECIFICATION FairSpec
PROPERTIES
  KeepsPromise
  DoingResolves
