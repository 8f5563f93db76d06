CONSTANTS
  Task = {t1, t2}
  Run = {r1, r2}
  Path = {p1}
  Hashed = {t1}
  Deletable = {t1}
  None = None
SPECIFICATION Spec
SYMMETRY RunSymmetry
INVARIANTS
  TypeOK
  SingleWriter
  VerifiedIntact
  IntactUnlessRemoved
  RowsAreTrue
PROPERTIES
  LibraryKept
