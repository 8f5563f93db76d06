CONSTANTS
  Parts = {"store", "views", "editor", "gallery", "lightbox", "tensors", "watcher",
           "saved"}
  i1 = i1
  i2 = i2
  i3 = i3
  k1 = k1
  s1 = s1
  n1 = n1
  n2 = n2
  y1 = y1
  y2 = y2
  y3 = y3
  y4 = y4
  b1 = b1
  b2 = b2
  z1 = z1
  z2 = z2
  Types = {t1}
  CardType = t1
  MaxChanges = 2
  MaxScans = 2
  Sweeps = {w1}
  None = None
  ModelTypes = {b1, b2}
  Library <- MCLibrary
  Order <- MCOrder
  Queries <- MCQueries
  Collections <- MCCollections
  MaxColumns = 2
  All = All
  Top = Top
  Off = Off
  Kinds = {k1, k2}
  Roots = 2
  Segments = {s1}
  Names = {n1, n2}
  Notes = {d1, d2}
  Home <- MCHome
  Taken <- MCTaken
  NoNotes = NoNotes
  Saved <- MCSaved
  Local = {j1, j2}
  Galleries <- MCGalleries
  MaxAsked = 3
  Lists <- MCLists
  Tables <- MCTables
  Page = 1
  Empty = Empty
  Unnamed = Unnamed
  NoTable = NoTable
  Models = {i1, i2, i3}
  TypeOf <- MCTypeOf
  Tokens = {y1, y2, y3, y4}
  In <- MCIn
  Wild = {y3}
  Slashed = {y4}
  Texts = {{}, {y1, y2}, {y3}, {y4}}
  MaxSaved = 2
  Volumes = {z1, z2}
  Files = {y1, y2, y3}
  RootOf <- MCRootOf
  ClaimedBy <- MCClaimedBy
  MaxEvents = 6
  NoHandle = NoHandle
SPECIFICATION Spec
INVARIANTS TypeOK ShownIsCurrent OverlayComesDown ViewsAreTrue WindowIsTrue WatcherIsTrue
PROPERTIES NeverBackInTime SavesWhatIsShown
CHECK_DEADLOCK FALSE
