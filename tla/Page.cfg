CONSTANTS
  Parts = {"windows", "selection", "batches", "hygiene", "confirm", "list", "form",
           "plan", "bar", "guide", "upload", "key", "sizes", "stars", "canvas"}
  manager = manager
  task = task
  f = f
  z = z
  a = a
  m1 = m1
  n1 = n1
  n2 = n2
  v1 = v1
  v2 = v2
  v3 = v3
  b1 = b1
  b2 = b2
  hf = hf
  k1 = k1
  p1 = p1
  p2 = p2
  o1 = o1
  o2 = o2
  r0 = r0
  g1 = g1
  g2 = g2
  Key = {manager, task}
  KeepAlive = {manager}
  MinSize <- MCSize
  DefaultSize <- MCSize
  Viewports = {2, 4, 6}
  Grips = {4}
  Pointer = {0, 4}
  Breakpoint = 3
  NoWindow = NoWindow
  Node = {f, a}
  Folder = {f}
  Parent <- MCParent
  Loop = {l1, l2}
  Nothing = Nothing
  Folders = {f}
  Files = {m1, n1, n2}
  Model = {m1}
  Sidecar = {n1, n2}
  FolderOf <- MCFolderOf
  Stem <- MCStem
  Owners <- MCOwners
  NoFolder = NoFolder
  MaxScans = 2
  MaxChanges = 1
  Plain = {m1, m2}
  Packed = {m3}
  Delta = {m4}
  Batch = {f}
  Extended = {m1}
  MaxAsked = 3
  MaxSearches = 2
  MaxResolves = 2
  MaxKept = 1
  Tasks = {r1}
  MaxUpsets = 1
  MaxMail = 2
  Phrases = {x1, x2}
  Repos = {x2}
  Pages = {u1}
  Links = {h1, h2}
  Targets = {q1, q2}
  SubFolders = {g1}
  Loose = {a, f}
  Squeezed = {z}
  Directory = {r0, g1, g2}
  TypeRoot = {r0}
  Named = {g2}
  Up <- MCUp
  MaxTicked = 2
  Legacy = Legacy
  Starred = r0
  Path = {a, f, g1}
  PathType <- MCPathType
  NodeKind = {r0, g1, g2}
  Widgets <- MCWidgets
  DropKind <- MCDropKind
  ClickKind <- MCClickKind
  MaxNodes = 3
  Blank = Blank
  Versions = {v1, v2, v3}
  TypeOf <- MCTypeOf
  HubOf <- MCHubOf
  Tokens = {hf}
  Route = b2
  None = None
  Own = {o1, o2}
  Other = {e1}
  MaxInbox = 3
  Nobody = Nobody
  Hubs = {hf, ms}
  FirstHub = hf
  Wares = {m1, m2}
  CardWare = m1
  MaxPrefills = 2
  Kinds = {k1}
  Dirs <- MCDirs
  Uploads = {u1, u2}
  MaxChunks = 1
  Old = Old
  Keys = {k1, k2}
  FromEnv = k1
  MaxPosts = 3
  Presets = {p1, p2}
  Custom = Custom
  Sizes = {o1, o2}
  DefaultSizes <- MCDefaultSizes
  CustomSize = o1
  Sorts = {s1, s2}
  FirstSort = s1
  Junk = Junk
  Closed = Closed
SPECIFICATION Spec
INVARIANTS TypeOK InView AgreedOnly ListIsTrue FormIsTrue UploadsAreTrue
           SettingsHold
PROPERTIES SubmitsTheField
CHECK_DEADLOCK FALSE
