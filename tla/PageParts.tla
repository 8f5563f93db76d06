------------------------------ MODULE PageParts ------------------------------
(***************************************************************************)
(* The parts of the page about what comes and goes, and about what is done *)
(* with the models that are listed: the download list and the form, the    *)
(* plan of a download, the two kinds of upload; choosing, deleting and     *)
(* cleaning up, the questions about ZipNN, and the canvas.  MCPage runs    *)
(* them with its other parts.                                              *)
(***************************************************************************)
EXTENDS Integers, Sequences, FiniteSets

CONSTANTS
  Tasks, MaxUpsets, MaxMail,
  Phrases, Repos, Pages, Links, Targets, SubFolders, Blank, MaxAsked, MaxSearches, MaxResolves, MaxKept,
  Versions, TypeOf, HubOf, Tokens, Route, None,
  Own, Other, MaxInbox, Nobody,
  Hubs, FirstHub, Wares, CardWare, MaxPrefills,
  Kinds, Dirs, Uploads, MaxChunks, Old,
  Node, Folder, Parent, Loop, Nothing,
  Loose, Squeezed, Directory, TypeRoot, Named, Up, MaxTicked,
  Folders, Files, Model, Sidecar, FolderOf, Stem, Owners, NoFolder, MaxScans, MaxChanges,
  Plain, Packed, Delta, Batch, Extended,
  Path, PathType, NodeKind, Widgets, DropKind, ClickKind, MaxNodes

VARIABLES
  \* the state of the part whose behaviour it is, a variable for each of its own
  c1, c2, c3, c4, c5, c6, c7, c8, c9, c10, c11, c12, c13, c14, c15, c16, c17, c18

Rows == INSTANCE DownloadList WITH
  local <- c1, rows <- c2, running <- c3, deleting <- c4, inbox <- c5, taskList <- c6,
  reads <- c7, online <- c8, drops <- c9, prompts <- c10, prompting <- c11,
  asked <- c12, byPrompt <- c13, held <- c14, behind <- c15, missed <- c16,
  stray <- c17

Form == INSTANCE SearchForm WITH
  field <- c1, timer <- c2, searchSeq <- c3, searches <- c4, results <- c5,
  searchLoading <- c6, searchedQuery <- c7, paging <- c8, resolveSeq <- c9,
  resolves <- c10, found <- c11, selectedType <- c12, customFolder <- c13,
  attempted <- c14, sent <- c15, mixed <- c16, form <- c17, kept <- c18

Plan == INSTANCE DownloadPlan WITH
  data <- c1, model <- c2, free <- c3, asked <- c4, status <- c5, accounts <- c6,
  mixed <- c7

Bar == INSTANCE HubUpload WITH
  upload <- c1, posts <- c2, toPage <- c3, hubTask <- c4, active <- c5, finished <- c6,
  foreign <- c7, lost <- c8

Guide == INSTANCE HubWizard WITH
  opened <- c1, wizard <- c2, ware <- c3, path <- c4, typed <- c5, hub <- c6,
  account <- c7, whoami <- c8, prefills <- c9

Send == INSTANCE LocalUpload WITH
  wizard <- c1, kind <- c2, folder <- c3, up <- c4, tmp <- c5, file <- c6, data <- c7,
  records <- c8, overlapped <- c9, crashed <- c10

Pick == INSTANCE Selection WITH
  files <- c1, tree <- c2, enabled <- c3, selected <- c4, options <- c5, todo <- c6,
  step <- c7, agreed <- c8, crossed <- c9

Batches == INSTANCE BatchBar WITH
  Plain <- Loose, Packed <- Squeezed, Folder <- Directory,
  tree <- c1, ticked <- c2, asked <- c3, window <- c4, did <- c5

Broom == INSTANCE Hygiene WITH
  Folder <- FolderOf,
  disk <- c1, shown <- c2, scans <- c3, scanning <- c4, picked <- c5, asked <- c6,
  todo <- c7, found <- c8, changes <- c9, stale <- c10, spoilt <- c11

Ask == INSTANCE ZipnnConfirm WITH
  Folder <- Batch,
  options <- c1, epoch <- c2, settled <- c3, inspects <- c4, running <- c5,
  displaced <- c6

Canvas == INSTANCE CanvasDrop WITH
  TypeOf <- PathType, canvas <- c1, selected <- c2, odd <- c3

ASSUME PartsAssumption ==
  /\ Rows!ListAssumption /\ Form!FormAssumption /\ Plan!PlanAssumption
  /\ Bar!HubAssumption /\ Guide!WizardAssumption /\ Send!UploadAssumption
  /\ Pick!SelectionAssumption /\ Batches!BarAssumption /\ Broom!HygieneAssumption
  /\ Ask!ConfirmAssumption /\ Canvas!DropAssumption
==============================================================================
