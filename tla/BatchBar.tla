-------------------------------- MODULE BatchBar --------------------------------
(***************************************************************************)
(* What the selection bar and the corner button of a card do with folders  *)
(* and with pairs of models: the batch a question is asked about           *)
(* (hooks/folderSelection.ts, CardCornerControls.vue, the direction of     *)
(* utils/model.ts), and the delta of two models (hooks/zipnnDelta.ts,      *)
(* DialogZipnnDelta.vue).  The library is scanned again at any moment,     *)
(* also under an open question.                                            *)
(***************************************************************************)
EXTENDS Naturals, FiniteSets, SelectionState

CONSTANTS
  Plain, Packed,  \* files: models, and compressed models or deltas
  Folder,
  TypeRoot,       \* the folders of the library's top level, always listed
  Named,          \* folders with the name of a bundle
  Up,             \* the folder each node lies in
  MaxTicked,      \* bounds what is selected at a time
  Nothing

Entry == Plain \cup Packed \cup Folder

BarAssumption ==
  /\ TypeRoot \cup Named \subseteq Folder
  /\ Up \in [Entry \ TypeRoot -> Folder] /\ MaxTicked \in Nat

VARIABLES
  tree,     \* dataTreeList: the nodes that are listed
  ticked,   \* selectionState: what is selected, with its kind
  asked,    \* the open question about a batch
  window,   \* the open delta window: models and baseIndex
  did       \* history: what the last step has started

barVars == <<tree, ticked, asked, window, did>>

-----------------------------------------------------------------------------
\* What lies below a folder, as long as its folders are listed.
Beneath(f, t) ==
  LET down[i \in 0..Cardinality(Folder)] ==
        IF i = 0 THEN {f}
        ELSE down[i - 1] \cup {n \in t \ TypeRoot : Up[n] \in down[i - 1]}
  IN down[Cardinality(Folder)] \ {f}

\* folderBatchDirection, by the content of a folder in a listing.
Direction(f, t) ==
  LET below == Beneath(f, t) IN
  IF f \in Named THEN "decompress"
  ELSE IF below \cap Plain # {} THEN "compress"
  ELSE IF below \cap (Packed \cup Named) # {} THEN "decompress" ELSE "empty"

\* kindOf
KindOf(n) ==
  IF n \notin Folder THEN "model"
  ELSE IF Direction(n, tree) = "decompress" THEN "znn-folder" ELSE "folder"

\* batchModeFor, and zipnnFolderMode of a card
ModeFor(f, t) ==
  IF Direction(f, t) = "decompress" THEN "decompress"
  ELSE IF f \in TypeRoot THEN "auto" ELSE "compress"

SelectedFolders == DOMAIN ticked \cap tree \cap Folder

\* The message and the label of a question about folders.
Says(folders, t) ==
  LET modes == {ModeFor(f, t) : f \in folders} IN
  IF modes = {"decompress"} THEN "decompress" ELSE IF "auto" \in modes THEN "auto" ELSE "compress"

-----------------------------------------------------------------------------
Mode == {"compress", "decompress", "auto"}

Listings == {t \in SUBSET Entry : TypeRoot \subseteq t /\ \A n \in t \ TypeRoot : Up[n] \in t}

TypeOK ==
  /\ tree \in Listings
  /\ DOMAIN ticked \subseteq Entry /\ Range(ticked) \subseteq Kind
  /\ asked # Nothing =>
       /\ DOMAIN asked.modes \subseteq Folder /\ Range(asked.modes) \subseteq Mode
       /\ asked.says \in Mode /\ asked.fresh \in BOOLEAN
  /\ window = Nothing \/ window \in [pair : Plain \X Plain, base : 1..2]

Init ==
  /\ tree \in Listings /\ ticked = <<>> /\ asked = Nothing /\ window = Nothing /\ did = Nothing

\* The confirmation is modal.
Free == asked = Nothing

\* A click on a card or, without a kind, on its check mark.
Toggle(n) ==
  /\ Free /\ n \in tree
  /\ \E kind \in {KindOf(n), "model"} : ticked' = Toggled(ticked, n, kind)
  /\ Cardinality(DOMAIN ticked') <= MaxTicked
  /\ did' = Nothing
  /\ UNCHANGED <<tree, asked, window>>

Clear ==
  /\ Free /\ ticked' = <<>> /\ did' = Nothing
  /\ UNCHANGED <<tree, asked, window>>

\* A scan: what is ticked stays, with the kind it had.
Rescan ==
  /\ tree' \in Listings \ {tree} /\ did' = Nothing
  /\ UNCHANGED <<ticked, asked, window>>

\* The question keeps copies of the nodes as they are listed now, and so their modes.
Ask(folders, fresh) ==
  /\ Free /\ folders # {}
  /\ asked' = [modes |-> [f \in folders |-> ModeFor(f, tree)], says |-> Says(folders, tree), fresh |-> fresh]
  /\ did' = Nothing
  /\ UNCHANGED <<tree, ticked, window>>

\* requestBatch of the bar; fresh: every folder was ticked as what it is now.
RequestBatch == Ask(SelectedFolders, \A f \in SelectedFolders : ticked[f] = KindOf(f))

\* requestZipnn of a folder's card
RequestZipnn(f) == f \in tree /\ Ask({f}, TRUE)

\* Mutant of Modes: by the listing of the moment of the answer.
ModesNow(q) == [f \in DOMAIN q.modes |-> ModeFor(f, tree)]

\* The modes a batch is started with: those of the nodes the question keeps.
Modes(q) == q.modes

\* Accepted, the batches are queued, or that of a card is started.
Accept ==
  /\ asked # Nothing /\ asked' = Nothing
  /\ did' = [modes |-> Modes(asked), says |-> asked.says, fresh |-> asked.fresh]
  /\ UNCHANGED <<tree, ticked, window>>

Reject ==
  /\ asked # Nothing /\ asked' = Nothing /\ did' = Nothing
  /\ UNCHANGED <<tree, ticked, window>>

-----------------------------------------------------------------------------
(* The delta of two models *)

\* deltaPair: the selected plain models, if they are two, as they were ticked.
DeltaPair ==
  LET plain == DOMAIN ticked \cap tree \cap Plain IN
  {p \in plain \X plain : Cardinality(plain) = 2 /\ p[1] # p[2]}

\* An open window takes the new pair, and keeps the place of the base.
OpenDelta ==
  /\ Free
  /\ \E p \in DeltaPair :
       window' = [pair |-> p, base |-> IF window = Nothing THEN 1 ELSE window.base]
  /\ did' = Nothing
  /\ UNCHANGED <<tree, ticked, asked>>

PickBase(i) ==
  /\ Free /\ window # Nothing /\ window' = [window EXCEPT !.base = i] /\ did' = Nothing
  /\ UNCHANGED <<tree, ticked, asked>>

\* The fine-tune is the model of the window that is not the base.
Submit ==
  /\ Free /\ window # Nothing /\ window' = Nothing
  /\ did' = [base |-> window.pair[window.base],
             ft |-> CHOOSE m \in Range(window.pair) : m # window.pair[window.base]]
  /\ UNCHANGED <<tree, ticked, asked>>

CloseDelta ==
  /\ Free /\ window # Nothing /\ window' = Nothing /\ did' = Nothing
  /\ UNCHANGED <<tree, ticked, asked>>

Next ==
  \/ \E n \in Entry : Toggle(n)
  \/ \E f \in Folder : RequestZipnn(f)
  \/ \E i \in 1..2 : PickBase(i)
  \/ Clear \/ Rescan \/ RequestBatch \/ Accept \/ Reject
  \/ OpenDelta \/ Submit \/ CloseDelta

Spec == Init /\ [][Next]_barVars

-----------------------------------------------------------------------------
\* What a start does is what its question said.
AsSaid(q) ==
  CASE q.says = "decompress" -> Range(q.modes) = {"decompress"}
    [] q.says = "compress"   -> Range(q.modes) = {"compress"}
    [] q.says = "auto"       -> "auto" \in Range(q.modes) /\ "decompress" \notin Range(q.modes)

\* What a question about folders says is what is done to each of them, whatever is
\* scanned or selected while it is open: asked to compress, nothing is decompressed.
\* A folder of the bar that was ticked as something else than it is now may break it.
BatchDoesWhatItSays ==
  did # Nothing /\ "says" \in DOMAIN did /\ did.fresh =>
    AsSaid(did)

\* A delta is never of a model against itself.
DeltaOfTwo == did # Nothing /\ "ft" \in DOMAIN did => did.base # did.ft

\* The invariant that both rest on: folders are never ticked as both kinds, a question
\* whose folders were ticked as what they are says what it will do, and the delta window
\* has two models.
BarInv ==
  /\ Range(ticked) \subseteq Kind
  /\ OfKind(ticked, "folder") = {} \/ OfKind(ticked, "znn-folder") = {}
  /\ asked # Nothing /\ asked.fresh => AsSaid(asked)
  /\ window # Nothing =>
       /\ window.base \in 1..2 /\ DOMAIN window.pair = 1..2 /\ window.pair[1] # window.pair[2]
  /\ BatchDoesWhatItSays /\ DeltaOfTwo

BarIsTrue == BatchDoesWhatItSays /\ DeltaOfTwo
=================================================================================
