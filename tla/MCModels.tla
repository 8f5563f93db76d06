------------------------------- MODULE MCModels -------------------------------
(***************************************************************************)
(* What the page shows of the models, for TLC: the listings, the watcher   *)
(* that tells of changes, the library's views, and a model's window.  The  *)
(* parts share nothing that they read, so a behaviour of this module is    *)
(* one of one part, and the run checks them side by side.                  *)
(***************************************************************************)
EXTENDS Integers, Sequences, FiniteSets, TLC

CONSTANTS
  Parts,
  Types, CardType, MaxChanges, MaxScans, Sweeps, None,
  ModelTypes, Library, Order, Queries, Collections, MaxColumns, All, Top, Off,
  Kinds, Roots, Segments, Names, Notes, Home, Taken, NoNotes,
  Saved, Local,
  Galleries, MaxAsked,
  Lists, Tables, Page, Empty, Unnamed, NoTable,
  Models, TypeOf, Tokens, In, Wild, Slashed, Texts, MaxSaved,
  Volumes, Files, RootOf, ClaimedBy, MaxEvents, NoHandle

VARIABLES
  part,       \* the part whose behaviour this is
  \* the state of that part, a variable for each of its own
  c1, c2, c3, c4, c5, c6, c7, c8, c9, c10, c11, c12, c13, c14

\* Where a module of proofs is instantiated, it is the component it proves about and its
\* lemmas, which MCModelsProofs cites of the behaviours of this module.
Store == INSTANCE ModelStoreProofs WITH
  disk <- c1, renamed <- c2, events <- c3, shown <- c4, generation <- c5, scans <- c6,
  sweeps <- c7, initialized <- c8, loadedOnce <- c9, saving <- c10,
  removing <- c11, card <- c12, overlay <- c13, missed <- c14

Shelf == INSTANCE Views WITH
  layout <- c1, loaded <- c2, data <- c3, trail <- c4, typed <- c5, search <- c6,
  menu <- c7, asked <- c8, kind <- c9, order <- c10, active <- c11, starred <- c12,
  columns <- c13

Card == INSTANCE Editor WITH
  file <- c1, model <- c2, extra <- c3, form <- c4, clean <- c5, edits <- c6,
  reflect <- c7, request <- c8, closed <- c9, touched <- c10, failed <- c11,
  retyped <- c12

Album == INSTANCE Gallery WITH
  content <- c1, page <- c2, ring <- c3, editing <- c4

Viewer == INSTANCE Lightbox WITH
  items <- c1, page <- c2, version <- c3, open <- c4, index <- c5, meta <- c6,
  asked <- c7, crossed <- c8

Table == INSTANCE TensorTable WITH
  tensors <- c1, payload <- c2, expanded <- c3, allLeaves <- c4

Saving == INSTANCE Collections WITH
  typed <- c1, search <- c2, kind <- c3, saved <- c4, kept <- c5, active <- c6,
  window <- c7, meant <- c8

Warden == INSTANCE Watcher WITH
  Types <- ModelTypes, Roots <- Volumes,
  on <- c1, roots <- c2, task <- c3, handle <- c4, stopped <- c5, waiting <- c6,
  cooling <- c7, todo <- c8, sessions <- c9, arming <- c10, closing <- c11, owed <- c12,
  events <- c13

ASSUME ModelsAssumption ==
  /\ Store!StoreAssumption /\ Shelf!ViewsAssumption /\ Card!EditorAssumption
  /\ Album!GalleryAssumption /\ Viewer!LightboxAssumption /\ Table!TableAssumption
  /\ Warden!WatcherAssumption /\ Saving!CollectionsAssumption

vars ==
  <<part, c1, c2, c3, c4, c5, c6, c7, c8, c9, c10, c11, c12, c13, c14>>

\* The variables a part does not need: they are 0, and stay so.
Spare14 == c14 = 0
Spare13 == c13 = 0 /\ Spare14
Spare9 == c9 = 0 /\ c10 = 0 /\ c11 = 0 /\ c12 = 0 /\ Spare13
Spare5 == c5 = 0 /\ c6 = 0 /\ c7 = 0 /\ c8 = 0 /\ Spare9

Init ==
  /\ part \in Parts
  /\ \/ part = "store"    /\ Store!Init
     \/ part = "views"    /\ Shelf!Init  /\ Spare14
     \/ part = "editor"   /\ Card!Init   /\ Spare13
     \/ part = "gallery"  /\ Album!Init  /\ Spare5
     \/ part = "lightbox" /\ Viewer!Init /\ Spare9
     \/ part = "tensors"  /\ Table!Init  /\ Spare5
     \/ part = "watcher"  /\ Warden!Init /\ Spare14
     \/ part = "saved"    /\ Saving!Init /\ Spare9

Next ==
  /\ UNCHANGED part
  /\ \/ part = "store"    /\ Store!Next
     \/ part = "views"    /\ Shelf!Next  /\ UNCHANGED c14
     \/ part = "editor"   /\ Card!Next   /\ UNCHANGED <<c13, c14>>
     \/ part = "watcher"  /\ Warden!Next /\ UNCHANGED c14
     \/ part = "saved"    /\ Saving!Next /\ UNCHANGED <<c9, c10, c11, c12, c13, c14>>
     \/ part = "gallery"  /\ Album!Next
        /\ UNCHANGED <<c5, c6, c7, c8, c9, c10, c11, c12, c13, c14>>
     \/ part = "lightbox" /\ Viewer!Next /\ UNCHANGED <<c9, c10, c11, c12, c13, c14>>
     \/ part = "tensors"  /\ Table!Next
        /\ UNCHANGED <<c5, c6, c7, c8, c9, c10, c11, c12, c13, c14>>

Spec == Init /\ [][Next]_vars

\* Every part keeps its types.
TypeOK ==
  /\ part = "store" => Store!TypeOK
  /\ part = "views" => Shelf!TypeOK
  /\ part = "editor" => Card!TypeOK
  /\ part = "gallery" => Album!TypeOK
  /\ part = "lightbox" => Viewer!TypeOK
  /\ part = "tensors" => Table!TypeOK
  /\ part = "watcher" => Warden!TypeOK
  /\ part = "saved" => Saving!TypeOK

\* The properties of the parts, which their modules explain: the listings are what
\* the library is once nothing is under way, and the overlay is gone then.
ShownIsCurrent   == part = "store" => Store!ShownIsCurrent
OverlayComesDown == part = "store" => Store!OverlayComesDown

\* Each view shows the entries it should, wherever the user came from, and a saved
\* search what the search would.
ViewsAreTrue ==
  /\ part = "views" => Shelf!ViewsAreTrue
  /\ part = "saved" => Saving!CollectionsHold

\* What a model's window shows beside something is about it: the metadata about the
\* image, the rows about the tensors.
WindowIsTrue ==
  /\ part = "lightbox" => Viewer!MetaBelongs
  /\ part = "tensors" => Table!TableIsWhole

\* No change of a watched directory is forgotten, and no watch is left behind.
WatcherIsTrue == part = "watcher" => Warden!WatcherIsTrue

\* No step takes a listing back to an older one.
NeverBackInTime == [][part = "store" => Store!NeverBackInTime]_vars

\* A save sends the edits and nothing else, with the preview that was shown first.
SavesWhatIsShown ==
  [][/\ part = "editor" => Card!SavesTheEdits
     /\ part = "gallery" => Album!PrimaryKept]_vars

CONSTANTS i1, i2, i3, k1, s1, n1, n2, y1, y2, y3, y4, b1, b2, z1, z2
MCSaved  == <<i1, i2, i3>>
MCHome   == [type |-> k1, index |-> 0, sub |-> <<s1>>, name |-> n1]
MCTaken  == {[type |-> k1, index |-> 0, sub |-> <<>>, name |-> n2]}

\* A type with a folder of its own name, and a folder name in both directories.
Entry(type, index, path, folder) == [type |-> type, index |-> index, path |-> path, folder |-> folder]
F1 == Entry(b1, 0, <<b1>>, TRUE)
F2 == Entry(b1, 0, <<y1>>, TRUE)
F3 == Entry(b1, 1, <<y1>>, TRUE)
M1 == Entry(b1, 1, <<y1, y2>>, FALSE)
M2 == Entry(b2, 0, <<y2>>, FALSE)
MCLibrary     == {F1, F2, F3, M1, M2}
MCOrder       == <<F1 :> 1 @@ F2 :> 2 @@ F3 :> 3 @@ M1 :> 4 @@ M2 :> 5,
                   F1 :> 5 @@ F2 :> 4 @@ F3 :> 3 @@ M1 :> 2 @@ M2 :> 1>>
MCQueries     == {{}, {y1}, {y1, y2}}
MCCollections == {[tokens |-> {y2}, types |-> {b1}, onlyStarred |-> FALSE],
                  [tokens |-> {y2}, types |-> {}, onlyStarred |-> TRUE]}

\* Three models of two types; two words in a folder or a name, one with a "*" and one with a
\* "/", which is in one model's folder and between another's folder and name.
MCTypeOf == i1 :> b1 @@ i2 :> b1 @@ i3 :> b2
In1 == {"subFolder", "path"}
In2 == {"basename", "path"}
MCIn == y1 :> (i1 :> In1 @@ i2 :> In2 @@ i3 :> In2)
        @@ y2 :> (i1 :> In2 @@ i2 :> {} @@ i3 :> In1)
        @@ y3 :> (i1 :> {"basename"} @@ i2 :> {"basename"} @@ i3 :> {})
        @@ y4 :> (i1 :> {"path"} @@ i2 :> {} @@ i3 :> In1)

\* No preview, one, or three.
MCGalleries == {<<>>, <<i1>>, <<i1, i2, i3>>}

\* A file of one type, one of two types in another directory, and a link that leads out of it.
MCRootOf    == y1 :> z1 @@ y2 :> z2 @@ y3 :> z1
MCClaimedBy == y1 :> {b1} @@ y2 :> {b1, b2} @@ y3 :> {}

\* Lists of three tensors, with folders inside folders, an empty segment and more
\* leaves than a page; tables of two to four entries, right or wrong.
MCLists == {<< <<y1, y2, y3>>, <<y2, y3>>, <<y1, y3>> >>,
            << <<y3>>, <<y1, Empty, y3>>, <<y2>> >>, << <<y1, y3>> >>}
Leafy(children, own) == [segment |-> y1, children |-> children, own |-> own, total |-> own]
MCTables ==
  [nodes : [1..2 -> {Leafy(c, o) : c \in 0..2, o \in 0..2}]
           \cup {[i \in 1..3 |-> Leafy(n[i], 1)] : n \in [1..3 -> 0..2]}
           \cup {[i \in 1..4 |-> Leafy(n[i], IF i = 1 THEN 0 ELSE 1)] :
                    n \in {m \in [1..4 -> 0..2] : m[1] + m[2] + m[3] + m[4] = 3}},
   leaves : {<<1, 2, 3>>, <<3, 3, 1>>}]
================================================================================
