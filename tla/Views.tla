--------------------------------- MODULE Views ---------------------------------
(***************************************************************************)
(* The two views of the library: the folder explorer (hooks/explorer.ts,   *)
(* DialogExplorer.vue), which walks a tree by the names of a breadcrumb,   *)
(* and the flat grid (DialogManager.vue, utils/modelFilter.ts), which      *)
(* filters, sorts and chunks all models.  Both are computed from listings  *)
(* that a scan may replace at any moment.                                  *)
(***************************************************************************)
EXTENDS Integers, Sequences, FiniteSets, Functions

CONSTANTS
  ModelTypes,  \* the model types
  Library,     \* entries [type, index, path, folder] that may be listed
  Order,       \* for each sort order the place of every entry
  Queries,     \* what is typed: sets of tokens
  Collections, \* saved searches: [tokens, types, onlyStarred]
  MaxColumns,  \* bounds the columns of the grid
  All,         \* "__all__", and no collection
  Top,         \* the node "root"
  Off          \* nothing

Last(s)  == s[Len(s)]
Front(s) == SubSeq(s, 1, Len(s) - 1)

Root(type) == [type |-> type, index |-> 0, path |-> <<>>, folder |-> TRUE]

Parent(e) == IF Len(e.path) = 1 THEN Root(e.type)
             ELSE [type |-> e.type, index |-> e.index, path |-> Front(e.path), folder |-> TRUE]

\* A scan lists the folders on the way to what it lists.
Closed(s) == \A e \in s : Len(e.path) > 1 => Parent(e) \in s

\* The names that paths are made of.
Words == UNION {Range(e.path) : e \in Library}

\* The sort is stable: entries that compare as equal keep their places of the listing, so no
\* two have one place in an order.  No entry is "nothing".
ViewsAssumption ==
  /\ IsFiniteSet(Library)
  /\ Library \subseteq [type : ModelTypes, index : Nat, path : Seq(Words) \ {<<>>}, folder : BOOLEAN]
  /\ Closed(Library) /\ MaxColumns \in Nat /\ Top \notin ModelTypes /\ {} \in Queries
  /\ Off \notin Library \cup {Root(t) : t \in ModelTypes \cup {Top}}
  /\ 1 \in DOMAIN Order /\ \A o \in DOMAIN Order : Order[o] \in Injection(Library, Int)

VARIABLES
  layout,   \* the view that is mounted
  loaded,   \* initialized
  data,     \* the entries of the listings
  trail,    \* folderPaths: [name, index]
  typed,    \* searchContent, as the set of its tokens
  search,   \* debouncedSearch
  menu,     \* the entry of the context menu
  asked,    \* history: the folder opened last, if it was there
  kind,     \* currentType
  order,    \* sortOrder
  active,   \* the active collection
  starred,  \* starState.models
  columns   \* cols

treeVars == <<trail, menu, asked>>
gridVars == <<kind, order, columns>>
barVars  == <<active, starred>>
viewVars == <<layout, loaded, data, treeVars, typed, search, gridVars, barVars>>

-----------------------------------------------------------------------------
(* The folder view *)

\* dataTreeList: under the root the types, under a type the entries of all its
\* directories, under a folder its own; an entry without its folder is left out.
TypeRoots == IF loaded THEN {Root(t) : t \in ModelTypes} ELSE {}

Nodes == {Root(Top)} \cup TypeRoots \cup data

Children(n) ==
  IF n = Root(Top) THEN TypeRoots
  ELSE {e \in data : Parent(e) = n}

Base(n) == IF n.path = <<>> THEN n.type ELSE Last(n.path)

\* Mutant of FindFolder: by name alone, in whichever directory comes first.
FindByName(list, step) ==
  LET hits == {n \in list : n.folder /\ Base(n) = step.name} IN
  IF hits = {} THEN Off ELSE CHOOSE n \in hits : \A m \in hits : n.index <= m.index

\* findFolder
FindFolder(list, step) ==
  LET hits == {n \in list : n.folder /\ Base(n) = step.name /\ n.index = step.index} IN
  IF hits = {} THEN Off ELSE CHOOSE n \in hits : TRUE

Below(n) == IF n = Off THEN {} ELSE Children(n)

\* The listing a breadcrumb leads to; without one, the root's own card.
Follow(steps) ==
  LET list[i \in 0..Len(steps)] ==
        IF i = 0 THEN {Root(Top)} ELSE Below(FindFolder(list[i - 1], steps[i]))
  IN list[Len(steps)]

\* openFolder's parts: a type's node names its type twice.
Steps(n) ==
  LET parts == IF n = Root(Top) THEN <<Top>>
               ELSE <<Top, n.type>> \o (IF n.path = <<>> THEN <<n.type>> ELSE n.path) IN
  [i \in DOMAIN parts |-> [name |-> parts[i], index |-> IF i <= 2 THEN 0 ELSE n.index]]

Found(steps, i) == FindFolder(Follow(SubSeq(steps, 1, i - 1)), steps[i]) # Off

\* openFolder: as far as the folders are found.
Opened(n) ==
  LET steps == Steps(n) IN
  SubSeq(steps, 1, CHOOSE i \in 0..Len(steps) :
    (\A j \in 1..i : Found(steps, j)) /\ (i < Len(steps) => ~Found(steps, i + 1)))

\* A type with a folder of its own name in its first directory: opening the type
\* opens the folder.
SelfNamed(n) ==
  n.path = <<>> /\ \E e \in data : e.type = n.type /\ e.index = 0 /\ e.folder /\ e.path = <<n.type>>

Shows(n) ==
  /\ trail' = Opened(n)
  /\ asked' = IF n \in Nodes /\ ~SelfNamed(n) THEN n ELSE Off

\* applySearchFilter: what lies anywhere below and has the text in its name or in
\* the name of a folder above it.
Hits(n, tokens) == \E w \in tokens : tokens = {w} /\ (w = Base(n) \/ w \in Range(n.path))

Within(list) ==
  {e \in data : \E n \in list :
     e = n \/ n = Root(Top) \/ n = Root(e.type)
       \/ (n.path # <<>> /\ n.folder /\ n.type = e.type /\ n.index = e.index
             /\ Len(n.path) < Len(e.path) /\ SubSeq(e.path, 1, Len(n.path)) = n.path)}
  \cup list \cup (IF Root(Top) \in list THEN Nodes ELSE {})

\* currentDataList
CurrentDataList ==
  IF search = {} THEN Follow(trail) ELSE {n \in Within(Follow(trail)) : Hits(n, search)}

\* currentFolderInfo: where a new folder goes.
FolderAt(steps) ==
  [type |-> steps[2].name, index |-> Last(steps).index,
   path |-> [i \in 1..Len(steps) - 2 |-> steps[i + 2].name], folder |-> TRUE]

CurrentFolderInfo == FolderAt(trail)

-----------------------------------------------------------------------------
(* The flat view *)

\* matchesCollection: no types are all types; sizes and previews are left out.  A word is
\* a name here, so that it is all one whether folder and name are joined (Collections).
Admits(c, m) ==
  /\ c.types = {} \/ m.type \in c.types
  /\ c.onlyStarred => m \in starred
  /\ c.tokens \subseteq Range(m.path)

\* filterModels, with the gate of the type and the collection
Filtered ==
  {m \in data :
     /\ ~m.folder
     /\ kind \in {All, m.type}
     /\ active # All => Admits(active, m)
     /\ search \subseteq Range(m.path)}

\* The stars first, then the chosen order.
Before(a, b) ==
  IF (a \in starred) # (b \in starred) THEN a \in starred ELSE Order[order][a] < Order[order][b]

Upto(ms, m) == {a \in ms : a = m \/ Before(a, m)}

Sorted(ms) == [k \in 1..Cardinality(ms) |-> CHOOSE m \in ms : Cardinality(Upto(ms, m)) = k]

\* chunkRows
Chunked(list, n) ==
  IF n < 1 THEN <<>>
  ELSE [i \in 1..((Len(list) + n - 1) \div n) |->
          SubSeq(list, (i - 1) * n + 1, IF i * n < Len(list) THEN i * n ELSE Len(list))]

Rows == Chunked(Sorted(Filtered), columns)

-----------------------------------------------------------------------------
TypeOK ==
  /\ layout \in {"flat", "folder"} /\ loaded \in BOOLEAN
  /\ data \subseteq Library
  /\ \A i \in DOMAIN trail : trail[i].name \in {Top} \cup ModelTypes \cup Words /\ trail[i].index \in Nat
  /\ typed \in Queries /\ search \in Queries
  /\ menu \in {Off} \cup Library /\ (asked = Off \/ asked.folder)
  /\ kind \in {All} \cup ModelTypes /\ order \in DOMAIN Order
  /\ active \in {All} \cup Collections
  /\ starred \subseteq Library /\ columns \in 0..MaxColumns

Init ==
  /\ layout = "flat" /\ loaded = FALSE /\ data = {}
  /\ trail = <<>> /\ typed = {} /\ search = {} /\ menu = Off /\ asked = Off
  /\ kind = All /\ order = 1 /\ active = All /\ starred = {} /\ columns = 0

\* The first listing is there: the explorer opens the root.
Load ==
  /\ ~loaded /\ loaded' = TRUE
  /\ IF layout = "folder" THEN trail' = <<[name |-> Top, index |-> 0]>> ELSE UNCHANGED trail
  /\ asked' = Off
  /\ UNCHANGED <<layout, data, typed, search, menu, gridVars, barVars>>

\* A scan replaces the listing of a type: both views are computed anew, and the
\* breadcrumb stays as it is.
Rescan(t) ==
  /\ loaded
  /\ \E s \in SUBSET {e \in Library : e.type = t} :
       Closed(s) /\ data' = {e \in data : e.type # t} \cup s
  /\ UNCHANGED <<layout, loaded, treeVars, typed, search, gridVars, barVars>>

\* toggleLayout: the other view is mounted with a state of its own.
ToggleLayout ==
  /\ layout' = IF layout = "flat" THEN "folder" ELSE "flat"
  /\ typed' = {} /\ search' = {} /\ menu' = Off /\ asked' = Off
  /\ trail' = IF layout = "flat" /\ loaded THEN <<[name |-> Top, index |-> 0]>> ELSE <<>>
  /\ kind' = All /\ order' = 1 /\ columns' = 0
  /\ UNCHANGED <<loaded, data, barVars>>

Type(ws) ==
  /\ typed' = ws
  /\ UNCHANGED <<layout, loaded, data, treeVars, search, gridVars, barVars>>

\* The 150 ms are over.
Debounced ==
  /\ search # typed /\ search' = typed
  /\ UNCHANGED <<layout, loaded, data, treeVars, typed, gridVars, barVars>>

\* openItem, by a double click or by the menu, whose entry may have gone meanwhile.
OpenItem(n) ==
  /\ n.folder /\ Shows(n)
  /\ typed' = {} /\ menu' = Off
  /\ UNCHANGED <<layout, loaded, data, search, gridVars, barVars>>

DoubleClick == layout = "folder" /\ \E n \in CurrentDataList : OpenItem(n)

MenuOpens == layout = "folder" /\ menu # Off /\ OpenItem(menu)

\* openItemContext and nonContextMenu
ContextMenu ==
  /\ layout = "folder"
  /\ \/ Len(trail) >= 2 /\ menu' \in CurrentDataList /\ menu'.folder
     \/ menu' = Off
  /\ UNCHANGED <<layout, loaded, data, trail, asked, typed, search, gridVars, barVars>>

\* A click on the breadcrumb cuts it behind the first item of that name.
Breadcrumb(i) ==
  /\ i \in DOMAIN trail
  /\ \E j \in 1..i :
       /\ trail[j] = trail[i] /\ \A k \in 1..j - 1 : trail[k] # trail[i]
       /\ trail' = SubSeq(trail, 1, j)
  /\ asked' = IF trail' = trail THEN asked ELSE Off
  /\ UNCHANGED <<layout, loaded, data, menu, typed, search, gridVars, barVars>>

\* handleGoBackParentFolder
GoUp ==
  /\ Len(trail) >= 2 /\ trail' = Front(trail) /\ asked' = Off
  /\ UNCHANGED <<layout, loaded, data, menu, typed, search, gridVars, barVars>>

SelectType(t) ==
  /\ layout = "flat" /\ kind' = t
  /\ UNCHANGED <<layout, loaded, data, treeVars, typed, search, order, columns, barVars>>

\* The folder view's list is kept as a set, whatever its order.
SelectOrder(o) ==
  /\ layout = "flat" /\ order' = o
  /\ UNCHANGED <<layout, loaded, data, treeVars, typed, search, kind, columns, barVars>>

Resize(n) ==
  /\ layout = "flat" /\ columns' = n
  /\ UNCHANGED <<layout, loaded, data, treeVars, typed, search, kind, order, barVars>>

SelectCollection(c) ==
  /\ active' = c
  /\ UNCHANGED <<layout, loaded, data, treeVars, typed, search, gridVars, starred>>

\* toggleModelStar: a star outlives its model.
ToggleStar(m) ==
  /\ m \in data /\ ~m.folder
  /\ starred' = IF m \in starred THEN starred \ {m} ELSE starred \cup {m}
  /\ UNCHANGED <<layout, loaded, data, treeVars, typed, search, gridVars, active>>

Next ==
  \/ Load \/ ToggleLayout \/ Debounced
  \/ \E t \in ModelTypes : Rescan(t)
  \/ \E ws \in Queries : Type(ws)
  \/ DoubleClick \/ MenuOpens \/ ContextMenu
  \/ \E i \in DOMAIN trail : Breadcrumb(i)
  \/ GoUp
  \/ \E t \in {All} \cup ModelTypes : SelectType(t)
  \/ \E o \in DOMAIN Order : SelectOrder(o)
  \/ \E n \in 0..MaxColumns : Resize(n)
  \/ \E c \in {All} \cup Collections : SelectCollection(c)
  \/ \E m \in data : ToggleStar(m)

Spec == Init /\ [][Next]_viewVars

-----------------------------------------------------------------------------
\* What the explorer lists under a breadcrumb is what lies in the folder that the
\* breadcrumb names and that "Add folder" creates into, also after scans have taken
\* folders away or brought them back; a type shows its directories together.
ListsTheFolder ==
  layout = "folder" /\ search = {} /\ Len(trail) >= 2 =>
    CurrentDataList = {e \in data :
      IF Len(trail) = 2 THEN e.type = trail[2].name /\ Len(e.path) = 1
      ELSE Parent(e) = CurrentFolderInfo}

\* The folder that was opened is the one that is shown and not one of its name in
\* another directory, for all scans, until the user goes elsewhere.
OpensTheFolder ==
  asked # Off => IF Len(trail) < 2 THEN asked = Root(Top) ELSE CurrentFolderInfo = asked

\* The flat grid holds every model that passes the filters once, the starred ones
\* before the others, in full rows but for the last.
GridIsWhole ==
  columns > 0 =>
    LET Cells == {c \in (DOMAIN Rows) \X (1..columns) : c[2] \in DOMAIN Rows[c[1]]}
        At(c) == Rows[c[1]][c[2]]
        Earlier(c, d) == c[1] < d[1] \/ (c[1] = d[1] /\ c[2] < d[2]) IN
    /\ {At(c) : c \in Cells} = Filtered
    /\ \A c, d \in Cells : At(c) = At(d) => c = d
    /\ \A c, d \in Cells : At(c) \notin starred /\ At(d) \in starred => Earlier(d, c)
    /\ \A i \in DOMAIN Rows : Len(Rows[i]) = columns \/ (i = Len(Rows) /\ Rows[i] # <<>>)

\* Both views show the library as the listings have it.
ViewsAreTrue == ListsTheFolder /\ OpensTheFolder /\ GridIsWhole

\* The invariant that the first two rest on: a breadcrumb names the root, a type, and then
\* folders of one directory.
Crumbs(steps) ==
  /\ steps \in Seq([name : {Top} \cup ModelTypes \cup Words, index : Nat])
  /\ Len(steps) >= 1 => steps[1] = [name |-> Top, index |-> 0]
  /\ Len(steps) >= 2 => steps[2].name \in ModelTypes /\ steps[2].index = 0
  /\ \A i \in 3..Len(steps) : steps[i].index = steps[3].index

ViewsInv ==
  /\ data \subseteq Library /\ Closed(data) /\ (~loaded => data = {})
  /\ Crumbs(trail) /\ OpensTheFolder
  /\ menu \in {Off} \cup Library \cup {Root(t) : t \in ModelTypes \cup {Top}}
  /\ order \in DOMAIN Order /\ columns \in Nat
================================================================================
