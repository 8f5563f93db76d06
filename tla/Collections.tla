------------------------------ MODULE Collections ------------------------------
(***************************************************************************)
(* Saved searches: hooks/collections.ts, the collection button of          *)
(* ViewToolbar.vue, DialogSaveCollection.vue, and the filter of the flat   *)
(* grid they narrow (DialogManager.vue, utils/modelFilter.ts).  A search   *)
(* is matched in one way and a collection in another; the window that      *)
(* saves keeps the query of the moment it was opened.                      *)
(***************************************************************************)
EXTENDS Naturals, FiniteSets, Sequences, Functions

CONSTANTS
  Models,      \* the models that are listed
  TypeOf,      \* the type of each model
  Tokens,      \* what may be typed
  In,          \* In[w][m]: what holds the word: "subFolder" and "basename", for the grid,
               \* and "path", the two joined by a "/", literally, for a collection
  Wild,        \* the words with a "*"
  Slashed,     \* the words with a "/"
  Texts,       \* the searches that may be typed: sets of words
  MaxSaved,    \* bounds the collections
  All          \* "__all__", no collection and no window

CollectionsAssumption ==
  /\ \A w \in Tokens : In[w] \in [Models -> SUBSET {"subFolder", "basename", "path"}]
  /\ \A w \in Tokens \ Wild, m \in Models : In[w][m] # {} => "path" \in In[w][m]
  /\ \A w \in Tokens \ (Wild \cup Slashed), m \in Models : In[w][m] # {"path"}
  /\ Wild \cup Slashed \subseteq Tokens /\ MaxSaved \in Nat
  /\ {} \in Texts /\ Texts \subseteq SUBSET Tokens

VARIABLES
  typed,     \* searchContent
  search,    \* debouncedSearch
  kind,      \* currentType
  saved,     \* collectionState.collections: [id, tokens, types]
  kept,      \* the setting
  active,    \* collectionState.activeId
  window,    \* the query of the open save window
  meant      \* history: for each id what was in the toolbar when its window opened

toolbar == <<typed, search, kind>>
collectionVars == <<toolbar, saved, kept, active, window, meant>>

KnownTypes == Range(TypeOf)
Ids   == 1..MaxSaved

-----------------------------------------------------------------------------
\* tokensMatch: every word in the folder or in the name, whatever a "*" stands for.
Matches(m, words) ==
  \A w \in words : \E field \in {"subFolder", "basename"} : field \in In[w][m]

\* matchesCollection: every word as it is written, anywhere in "folder/name"; no types are
\* all types.  The bounds of the size, the stars and the previews, which no window saves,
\* are left out.
Admits(c, m) ==
  /\ c.types = {} \/ TypeOf[m] \in c.types
  /\ \A w \in c.tokens : "path" \in In[w][m]

\* Mutant of CurrentQuery: the search that the grid is filtered by.
DebouncedQuery == [tokens |-> search, types |-> {kind} \ {All}]

\* currentQuery
CurrentQuery == [tokens |-> typed, types |-> {kind} \ {All}]

Active == {c \in Range(saved) : c.id = active}

\* filterModels with matchesTypeAndCollection
Shown ==
  {m \in Models :
     /\ kind \in {All, TypeOf[m]} /\ Matches(m, search)
     /\ \A c \in Active : Admits(c, m)}

-----------------------------------------------------------------------------
Query == [tokens : Texts, types : SUBSET KnownTypes]

TypeOK ==
  /\ typed \in Texts /\ search \in Texts /\ kind \in KnownTypes \cup {All}
  /\ \A i \in DOMAIN saved : saved[i].id \in Ids /\ saved[i].tokens \in Texts
  /\ Len(saved) <= MaxSaved /\ active \in Ids \cup {All}
  /\ window = All \/ (window.query \in Query /\ window.of \in Query)
  /\ Range(meant) \subseteq Query \cup {All}

Init ==
  /\ typed = {} /\ search = {} /\ kind = All
  /\ saved = <<>> /\ kept = <<>> /\ active = All /\ window = All
  /\ meant = [i \in Ids |-> All]

Type(words) ==
  /\ typed' = words
  /\ UNCHANGED <<search, kind, saved, kept, active, window, meant>>

\* The 150 ms are over.
Debounced ==
  /\ search # typed /\ search' = typed
  /\ UNCHANGED <<typed, kind, saved, kept, active, window, meant>>

SelectType(t) ==
  /\ kind' = t
  /\ UNCHANGED <<typed, search, saved, kept, active, window, meant>>

\* openSaveCollection; a window that is open gets the new query.
OpenSave ==
  /\ window' = [query |-> CurrentQuery, of |-> [tokens |-> typed, types |-> {kind} \ {All}]]
  /\ UNCHANGED <<toolbar, saved, kept, active, meant>>

CloseSave ==
  /\ window # All /\ window' = All
  /\ UNCHANGED <<toolbar, saved, kept, active, meant>>

Persist(list) == saved' = list /\ kept' = list

\* handleSave with a name: addCollection under a new id, which is made the active one.
HandleSave ==
  /\ window # All /\ Len(saved) < MaxSaved
  /\ LET id == CHOOSE i \in Ids : \A c \in Range(saved) : c.id # i IN
     /\ Persist(Append(saved, [id |-> id, tokens |-> window.query.tokens, types |-> window.query.types]))
     /\ active' = id /\ meant' = [meant EXCEPT ![id] = window.of]
  /\ window' = All
  /\ UNCHANGED toolbar

\* The menu of the collections, and the cross beside it.
Select(id) ==
  /\ id = All \/ \E c \in Range(saved) : c.id = id
  /\ active' = id
  /\ UNCHANGED <<toolbar, saved, kept, window, meant>>

\* What is saved without the active one, in its order.
Rest ==
  LET others == {i \in DOMAIN saved : saved[i].id # active}
      nth(k) == CHOOSE i \in others : Cardinality({j \in others : j <= i}) = k
  IN [k \in 1..Cardinality(others) |-> saved[nth(k)]]

\* removeCollection of the active one
RemoveCollection ==
  /\ Active # {}
  /\ Persist(Rest)
  /\ active' = All /\ meant' = [meant EXCEPT ![active] = All]
  /\ UNCHANGED <<toolbar, window>>

\* The page is loaded again: loadCollections.
Reload ==
  /\ saved' = kept /\ active' = All /\ window' = All
  /\ typed' = {} /\ search' = {} /\ kind' = All
  /\ UNCHANGED <<kept, meant>>

Next ==
  \/ Debounced \/ OpenSave \/ CloseSave \/ HandleSave \/ RemoveCollection \/ Reload
  \/ \E words \in Texts : Type(words)
  \/ \E t \in KnownTypes \cup {All} : SelectType(t)
  \/ \E id \in Ids \cup {All} : Select(id)

Spec == Init /\ [][Next]_collectionVars

-----------------------------------------------------------------------------
\* "Save the current search + type filter as a named collection and re-apply it"
\* (docs/USAGE.md): with nothing else in the toolbar a collection shows all the models
\* that its search would, also after a reload, and no other: but for searches with a "*",
\* which a collection takes literally, and with a "/", which it may find between folder
\* and name, where the grid never does.
Sought(query) ==
  {m \in Models : /\ query.types = {} \/ TypeOf[m] \in query.types
                  /\ Matches(m, query.tokens)}

Reapplied ==
  \A c \in Active :
    LET query == meant[c.id] IN
    search = {} /\ kind = All /\ query.tokens \cap Wild = {} =>
      /\ Sought(query) \subseteq Shown
      /\ query.tokens \cap Slashed = {} => Shown = Sought(query)

\* What is active is there: nothing hides models without its name being shown.
ActiveIsThere == active # All => Active # {}

CollectionsHold == Reapplied /\ ActiveIsThere

\* The invariant that both rest on: ids are of one collection each, which is kept and is
\* what was in the toolbar when its window opened; and a window has that query.
CollectionsInv ==
  /\ typed \in Texts /\ search \in Texts /\ kind \in KnownTypes \cup {All}
  /\ saved \in Seq([id : Ids, tokens : Texts, types : SUBSET KnownTypes]) /\ kept = saved
  /\ \A i, j \in DOMAIN saved : saved[i].id = saved[j].id => i = j
  /\ meant \in [Ids -> Query \cup {All}]
  /\ \A c \in Range(saved) : meant[c.id] = [tokens |-> c.tokens, types |-> c.types]
  /\ window # All => window.query \in Query /\ window.of = window.query
  /\ ActiveIsThere
================================================================================
