------------------------------ MODULE SearchForm ------------------------------
(***************************************************************************)
(* The form that creates a download, DialogCreateTask.vue, and             *)
(* useModelSearch of src/hooks/download.ts.  Its one field is a name to    *)
(* search for, or a URL: of a model page, which the backend resolves, or   *)
(* of a file, which the page turns into a model by itself.  Answers come   *)
(* in any order.  One platform stands for the three columns.  What is      *)
(* posted is the data of the editor below, ModelContent.vue, which clones  *)
(* the model it is given and lets the user file it under another type or   *)
(* into a sub-folder.                                                      *)
(***************************************************************************)
EXTENDS Naturals, FiniteSets

CONSTANTS
  Phrases,      \* texts that are no URL
  Repos,        \* those of the form owner/repo
  Pages,        \* URLs of model pages
  Links,        \* URLs of files
  Targets,      \* the model types
  SubFolders,   \* what the sub-folder may be set to, beside the link or in the editor
  MaxSearches,  \* bounds the searches
  MaxResolves,  \* bounds the resolves
  MaxKept,      \* bounds the editors kept alive
  Blank         \* nothing: an empty field, no timer, no results, no type

FormAssumption ==
  /\ Repos \subseteq Phrases /\ Pages # {}
  /\ Pages \cap Links = {} /\ Blank \notin Phrases \cup Links \cup SubFolders
  /\ {MaxSearches, MaxResolves, MaxKept} \subseteq Nat

VARIABLES
  field,          \* modelUrl
  timer,          \* searchTimer: the text it will search
  searchSeq, searches,
  results,        \* searchResults: whose answer it is, the queries of its rows
  searchLoading, searchedQuery,
  paging,         \* the page under way, with the result set it was asked for
  resolveSeq, resolves,
  found,          \* currentModel: the URL and the type it has
  form,           \* formData of its editor; edited: the type was chosen there
  kept,           \* what the editors of its other versions and files hold (KeepAlive)
  selectedType,   \* selectedModelType
  customFolder,   \* customSubFolder
  attempted,      \* urlResolveAttempted
  sent,           \* the POST under way
  mixed           \* history: an answer has passed a newer resolve

nameVars == <<timer, searchSeq, searches, results, searchLoading, searchedQuery, paging>>
urlVars  == <<resolveSeq, resolves, found, form, kept, mixed>>
fileVars == <<selectedType, customFolder, attempted>>
formVars == <<field, nameVars, urlVars, fileVars, sent>>

Urls == Pages \cup Links
Forms == [url : Urls, type : Targets, folder : SubFolders \cup {Blank}, edited : BOOLEAN]

TypeOK ==
  /\ field \in Phrases \cup Urls \cup {Blank} /\ timer \in Phrases \cup {Blank}
  /\ searches \subseteq [seq : 1..searchSeq, query : Phrases]
  /\ results = Blank \/ results \in [seq : 1..searchSeq, rows : SUBSET Phrases]
  /\ searchedQuery \in Phrases \cup {Blank}
  /\ resolves \subseteq [seq : 1..resolveSeq, url : Pages]
  /\ found = Blank \/ found \in [url : Urls, type : Targets]
  /\ form = Blank \/ form \in Forms
  /\ kept \subseteq Forms
  /\ selectedType \in Targets \cup {Blank} /\ customFolder \in SubFolders \cup {Blank}
  /\ {searchLoading, attempted, mixed} \subseteq BOOLEAN

Init ==
  /\ field = Blank /\ timer = Blank /\ searchSeq = 0 /\ searches = {}
  /\ results = Blank /\ searchLoading = FALSE /\ searchedQuery = Blank /\ paging = Blank
  /\ resolveSeq = 0 /\ resolves = {} /\ found = Blank /\ form = Blank /\ kept = {}
  /\ mixed = FALSE
  /\ selectedType = Blank /\ customFolder = Blank /\ attempted = FALSE /\ sent = Blank

-----------------------------------------------------------------------------
(* The watchers and the two searches *)

\* Mutant of Renewed: a new URL keeps the choices of the old one.
RenewedAttempt ==
  attempted' = FALSE /\ UNCHANGED <<selectedType, customFolder>>

\* The second watcher of the field.
Renewed == selectedType' = Blank /\ customFolder' = Blank /\ attempted' = FALSE

\* The first: a text starts the timer anew, a URL or nothing drops every search.
Retimed(text) ==
  IF text \in Phrases
    THEN timer' = text /\ UNCHANGED <<searchSeq, searches, results, searchLoading, searchedQuery, paging>>
    ELSE /\ timer' = Blank /\ searchSeq' = searchSeq + 1
         /\ results' = Blank /\ searchLoading' = FALSE /\ searchedQuery' = Blank
         /\ UNCHANGED <<searches, paging>>

\* runModelSearch up to its await.
RunSearch(query) ==
  /\ searchSeq < MaxSearches
  /\ searchSeq' = searchSeq + 1 /\ searchLoading' = TRUE
  /\ searches' = searches \cup {[seq |-> searchSeq + 1, query |-> query]}

\* getFormData, of a new model: an editor of an older result is reset when it is shown again.
FormOf(model) == [url |-> model.url, type |-> model.type, folder |-> Blank, edited |-> FALSE]
Edits(model) == found' = model /\ form' = FormOf(model) /\ kept' = {}

\* handleSearchByUrl: a file becomes a model at once, if its type is known, and a
\* page is asked for.  The empty state is allowed when the answer is there.
ResolveUrl(url, type) ==
  /\ resolveSeq < MaxResolves /\ resolveSeq' = resolveSeq + 1
  /\ IF url \in Links
       THEN /\ IF type = Blank THEN UNCHANGED <<found, form, kept>>
                              ELSE Edits([url |-> url, type |-> type])
            /\ UNCHANGED resolves
       ELSE /\ resolves' = resolves \cup {[seq |-> resolveSeq + 1, url |-> url]}
            /\ UNCHANGED <<found, form, kept>>
  /\ mixed' = FALSE

-----------------------------------------------------------------------------
(* The user *)

Type(text) ==
  /\ text # field /\ (text \in Phrases \/ searchSeq < MaxSearches)
  /\ field' = text /\ Retimed(text) /\ Renewed
  /\ UNCHANGED urlVars

\* A row of the results, or owner/repo, becomes the URL that is resolved.
GoTo(url) ==
  /\ searchSeq < MaxSearches
  /\ field' = url /\ Retimed(url) /\ Renewed
  /\ ResolveUrl(url, Blank)

SelectResult(url) == results # Blank /\ results.rows # {} /\ GoTo(url)

\* handleEnter: rows of this very text, then owner/repo, then a search without delay.
Fresh == searchedQuery = field /\ results # Blank /\ results.rows # {}
EnterName(url) ==
  /\ field \in Phrases
  /\ IF Fresh \/ field \in Repos
       THEN GoTo(url)
       ELSE RunSearch(field) /\ UNCHANGED <<field, timer, results, searchedQuery, paging, urlVars, fileVars>>
EnterUrl ==
  /\ field \in Urls /\ ResolveUrl(field, selectedType)
  /\ attempted' = (attempted \/ field \in Links)
  /\ UNCHANGED <<field, nameVars, selectedType, customFolder>>

LoadMore ==
  /\ results # Blank /\ paging = Blank
  /\ paging' = [seq |-> results.seq, query |-> IF searchedQuery = Blank THEN field ELSE searchedQuery]
  /\ UNCHANGED <<field, timer, searchSeq, searches, results, searchLoading, searchedQuery, urlVars, fileVars>>

\* The type of a file; its watcher makes the model.
ChooseType(type) ==
  /\ field \in Links /\ type # selectedType
  /\ selectedType' = type /\ ResolveUrl(field, type)
  /\ UNCHANGED <<field, nameVars, customFolder, attempted>>
ChooseFolder(folder) ==
  /\ field \in Links /\ customFolder' = folder
  /\ UNCHANGED <<field, nameVars, urlVars, selectedType, attempted>>

\* Another version, or a file, which may belong to another type; the editor it had is
\* kept, and one it comes back to has what was done in it.
PickFile(type) ==
  /\ found # Blank /\ found.url \in Pages
  /\ found' = [found EXCEPT !.type = type]
  /\ form' \in kept \cup {form, FormOf(found')}
  /\ kept' = (kept \cup {form}) \ {form'} /\ Cardinality(kept') <= MaxKept
  /\ UNCHANGED <<field, nameVars, resolveSeq, resolves, mixed, fileVars>>

\* In the editor: another type empties the sub-folder.
EditType(type) ==
  /\ found # Blank /\ type # form.type
  /\ form' = [form EXCEPT !.type = type, !.folder = Blank, !.edited = TRUE]
  /\ UNCHANGED <<field, nameVars, resolveSeq, resolves, found, kept, mixed, fileVars>>
EditFolder(folder) ==
  /\ found # Blank /\ form' = [form EXCEPT !.folder = folder]
  /\ UNCHANGED <<field, nameVars, resolveSeq, resolves, found, kept, mixed, fileVars>>

\* createDownTask, which closes the window unless the backend refuses.  A sub-folder of
\* the editor comes before the one beside the link.
Submit ==
  /\ sent = Blank /\ found # Blank /\ (field \in Links => selectedType # Blank)
  /\ sent' = [url |-> form.url, type |-> form.type,
              folder |-> IF form.folder # Blank THEN form.folder ELSE customFolder]
  /\ UNCHANGED <<field, nameVars, urlVars, fileVars>>
Refuse ==
  /\ sent # Blank /\ sent' = Blank
  /\ UNCHANGED <<field, nameVars, urlVars, fileVars>>

-----------------------------------------------------------------------------
(* The clock and the answers *)

TimerFires ==
  /\ timer # Blank /\ RunSearch(timer) /\ timer' = Blank
  /\ UNCHANGED <<field, results, searchedQuery, paging, urlVars, fileVars>>

\* Mutants of Current and of SameSet: a late answer, or a late page, is taken.
AnyAnswer(s) == s \in searches
AnySet(p) == results # Blank
Current(s) == s.seq = searchSeq
SameSet(p) == results # Blank /\ results.seq = p.seq

SearchAnswered(s, ok) ==
  /\ s \in searches /\ searches' = searches \ {s}
  /\ IF Current(s)
       THEN /\ searchLoading' = FALSE /\ searchedQuery' = s.query
            /\ \E rows \in {{}, {s.query}} : results' = IF ok THEN [seq |-> s.seq, rows |-> rows] ELSE Blank
       ELSE UNCHANGED <<searchLoading, searchedQuery, results>>
  /\ UNCHANGED <<field, timer, searchSeq, paging, urlVars, fileVars>>

PageAnswered(ok) ==
  /\ paging # Blank /\ paging' = Blank
  /\ results' = IF ok /\ SameSet(paging) THEN [results EXCEPT !.rows = @ \cup {paging.query}] ELSE results
  /\ UNCHANGED <<field, timer, searchSeq, searches, searchLoading, searchedQuery, urlVars, fileVars>>

\* An answer to a resolve is taken whenever it comes, an empty one too; a failure leaves
\* the model.
Resolved(r, what) ==
  /\ r \in resolves /\ resolves' = resolves \ {r}
  /\ IF what = Blank THEN found' = Blank /\ form' = Blank /\ kept' = {} ELSE Edits(what)
  /\ mixed' = (mixed \/ r.seq # resolveSeq)
  /\ attempted' = (attempted \/ field = r.url)
  /\ UNCHANGED <<field, nameVars, resolveSeq, selectedType, customFolder>>
ResolveFails(r) ==
  /\ r \in resolves /\ resolves' = resolves \ {r}
  /\ attempted' = (attempted \/ field = r.url)
  /\ UNCHANGED <<field, nameVars, resolveSeq, found, form, kept, mixed, selectedType, customFolder>>

Search ==
  \/ \E text \in Phrases \cup Urls \cup {Blank} : Type(text)
  \/ \E url \in Pages : SelectResult(url) \/ EnterName(url)
  \/ EnterUrl \/ LoadMore \/ TimerFires
  \/ \E type \in Targets : ChooseType(type) \/ PickFile(type) \/ EditType(type)
  \/ \E folder \in SubFolders \cup {Blank} : ChooseFolder(folder) \/ EditFolder(folder)
  \/ \E s \in searches, ok \in BOOLEAN : SearchAnswered(s, ok)
  \/ \E ok \in BOOLEAN : PageAnswered(ok)
  \/ \E r \in resolves, type \in Targets : Resolved(r, [url |-> r.url, type |-> type])
  \/ \E r \in resolves : Resolved(r, Blank) \/ ResolveFails(r)

Next ==
  \/ Search /\ UNCHANGED sent
  \/ Submit \/ Refuse

Spec == Init /\ [][Next]_formVars

-----------------------------------------------------------------------------
\* The columns show the rows of one search, the one the Enter key takes them for;
\* the spinner turns only while an answer is awaited that will be taken; and a
\* text that has been left alone ends as the one that was searched.
ShowsTheSearch ==
  /\ results # Blank => results.rows \subseteq {searchedQuery}
  /\ searchLoading => \E s \in searches : s.seq = searchSeq
  /\ field \in Phrases /\ timer = Blank /\ ~searchLoading => searchedQuery = field

\* "a stale model type or custom sub-folder can never leak into the next
\* search/download": what Download sends is the model on show, whichever editors were
\* left and come back to.  With a link in the field that is the link, filed under the
\* type chosen for it unless the editor was given another, and the sub-folder beside a
\* link goes with nothing else; both unless the answer to an older resolve has come late.
SubmitsTheField ==
  sent' # sent /\ sent' # Blank =>
    /\ sent'.url = found.url
    /\ ~mixed /\ field \in Links =>
         sent'.url = field /\ (form.edited \/ sent'.type = selectedType)
    /\ sent'.folder # Blank /\ field \notin Links => sent'.folder = form.folder

-----------------------------------------------------------------------------
(* The invariants of their proofs *)

\* Of the searches under way one at most can still be taken.  It is for what the field
\* says once the timer is still, and neither the rows nor a page of them are its own.
Searched ==
  /\ searchSeq \in Nat /\ searches \subseteq [seq : 1..searchSeq, query : Phrases]
  /\ \A r, s \in searches : r.seq = s.seq => r = s
  /\ timer # Blank => timer = field /\ field \in Phrases
  /\ field \in Phrases /\ timer = Blank => \A s \in searches : Current(s) => s.query = field
  /\ results # Blank =>
       /\ results \in [seq : 1..searchSeq, rows : SUBSET Phrases] /\ searchedQuery \in Phrases
       /\ \A s \in searches : s.seq # results.seq
  /\ paging # Blank =>
       /\ paging.seq \in 1..searchSeq /\ \A s \in searches : s.seq # paging.seq
       /\ SameSet(paging) => paging.query = searchedQuery

\* The editors are those of the model on show.
Edited ==
  /\ selectedType \in Targets \cup {Blank}
  /\ found = Blank \/ found \in [url : Urls, type : Targets]
  /\ form = Blank \/ form \in Forms
  /\ kept \subseteq Forms
  /\ found # Blank => form \in Forms /\ \A e \in kept \cup {form} : e.url = found.url

\* With a link and a type chosen for it no answer to the newest resolve is to come, and
\* the model is the link's, with the type chosen for it until the editor is given
\* another, unless an older answer has replaced it.
Linked ==
  /\ resolveSeq \in Nat /\ resolves \subseteq [seq : 1..resolveSeq, url : Pages]
  /\ field \in Links /\ selectedType # Blank =>
       /\ \A r \in resolves : r.seq # resolveSeq
       /\ ~mixed => /\ found = [url |-> field, type |-> selectedType]
                    /\ form.edited \/ form.type = selectedType
  /\ customFolder # Blank => field \in Links

FormInv == Searched /\ ShowsTheSearch /\ Edited /\ Linked
===============================================================================
