--------------------------------- MODULE Hygiene ---------------------------------
(***************************************************************************)
(* The hygiene window (DialogHygiene.vue) against the library it sweeps    *)
(* (scan_hygiene, remove_model and remove_folder of py/manager.py), which  *)
(* changes between the scan, the choice, the answer and each deletion.     *)
(***************************************************************************)
EXTENDS Naturals, Sequences, FiniteSets, Functions

CONSTANTS
  Folders,    \* sub-folders of a type's directory
  Files,      \* files, which may be there or not
  Model,      \* those that are models
  Sidecar,    \* those that are previews or notes
  Folder,     \* the folder of a file, or NoFolder
  Stem,       \* its name without the extension
  Owners,     \* the stems whose models have this sidecar among their own
  NoFolder,
  MaxScans,   \* bounds the scans in flight
  MaxChanges  \* bounds what others change

HygieneAssumption ==
  /\ IsFiniteSet(Files) /\ IsFiniteSet(Folders) /\ Files \cap Folders = {}
  /\ {Model, Sidecar} \subseteq SUBSET Files /\ Model \cap Sidecar = {}
  /\ NoFolder \notin Folders /\ Folder \in [Files -> Folders \cup {NoFolder}]
  /\ DOMAIN Stem = Files /\ \A g \in Sidecar : Stem[g] \in Owners[g]
  /\ {MaxScans, MaxChanges} \subseteq Nat

VARIABLES
  disk,      \* the library: its files and folders
  shown,     \* the library as the scan found it that the lists are of
  scans,     \* the scans in flight
  scanning,  \* the refresh button is off
  picked,    \* selectedOrphans and selectedEmpty
  asked,     \* what the confirmation asks about, with the library it was found in
  todo,      \* what the loop has still to delete
  found,     \* the library that was found in
  changes,   \* what others have done
  stale,     \* shown is older than the library, and nothing will bring a newer one
  spoilt     \* files that the loop took from a model the scan had seen

hygieneVars ==
  <<disk, shown, scans, scanning, picked, asked, todo, found, changes, stale, spoilt>>

Libraries == SUBSET (Files \cup Folders)
NoAsk     == [what |-> {}, found |-> {}]
Sent      == [at |-> "sent", found |-> {}]

Within(d) == {f \in Files : Folder[f] = d}

\* The notes of a file's stem and its previews, numbered or not.  The second preview of a
\* model "x" is named like the first of a model "x.preview".
Claims(f) == {g \in Sidecar : Folder[g] = Folder[f] /\ Stem[f] \in Owners[g]}

\* Sidecars that no model there has.
Orphans(lib) == {g \in lib \cap Sidecar : \A m \in lib \cap Model : g \notin Claims(m)}

\* Mutant of EmptyFolders: a folder counts as empty whatever is in it.
AnyFolders(lib) == lib \cap Folders

\* Folders without a model, whatever else they hold.
EmptyFolders(lib) == {d \in lib \cap Folders : lib \cap Model \cap Within(d) = {}}

\* What a deletion takes: a folder goes with all it holds, a file, an orphan too, with the
\* sidecars of its stem, as if it were a model.
Takes(i) == {i} \cup (IF i \in Folders THEN Within(i) ELSE Claims(i))

\* The files that are, or belong to, a model there.
OfModels(lib) == {f \in Files : \E m \in lib \cap Model : f = m \/ f \in Claims(m)}

\* The sidecars that models of two names may claim.
Shared == {g \in Sidecar : Owners[g] # {Stem[g]}}

\* The orders in which a list may show these.
Listings(items) == Bijection(1..Cardinality(items), items)

\* The scans in flight but one.
AllBut(k) == SubSeq(scans, 1, k - 1) \o SubSeq(scans, k + 1, Len(scans))

TypeOK ==
  /\ {disk, shown, picked, found} \subseteq Libraries
  /\ scans \in Seq([at : {"sent", "answer"}, found : Libraries])
  /\ asked \in [what : Libraries, found : Libraries]
  /\ todo \in Seq(Files \cup Folders) /\ changes \in 0..MaxChanges
  /\ scanning \in BOOLEAN /\ stale \in BOOLEAN /\ spoilt \subseteq Files

\* The window opens with a scan.
Init ==
  /\ disk \in {lib \in Libraries : \A f \in lib \cap Files : Folder[f] \in lib \cup {NoFolder}}
  /\ shown = {} /\ scans = <<Sent>> /\ scanning = TRUE /\ picked = {} /\ asked = NoAsk
  /\ todo = <<>> /\ found = {} /\ changes = 0 /\ stale = FALSE /\ spoilt = {}

\* The refresh button; the confirmation is modal.
Scan ==
  /\ ~scanning /\ asked = NoAsk /\ Len(scans) < MaxScans
  /\ scans' = Append(scans, Sent) /\ scanning' = TRUE
  /\ UNCHANGED <<disk, shown, picked, asked, todo, found, changes, stale, spoilt>>

ScanReads(k) ==
  /\ scans[k].at = "sent"
  /\ scans' = [scans EXCEPT ![k] = [at |-> "answer", found |-> disk]]
  /\ UNCHANGED <<disk, shown, scanning, picked, asked, todo, found, changes, stale, spoilt>>

\* The answers come in any order; each is shown as it comes, and turns the button on.
ScanAnswered(k) ==
  /\ scans[k].at = "answer"
  /\ shown' = scans[k].found /\ stale' = (scans[k].found # disk)
  /\ scans' = AllBut(k) /\ scanning' = FALSE
  /\ UNCHANGED <<disk, picked, asked, todo, found, changes, spoilt>>

ScanFails(k) ==
  /\ scans' = AllBut(k) /\ scanning' = FALSE /\ stale' = TRUE
  /\ UNCHANGED <<disk, shown, picked, asked, todo, found, changes, spoilt>>

Listed == Orphans(shown) \cup EmptyFolders(shown)

\* A tick, which only a row of the lists has; the ticks outlive the lists.
Toggle(i) ==
  /\ asked = NoAsk /\ i \in Listed
  /\ picked' = IF i \in picked THEN picked \ {i} ELSE picked \cup {i}
  /\ UNCHANGED <<disk, shown, scans, scanning, asked, todo, found, changes, stale, spoilt>>

\* deleteSelected: of what is ticked, the rows that are there.
DeleteSelected ==
  /\ asked = NoAsk /\ picked \cap Listed # {}
  /\ asked' = [what |-> picked \cap Listed, found |-> shown]
  /\ UNCHANGED <<disk, shown, scans, scanning, picked, todo, found, changes, stale, spoilt>>

Reject ==
  /\ asked # NoAsk /\ asked' = NoAsk
  /\ UNCHANGED <<disk, shown, scans, scanning, picked, todo, found, changes, stale, spoilt>>

\* The orphans come first, in the order of their list; then the folders in that of theirs.
\* One loop at a time is a bound of the model.
Accept ==
  /\ asked # NoAsk /\ todo = <<>>
  /\ \E orphans \in Listings(asked.what \cap Files), empty \in Listings(asked.what \cap Folders) :
       todo' = orphans \o empty
  /\ found' = asked.found /\ asked' = NoAsk
  /\ UNCHANGED <<disk, shown, scans, scanning, picked, changes, stale, spoilt>>

\* After the last request the ticks go, and a scan is made whatever is in flight.
Goes(lost) ==
  /\ disk' = disk \ lost /\ todo' = Tail(todo)
  /\ spoilt' = spoilt \cup (lost \cap OfModels(found))
  /\ stale' = (stale \/ lost # {})
  /\ IF Len(todo) = 1
     THEN picked' = {} /\ found' = {} /\ scans' = Append(scans, Sent) /\ scanning' = TRUE
     ELSE UNCHANGED <<picked, found, scans, scanning>>
  /\ UNCHANGED <<shown, asked, changes>>

\* One request of the loop; one that fails, or finds nothing, does not end it.
Delete ==
  /\ todo # <<>> /\ Len(scans) < MaxScans
  /\ \/ Head(todo) \in disk /\ Goes(Takes(Head(todo)) \cap disk)
     \/ Goes({})

\* A download lands, a model is renamed or deleted, the disk is tidied up.
ChangeElsewhere ==
  /\ changes < MaxChanges /\ changes' = changes + 1
  /\ \/ \E f \in Files \ disk : disk' = disk \cup {f} \cup ({Folder[f]} \ {NoFolder})
     \/ \E i \in disk : disk' = disk \ (IF i \in Folders THEN Takes(i) ELSE {i})
  /\ stale' = TRUE
  /\ UNCHANGED <<shown, scans, scanning, picked, asked, todo, found, spoilt>>

Next ==
  \/ Scan \/ DeleteSelected \/ Reject \/ Accept \/ Delete \/ ChangeElsewhere
  \/ \E k \in DOMAIN scans : ScanReads(k) \/ ScanAnswered(k) \/ ScanFails(k)
  \/ \E i \in Files \cup Folders : Toggle(i)

Spec == Init /\ [][Next]_hygieneVars

-----------------------------------------------------------------------------
\* The invariant that HygieneSafe rests on: what is asked about, and what is still to be
\* deleted, was listed in the library it was found in; and the lists are the library's,
\* unless a scan is to come or they are stale.
HygieneInv ==
  /\ TypeOK
  /\ asked # NoAsk => asked.what \subseteq Orphans(asked.found) \cup EmptyFolders(asked.found)
  /\ Range(todo) \subseteq Orphans(found) \cup EmptyFolders(found)
  /\ ~stale => shown = disk \/ scans # <<>>
  /\ spoilt \subseteq Shared

\* Between the scan and the last deletion the library changes at will, yet no model
\* that the scan had seen is deleted, nor a sidecar that is its alone: all that goes
\* with an orphan of another stem is a preview whose name both stems claim, which the
\* backend does not keep from it.  And once nothing is in flight the lists are the
\* library's, unless an answer was late or lost or others have changed it.
HygieneSafe ==
  /\ spoilt \subseteq Shared
  /\ scans = <<>> /\ ~stale => Listed = Orphans(disk) \cup EmptyFolders(disk)
================================================================================
