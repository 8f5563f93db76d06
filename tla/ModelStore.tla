------------------------------ MODULE ModelStore ------------------------------
(***************************************************************************)
(* The model listings of one page: the models store of src/hooks/model.ts, *)
(* with what reads and changes it: App.vue, DialogModelDetail.vue, the     *)
(* completion of downloads, and the loading overlay all of them show.      *)
(*                                                                         *)
(* A listing is the number of changes of its folder it shows.  JavaScript  *)
(* runs a handler to its next await, so a step is a handler up to a        *)
(* request, or from its answer.  Events of the websocket keep their order; *)
(* requests and their answers do not.                                      *)
(***************************************************************************)
EXTENDS Integers, FiniteSets, Sequences, Overlay

CONSTANTS
  Types,        \* the visible model types
  CardType,     \* the type of the model whose window may be open
  MaxChanges,   \* bound: changes of each folder
  MaxScans,     \* bound: scans of each folder
  Sweeps,       \* bound: scans of everything at one time
  None

\* What the constants have to satisfy.
StoreAssumption ==
  /\ CardType \in Types /\ IsFiniteSet(Types)
  /\ MaxChanges \in Nat /\ MaxScans \in Nat
  /\ None \notin Nat \cup Types
  /\ Sweeps \cap {"nobody", "remove", "download", "settle"} = {}

VARIABLES
  disk,          \* disk[t]: how often the folder of type t has changed
  renamed,       \* the change that converted the card's model to another name, or None
  events,        \* the websocket events on their way to this page
  shown,         \* models.value[t]: the changes its listing shows, or None
  generation,    \* folderGeneration
  scans,         \* the requests of refreshModels that are not settled
  sweeps,        \* sweeps[k]: a refreshAllModels that is under way, or none
  initialized, loadedOnce,
  saving,        \* the PUT of updateModel: "no", "sent", "done", "failed"
  removing,      \* the DELETE of deleteModel, likewise, and "rescan"
  card,          \* the window of the model
  overlay,       \* the loading overlay
  missed         \* history: missed[t]: nobody told the page of a change of t

fetching == <<generation, scans, sweeps>>
flags    == <<initialized, loadedOnce>>
backend  == <<disk, renamed, events>>
requests == <<saving, removing>>
vars     == <<backend, shown, fetching, flags, requests, card, overlay, missed>>

Version == 0..MaxChanges

\* What waits for a scan: a sweep, the promise of a delete, the overlay of a
\* finished download, the swap of a converted model's window, or nobody.
Waiter == {"nobody", "remove", "download", "settle"} \cup Sweeps

Scan == [type : Types, gen : 1..MaxScans, silent : BOOLEAN, waiter : Waiter,
         seen : Version \cup {None}]

\* The targets of the loading overlay: the store's own, per type and default, and
\* the download store's.
Target == Types \cup {"store", "download"}

Event == [kind : {"changed", "downloaded", "settled"}, type : Types]

TypeOK ==
  /\ disk \in [Types -> Version] /\ renamed \in Version \cup {None}
  /\ events \in Seq(Event)
  /\ shown \in [Types -> Version \cup {None}]
  /\ generation \in [Types -> 0..MaxScans] /\ scans \subseteq Scan
  /\ sweeps \in [Sweeps -> [phase : {"no", "folders", "types"},
                                  silent : BOOLEAN, waiter : {"nobody", "download"}]]
  /\ {initialized, loadedOnce} \subseteq BOOLEAN
  /\ saving \in {"no", "sent", "done", "failed"}
  /\ removing \in {"no", "sent", "done", "failed", "rescan"}
  /\ card \in [open : BOOLEAN, editing : BOOLEAN, pendingReflect : BOOLEAN]
  /\ overlay \in Overlays(Target, 2 * MaxScans * Cardinality(Types) + 4)
  /\ missed \in [Types -> BOOLEAN]

Closed == [open |-> FALSE, editing |-> FALSE, pendingReflect |-> FALSE]
Over   == [phase |-> "no", silent |-> TRUE, waiter |-> "nobody"]

Init ==
  /\ disk = [t \in Types |-> 0] /\ renamed = None /\ events = <<>>
  /\ shown = [t \in Types |-> None]
  /\ generation = [t \in Types |-> 0] /\ scans = {}
  /\ sweeps = [k \in Sweeps |-> Over]
  /\ initialized = FALSE /\ loadedOnce = FALSE
  /\ saving = "no" /\ removing = "no"
  /\ card = Closed
  /\ overlay = Hidden
  /\ missed = [t \in Types |-> FALSE]

-----------------------------------------------------------------------------
(* Scanning *)

CanScan(S) == \A t \in S : generation[t] < MaxScans

\* refreshModels for each type of S, up to its await.  The caller has shown or
\* hidden what overlay o says.
StartScans(S, silent, waiter, o) ==
  /\ CanScan(S)
  /\ generation' = [t \in Types |-> generation[t] + (IF t \in S THEN 1 ELSE 0)]
  /\ scans' = scans \cup {[type |-> t, gen |-> generation'[t], silent |-> silent,
                           waiter |-> waiter, seen |-> None] : t \in S}
  /\ overlay' = IF silent THEN o ELSE Show(o, S)

\* The backend walks the folder.
ReadFolder(s) ==
  /\ s.seen = None
  /\ scans' = (scans \ {s}) \cup {[s EXCEPT !.seen = disk[s.type]]}
  /\ UNCHANGED <<backend, shown, generation, sweeps, flags, requests, card, overlay, missed>>

\* Mutant of Superseded: whichever answer arrives last is shown.
NeverSuperseded(s) == FALSE

\* A newer scan of the folder has been started.
Superseded(s) == generation[s.type] # s.gen

\* The listing the store holds once s has been answered.
Listing(s) == IF Superseded(s) THEN shown[s.type] ELSE s.seen

\* The watcher of DialogModelDetail: the first listing that has the model after a
\* save becomes the payload of its window, which resets the form and ends editing.
Reflected(s) ==
  IF /\ ~Superseded(s) /\ s.type = CardType
     /\ card.open /\ card.pendingReflect
     /\ renamed = None \/ s.seen < renamed
    THEN [Closed EXCEPT !.open = TRUE]
    ELSE card

\* handleZipnnSettled after its scan: the window of the old name is closed, and
\* opened again if the listing has the new one.
Swapped(s) ==
  IF renamed # None /\ Listing(s) # None /\ Listing(s) >= renamed
    THEN [Closed EXCEPT !.open = TRUE]
    ELSE Closed

\* The continuation of whoever waited for s, when it was the last one waited for.
SweepOver(s) ==
  /\ s.waiter \in Sweeps
  /\ \A r \in scans \ {s} : r.waiter # s.waiter

Settle(s) ==
  /\ scans' = scans \ {s}
  /\ LET o == IF s.silent THEN overlay ELSE Hide(overlay, s.type) IN
     overlay' = CASE s.waiter = "remove" -> Hide(o, "store")
                  [] s.waiter = "download" -> Hide(o, "download")
                  [] SweepOver(s) /\ sweeps[s.waiter].waiter = "download" -> Hide(o, "download")
                  [] OTHER -> o
  /\ removing' = IF s.waiter = "remove" THEN "no" ELSE removing
  /\ IF SweepOver(s)
       THEN /\ sweeps' = [sweeps EXCEPT ![s.waiter] = Over]
            /\ loadedOnce' = TRUE
       ELSE UNCHANGED <<sweeps, loadedOnce>>
  /\ UNCHANGED <<backend, generation, initialized, saving>>

\* The answer of a scan arrives.
ScanAnswered(s) ==
  /\ s.seen # None
  /\ shown' = [shown EXCEPT ![s.type] = Listing(s)]
  /\ card' = IF s.waiter = "settle" /\ card.open THEN Swapped(s) ELSE Reflected(s)
  /\ missed' = [missed EXCEPT ![s.type] = @ /\ (Superseded(s) \/ s.seen # disk[s.type])]
  /\ Settle(s)

\* A scan fails: the listing that is shown stays, and the failure is reported.
ScanFailed(s) ==
  /\ s.seen = None
  /\ card' = IF s.waiter = "settle" /\ card.open THEN Swapped([s EXCEPT !.gen = 0]) ELSE card
  /\ missed' = [missed EXCEPT ![s.type] = TRUE]
  /\ Settle(s)
  /\ UNCHANGED shown

-----------------------------------------------------------------------------
(* Scanning everything *)

\* refreshAllModels: the folder table first, if it is to be fetched again.
StartSweep(k, silent) ==
  /\ sweeps[k].phase = "no"
  /\ sweeps' = [sweeps EXCEPT ![k] = [phase |-> "folders", silent |-> silent, waiter |-> "nobody"]]

\* The manager is opened: the first time everything is scanned, later listings older
\* than REVALIDATE_TTL_MS, as they may be at any time, are scanned behind the view.
OpenManager(k) ==
  /\ StartSweep(k, initialized)
  /\ UNCHANGED <<backend, shown, generation, scans, flags, requests, card, overlay, missed>>

\* The refresh button, and the one that shows hidden files.
RefreshButton(k) ==
  /\ initialized
  /\ StartSweep(k, FALSE)
  /\ UNCHANGED <<backend, shown, generation, scans, flags, requests, card, overlay, missed>>

\* The folder table has come, or not; the types the page knows are scanned.
FoldersAnswered(k) ==
  /\ sweeps[k].phase = "folders"
  /\ \E ok \in BOOLEAN :
       /\ initialized' = (initialized \/ ok)
       /\ IF initialized'
            THEN /\ StartScans(Types, sweeps[k].silent, k, overlay)
                 /\ sweeps' = [sweeps EXCEPT ![k].phase = "types"]
                 /\ UNCHANGED loadedOnce
            ELSE /\ sweeps' = [sweeps EXCEPT ![k] = Over]
                 /\ loadedOnce' = TRUE
                 /\ UNCHANGED <<generation, scans, overlay>>
  /\ UNCHANGED <<backend, shown, requests, card, missed>>

-----------------------------------------------------------------------------
(* Events *)

Changed(t)    == [kind |-> "changed", type |-> t]
Downloaded(t) == [kind |-> "downloaded", type |-> t]
Settled       == [kind |-> "settled", type |-> CardType]

\* Another page, a tool or the watcher changes a folder; the watcher may be off.
ChangeElsewhere(t) ==
  /\ disk[t] < MaxChanges
  /\ disk' = [disk EXCEPT ![t] = @ + 1]
  /\ \/ events' = Append(events, Changed(t)) /\ UNCHANGED missed
     \/ missed' = [missed EXCEPT ![t] = TRUE] /\ UNCHANGED events
  /\ UNCHANGED <<renamed, shown, fetching, flags, requests, card, overlay>>

\* A download of this page lands in the library.
Download(t) ==
  /\ disk[t] < MaxChanges
  /\ disk' = [disk EXCEPT ![t] = @ + 1]
  /\ events' = Append(events, Downloaded(t))
  /\ UNCHANGED <<renamed, shown, fetching, flags, requests, card, overlay, missed>>

\* A conversion of the card's model ends.
Convert ==
  /\ renamed = None /\ disk[CardType] < MaxChanges
  /\ disk' = [disk EXCEPT ![CardType] = @ + 1]
  /\ renamed' = disk'[CardType]
  /\ events' = Append(events, Settled)
  /\ UNCHANGED <<shown, fetching, flags, requests, card, overlay, missed>>

\* Mutant of OnChanged: an event is dropped while the folder is being scanned.
OnChangedIfIdle ==
  LET t == Head(events).type IN
  /\ events # <<>> /\ Head(events).kind = "changed"
  /\ events' = Tail(events)
  /\ IF loadedOnce /\ \A s \in scans : s.type # t
       THEN StartScans({t}, TRUE, "nobody", overlay) /\ UNCHANGED missed
       ELSE /\ missed' = [missed EXCEPT ![t] = @ \/ ~loadedOnce]
            /\ UNCHANGED <<generation, scans, overlay>>
  /\ UNCHANGED <<disk, renamed, shown, sweeps, flags, requests, card>>

\* models_changed, which a page that has never been loaded ignores.
OnChanged ==
  LET t == Head(events).type IN
  /\ events # <<>> /\ Head(events).kind = "changed"
  /\ events' = Tail(events)
  /\ IF loadedOnce
       THEN StartScans({t}, TRUE, "nobody", overlay) /\ UNCHANGED missed
       ELSE /\ missed' = [missed EXCEPT ![t] = TRUE]
            /\ UNCHANGED <<generation, scans, overlay>>
  /\ UNCHANGED <<disk, renamed, shown, sweeps, flags, requests, card>>

\* complete_download_task: the overlay is up until the folder has been scanned.
OnDownloaded ==
  LET t == Head(events).type IN
  /\ events # <<>> /\ Head(events).kind = "downloaded"
  /\ events' = Tail(events)
  /\ StartScans({t}, FALSE, "download", Show(overlay, {"download"}))
  /\ UNCHANGED <<disk, renamed, shown, sweeps, flags, requests, card, missed>>

\* The same for a task this page has never seen: everything is scanned.
OnUnknownDownloaded(k) ==
  /\ events # <<>> /\ Head(events).kind = "downloaded" /\ sweeps[k].phase = "no"
  /\ events' = Tail(events)
  /\ IF initialized
       THEN /\ StartScans(Types, FALSE, k, Show(overlay, {"download"}))
            /\ sweeps' = [sweeps EXCEPT ![k] = [phase |-> "types", silent |-> FALSE, waiter |-> "download"]]
            /\ UNCHANGED <<loadedOnce, missed>>
       ELSE /\ sweeps' = [sweeps EXCEPT ![k] = Over]
            /\ loadedOnce' = TRUE
            /\ missed' = [missed EXCEPT ![Head(events).type] = TRUE]
            /\ UNCHANGED <<generation, scans, overlay>>
  /\ UNCHANGED <<disk, renamed, shown, initialized, requests, card>>

\* mm-zipnn-settled
OnSettled ==
  /\ events # <<>> /\ Head(events).kind = "settled"
  /\ events' = Tail(events)
  /\ StartScans({CardType}, FALSE, "settle", overlay)
  /\ UNCHANGED <<disk, renamed, shown, sweeps, flags, requests, card, missed>>

-----------------------------------------------------------------------------
(* The window of a model *)

\* openModelDetail; an open window gets the listing's model and resets its form.
OpenCard ==
  /\ shown[CardType] # None
  /\ card' = [card EXCEPT !.open = TRUE, !.editing = FALSE]
  /\ UNCHANGED <<backend, shown, fetching, flags, requests, overlay, missed>>

CloseCard ==
  /\ card.open
  /\ card' = Closed
  /\ UNCHANGED <<backend, shown, fetching, flags, requests, overlay, missed>>

Edit ==
  /\ card.open /\ ~card.editing
  /\ card' = [card EXCEPT !.editing = TRUE]
  /\ UNCHANGED <<backend, shown, fetching, flags, requests, overlay, missed>>

\* handleSave and updateModel, up to the PUT; without changes there is none.
Save ==
  /\ card.open /\ card.editing /\ saving = "no"
  /\ \/ /\ saving' = "sent"
        /\ card' = [card EXCEPT !.pendingReflect = TRUE]
        /\ overlay' = Show(overlay, {"store"})
     \/ /\ card' = [card EXCEPT !.pendingReflect = TRUE, !.editing = FALSE]
        /\ UNCHANGED <<saving, overlay>>
  /\ UNCHANGED <<backend, shown, fetching, flags, removing, missed>>

\* The backend's update_model, which tells every page.
SaveLands ==
  /\ saving = "sent" /\ disk[CardType] < MaxChanges
  /\ saving' = "done"
  /\ disk' = [disk EXCEPT ![CardType] = @ + 1]
  /\ events' = Append(events, Changed(CardType))
  /\ UNCHANGED <<renamed, shown, fetching, flags, removing, card, overlay, missed>>

SaveFails ==
  /\ saving = "sent"
  /\ saving' = "failed"
  /\ UNCHANGED <<backend, shown, fetching, flags, removing, card, overlay, missed>>

\* The answer to the PUT.  A rename closes the window.
SaveAnswered ==
  \/ /\ saving = "done"
     /\ saving' = "no"
     /\ StartScans({CardType}, FALSE, "nobody", Hide(overlay, "store"))
     /\ \E rename \in BOOLEAN :
          card' = [card EXCEPT !.open = @ /\ ~rename, !.editing = FALSE,
                               !.pendingReflect = @ /\ ~rename]
     /\ UNCHANGED <<backend, shown, sweeps, flags, removing, missed>>
  \/ /\ saving = "failed"
     /\ saving' = "no"
     /\ overlay' = Hide(overlay, "store")
     /\ card' = [card EXCEPT !.editing = FALSE, !.pendingReflect = FALSE]
     /\ UNCHANGED <<backend, shown, fetching, flags, removing, missed>>

\* deleteModel, once it has been confirmed.
Remove ==
  /\ removing = "no"
  /\ removing' = "sent"
  /\ overlay' = Show(overlay, {"store"})
  /\ UNCHANGED <<backend, shown, fetching, flags, saving, card, missed>>

RemoveLands ==
  /\ removing = "sent" /\ disk[CardType] < MaxChanges
  /\ removing' = "done"
  /\ disk' = [disk EXCEPT ![CardType] = @ + 1]
  /\ events' = Append(events, Changed(CardType))
  /\ UNCHANGED <<renamed, shown, fetching, flags, saving, card, overlay, missed>>

RemoveFails ==
  /\ removing = "sent"
  /\ removing' = "failed"
  /\ UNCHANGED <<backend, shown, fetching, flags, saving, card, overlay, missed>>

RemoveAnswered ==
  \/ /\ removing = "done"
     /\ removing' = "rescan"
     /\ StartScans({CardType}, FALSE, "remove", overlay)
     /\ card' = Closed
     /\ UNCHANGED <<backend, shown, sweeps, flags, saving, missed>>
  \/ /\ removing = "failed"
     /\ removing' = "no"
     /\ overlay' = Hide(overlay, "store")
     /\ UNCHANGED <<backend, shown, fetching, flags, saving, card, missed>>

-----------------------------------------------------------------------------
\* The grace timer of a target passes.
TimerFires(t) ==
  /\ t \in overlay.timers
  /\ overlay' = Fire(overlay, t)
  /\ UNCHANGED <<backend, shown, fetching, flags, requests, card, missed>>

Next ==
  \/ \E s \in scans : ReadFolder(s) \/ ScanAnswered(s) \/ ScanFailed(s)
  \/ \E k \in Sweeps : OpenManager(k) \/ RefreshButton(k) \/ FoldersAnswered(k)
                     \/ OnUnknownDownloaded(k)
  \/ \E t \in Types : ChangeElsewhere(t) \/ Download(t)
  \/ Convert \/ OnChanged \/ OnDownloaded \/ OnSettled
  \/ OpenCard \/ CloseCard \/ Edit \/ Save \/ SaveLands \/ SaveFails \/ SaveAnswered
  \/ Remove \/ RemoveLands \/ RemoveFails \/ RemoveAnswered
  \/ \E t \in Target : TimerFires(t)

Spec == Init /\ [][Next]_vars

-----------------------------------------------------------------------------
(* Properties *)

\* "The old code assigned whichever response arrived LAST": a listing never goes
\* back to an older state of its folder.
NeverBackInTime ==
  \A t \in Types : shown[t] # None => shown'[t] # None /\ shown'[t] >= shown[t]

\* Nothing about the folder is on its way to the page.
Quiet(t) ==
  /\ \A s \in scans : s.type # t
  /\ \A i \in DOMAIN events : events[i].type # t
  /\ t = CardType => saving \notin {"sent", "done"} /\ removing \notin {"sent", "done"}

\* A page that has been loaded shows every folder as it is, once nothing is on
\* its way, unless nobody told it of a change.
ShownIsCurrent == \A t \in Types :
  loadedOnce /\ initialized /\ Quiet(t) => shown[t] = disk[t] \/ missed[t]

\* "The overlay never went away": it is down whenever nothing shows it.
OverlayComesDown ==
  /\ saving = "no" /\ removing = "no"
  /\ \A s \in scans : s.silent
  => ~IsUp(overlay)
================================================================================
