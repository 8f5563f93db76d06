# Formal models of ComfyUI-Model-Manager-Neo

TLA+ models of the model manager: the downloads and the ZipNN conversions of its
backend, the folder watcher, and what the page keeps and does. They are checked
with TLC; the core is proved with TLAPS. The code is the reference: every
definition that models code is listed in `PROJECT.json` under `map` with the lines
it stands for. Paths below
are relative to the repository (`py/...` is the Python backend, `src/...` the Vue
frontend, `native/...` the Rust core).

To run a check: `tlc -config DownloadTasks.cfg MCDownloadTasks`. To check a
proof: `tlapm DownloadTasksProofs.tla`.

## 1. The system

The extension lives inside a ComfyUI process. One asyncio event loop runs every
HTTP handler, every transfer and every ZipNN worker of the backend. CPU-bound and
blocking work goes to an executor or to native threads, which run in parallel
with the loop. Browser tabs talk to the backend by HTTP requests and receive
websocket events, which every tab gets. What survives a restart is the disk: the
model library, the scratch directory of downloads (`<id>.task`, `<id>.download`)
and the codec's files.

| Component | State | Operations | Where it is hard |
|---|---|---|---|
| Download pool (`py/thread.py`) | `_tasks`: id to asyncio task | `submit`, `cancel`, the wrapper's `finally` | a cancelled coroutine is still there until it unwinds; one cancelled before it starts never runs its `finally` |
| Download engine (`py/download.py`) | rows (`download_model_task_status`), `_inline_sha256`, `<id>.task`, `<id>.download`, the library | create, pause, resume, delete, list; the HTTP transfer; completion and the SHA256 gate | requests between any two awaits of a transfer, servers that ignore ranges or leave out lengths, crashes between rename and clean-up |
| Hub transfers (`_hub_transfer`) | the hub library's cache, the same rows | a blocking fetch in an executor thread, polled progress | cancelling the task does not stop the thread |
| Local upload (`py/upload.py`) | `<path>.tmp`, the same rows | staged upload, cancel through the row | two uploads of one name share the `.tmp`; awaits after the rename |
| ZipNN routes (`py/compress.py`) | `ZIPNN_TASKS`, source, target, sidecars | compress, decompress, delta-compress, delta-decompress, folder batch, cancel, startup sweep | the target is checked long before it is renamed into place; source removal after a thread's commit |
| Job registry (`native/crates/mm-core/src/jobs.rs`) | jobs: state, cancel flag, creation time | spawn, progress, cancel, result, age sweep | a job dropped before its worker has seen it end |
| Codec files (`native/crates/znn-codec`) | `<dst>.tmp`, `<dst>`, delta sidecar | `AtomicWriter` create, commit, drop; the pipelines' checks | exclusive creation against leftovers of a crash |
| Folder watcher (`py/watcher.py`, `znn-codec/src/watch.rs`) | armed roots, handle, cooldown times | arm, poll, rescan, broadcast, degrade, stop | changes drained inside a cooldown; `stop` during arming |
| Frontend ZipNN queue (`src/hooks/zipnn.ts`) | queue, `zipnnState`, task id | enqueue, start, events, cancel | the POST's answer and the websocket are unordered; events of other tabs |
| Frontend download list (`src/hooks/download.ts`) | rows, `pausedByPrompt` | websocket events, the whole list after a reconnection, buttons, pause and resume around prompts | events pass answers; the prompt's requests are unordered |
| Frontend model store (`src/hooks/model.ts`) | listings, `folderGeneration`, pending scans | scans, sweeps, saves, deletes, `models_changed` and completions | answers of overlapping scans |
| Loading overlay (`src/hooks/loading.ts`) | grace timers, a count | show, hide | pairs that overlap within the grace period |
| Download form (`DialogCreateTask.vue`, `download.ts`) | field, results, version, file, free space | search, pages, resolve, choose, download | late answers; state beside the field |
| Hub upload (`py/upload_hf.py`, `hfUpload.ts`, `DialogHfUpload.vue`) | upload task, progress, the wizard's steps | upload, completion, prefill, account | the id of a task comes later than its events; every page gets every event |
| Credential store (`py/auth.py`, `SettingApiKey.vue`) | `private.key`, the panel's copy | read, set, remove | unordered requests, a restart under an open page |
| Card settings (`config.ts`, `SettingCardSize.vue`) | sizes, flags, in ComfyUI's settings | load, save, edit | whatever was kept comes back at every load |
| Library views (`explorer.ts`, `DialogExplorer.vue`, `DialogManager.vue`, `modelFilter.ts`) | breadcrumb, filters, rows | open, go up, search, sort, resize | names walked again through a tree that scans replace |
| Saved searches, stars (`collections.ts`, `stars.ts`) | lists kept in ComfyUI's settings | save, apply, remove, star, migrate | the window that saves is older than the search; two keys of one folder |
| Window of a model (`DialogModelDetail.vue`, `ModelBaseInfo.vue`, `ModelPreview.vue`, `PreviewLightbox.vue`, `ModelInformation.vue`) | form and snapshot, gallery, image, tensor rows | edit, save, cancel, move and remove previews, expand | scans, watchers and failed saves rewrite the form; indices into lists that change |
| Windows of the page (`GlobalDialogStack.vue`, `dialog.ts`) | stack, geometry | open, close, drag, resize, maximize | the viewport changes under gestures and hidden windows |
| Selection and bulk actions (`folderSelection.ts`, `toast.ts`, `zipnnDelta.ts`) | ticks and their kinds, one open question | tick, delete, batch, delta | one question for everybody; kinds and listings change under it |
| Library hygiene (`DialogHygiene.vue`, `py/manager.py`) | lists of orphans and empty folders, ticks | scan, delete | the library changes between scan and deletion |
| Canvas (`modelGrid.ts`, `model.ts`) | nodes and their widgets | drop, add | which widget a model goes into |
| Readers (`py/http_client.py`, `search.py`, `information.py`, `identify.py`, `manager.py`, `utils.py`) | none between requests | requests, parsing, scans | pure I/O and parsing |
| Codec, scanner, hashing, previews (internals) | none between calls | | byte formats, fuzzed by the repository's own tests |
| Presentational components, installer, CI | | | presentation and packaging |

What makes each component correct: one writer per partial file; a file lands
whole and only where none is; a pause stays a pause and a delete a delete; a row
never says that something runs which does not; the model outlives its
conversions; every task that was accepted says how it ended; queues drain; a
change on disk reaches the client; what the page shows is what there is, once
nothing is on its way; and what is done is what the user saw and agreed to.

`PROJECT.json` lists under `hazards` the places where these can go wrong in a way
a test would hardly reach, each at its line, with the properties that watch it.

## 2. Modules

| Module | Models | Checked by |
|---|---|---|
| `DownloadPromise` | what the download component promises to the library (abstract) | refined by `DownloadTasks` (`KeepsPromise`) |
| `DownloadTasks` | pool, rows, records, requests and transfer coroutines, for many tasks | `DownloadTasks.cfg`, `DownloadTaskLife.cfg`, `DownloadDelete.cfg` |
| `DownloadTasksProofs` | proofs about `DownloadTasks` | `tlapm` |
| `HttpTransfer` | one transfer byte by byte: ranges, sizes, digests, completion | `HttpTransfer.cfg`, `HttpTruncated.cfg`, `HttpSettle.cfg` |
| `HttpTransferProofs` | proofs about `HttpTransfer` | `tlapm` |
| `ZipnnJobs` | ZipNN tasks on one model: workers, native jobs, files | `ZipnnJobs.cfg`, `ZipnnCleanup.cfg` |
| `ZipnnJobsProofs` | proofs about `ZipnnJobs` | `tlapm` |
| `ZipnnQueue` | the ZipNN queue of one tab, with the backend as its environment | `ZipnnQueue.cfg`, `ZipnnQueueDrains.cfg` |
| `ZipnnQueueProofs` | proofs about `ZipnnQueue` | `tlapm` |
| `Overlay`, `ModelStore` | the listings of a page with everything that scans; the loading overlay | `Models.cfg`, part `store` |
| `ModelStoreProofs` | proofs about `ModelStore` | `tlapm` |
| `Views`, `Collections` | the folder explorer and the flat grid; the saved searches | `Models.cfg`, parts `views`, `saved` |
| `Editor`, `Gallery`, `Lightbox`, `TensorTable` | the window of a model | `Models.cfg`, parts of these names |
| `Watcher` | the watcher task of the backend and its native sessions | `Models.cfg`, part `watcher` |
| `Windows` | geometry and stacking of the page's windows | `Page.cfg`, part `windows` |
| `SelectionState`, `Selection`, `BatchBar` | ticks and kinds; bulk deletes; folder batches and deltas | `Page.cfg`, parts `selection`, `batches` |
| `Hygiene`, `ZipnnConfirm` | the hygiene window; the question before a conversion | `Page.cfg`, parts `hygiene`, `confirm` |
| `DownloadList`, `SearchForm`, `DownloadPlan` | the download list and the form | `Page.cfg`, parts `list`, `form`, `plan` |
| `HubUpload`, `HubWizard`, `LocalUpload` | the uploads, with their wizards | `Page.cfg`, parts `bar`, `guide`, `upload` |
| `ApiKey`, `CardSizes`, `Stars` | what is kept in settings | `Page.cfg`, parts `key`, `sizes`, `stars` |
| `CanvasDrop` | models as nodes on the canvas | `Page.cfg`, part `canvas` |
| `MCModels`, `MCPage` | the parts above side by side | |
| `PageParts` | the parts of `MCPage` about what comes and goes and what is done with models, which it extends | |
| `MCModelsProofs`, `MCPageProofs` | proofs about the behaviours of the two, and about their smaller parts | `tlapm` |
| `PagePartsProofs` | the invariants of those parts | `tlapm` |
| `MCDownloadTasks`, `MCHttpTransfer` | symmetry and constant values for TLC | |

Definitions whose comment begins with "Mutant of" are the code with a plausible
bug put in. No specification uses them; put in the place of what they are a mutant
of, each shows that one property notices one such bug (`mutants` in `PROJECT.json`).

`MCModels` and `MCPage` hold parts that share no state the properties speak of, so
they are not composed but checked side by side: the variable `part` never changes,
a behaviour is one of one part, and `c1`, `c2`, ... stand for that part's variables.
What couples them is modelled inside a part as its environment: a scan that lands is
a step of `ModelStore`, and an input of `Views`, `Editor`, `Selection` and `BatchBar`;
the shared confirmation is in each of the parts that ask.

### DownloadTasks

A step is the code between two awaits, because the event loop interrupts a
coroutine nowhere else. `pc[r]` names the await at which coroutine `r` is
suspended; the coroutine's step from there performs everything up to the next
await. `pool`, `owner` and `cancelled` are the pool of `py/thread.py`:
cancellation is a flag that the coroutine's next step turns into `CancelledError`
(`RunUnwind`), the pool entry stays until the wrapper's `finally` (`End`), and
`Submit` refuses a task whose entry is not done. A coroutine that is cancelled
before its first step never enters the wrapper, so its done entry stays in the
pool, as in asyncio. The requests are `CreateChecks`/`CreateStore`/`CreateSubmit`
(with their failures), `Resume`, `Pause`, `DeleteStart`/`DeleteIdle`/
`DeleteRunning`/`DeleteFiles` (the second of sleep lies between the last two) and
`List`.

Bytes are abstracted to "nothing, a part, all that the transfer believes to be
all" and to whether what is there is torn, that is no prefix of the file. A file
gets torn when a transfer that resumes at an offset finds its partial gone and
appends to an empty file. A restart drops everything that lives in memory.

Two details to know when reading it: `RunShort` sets the row it can still reach,
which the code does through a reference it took earlier (the two differ only for
the row of a task that has been deleted meanwhile), and the row of a landed task
keeps its last status, as in the code, where it is dropped with the task.

### HttpTransfer

One task, one coroutine (that there is only one is `SingleWriter` of
`DownloadTasks`). A byte is the version of the remote object it comes from, so a
file is whole when it is `Size[v]` times `v`, and a digest is the sequence that
was hashed. The server may ignore the range (200), answer 416, leave out
Content-Length or replace the object; the transfer may be paused, restarted or
fail at every await. All of these share the budget `MaxFaults`.

### ZipnnJobs

One model in one of two forms, plain and packed, and any number of tasks that
convert one form to the other. A worker runs on the event loop and a job on a
native thread, so their steps interleave at every file operation. `Accept` is a
route's check and registration, `Start` the call into the registry (with its age
sweep), `PollDone` and `PollFailed` what the worker finds, `Finish` and `Fail` the
reports. A job checks the target, maps the source, creates `<dst>.tmp`, writes,
verifies, renames, and for a delta writes the sidecar. Contents are whole or torn.

`AtomicWriter::new` is three calls: `JobCreate` (create_new), `JobStat` (the age of
what was there) and `JobTakeOver` (create and truncate, whoever has the name by now).
A `.tmp` is therefore a file with an identity, its creator: `tmp` says which file has
the name and `holds` which one a thread has open, and what two writers of one file
leave is whole or torn (`Outputs`). The startup sweep is two calls as well
(`SweepLook`, `SweepRemove`) and goes by the time it began at; the model begins with a
sweep that may find the leftover of an earlier session.

Whether a restore is verified depends on the packed file: `sealed` says that it
records a digest which a restore must match. A file of the official tools records none
(`Init` chooses), and for one whose source had no canonical header a mismatch is only
warned about (chosen when the file is written). The digest is of the bytes fed to the writer, so it does not
notice a second writer of the file (`Refuted`).

Any terminal job may be old enough for `gc()` (`Start`). The environment lets an
abandoned `.tmp` go stale (`Stale`), damages the packed file or its digest once (`Rot`)
and restarts the process. Simplifications,
each on the safe side or without effect on the properties: a websocket push does
not raise; the source and its delta sidecar go in one step; what a job has mapped
stays readable after it is unlinked; a live writer's `.tmp` is never fifteen
minutes old; the base model of a delta is only read. The folder batch, which runs
the same jobs in a loop, is left out.

### ZipnnQueue

JavaScript runs a handler to its end, so each handler of `src/hooks/zipnn.ts` is
one action; only the POST of `beginTask` is awaited, hence `Begin` (up to the
await) and `Answered` or `Failed` (the rest). `active`, `taskId` and `lastRequest`
are the module's single tracked task, `batchQueue` and `singleQueue` its two
queues. `socket` holds the completions on their way; they keep their order, while
the POST's answer (`post`) may arrive before or after them. A progress event may
come at any time before its task's completion, so it is not stored.
`OnComplete` is the whole listener: it settles the state, writes the settle
record, and starts the next item or drops the queues.

The backend is an abstraction of `ZipnnJobs`: a request is refused or accepted,
and an accepted task completes once (`EveryTaskReports`) unless the process goes.
The user may queue selections of any size (`QueueBatches`), automatic compressions
(`QueueSingle`, one step per item of the loop) or start a task from a card
(`StartDirectly`; a folder card starts its batch likewise). Another tab may start
tasks, whose events this tab gets too.

History variables record what the properties speak of: `begun`, the batches
sent; `doomed`, what waited when a failure was heard of; `mixed`, that a task was
started beside the queue's; `broken`, that the chain of completions was cut (a
failed POST, an unresolved target, a lost event, an answer later than its task's
end); `misfiled`, that a settle record named another request than its task's. Left
out: progress percentages, the inspection before a confirmation (`confirmEpoch`)
and the selection.

### ModelStore and Overlay

A listing is the number of changes of its folder that it shows, so that an older
listing is a smaller number. `StartScans` is `refreshModels` up to its await,
`ScanAnswered` and `ScanFailed` the rest with whatever waited for it: a sweep, the
overlay of a finished download, the promise of a delete, the swap of a converted
model's window. `folderGeneration` is `generation`; an answer of an older generation
is dropped (`Superseded`). A sweep (`refreshAllModels`) first fetches the folder
table, which may fail. `missed` records that nobody told the page of a change: the
watcher is off, the page was never loaded, the last scan failed. How old a listing is
(`REVALIDATE_TTL_MS`) is left open: it may be stale at any time.

The overlay is one count for the page and a grace timer per target of every
`useLoading`; `Show` leaves a pending timer alone and `Hide` clears it or counts
down. With overlapping shows of one target within the grace period there are fewer
counts than hides, which the clamp at zero absorbs: the overlay may come down early
and never stays.

### Views, Collections and Stars

`Views` computes what is on the screen from the listings (`data`) and the view's own
state. The explorer's breadcrumb is a sequence of names, walked from the roots
whenever a scan replaces the tree, so a folder that went leaves an empty list and one
that comes back is shown again. `asked` is the folder the user opened. The library
has a type with two directories, a folder name in both, and a folder named like its
type. In the flat grid the order, the filters and the rows of `columns` cards are
computed as in the code; scrolling and the width of a card are not modelled.

`Collections` is the saved search: the window that names it keeps the query of its
opening (`CurrentQuery`, which takes the text of the field and not the debounced
one), and `meant` records what the field said then. The grid looks for each word in the
folder and in the name, where a `*` stands for anything (`tokensMatch`); a collection
looks for it, as it is written, in the two joined by a `/` (`matchesCollection`). `In`
says where each word is found; for words with neither sign the property says that both
show the same models, and for a word with a `/` that the collection shows no fewer. Ids are reused after a removal.
`Stars` loads folder keys of an older version once, next to new ones, and toggles
single folders and sets of them.

### Editor, Gallery, Lightbox, TensorTable

`Editor` is the form of an open model. `file` is what lies on the disk, `model` what
the window was opened with, `form` the fields and `clean` the snapshot that an edit
mode starts with. `Save` takes the difference of form and model, as `updateModel`
does, `SaveLands` is the backend's `update_model`: notes first, then the move, which
may fail and leave the notes written. The watcher on the type empties the sub-folder
(`Watched`); resets come from Cancel, from the window's one read of the notes, from
the first scan after a save. `touched`, `failed` and `retyped` are history: a field
was typed since the last reset, a save failed, a reset took a type back.

`Gallery` counts previews from 0 like the code; `ring` is the index that the save
puts first. In `Lightbox` requests for metadata are answered in any order, and
`crossed` marks that one was overtaken. `TensorTable` folds names into the pre-order
table of `tensorTree.ts`, decodes tables of the backend (right or wrong ones of up to
four entries) and walks them with running sums; it is checked against the plain
meaning of a folder's tensors.

### Watcher

`py/watcher.py` runs one task per event loop. Its steps are the code between two
awaits: a tick looks at the setting (`TickOff`), arms (`TickArm`), rearms when the
directories changed (`TickRearm`), or polls (`TickPoll`) and announces one type after
another (`ToldOne`). Arming and stopping run in executor threads (`WatchStart`,
`WatchStop`), the rest of the process goes on meanwhile, also `stop()`. `sessions`
are the native sessions by handle: what changed in them, whether they ask for a
rescan or have degraded. `owed` is the promise: the types of changes a session of the
task has seen and nothing was announced about. A link that leads out of its
directory has no type, and everything is announced for it.

Left out: the filter of `.tmp` names, a missing native core, exceptions of a poll,
the mountinfo watch, and the debounce delay of a session.

### Windows

The two axes are handled alike, so one is modelled: a window has a place and a size in
a viewport whose size changes and crosses the mobile breakpoint. `stack` is the order,
`visible` what is not a kept-alive window in hiding. A gesture starts at a place of
the pointer and moves when it has passed the threshold. `placed` holds the windows
that a resize or a restore put where they are, which the code does not clamp.
Closing a window during its gesture is not modelled.

### SelectionState, Selection, BatchBar

`SelectionState` is `toggle` with the kinds of nodes. `BatchBar` uses it with kinds:
what a question about folders says, and what is then done to each (`Modes`), while
scans make a folder a bundle or a plain folder; the pair of a delta is in the order
in which it was ticked. `fresh` says that the ticked folders were what they are now.
`Selection` abstracts kinds (a tick may drive out or keep out folders) and models the
bulk delete: a loop over the selected nodes, each asked about through the one
confirmation of the page, which any other question overwrites. At most `MaxTicked`
entries are ticked in `BatchBar`; `Selection` has a folder and a model inside it.

### Hygiene and ZipnnConfirm

`Hygiene` sweeps orphans and empty folders by the names of an old list while the
library changes. `Owners` says which stems claim a sidecar: `a.preview.webp` is the
second preview of a model `a` and the first of `a.preview` (`preview_candidates`,
`utils.py:506`). A scan calls an orphan what no model there claims; a deletion takes what
the deleted file's stem claims, whether or not that file is a model. `spoilt` gathers
what went of models that the scan had seen. One loop of deletions at a time, folders without sub-folders, and
closing the window are bounds of the model. `ZipnnConfirm` is the question before a
conversion: the header read that was started for it may rewrite its text when it
answers, guarded by `confirmEpoch`, while a bulk delete may put its own question in
its place (`displaced`).

### DownloadList

The list of the page beside the rows of the backend. `inbox` is the websocket, in
order; `reads` are the answers of `GET /download/task`, `asked` the requests of the
page, both in no order. `behind` records that an event passed an answer or got lost
since the last read, `held` the tasks that a prompt has paused. The listener drops an id
from `pausedByPrompt` before it sends the resume and swallows what becomes of it
(`download.ts:226-231`), so a request may be lost at any time (`Lost`), and one that
comes while the cancelled coroutine unwinds starts nothing (`thread.py:37-43`; `stray`
is `unwinding` until `Unwinds`). `missed` has the tasks for which that resume came to
nothing. One task, which is enough for rows that do not touch each other; how its
coroutine lives is `DownloadTasks`'. A request that is asked for again while it is under
way counts once, and the setting that pauses for prompts stays on.

### SearchForm and DownloadPlan

`SearchForm` has the one field of the form: a phrase is searched after a debounce
(`timer`), a link to a page is resolved, a link to a file is turned into a model by the
page. `searchSeq` and `resolveSeq` are the guards against late answers; a later page
of a result counts only for the set of rows it continues (`SameSet`). `mixed` records
a late answer of `useModelSearch`, which has no guard of its own. One platform stands
for the three columns. What is posted is `form`, the data of the editor below the field:
a copy of the model it was given, in which the user may choose another type (`EditType`,
which empties the sub-folder) or write a sub-folder (`EditFolder`). The editor of a
version or file that is left is kept alive with what was done in it (`kept`), and made
anew when its model is replaced; a sub-folder of the editor comes before the one beside
a link (`Submit`). `DownloadPlan` is the free space and the account named beside
the version and the file that are chosen.

### HubUpload, HubWizard, LocalUpload

`HubUpload` has the bar of one page: events come in order, the answer to the POST that
names the task whenever it comes (`KnownAs` keeps it only if its end has not come),
other pages' uploads mix their events in (`foreign`). `HubWizard` is the wizard opened
alone, from a card or with a folder's files, against late answers for the card's model
and the account. `LocalUpload` is an upload of a file of up to `MaxChunks` chunks (one in the run: a
file that is cut off is empty) into one of two directories: the wizard, the stream into `<path>.tmp`, the rename, the record, and
pauses, deletions, cuts and crashes between them. `overlapped` marks a name that two
uploads wrote to at one time, which the code does not prevent.

### ApiKey, CardSizes, CanvasDrop

`ApiKey` has the key of one hub, whether another hub's is stored beside it, and the label
of the panel. The one POST of `/download/init` and the POSTs of keys reach the backend in
any order, are answered in any order, and may be lost on either way; the backend may
restart under an open page, which leaves the store in memory unread (`read`); any save
then writes the file from that store, this hub's (`SetValue`) or another's (`SetOther`); a
reload leaves its POSTs on their way with nobody to hear of them. `misled` marks the four
ways in which the label cannot be right: the newest answer was lost, or passed another;
a POST of an earlier page was taken; another hub's save wiped the key. The environment
may hold a key. `CardSizes` hands back at every load whatever
was kept, also junk of other writers. `CanvasDrop` has nodes with widgets, some
combos, and the path a drop or the card's button writes; `odd` are the writes that
look at no list.

## 3. Runs

| Run | Instance | States | What it shows |
|---|---|---|---|
| `tasks` | 2 tasks (one with a published SHA256, one that gets deleted), 2 coroutines, 1 path, any number of restarts | 525,741 | safety of partials, library and rows |
| `task_life` | 1 task, 2 coroutines | 8,083 | refinement of `DownloadPromise`; rows do not stay "doing" |
| `delete_is_final` | 1 task, 2 coroutines | violated | a delete can be undone by a resume in its second of sleep |
| `http` | versions of 2 and 3 bytes, 4 faults | 18,490 | what lands and that it lands |
| `http_truncated` | the same, 3 faults | violated | a 206 without Content-Length lands a truncated file |
| `http_settle` | the same, 1 fault | violated | a pause after the rename leaves a task that never completes |
| `zipnn_jobs` | 2 tasks, tensor and delta, 1 restart and the leftover of an earlier one | 661,277 | the model survives, one writer until a take-over, no stray partial, verified restores, every task reports |
| `zipnn_cleanup` | 2 delta tasks, no restart | violated | the clean-up removes another job's delta |
| `zipnn_queue` | 2 folder batches, 1 request for a model, 1 task of another tab, 1 disconnect or restart | 344,048 | one task at a time, order, aborts, the settle record, draining |
| `zipnn_queue_drains` | the same, without the other tab, disconnect and restart | violated | a failed POST leaves the queue waiting |
| `models` | the parts of `MCModels`, below | 2,101,360 | listings, overlay, views, a model's window, watcher |
| `page` | the parts of `MCPage`, below | 1,786,872 | windows, selection, questions, lists, forms, uploads, settings, canvas |

States of the parts of `models` and their bounds:

| Part | States | Bounds |
|---|---|---|
| `store` | 1,006,691 | one type, 2 changes, 2 scans of the folder beside each other or in turn, one sweep at a time |
| `views` | 91,260 | 5 entries in 2 types and 2 directories, 3 searches, 2 orders, up to 2 columns |
| `saved` | 569,712 | 3 models, 4 words (one with a `*`, one with a `/`), 2 saved searches, ids reused |
| `editor` | 366,684 | 2 types, 2 directories, 1 sub-folder, 2 names (one taken elsewhere), 2 notes |
| `gallery` | 5,549 | up to 3 previews and 2 local files |
| `lightbox` | 4,520 | up to 3 images, 3 requests in flight |
| `tensors` | 5,304 | 3 lists of tensors, tables of 2 to 4 entries, pages of one tensor |
| `watcher` | 51,640 | 2 types, 2 directories, 3 files, 6 changes, handles reused |

and of `page`:

| Part | States | Bounds |
|---|---|---|
| `windows` | 274,948 | 2 windows, one kept alive, 3 viewports around the breakpoint |
| `selection` | 67,895 | a folder with a model, 2 loops |
| `batches` | 86,040 | 3 folders one in another, 3 models, 2 ticks |
| `hygiene` | 247,844 | a folder, a model, a note that is not its own, a preview both stems claim; 1 change, 2 scans |
| `confirm` | 10,873 | 2 plain models, one with other types in its header, a compressed one, a delta, a folder; 3 questions |
| `list` | 141,423 | 1 task, 1 prompt or lost connection, 2 events on their way |
| `form` | 286,313 | 2 phrases (one also the name of a repository), a page, 2 links, 2 types, 1 sub-folder; 2 searches, 2 resolves, 1 editor kept |
| `plan` | 7,584 | 3 versions, 3 answers in flight |
| `bar` | 10,336 | 2 uploads of this page and one of another, 3 events on the way |
| `guide` | 1,608 | 2 hubs, 2 models, 2 prefills |
| `upload` | 248,976 | 2 uploads, 2 directories, files of up to 1 chunk |
| `key` | 399,656 | 2 keys, one of them the environment's, 3 requests |
| `sizes` | 2,952 | 2 presets, 2 sizes, 2 orders, junk |
| `stars` | 18 | 3 folders, an old key beside the new one |
| `canvas` | 406 | 3 kinds of nodes, 3 nodes, 3 models |

Why the bounds are enough for what they check. Two tasks with one path give every
race for a target, and two coroutines every overlap of an old, unwinding transfer
with a new one; a third coroutine could only repeat the part of the second, since
the pool admits one per task (`SingleWriter`, proved for any number). One
deletable task suffices as deletes act on one task only. Sizes 2 and 3 let a
partial be empty, proper, exact and too long for the other version. Four faults
allow a pause, a resume over a changed object and two more errors; each violation
needs three or fewer. Two ZipNN tasks give every pair of conflicting conversions;
one restart is the crash, and the invariants were found unchanged with two. Two
batches and a request for a model fill both queues while a task runs, and give a
head, a successor and an item of the other queue; the safety properties were also
checked with three batches and no other tab (601,105 states). One disconnect or
restart is enough, as afterwards the tab holds stale state against an empty
channel, which a second one finds again.

The parts of `models` and `page` are bounded by what they count. Two scans, two
requests or two answers of a kind are enough for one to pass the other, and a third
finds the same state; where a wait is for the last of several (a sweep, a bulk delete)
a second one is what makes it wait. Two of each name, folder or model give every "the
same" and "another". Histories (`crossed`, `mixed`, `lost`, ...) are conditions of the
properties and never guards: the steps that set them are taken, and what follows them
is explored.

`KeepsPromise` is checked with one task and proved for any number
(`ImplementsPromise`).

Deadlock checking is off for `HttpTransfer`, `ZipnnJobs` and the parts of the page, where the system may
come to rest: the file has landed, every task has ended, a bound is
reached. It is off for `ZipnnQueue`
too, where the user may have nothing left to do.

**Fairness.** `DownloadTasks`: weak fairness of each coroutine and each request
handler. The loop runs what is ready and every await ends: pushes and sleeps do,
and a request has timeouts (30 s to connect, 600 s between chunks). Clients and
restarts are not fair. `HttpTransfer`: weak fairness of the transfer's own steps,
and of `Begin`, which says that the client resumes a stopped task; `EventuallyLands`
is a statement about a client that keeps trying, with finitely many faults.
`ZipnnJobs`: weak fairness of each worker (the 100 ms poll) and of each thread.
`ZipnnQueue`: requests are answered, tasks end and events arrive; the user, the
other tab, disconnects and restarts are not fair. `MCModels` and `MCPage` state no
fairness: their properties say what holds once nothing is on its way, or of a step.

## 4. What the runs found

Five statements of the repository do not hold of the code (`findings`):

1. *Deleting removes the partial file and the task record* (`docs/USAGE.md:363`).
   A delete of a running task cancels the transfer, sleeps a second and then
   removes the files. A resume in that second is accepted once the old coroutine
   has unwound; its transfer survives the delete and writes the partial file and,
   if the size changes, the record again.
2. *Resume works through the Range header and the partial file*
   (`py/download.py:627`). A 206 answer without Content-Length makes the size of
   the partial the total size. If the body then ends early, or the task is paused
   and resumed, the truncated file counts as complete; without a SHA256 it lands.
3. *Pause, delete and the landing keep working through the same awaits*
   (`py/download.py:629-631`). A pause or restart in the second between the rename
   into the library and the removal of the record leaves a task that downloads its
   file again at every resume and then fails because the target exists.
4. *dst can only be ours here* (`py/compress.py:188-190`). Of two
   delta-compressions of one pair the one that loses finds the winner's delta
   before its sidecar is written and removes it.

5. *Start the next folder once this one succeeded; a failure aborts the rest of
   the queue* (`src/hooks/zipnn.ts:130-131`). When the POST itself fails (the target
   exists, the core is unavailable) no completion will come: the next folder is
   not started and the queue is not dropped. It waits until the user queues
   another batch, and automatic compressions line up behind it.

`DrainsUnlessBroken` shows the other side of the fifth: failed POSTs, lost events
and answers later than their task's end are the only causes. Direct starts and
other tabs' tasks, which the single tracked id does not tell apart, can make two
tasks run at once, yet never leave the queue behind.

Two more observations from ad hoc instances of `ZipnnJobs`, not stated as
findings. Without the condition that tasks run one at a time, `NeverLost` is
violated by two delta tasks (through finding 4) and by three tensor tasks (two
compressions and a decompression between their commits); it holds for two tensor
tasks. And when `PollStuck` happens, or a job is dropped from the registry after
it committed, both forms stay on disk and both routes refuse the model until one
file is removed by hand; nothing is lost.

And one that three properties of `ZipnnJobs` leave out (`taken`): the comment of
`AtomicWriter::new` (`safetensors_io.rs:1025-1031`) gives a second live job for a target a
clean error, but two jobs that have both judged one leftover stale open the same file.
The first to end renames or removes the name, whoever has it: a half-written file may be
put in place, the other job fails or truncates what was put there, and the digest, which is
of the bytes fed to each writer, agrees. The startup sweep can likewise remove a `.tmp`
that a job took over between its look and its removal; that job then fails, and nothing is
lost. Without the condition on `taken`, `OneWriterPerTarget` is violated with two tasks and
one leftover.

Conditions in the properties of the page and the watcher mark where the code does
something else than its comments or its documentation say. The runs found each of
these; the property states what holds beside it.

- Watcher: changes drained inside the two seconds of a cooldown are announced to
  nobody, and so is everything drained with a rescan that the cooldown skips
  (`docs/USAGE.md:628-632` promises the update); what is pending when a session is let
  go for changed directories is lost until the listing is revalidated; `stop()` during
  arming leaves the thread's session without an owner
  (`py/watcher.py:424-430` says otherwise).
- Canvas: with several matching combos `resolveDropWidgetIndex`
  (`modelGrid.ts:86`) returns the place among the matches, which is then used as the
  index of the widget (`:105`), so the path may go into another widget.
- Selection: the check mark of a card ticks without a kind (`DialogExplorer.vue:76`),
  so bundles and plain folders can be selected together, which `docs/USAGE.md:486-488`
  excludes; kinds go stale when a scan changes the folder.
  Two overlapping bulk deletes share one confirmation, and one of them hangs
  (`toast.ts:80`); the end of one loop clears ticks made meanwhile.
- Deltas: `startZipnnDelta` (`zipnn.ts:446-457`) sends the type and directory of the
  fine-tune only, so the base is looked up there.
- Saved searches: a `*` is taken literally (`collections.ts:72-75`), though searches
  support it (`docs/USAGE.md:95`); a word with a `/` may match across the end of the
  folder and the start of the name, which it never does in the grid
  (`modelFilter.ts:101-106`). A collection of such a word shows other models than its
  search did.
- Card sizes: the editor's map is unwrapped by the window stack (`dialog.ts:38`), so it
  lists the custom row only, and saving drops the presets (`config.ts:73-74` says that
  it lists one row per entry).
- API keys: after a restart under an open page the store is empty, and saving one key
  rewrites `private.key` with that key alone (`auth.py:136-139`), so that another hub's
  is gone while its label shows it. Answers that pass each other leave the label of the
  older one (`config.ts:302`); so does a save whose answer is lost.
- Model form: the watcher on the type (`ModelBaseInfo.vue:222`) empties the sub-folder
  after the snapshot when a reset takes the type back, so the next save moves the file;
  after a failed save the next edit mode starts from a form that differs from the file.
- Viewer: with crossing answers the metadata of another image is shown
  (`PreviewLightbox.vue:189`).
- Download list: a list read while events arrive may bring a row back or double it;
  a pause of the user that is still in flight when a prompt starts is resumed after
  the prompt (`download.ts:208`). A task that a prompt has paused stays paused if its one
  resume fails, passes the pause, or meets the coroutine before it has unwound
  (`download.ts:226`, `thread.py:37`). An answer to an older resolve replaces the model of
  a link, whose sub-folder then goes with it (`hooks/download.ts:501`). The free space of another directory may stand beside
  the plan (`DialogCreateTask.vue:778`).
- Hub upload: while the id is unknown another page's event can leave the bar on; a lost
  socket is not made up for.
- Local upload: two uploads of one name share `<path>.tmp`, and `os.rename` replaces
  silently; a crash leaves the `.tmp` and the record (`upload.py:201`).
- Hygiene: an "empty" folder may hold files that are no models, which its removal
  takes along (`manager.py:610`). Deleting the orphan `a.preview.md` takes
  `a.preview.webp`, the second preview of a model `a` that is there, since
  `remove_model` (`manager.py:720`) removes all that the stem claims; `HygieneSafe` says
  that such shared previews (`Shared`) are all that can go.
- ZipNN question: a late header read may rewrite a delete question that took its place
  unanswered (`zipnn.ts:330`).
- Overlay: shows that overlap within the grace period count once and are hidden twice;
  the overlay may come down early, never stay.

## 5. Proofs

The theorems say `Spec => []P`, `Spec => [][A]_vars` of an action property, or that the
component implements an abstract specification, for every value of the constants under
the named assumptions of the modules (`DownloadAssumption`, `HttpAssumption`,
`ZipnnAssumption`, `QueueAssumption`, `StoreAssumption`, and `ModelsAssumption`,
`PartsAssumption` and `PageAssumption`, which are those of the parts). What is a bound
for TLC is a parameter here: tasks, coroutines, paths, restarts, sizes, faults, batches,
tabs, folders, scans, windows, images, requests and uploads may be any number. What is
assumed is what the constants mean: that sets of names are disjoint and that the values
standing for "none" are none of the others, that the types, the local files and the
folders with a star are finitely many, that the previews of a model are a sequence of
different images, that tasks, nodes, files and folders are finitely many, that an entry of
the library is of one of the kinds that `ZipnnConfirm` tells apart. `TypeCorrect` is the
type invariant of each module.

**DownloadTasksProofs.** `TypeCorrect`, `OneWriter`, `NeverOverwritten`,
`NothingTornIsVerified`, `OnlyDeletesDamage`, `RowsTell`, `ImplementsPromise`.
`SingleWriter` is not inductive: it must be known that every coroutine is the pool's
entry of its task (`PoolAgrees`), which in turn needs every step of the pool. Types are not inductive either: a
coroutine that lands needs the target its task chose, so only tasks a client has
seen are in the pool (`PooledSeen`). The inductive invariant is
`Inv == CoroutinesOK /\ RequestsOK /\ DiskOK /\ StatusOK /\ PooledSeen`. That only
deletes damage files rests on `SingleWriter`: while a transfer waits with an offset
nobody else opens or removes its partial (`TornOnlyByDelete`).

`RowsTell` is about the row a client sees, which pauses, errors, answers and deletes
write without a look at each other. Beside what it says itself it needs that a row other
than "unknown" is of a task with a record or with a file in the library
(`RowsRecorded`), that a coroutine past the rename has landed its file
(`SettlesLanded`), and that the row of a coroutine about to end no longer says that it
runs (`RowsOfRunning`). `ImplementsPromise` is the refinement: every step of
`DownloadTasks` is one of `DownloadPromise` or a stutter of it. It needs that records and files are those of created tasks and lie where
the creating request chose (`Traced`), so that nothing opens a task twice, and that the
record of a file that is read again is still there unless the file has gone as well
(`VerifiesRecorded`); the steps that close tasks are put together in one lemma
(`Retires`). The theorem covers what the promise forbids: it has no fairness.

**ZipnnJobsProofs.** `TypeCorrect`, `ExclusiveWriter`, `TmpSafe`, `NothingLeftOver`,
`RestoreVerified`, `ModelSurvives`. The inductive invariant `Inv` has five layers.
`Types` ties a worker's state to where its job can stand: a running job always has
a worker that polls it, so `Accept` changes no running job's target and nothing
ends silently. `Writers` is about the `.tmp` files: until a take-over a new writer is
the only one, because a writer's file keeps its name (`WriterKeepsTmp`), is not stale
(`WriterKeepsFresh`) and so not condemned by the sweep (`DoomedStale`); two jobs share a
file only where one was taken over (`WriterHolds`). `AloneHolds` adds that a task alone
has its `.tmp` for itself or has lost it to the sweep; with both, `RestoredIntact` follows
from the comparison of the digest at the commit. `Survival` is why the
model is never lost while tasks run one at a time: the source stays until the
worker has seen the job done, the target is there by then, and the clean-up of a
failed delta removes only what has its source still beside it. The layers are
proved separately, each from the ones before it.

**HttpTransferProofs.** `TypeCorrect`, `WholeOrNothing`, `BooksKept`,
`LandedStays`. The count and the hasher are compared with the file only while a body
is read, so `Counted` says of the awaits before it where the count comes from: the
length of the partial at the request, and at the opening of the file that length or
nothing, as the mode says. `Staged` is what the digest of the completion rests on: it
is cleared before a transfer starts, and only a task with a published SHA256 is read
again. With a digest `LandsWhole` follows at the gate. Without one it needs `Begun`,
which holds while the server is honest: the partial is a beginning of the object,
the recorded size is the object's, unset, or one byte off (the page's estimate), and
count and remaining body make up the whole. The size test then passes only when the
file is complete.

**ZipnnQueueProofs.** `TypeCorrect`, `OneTaskAtATime`, `SentInOrder`. `InOrder` is
about what was sent, so the induction is about what waits: `Ordered` says that both
queues hold no request twice and none that was sent or given up, and that every
batch that waits is younger than all that were sent. That one task runs at a time
needs the POST as well as the task, because the answer and the events are unordered:
a request the tab has still to hear of (`Live`) is the last one made and the tab is
active (`Tracked`), which holds until something is started beside the queue.
`Delivered` says that no event comes twice or before its request was accepted; with
it, an end that the tab hears of is the end of what it tracks.

**ModelStoreProofs.** `OnlyForward`, `CatchesUp`, `ComesDown`. Generations carry both: a
generation is given out once and the folder's is the last (`Numbered`), so at most
one scan under way can replace a listing, and what it has read is no older than what
is shown (`Ordered`). `ShownIsCurrent` speaks of moments when nothing is on its way;
its invariant, `Followed`, speaks of all moments: a folder is shown as it is, or an
event about it is queued, or a scan that is not superseded has read its present
state or has not read yet, or nobody told the page of the change. A failed scan and a
superseded one are the cases that need it. A scan that fails leaves the listing
behind without anything on its way, which the model counts among what nobody told.

The overlay counts shows and a hide takes one off, so the proof of `ComesDown` names who
answers for each show: a scan, a download that has landed, a sweep, a save or a delete
(`Reasons`). There are no more shows than reasons, with the ones still in their grace
period counted (`Carries`), and a target has a timer only while it has a reason. That a
reason ends with its hide needs `Awaited` (who waits for a scan is there to hide, and
hides once) and `Swept` (a sweep that a download waits for has a scan under way).

**MCModelsProofs.** `ListingsGoForward`, `ListingsCatchUp`, `OverlayIsGone`,
`WatchesHold`, `SavesHold`, `ViewsHold`, `MetaHolds`: the properties of the run `models`. A behaviour is one of one
part, so an invariant says something where its part is the one that runs. Those of the
listings and the overlay are proved in the module above. `WatchesHold` rests on
`WatcherInv`: where the watcher's task is says what it may hold (`Phases` ties each await
to the session that is being started, held or let go, never two of the three), and every
session is answered for by one of them, so that there is one at most (`Owned`). Then what
a session has seen of a change is either still in the session or in what the tick has yet
to announce. `SavesHold` rests on `EditorInv` and `GalleryInv`. For the editor: the form carries what the PUT under way
asks for as long as the edit mode lasts (`Carried`), and what is left in the form outside
one, and in the snapshot within one, is what the file has already, until a save fails
(`NothingLeft`). For the gallery: no image is there twice, so that the ring is on one;
the rest are lemmas on what removing, swapping and putting first do to a sequence.

`ViewsHold` is about two computations and a filter. The explorer walks its breadcrumb
through the tree by names. `Crumbs` says what a breadcrumb looks like: the root, a type,
and folders of one directory. With it, and with a scan listing the folders on the way
to what it lists (`Closed`), the listing after each step is the folder that the steps so
far name, or nothing (`ListsAlong`, by the least step at which it would fail, as the walk
is a recursive function); a name found twice on one level would be two directories'.
Opening a folder stops at the first name that is not found (`OpenedIs`); for a folder that
is listed none is missing (`AllThere`), so it is the one shown, and stays so until the
user goes elsewhere, as `ViewsInv` keeps. For the grid, members of a finite set each have
a rank of their own (`ByRank`), so sorting by rank has each model once and the stars
first, and cutting into rows leaves no gap (`Chunks`, by the division of a place by the
columns). The saved searches rest on `CollectionsInv`: an id is of one collection, which
is kept and is what the toolbar said when its window opened. `MetaHolds` is the part of
`WindowIsTrue` about the lightbox: `LightboxInv` says that, unless a request was passed,
the image on the screen is the only one asked for, and nothing is shown until it is
answered.

**MCPageProofs.** `StaysInView`, `AgreedHolds`, `ListHolds`, `FormHolds`, `SubmitsHold`,
`SettingsAreTrue`, `UploadsHold`, `TypesHold`: properties of the run `page`, each from the
invariants of its parts, which stand at the end of their modules. That the parts of `PageParts` keep
theirs is proved in `PagePartsProofs`, which knows of no other part.

- `WindowsInv`: what is shown is on the stack, and what is on the stack has a geometry.
- `SelectionInv`: a DELETE that was sent was agreed to. The property also says that a loop
  goes on; for that no question may be lost, so while no two loops overlap (`crossed`)
  one at most is not at rest, and a question of its own is what it waits for.
- `BarInv`: no folders are ticked as both kinds. That is what makes the direction of a
  question one direction: `Says` looks at the kinds that are there, `Modes` at each folder,
  and they agree only when the kinds are not mixed.
- `HygieneInv`: what is asked about, and what is still to be deleted, was an orphan or an
  empty folder in the library it was found in. What its deletion takes of a model there
  (`TakesNoModel`) carries the model's stem and another, that of the orphan: for one stem
  alone the scan would not have called it an orphan.
- `ConfirmInv`: a header read of the last epoch is of the model of the question on the
  screen, if that one is about a conversion; where another question is there the epoch is
  settled, unless that question took the place of the first without settling it
  (`displaced`). Without the second half the epoch guard says nothing of a question that
  came between.
- `CanvasInv`: each node has a value for each of its widgets, one that the widget lists
  but for the writes in `odd`.
- `ListInv`: compares the page's row of a task, and the row that each answer under way will
  give it, with the server's, through the events about the task that are still to come
  (`Tracks`): nothing is seen before the creation is heard of, an end is still to be told
  where the row is gone, and the last event to come has the status of the row. An answer
  counts the events that were sent before it was made (`ahead`), and is compared through
  those after. `PausesRemembered` says of each task that a prompt has paused, and of each
  pause of a prompt that is under way, that the listener still has the task, that its
  resume is under way, or that it came to nothing (`missed`).
- `FormInv`: of the searches under way one at most can still be taken, it is for what
  the field says, and the rows are not its own (`Searched`); the editors, the one on show
  and those that are kept, are of the model on show (`Edited`); with a link and a type
  chosen for it, no answer to the newest resolve is to come, and the model has that type
  until its editor is given another (`Linked`).
- `PlanInv`: the free space is of the planned directory, or absent, or what the one
  request in flight asks for.
- `KeyInv`: the first request for the keys is on its way; or the last answer under way
  brings what is stored; or none is, and the label is what is stored. Earlier answers
  need no condition, as one that passes the last is what `misled` records.
- `SizesInv`: what is kept is what the page has, without junk, whatever ComfyUI's
  settings had before.
- `StarsInv`: the setting is of the same folders, under either key. The migration and
  the folding of stars are loops over sequences; what a fold returns is proved by taking
  the least number of steps at which it would fail (`Least`, `Reaches`, `Loops`), as an
  induction theorem with an operator for a parameter cannot be used with the provers.
- `HubInv`: an upload is live from the button until the page takes its end; one of this
  page's is live at most, and an end is the last of the events of its upload
  (`Ordered`), so that nothing late lights the bar again.
- `UploadInv`: a file is in one place, as itself or as a `.tmp`, and whoever writes to it
  uploads to that folder (`Places`); where no two uploads overlapped one is under way at
  most, and the `.tmp` holds what it has received so far (`Alone`).
- `TypesInv`: all of these, and for each part what they leave open of its types
  (`WindowsTypes`, `CanvasTypes`, `FormTypes` and the like). That a window is on the stack
  once needs what raising and closing do to a sequence without repetitions (`StackOnce`);
  that a drop writes to a widget of its node, that the place of a combo among those that
  list the model is a place in the node too (`CanvasTypesStep`).

**Only model-checked.** Liveness (`DoingResolves`, `EventuallyLands`,
`EveryTaskReports`, `DrainsUnlessBroken`), which is out of the prover's reach.
`MCModels.TypeOK`, except where an invariant above includes it, and `TableIsWhole` of
`WindowIsTrue`, which compares what the code builds by walking a tree with a definition
of what it should be: both need an induction over that tree for each operator.

## 6. Not modelled

- Transfers from HuggingFace and ModelScope (`_hub_transfer`): a blocking call of the
  hub's library in an executor thread. Cancelling the task abandons the await and not
  the thread; whether a second thread for the same file does harm is decided by the
  locks and the cache of those libraries, which are not part of the repository.
- The folder batch of `py/compress.py` (`batch_process_folder`), which runs the jobs
  of `ZipnnJobs` one after another, and the cap of the job registry.
- Byte formats and numeric code of the codec, scanning, hashing and previews: out of
  TLC's reach and tested against reference implementations.
- HTTP clients, search, identification and parsing, which keep nothing between
  requests; the migrations of `private.key`.
- Presentational components, Markdown, metadata fields, scrolling, the installer.

What each module leaves out of its part is said with it in section 2.
