----------------------------- MODULE DownloadTasks -----------------------------
(***************************************************************************)
(* The life of download tasks: the asyncio task pool of py/thread.py, and  *)
(* the requests and the transfer coroutine of py/download.py that share it.*)
(*                                                                         *)
(* Everything runs on one event loop, so a step of this module is the code *)
(* between two awaits: a request handler or a transfer coroutine is        *)
(* interrupted at its awaits and nowhere else.  A task lives on disk as    *)
(* <id>.task (its record) and <id>.download (its partial file); its row in *)
(* download_model_task_status and its coroutine live in memory and are     *)
(* lost when the process stops.                                            *)
(*                                                                         *)
(* Bytes are abstracted to how much of the file is there (nothing, a part, *)
(* all that the transfer believes to be all) and whether what is there is  *)
(* torn, that is not a prefix of the file.  Module HttpTransfer models the *)
(* bytes, the sizes and the server's answers of one transfer in detail.    *)
(***************************************************************************)
EXTENDS FiniteSets

CONSTANTS
  Task,    \* task ids: uuid4().hex, never reused
  Run,     \* identities of asyncio tasks: a bound on those alive at a time
  Path,    \* paths in the model library
  Hashed,  \* the tasks whose page published a SHA256 (Civitai)
  Deletable, \* bound: the tasks that get deleted
  None

ASSUME DownloadAssumption ==
  /\ Hashed \subseteq Task
  /\ None \notin Task \cup Run \cup Path

VARIABLES
  \* on disk
  taskFile,   \* the tasks with a <id>.task record
  partial,    \* partial[t]: <id>.download is absent, holds a part, is full
  torn,       \* the tasks whose partial file is not a prefix of the file
  library,    \* library[p]: the task whose file lies at p, or None
  damaged,    \* the library paths whose file is torn
  \* in memory
  status,     \* status[t]: the cached TaskStatus.status, or "unknown"
  pool,       \* pool[t]: the entry of DownloadThreadPool._tasks, or None
  pc,         \* pc[r]: the await at which coroutine r is suspended
  owner,      \* owner[r]: the task coroutine r works for
  cancelled,  \* cancelled[r]: CancelledError will be thrown at r's next step
  appending,  \* appending[r]: r resumes at an offset > 0
  \* the requests
  creating,   \* creating[t]: where the request that creates t stands
  goal,       \* goal[t]: the library path that request chose
  deleting,   \* deleting[t]: where a request that deletes t stands
  \* history
  removed     \* the tasks whose files a delete request has removed

disk      == <<taskFile, partial, torn, library, damaged>>
coroutine == <<pool, pc, owner, cancelled, appending>>
request   == <<creating, goal, deleting>>
vars      == <<disk, status, coroutine, request, removed>>

\* The awaits of download_task, download_model_file_http, _download_complete.
\*   queued   created, not started        open     size push, hasher seeding
\*   announce push of "doing"             stream   the next chunk
\*   request  the response's headers      received the final progress push
\*   verify   SHA256 re-read              settle   sleep(1) after the rename
\*   notify   push of completion          report   push of "pause" at the end
Await == {"queued", "announce", "request", "open", "stream", "received",
          "verify", "settle", "notify", "report"}

TypeOK ==
  /\ taskFile \subseteq Task
  /\ partial \in [Task -> {"none", "part", "full"}]
  /\ torn \subseteq Task
  /\ library \in [Path -> Task \cup {None}]
  /\ damaged \subseteq Path
  /\ status \in [Task -> {"unknown", "pause", "waiting", "doing"}]
  /\ pool \in [Task -> Run \cup {None}]
  /\ pc \in [Run -> Await \cup {"idle", "done"}]
  /\ owner \in [Run -> Task \cup {None}]
  /\ cancelled \in [Run -> BOOLEAN]
  /\ appending \in [Run -> BOOLEAN]
  /\ creating \in [Task -> {"new", "previews", "announce", "done", "failed"}]
  /\ goal \in [Task -> Path \cup {None}]
  /\ deleting \in [Task -> {"no", "told", "toldRunning", "sleep"}]
  /\ removed \subseteq Task

Init ==
  /\ taskFile = {} /\ torn = {} /\ damaged = {} /\ removed = {}
  /\ partial = [t \in Task |-> "none"]
  /\ library = [p \in Path |-> None]
  /\ status = [t \in Task |-> "unknown"]
  /\ pool = [t \in Task |-> None]
  /\ pc = [r \in Run |-> "idle"]
  /\ owner = [r \in Run |-> None]
  /\ cancelled = [r \in Run |-> FALSE]
  /\ appending = [r \in Run |-> FALSE]
  /\ creating = [t \in Task |-> "new"]
  /\ goal = [t \in Task |-> None]
  /\ deleting = [t \in Task |-> "no"]

-----------------------------------------------------------------------------
(* DownloadThreadPool *)

Live(r) == pc[r] \notin {"idle", "done"}

Existing(t) == pool[t] # None /\ pc[pool[t]] # "done"

\* Mutant of Submit: the guard that thread.py says was lost once.
SubmitUnguarded(t) ==
  \E r \in Run :
    /\ pc[r] = "idle"
    /\ pool' = [pool EXCEPT ![t] = r]
    /\ pc' = [pc EXCEPT ![r] = "queued"]
    /\ owner' = [owner EXCEPT ![r] = t]
    /\ cancelled' = [cancelled EXCEPT ![r] = FALSE]
    /\ appending' = [appending EXCEPT ![r] = FALSE]

\* submit: refused while the id has a task that is not done(), else a new
\* asyncio task takes the id's entry (the identity of a done one is reused).
Submit(t) ==
  \/ Existing(t) /\ UNCHANGED coroutine
  \/ /\ ~Existing(t)
     /\ \E r \in Run :
          /\ IF pool[t] = None THEN pc[r] = "idle" ELSE r = pool[t]
          /\ pool' = [pool EXCEPT ![t] = r]
          /\ pc' = [pc EXCEPT ![r] = "queued"]
          /\ owner' = [owner EXCEPT ![r] = t]
          /\ cancelled' = [cancelled EXCEPT ![r] = FALSE]
          /\ appending' = [appending EXCEPT ![r] = FALSE]

\* cancel: only requests the cancellation; see RunUnwind.
Cancel(t) ==
  /\ cancelled' = [r \in Run |-> cancelled[r] \/ (Existing(t) /\ r = pool[t])]
  /\ UNCHANGED <<pool, pc, owner, appending>>

\* The finally clause of submit's wrapper pops the entry of the task's id.
End(r) ==
  /\ pool' = [pool EXCEPT ![owner[r]] = None]
  /\ pc' = [pc EXCEPT ![r] = "idle"]
  /\ owner' = [owner EXCEPT ![r] = None]
  /\ cancelled' = [cancelled EXCEPT ![r] = FALSE]
  /\ appending' = [appending EXCEPT ![r] = FALSE]

GoTo(r, await) ==
  /\ pc' = [pc EXCEPT ![r] = await]
  /\ UNCHANGED <<pool, owner, cancelled>>

-----------------------------------------------------------------------------
(* The request handlers *)

\* get_task_status finds the cached row, or rebuilds it from the record.
Known(t) == status[t] # "unknown" \/ t \in taskFile

\* create_model_download_task up to the await that saves the previews.
CreateChecks(t, p) ==
  /\ creating[t] = "new"
  /\ library[p] = None
  /\ creating' = [creating EXCEPT ![t] = "previews"]
  /\ goal' = [goal EXCEPT ![t] = p]
  /\ UNCHANGED <<disk, status, coroutine, deleting, removed>>

\* A preview cannot be saved: the delete that cleans up finds no such task.
CreateFails(t) ==
  /\ creating[t] = "previews"
  /\ creating' = [creating EXCEPT ![t] = "failed"]
  /\ UNCHANGED <<disk, status, coroutine, goal, deleting, removed>>

\* The record is written and the row cached; then the task is announced.
CreateStore(t) ==
  /\ creating[t] = "previews"
  /\ creating' = [creating EXCEPT ![t] = "announce"]
  /\ taskFile' = taskFile \cup {t}
  /\ status' = [status EXCEPT ![t] = "pause"]
  /\ UNCHANGED <<partial, torn, library, damaged, coroutine, goal, deleting, removed>>

CreateSubmit(t) ==
  /\ creating[t] = "announce"
  /\ creating' = [creating EXCEPT ![t] = "done"]
  /\ Submit(t)
  /\ UNCHANGED <<disk, status, goal, deleting, removed>>

\* PUT {"status": "resume"}: download_model, for any id a client has seen.
Resume(t) ==
  /\ creating[t] \in {"announce", "done"}
  /\ Submit(t)
  /\ UNCHANGED <<disk, status, request, removed>>

\* Mutant of Pause: the cancelled coroutine is trusted to report the pause.
PauseWithoutStatus(t) ==
  /\ Known(t)
  /\ Cancel(t)
  /\ UNCHANGED <<disk, status, request, removed>>

\* PUT {"status": "pause"}: pause_model_download_task.
Pause(t) ==
  /\ Known(t)
  /\ status' = [status EXCEPT ![t] = "pause"]
  /\ Cancel(t)
  /\ UNCHANGED <<disk, request, removed>>

\* DELETE: delete_model_download_task up to its first push.  Bounds: the tasks
\* of Deletable, and one delete request per task at a time.
DeleteStart(t) ==
  /\ t \in Deletable
  /\ Known(t)
  /\ deleting[t] = "no"
  /\ deleting' = [deleting EXCEPT ![t] = IF status[t] = "doing" THEN "toldRunning" ELSE "told"]
  /\ status' = [status EXCEPT ![t] = "waiting"]
  /\ UNCHANGED <<disk, coroutine, creating, goal, removed>>

\* The announcement of a new task cannot be sent: the create request gives up
\* and deletes the task.
CreateAborts(t) ==
  /\ creating[t] = "announce"
  /\ t \in Deletable
  /\ deleting[t] = "no"
  /\ Known(t)
  /\ creating' = [creating EXCEPT ![t] = "done"]
  /\ deleting' = [deleting EXCEPT ![t] = IF status[t] = "doing" THEN "toldRunning" ELSE "told"]
  /\ status' = [status EXCEPT ![t] = "waiting"]
  /\ UNCHANGED <<disk, coroutine, goal, removed>>

\* Every file of the task goes; its row goes with the first of them.
RemoveFiles(t) ==
  /\ taskFile' = taskFile \ {t}
  /\ partial' = [partial EXCEPT ![t] = "none"]
  /\ torn' = torn \ {t}
  /\ status' = IF t \in taskFile \/ partial[t] # "none"
                 THEN [status EXCEPT ![t] = "unknown"] ELSE status
  /\ removed' = removed \cup {t}
  /\ deleting' = [deleting EXCEPT ![t] = "no"]
  /\ UNCHANGED <<library, damaged, creating, goal>>

\* A task that was not running loses its files right after the cancellation.
DeleteIdle(t) ==
  /\ deleting[t] = "told"
  /\ Cancel(t)
  /\ RemoveFiles(t)

\* A running one is given a second to let go of its files.
DeleteRunning(t) ==
  /\ deleting[t] = "toldRunning"
  /\ deleting' = [deleting EXCEPT ![t] = "sleep"]
  /\ Cancel(t)
  /\ status' = [status EXCEPT ![t] = IF @ = "unknown" THEN @ ELSE "pause"]
  /\ UNCHANGED <<disk, creating, goal, removed>>

DeleteFiles(t) ==
  /\ deleting[t] = "sleep"
  /\ RemoveFiles(t)
  /\ UNCHANGED coroutine

\* GET: scan_model_download_task_list caches a row for every record.
List ==
  /\ status' = [t \in Task |-> IF status[t] = "unknown" /\ t \in taskFile
                                 THEN "pause" ELSE status[t]]
  /\ UNCHANGED <<disk, coroutine, request, removed>>

-----------------------------------------------------------------------------
(* The transfer coroutine: download_task and what it awaits *)

At(r, await) == pc[r] = await /\ ~cancelled[r]

\* Mutant of Fail: the error is reported in a status of its own.
FailAsError(r) ==
  IF Known(owner[r])
    THEN /\ status' = [status EXCEPT ![owner[r]] = "error"]
         /\ GoTo(r, "report")
         /\ UNCHANGED appending
    ELSE End(r) /\ UNCHANGED status

\* Mutant of Fail: the error is reported, the status left as it is.
FailSilently(r) ==
  /\ GoTo(r, "report")
  /\ UNCHANGED <<appending, status>>

\* download_task's except clause: the row, if there is one, shows the error.
Fail(r) ==
  IF Known(owner[r])
    THEN /\ status' = [status EXCEPT ![owner[r]] = "pause"]
         /\ GoTo(r, "report")
         /\ UNCHANGED appending
    ELSE End(r) /\ UNCHANGED status

\* First step: a task without row and record returns at once.
RunStart(r) ==
  /\ At(r, "queued")
  /\ IF Known(owner[r])
       THEN /\ status' = [status EXCEPT ![owner[r]] = "doing"]
            /\ GoTo(r, "announce")
            /\ UNCHANGED appending
       ELSE End(r) /\ UNCHANGED status
  /\ UNCHANGED <<disk, request, removed>>

\* The transfer begins: what is on disk decides whether it asks for a range.
RunRequest(r) ==
  LET t == owner[r] IN
  /\ At(r, "announce")
  /\ t \in taskFile
  /\ partial[t] # "full"
  /\ appending' = [appending EXCEPT ![r] = partial[t] = "part"]
  /\ status' = [status EXCEPT ![t] = IF @ = "unknown" THEN "pause" ELSE @]
  /\ GoTo(r, "request")
  /\ UNCHANGED <<disk, request, removed>>

\* get_task_content raises: the record went while the coroutine was suspended.
RunOrphaned(r) ==
  /\ At(r, "announce") \/ At(r, "received")
  /\ owner[r] \notin taskFile
  /\ Fail(r)
  /\ UNCHANGED <<disk, request, removed>>

\* Mutant of RunRangeRejected: downloaded_size and the Range header survive.
RunRangeKept(r) ==
  LET t == owner[r] IN
  /\ At(r, "request")
  /\ appending[r]
  /\ partial' = [partial EXCEPT ![t] = "none"]
  /\ torn' = torn \ {t}
  /\ UNCHANGED coroutine
  /\ UNCHANGED <<taskFile, library, damaged, status, request, removed>>

\* 416: the partial is discarded and the whole file is requested once.
RunRangeRejected(r) ==
  LET t == owner[r] IN
  /\ At(r, "request")
  /\ appending[r]
  /\ appending' = [appending EXCEPT ![r] = FALSE]
  /\ partial' = [partial EXCEPT ![t] = "none"]
  /\ torn' = torn \ {t}
  /\ UNCHANGED <<pool, pc, owner, cancelled>>
  /\ UNCHANGED <<taskFile, library, damaged, status, request, removed>>

\* open(<id>.download, "ab" or "wb"): appending to a file that went while the
\* coroutine was suspended creates one that holds the tail only.
OpenPartial(t, append) ==
  /\ partial' = [partial EXCEPT ![t] = IF append /\ @ # "none" THEN @ ELSE "part"]
  /\ torn' = IF append /\ partial[t] # "none" THEN torn
             ELSE IF append THEN torn \cup {t} ELSE torn \ {t}

\* 206 appends, 200 starts over.  A size other than the recorded one rewrites
\* the record (whether or not it is still there) and is pushed; resuming a
\* hashed file seeds the hasher in an executor; otherwise there is no await
\* before the file is opened.
RunAnswer(r) ==
  LET t == owner[r] IN
  /\ At(r, "request")
  /\ \E append \in {a \in BOOLEAN : a => appending[r]}, resized \in BOOLEAN :
       /\ taskFile' = IF resized THEN taskFile \cup {t} ELSE taskFile
       /\ appending' = [appending EXCEPT ![r] = append]
       /\ IF resized \/ (append /\ t \in Hashed)
            THEN GoTo(r, "open") /\ UNCHANGED <<partial, torn>>
            ELSE GoTo(r, "stream") /\ OpenPartial(t, append)
  /\ UNCHANGED <<library, damaged, status, request, removed>>

\* Mutant of RunOpen: the record is written once more when the file is opened.
RunOpenRecording(r) ==
  /\ At(r, "open")
  /\ taskFile' = taskFile \cup {owner[r]}
  /\ OpenPartial(owner[r], appending[r])
  /\ GoTo(r, "stream")
  /\ UNCHANGED <<library, damaged, appending, status, request, removed>>

RunOpen(r) ==
  /\ At(r, "open")
  /\ OpenPartial(owner[r], appending[r])
  /\ GoTo(r, "stream")
  /\ UNCHANGED <<taskFile, library, damaged, appending, status, request, removed>>

\* All the chunks: downloaded_size has reached total_size.  Chunks written to
\* a file that has been unlinked meanwhile leave nothing.
RunReceive(r) ==
  LET t == owner[r] IN
  /\ At(r, "stream")
  /\ partial' = [partial EXCEPT ![t] = IF @ = "part" THEN "full" ELSE @]
  /\ GoTo(r, "received")
  /\ UNCHANGED <<taskFile, torn, library, damaged, appending, status, request, removed>>

\* An HTTP error, a lost connection, a full disk.
RunFail(r) ==
  /\ At(r, "request") \/ At(r, "open") \/ At(r, "stream")
  /\ Fail(r)
  /\ UNCHANGED <<disk, request, removed>>

\* The body ended short of total_size: the row the coroutine holds is paused.
RunShort(r) ==
  /\ At(r, "stream")
  /\ status' = [status EXCEPT ![owner[r]] = IF @ = "unknown" THEN @ ELSE "pause"]
  /\ GoTo(r, "report")
  /\ UNCHANGED <<appending, disk, request, removed>>

\* _download_complete without an inline digest: SHA256 is re-read off the loop.
RunReread(r) ==
  LET t == owner[r] IN
  /\ At(r, "received") \/ (At(r, "announce") /\ partial[t] = "full")
  /\ t \in taskFile
  /\ t \in Hashed
  /\ GoTo(r, "verify")
  /\ UNCHANGED <<appending, disk, status, request, removed>>

\* _download_complete is at its integrity gate, with no await before the move.
Completing(r) ==
  LET t == owner[r] IN
  \/ At(r, "verify")
  \/ At(r, "received") /\ t \in taskFile
  \/ At(r, "announce") /\ t \in taskFile /\ partial[t] = "full" /\ t \notin Hashed

\* The digest differs: the partial is deleted.  A torn file never matches; a
\* whole one may have been corrupted on its way.
RunReject(r) ==
  LET t == owner[r] IN
  /\ Completing(r)
  /\ t \in Hashed
  /\ partial' = [partial EXCEPT ![t] = "none"]
  /\ torn' = torn \ {t}
  /\ Fail(r)
  /\ UNCHANGED <<taskFile, library, damaged, request, removed>>

\* rename_model raises: the target exists, or the partial has gone.
RunCollide(r) ==
  LET t == owner[r] IN
  /\ Completing(r)
  /\ t \in Hashed => t \notin torn
  /\ library[goal[t]] # None \/ partial[t] = "none"
  /\ Fail(r)
  /\ UNCHANGED <<disk, request, removed>>

\* Mutant of RunLand: no integrity gate.
RunLandUnverified(r) ==
  LET t == owner[r] IN
  /\ Completing(r)
  /\ library[goal[t]] = None
  /\ partial[t] # "none"
  /\ library' = [library EXCEPT ![goal[t]] = t]
  /\ damaged' = IF t \in torn THEN damaged \cup {goal[t]} ELSE damaged
  /\ partial' = [partial EXCEPT ![t] = "none"]
  /\ torn' = torn \ {t}
  /\ GoTo(r, "settle")
  /\ UNCHANGED <<taskFile, appending, status, request, removed>>

\* Mutant of RunLand: rename_model does not look whether the target exists.
RunLandOver(r) ==
  LET t == owner[r] IN
  /\ Completing(r)
  /\ t \in Hashed => t \notin torn
  /\ partial[t] # "none"
  /\ library' = [library EXCEPT ![goal[t]] = t]
  /\ damaged' = IF t \in torn THEN damaged \cup {goal[t]} ELSE damaged \ {goal[t]}
  /\ partial' = [partial EXCEPT ![t] = "none"]
  /\ torn' = torn \ {t}
  /\ GoTo(r, "settle")
  /\ UNCHANGED <<taskFile, appending, status, request, removed>>

\* rename_model moves the file into the library; a second's sleep follows.
RunLand(r) ==
  LET t == owner[r] IN
  /\ Completing(r)
  /\ t \in Hashed => t \notin torn
  /\ library[goal[t]] = None
  /\ partial[t] # "none"
  /\ library' = [library EXCEPT ![goal[t]] = t]
  /\ damaged' = IF t \in torn THEN damaged \cup {goal[t]} ELSE damaged
  /\ partial' = [partial EXCEPT ![t] = "none"]
  /\ torn' = torn \ {t}
  /\ GoTo(r, "settle")
  /\ UNCHANGED <<taskFile, appending, status, request, removed>>

RunClose(r) ==
  /\ At(r, "settle")
  /\ taskFile' = taskFile \ {owner[r]}
  /\ GoTo(r, "notify")
  /\ UNCHANGED <<partial, torn, library, damaged, appending, status, request, removed>>

RunEnd(r) ==
  /\ At(r, "notify") \/ At(r, "report")
  /\ End(r)
  /\ UNCHANGED <<disk, status, request, removed>>

\* CancelledError: one that never started leaves its done entry in the pool.
RunUnwind(r) ==
  /\ Live(r)
  /\ cancelled[r]
  /\ IF pc[r] = "queued" THEN GoTo(r, "done") /\ UNCHANGED appending ELSE End(r)
  /\ UNCHANGED <<disk, status, request, removed>>

RunStep(r) ==
  \/ RunStart(r) \/ RunRequest(r) \/ RunOrphaned(r) \/ RunRangeRejected(r)
  \/ RunAnswer(r) \/ RunOpen(r) \/ RunReceive(r) \/ RunFail(r) \/ RunShort(r)
  \/ RunReread(r) \/ RunReject(r) \/ RunCollide(r) \/ RunLand(r) \/ RunClose(r)
  \/ RunEnd(r) \/ RunUnwind(r)

-----------------------------------------------------------------------------

\* ComfyUI stops and starts again: the disk is all that is left.
Restart ==
  /\ status' = [t \in Task |-> "unknown"]
  /\ pool' = [t \in Task |-> None]
  /\ pc' = [r \in Run |-> "idle"]
  /\ owner' = [r \in Run |-> None]
  /\ cancelled' = [r \in Run |-> FALSE]
  /\ appending' = [r \in Run |-> FALSE]
  /\ creating' = [t \in Task |-> CASE creating[t] = "previews" -> "failed"
                                   [] creating[t] = "announce" -> "done"
                                   [] OTHER -> creating[t]]
  /\ deleting' = [t \in Task |-> "no"]
  /\ UNCHANGED <<disk, goal, removed>>

HandlerStep(t) ==
  \/ CreateFails(t) \/ CreateStore(t) \/ CreateSubmit(t) \/ CreateAborts(t)
  \/ DeleteIdle(t) \/ DeleteRunning(t) \/ DeleteFiles(t)

Client(t) ==
  \/ \E p \in Path : CreateChecks(t, p)
  \/ Resume(t) \/ Pause(t) \/ DeleteStart(t)

Next ==
  \/ \E t \in Task : Client(t) \/ HandlerStep(t)
  \/ \E r \in Run : RunStep(r)
  \/ List
  \/ Restart

\* The event loop runs every coroutine whose await is over, and every await
\* ends: sleeps and pushes do, a request is answered or times out (connect 30 s,
\* 600 s between chunks).  Clients and restarts are not fair.
Fairness ==
  /\ \A r \in Run : WF_vars(RunStep(r))
  /\ \A t \in Task : WF_vars(HandlerStep(t))

Spec == Init /\ [][Next]_vars

FairSpec == Spec /\ Fairness

-----------------------------------------------------------------------------
(* Safety *)

Published(t) == \E p \in Path : library[p] = t

\* Two coroutines never work for one task, so <id>.download has one writer:
\* what the guard of DownloadThreadPool.submit is for.  It rests on the pool
\* entry outliving the cancellation until the coroutine has unwound.
SingleWriter ==
  \A r1, r2 \in Run : Live(r1) /\ Live(r2) /\ owner[r1] = owner[r2] => r1 = r2

\* A task with a published SHA256 never puts a torn file in the library, even
\* when a delete request takes the partial file away from under its transfer.
VerifiedIntact == \A t \in Hashed, p \in Path : library[p] = t => p \notin damaged

\* Without a SHA256, only a transfer overtaken by a delete request can.
IntactUnlessRemoved ==
  \A p \in Path : p \in damaged => library[p] \in removed

\* A row that says "doing" is either the row of a task that has landed (nobody
\* resets it) or has a coroutine: no row is left running with nothing behind it.
NoPhantomRunning ==
  \A t \in Task : status[t] = "doing" /\ ~Published(t)
                    => \E r \in Run : Live(r) /\ owner[r] = t

\* A row that says "pause" has no coroutine that still transfers: it is about
\* to unwind, about to start, or sending its last message.
PausedStays ==
  \A t \in Task \ removed : status[t] = "pause" /\ deleting[t] = "no" =>
    \A r \in Run : Live(r) /\ owner[r] = t
                     => cancelled[r] \/ pc[r] \in {"queued", "report"}

\* The rows tell what the coroutines do, after any order of pauses, resumes, errors
\* and deletes.
RowsAreTrue == NoPhantomRunning /\ PausedStays

\* "Deleting removes the partial file and the task record" (docs/USAGE.md), for
\* good: ids are never reused, so nothing may bring either back.
DeleteIsFinal ==
  \A t \in removed : t \notin taskFile /\ partial[t] = "none"

\* A file in the library is never replaced, moved or removed by a download.
LibraryKept ==
  [][\A p \in Path : library[p] # None => library'[p] = library[p]]_vars

-----------------------------------------------------------------------------
(* The invariants the safety properties rest on (see DownloadTasksProofs) *)

\* The pool and the coroutines agree: a coroutine that has not been forgotten
\* is the pool's entry for the task it works for.
PoolAgrees ==
  /\ \A r \in Run : pc[r] # "idle" => owner[r] \in Task /\ pool[owner[r]] = r
  /\ \A t \in Task : pool[t] # None => owner[pool[t]] = t /\ pc[pool[t]] # "idle"

\* Only a task that a client has seen is in the pool, and it has a target.
PooledSeen ==
  \A t \in Task :
    /\ pool[t] # None => creating[t] \in {"announce", "done"}
    /\ creating[t] # "new" => goal[t] \in Path

\* A partial file is torn, and a resuming transfer finds its partial file gone,
\* only where a delete request has been at work.
TornOnlyByDelete ==
  /\ torn \subseteq removed
  /\ \A r \in Run : pc[r] \in {"request", "open"} /\ appending[r]
                      => partial[owner[r]] # "none" \/ owner[r] \in removed

\* What is damaged is a file of the library.
DamagedIsThere == \A p \in damaged : library[p] # None

\* A row is that of a recorded task, or of one that has landed.
RowsRecorded == \A t \in Task : status[t] # "unknown" => t \in taskFile \/ Published(t)

\* A coroutine past the rename has landed its file.
SettlesLanded == \A r \in Run : pc[r] \in {"settle", "notify"} => Published(owner[r])

\* The row of a coroutine that is about to end does not say that it runs, and the
\* row of one that has started was there until a delete request took it.
RowsOfRunning ==
  \A r \in Run : Live(r) =>
    /\ pc[r] = "report" \/ cancelled[r] => status[owner[r]] # "doing" \/ Published(owner[r])
    /\ pc[r] # "queued" /\ status[owner[r]] = "unknown" => owner[r] \in removed

\* Records and files are those of tasks that were created, and lie where the
\* request that created them chose.
Traced ==
  /\ \A t \in taskFile : creating[t] \in {"announce", "done"}
  /\ \A p \in Path : library[p] # None =>
       creating[library[p]] \in {"announce", "done"} /\ goal[library[p]] = p

\* A file whose record has gone while it was read again has gone with it.
VerifiesRecorded ==
  \A r \in Run : pc[r] = "verify" /\ partial[owner[r]] # "none" => owner[r] \in taskFile

-----------------------------------------------------------------------------
(* Refinement *)

\* A task can still land: it has a record, or its coroutine holds the record's
\* content while it waits for an answer that may write the record anew.
Open(t) ==
  \/ t \in taskFile
  \/ \E r \in Run : At(r, "request") /\ owner[r] = t

Stage(t) ==
  IF Published(t) THEN IF Open(t) THEN "landed" ELSE "closed"
  ELSE IF Open(t) THEN "open"
  ELSE IF creating[t] \in {"announce", "done"} THEN "gone" ELSE "new"

Promise == INSTANCE DownloadPromise WITH stage <- [t \in Task |-> Stage(t)]

\* The component keeps its promise to the library.
KeepsPromise == Promise!Spec

-----------------------------------------------------------------------------
(* Liveness *)

\* No row says "doing" for ever: its transfer lands, fails, is paused or goes.
DoingResolves ==
  \A t \in Task : status[t] = "doing" ~> (status[t] # "doing" \/ Published(t))
================================================================================
