------------------------------- MODULE ZipnnJobs -------------------------------
(***************************************************************************)
(* ZipNN tasks on one model: the routes and workers of py/compress.py, the *)
(* job registry of mm-core/src/jobs.rs, and the file protocol of the codec *)
(* (AtomicWriter, compress_file, decompress_file, delta_compress and       *)
(* delta_decompress).                                                      *)
(*                                                                         *)
(* The model has two forms: plain (<name>.safetensors) and packed, which   *)
(* is <name>.znn.safetensors for a "tensor" task and a delta file with its *)
(* sidecar .neo-delta.json for a "delta" task.  A task converts one form   *)
(* into the other: a native thread writes <dst>.tmp, verifies it, renames  *)
(* it to <dst>; a worker on the event loop polls the thread and removes    *)
(* the source when it is done.  Threads run in parallel with the loop and  *)
(* with each other: a step is one file operation of a thread or the code    *)
(* between two awaits of a worker.  Contents are whole or torn.            *)
(*                                                                         *)
(* A .tmp is named by who created it: a job that takes a stale one over    *)
(* truncates and writes that same file, and so may a second job that has   *)
(* judged it stale before.  What two such jobs leave is whole or torn,     *)
(* decided when it is renamed.                                             *)
(***************************************************************************)
EXTENDS Naturals

CONSTANTS
  Task,        \* task ids: uuid4().hex, never reused
  Kinds,       \* the kinds of conversion: a subset of {"tensor", "delta"}
  Left, None,  \* a .tmp of an earlier session, and no file
  MaxRestarts  \* bound on restarts of ComfyUI

ASSUME ZipnnAssumption ==
  /\ Kinds \subseteq {"tensor", "delta"}
  /\ Left \notin Task /\ None \notin Task /\ Left # None
  /\ MaxRestarts \in Nat

Form == {"plain", "packed"}

VARIABLES
  kind,       \* which conversion the model is subject to
  \* on disk
  file,       \* file[f]: "none", "whole" or "torn"
  meta,       \* the delta's sidecar exists
  sealed,     \* the packed form records a digest that a restore must match
  tmp,        \* tmp[f]: the file named <f>.tmp, by who created it
  stale,      \* the forms whose .tmp nobody has written to for 15 minutes
  \* ZIPNN_TASKS and the workers
  source,     \* source[t]: the form task t converts from
  worker,     \* worker[t]: where the task's coroutine stands
  \* the native jobs
  job,        \* job[t]: where the task's thread stands
  reads,      \* reads[t]: what the thread has mapped
  digest,     \* the jobs that have a recorded digest to verify against
  cancelled,  \* the jobs whose cancel flag is set
  holds,      \* holds[t]: the file the thread's AtomicWriter has open
  shared,     \* the jobs whose open file another job has had open as well
  gone,       \* the jobs gc() has dropped from the registry
  \* bounds and history
  events,     \* events[t]: how many zipnn_complete events task t has sent
  sweeping,   \* the forms whose .tmp was stale when the startup sweep began
  doomed,     \* the forms whose .tmp the sweep has judged stale and will remove
  restarts,   \* restarts so far
  rotten,     \* a storage error has damaged the packed file
  overlapped, \* two tasks have been at work at once
  taken,      \* the forms whose .tmp a job has opened that it had not created
  unchecked   \* a restore without a digest to match has been renamed into place

history == <<taken, unchecked>>
disk    == <<file, meta, sealed, tmp, stale>>
writers == <<holds, shared>>
threads == <<job, reads, digest, writers, cancelled, gone>>
outer   == <<kind, sweeping, doomed, restarts, rotten, history>>
vars    == <<outer, disk, source, worker, threads, events, overlapped>>

Other(f) == IF f = "plain" THEN "packed" ELSE "plain"

Target(t) == Other(source[t])

\* accepted: registered, being announced.  poll: the native job is running.
\* replaced: the source is gone.  failed, jobFailed: about to report, jobFailed
\* when it was the job that failed.  ended: reported.  lost: the process went.
WorkerStates == {"none", "accepted", "poll", "replaced", "failed", "jobFailed", "ended", "lost"}

AtWork(t) == worker[t] \notin {"none", "ended", "lost"}

\* found: create_new met a .tmp.  taking: it was judged stale.
JobStates == {"none", "spawned", "checked", "opened", "found", "taking",
              "writing", "written", "committed", "done", "failed"}

Files == Task \cup {Left, None}

Writing(t) == job[t] \in {"writing", "written"}

TypeOK ==
  /\ kind \in Kinds
  /\ file \in [Form -> {"none", "whole", "torn"}]
  /\ meta \in BOOLEAN /\ sealed \in BOOLEAN
  /\ tmp \in [Form -> Files]
  /\ stale \subseteq Form
  /\ source \in [Task -> Form]
  /\ worker \in [Task -> WorkerStates]
  /\ job \in [Task -> JobStates]
  /\ reads \in [Task -> {"none", "whole", "torn"}]
  /\ holds \in [Task -> Files] /\ shared \subseteq Task
  /\ digest \subseteq Task /\ cancelled \subseteq Task
  /\ gone \subseteq Task
  /\ events \in [Task -> 0..1]
  /\ sweeping \subseteq Form /\ doomed \subseteq Form /\ taken \subseteq Form
  /\ rotten \in BOOLEAN /\ overlapped \in BOOLEAN /\ unchecked \in BOOLEAN
  /\ restarts \in 0..MaxRestarts

\* A library with the model in one of its forms; a packed one may come from other
\* tools and record no digest.  A conversion that was killed more than 15 minutes
\* ago may have left its .tmp, which the startup sweep has not looked at yet.
Init ==
  /\ kind \in Kinds
  /\ \E f \in Form : file = [g \in Form |-> IF g = f THEN "whole" ELSE "none"]
  /\ meta = (kind = "delta" /\ file["packed"] = "whole")
  /\ sealed \in BOOLEAN /\ (sealed => file["packed"] = "whole")
  /\ stale \in SUBSET {f \in Form : file[f] = "none"}
  /\ tmp = [f \in Form |-> IF f \in stale THEN Left ELSE None]
  /\ source = [t \in Task |-> "plain"]
  /\ worker = [t \in Task |-> "none"]
  /\ job = [t \in Task |-> "none"]
  /\ reads = [t \in Task |-> "none"]
  /\ holds = [t \in Task |-> None] /\ shared = {}
  /\ digest = {} /\ cancelled = {} /\ gone = {}
  /\ events = [t \in Task |-> 0]
  /\ sweeping = stale /\ doomed = {} /\ restarts = 0
  /\ rotten = FALSE /\ overlapped = FALSE /\ taken = {} /\ unchecked = FALSE

-----------------------------------------------------------------------------
(* The routes *)

\* POST /zipnn/compress, decompress, delta-compress, delta-decompress: refused
\* unless the source is there and the target is not; then the task is
\* registered and announced.
Accept(t, f) ==
  /\ worker[t] = "none"
  /\ file[f] # "none"
  /\ file[Other(f)] = "none"
  /\ source' = [source EXCEPT ![t] = f]
  /\ worker' = [worker EXCEPT ![t] = "accepted"]
  /\ overlapped' = (overlapped \/ \E u \in Task : AtWork(u))
  /\ UNCHANGED <<outer, disk, threads, events>>

\* POST /zipnn/cancel: refused before the job has a handle; afterwards it sets
\* the flag, which the thread looks at between tensors or chunks (and nobody once
\* the job has ended).
Cancel(t) ==
  /\ worker[t] = "poll" /\ job[t] \notin {"done", "failed"}
  /\ cancelled' = cancelled \cup {t}
  /\ UNCHANGED <<outer, disk, source, worker, job, reads, digest, writers, gone, events, overlapped>>

-----------------------------------------------------------------------------
(* The worker: worker_body, _run_native_job, _poll_native_job *)

Report(t, state) == worker' = [worker EXCEPT ![t] = state]

\* The native core cannot be loaded (once it is, a job always gets a handle).
Unavailable(t) ==
  /\ worker[t] = "accepted"
  /\ Report(t, "failed")
  /\ UNCHANGED <<outer, disk, source, threads, events, overlapped>>

\* What gc() may drop whenever a job is spawned: terminal jobs, of which any may
\* have been created more than an hour ago.
Expired == {u \in Task : job[u] \in {"done", "failed"}}

\* The job is spawned; a delta's digest, if there is one, is read from the sidecar
\* now.
Start(t) ==
  /\ worker[t] = "accepted"
  /\ Report(t, "poll")
  /\ job' = [job EXCEPT ![t] = "spawned"]
  /\ digest' = IF source[t] = "packed" /\ kind = "delta" /\ meta /\ sealed
                 THEN digest \cup {t} ELSE digest
  /\ \E s \in SUBSET Expired : gone' = gone \cup s
  /\ UNCHANGED <<outer, disk, source, reads, writers, cancelled, events, overlapped>>

\* The poll finds the job failed, or finds no job.
PollFailed(t) ==
  /\ worker[t] = "poll"
  /\ t \in gone \/ job[t] = "failed"
  /\ Report(t, "jobFailed")
  /\ UNCHANGED <<outer, disk, source, threads, events, overlapped>>

Removed(f) == [file EXCEPT ![f] = "none"]

\* Mutant of PollDone: the worker trusts that a job that is not running is done.
PollStopped(t) ==
  /\ worker[t] = "poll"
  /\ t \notin gone
  /\ job[t] \in {"done", "failed"}
  /\ file[source[t]] # "none"
  /\ file' = Removed(source[t])
  /\ meta' = (meta /\ source[t] = "plain")
  /\ Report(t, "replaced")
  /\ UNCHANGED <<outer, sealed, tmp, stale, source, threads, events, overlapped>>

\* The poll finds the job done: without another await, previews and notes move
\* and the source is removed, a restored delta together with its sidecar.
PollDone(t) ==
  /\ worker[t] = "poll"
  /\ t \notin gone
  /\ job[t] = "done"
  /\ file[source[t]] # "none"
  /\ file' = Removed(source[t])
  /\ meta' = (meta /\ source[t] = "plain")
  /\ Report(t, "replaced")
  /\ UNCHANGED <<outer, sealed, tmp, stale, source, threads, events, overlapped>>

\* Previews or notes cannot be moved, or the source cannot be removed (it may
\* have gone): both files stay as they are.
PollStuck(t) ==
  /\ worker[t] = "poll"
  /\ t \notin gone
  /\ job[t] = "done"
  /\ Report(t, "failed")
  /\ UNCHANGED <<outer, disk, source, threads, events, overlapped>>

\* Mutant of Complete: after the success is reported the worker's outer handler
\* reports a crash as well.
CompleteTwice(t) ==
  /\ Report(t, IF worker[t] = "replaced" THEN "failed" ELSE "ended")
  /\ events' = [events EXCEPT ![t] = @ + 1]

Complete(t) ==
  /\ Report(t, "ended")
  /\ events' = [events EXCEPT ![t] = @ + 1]

\* zipnn_complete {ok: true}.
Finish(t) ==
  /\ worker[t] = "replaced"
  /\ Complete(t)
  /\ UNCHANGED <<outer, disk, source, threads, overlapped>>

\* Mutant of Fail: the failure of a job is logged, not reported.
FailSilently(t) ==
  /\ worker[t] = "failed"
  /\ Complete(t)
  /\ UNCHANGED <<outer, disk, source, threads, overlapped>>

\* _fail, zipnn_complete {ok: false}; after a delta job failed, a delta file
\* without a sidecar is taken for its own and removed.
Fail(t) ==
  /\ worker[t] \in {"failed", "jobFailed"}
  /\ Complete(t)
  /\ file' = IF /\ worker[t] = "jobFailed" /\ kind = "delta"
                /\ source[t] = "plain" /\ ~meta
               THEN Removed("packed") ELSE file
  /\ UNCHANGED <<outer, meta, sealed, tmp, stale, source, threads, overlapped>>

WorkerStep(t) ==
  Start(t) \/ PollFailed(t) \/ PollDone(t) \/ Finish(t) \/ Fail(t)

-----------------------------------------------------------------------------
(* The native job's thread *)

GoTo(t, state) == job' = [job EXCEPT ![t] = state]

Running ==
  UNCHANGED <<kind, sweeping, doomed, restarts, rotten, source, worker,
              cancelled, gone, events, overlapped>>

\* The first thing each pipeline does.
JobCheck(t) ==
  /\ job[t] = "spawned"
  /\ GoTo(t, IF file[Target(t)] = "none" THEN "checked" ELSE "failed")
  /\ UNCHANGED <<disk, reads, digest, writers, history>> /\ Running

\* The source is mapped: its content stays readable when it is unlinked.  A tensor
\* file's digest is in its header, if there is one that a restore can match.
JobOpen(t) ==
  /\ job[t] = "checked"
  /\ reads' = [reads EXCEPT ![t] = file[source[t]]]
  /\ digest' = IF source[t] = "packed" /\ kind = "tensor" /\ sealed
                 THEN digest \cup {t} ELSE digest
  /\ GoTo(t, IF file[source[t]] = "none" THEN "failed" ELSE "opened")
  /\ UNCHANGED <<disk, writers, history>> /\ Running

\* The thread has a writer, on a file of its own.
Creates(t) ==
  /\ GoTo(t, "writing")
  /\ tmp' = [tmp EXCEPT ![Target(t)] = t]
  /\ holds' = [holds EXCEPT ![t] = t]
  /\ UNCHANGED <<stale, shared, taken>>

\* Or on the file that is there, which it truncates.
Opens(t) ==
  LET f == Target(t)
      others == {u \in Task : Writing(u) /\ Target(u) = f /\ holds[u] = tmp[f]}
  IN /\ GoTo(t, "writing")
     /\ holds' = [holds EXCEPT ![t] = tmp[f]]
     /\ shared' = IF others = {} THEN shared ELSE shared \cup others \cup {t}
     /\ stale' = stale \ {f}
     /\ UNCHANGED tmp

\* Mutant of JobCreate: the .tmp is opened for writing, whoever has it.
JobCreateShared(t) ==
  /\ job[t] = "opened"
  /\ IF tmp[Target(t)] = None THEN Creates(t) ELSE (Opens(t) /\ UNCHANGED taken)
  /\ UNCHANGED <<file, meta, sealed, reads, digest, unchecked>> /\ Running

\* AtomicWriter::new opens with create_new, which never opens a file that exists.
JobCreate(t) ==
  /\ job[t] = "opened"
  /\ \/ tmp[Target(t)] = None /\ Creates(t)
     \/ /\ tmp[Target(t)] # None
        /\ GoTo(t, "found")
        /\ UNCHANGED <<tmp, stale, writers, taken>>
  /\ UNCHANGED <<file, meta, sealed, reads, digest, unchecked>> /\ Running

\* Mutant of JobStat: a job that finds the .tmp busy sweeps it before it fails.
JobStatSweeping(t) ==
  LET f == Target(t) IN
  /\ job[t] = "found"
  /\ IF tmp[f] = None \/ f \in stale
       THEN GoTo(t, "taking") /\ tmp' = tmp
       ELSE GoTo(t, "failed") /\ tmp' = [tmp EXCEPT ![f] = None]
  /\ UNCHANGED <<file, meta, sealed, stale, reads, digest, writers, history>> /\ Running

\* Then it looks at the age of the .tmp: a young one belongs to somebody, one that
\* has gone meanwhile counts as stale.
JobStat(t) ==
  /\ job[t] = "found"
  /\ GoTo(t, IF tmp[Target(t)] = None \/ Target(t) \in stale THEN "taking" ELSE "failed")
  /\ UNCHANGED <<disk, reads, digest, writers, history>> /\ Running

\* And takes it over, with create and truncate: whatever has that name by now.
JobTakeOver(t) ==
  /\ job[t] = "taking"
  /\ \/ tmp[Target(t)] = None /\ Creates(t)
     \/ tmp[Target(t)] # None /\ Opens(t) /\ taken' = taken \cup {Target(t)}
  /\ UNCHANGED <<file, meta, sealed, reads, digest, unchecked>> /\ Running

\* Everything is written and synced; verification follows.
JobWrite(t) ==
  /\ job[t] = "writing"
  /\ GoTo(t, "written")
  /\ UNCHANGED <<disk, reads, digest, writers, history>> /\ Running

\* The thread closes its writer and returns.
Closes(t) ==
  /\ holds' = [holds EXCEPT ![t] = None]
  /\ shared' = shared \ {t}
  /\ reads' = [reads EXCEPT ![t] = "none"]
  /\ digest' = digest \ {t}

\* The .tmp has lost its name, to a removal or a rename.
Unnamed(f) == [tmp EXCEPT ![f] = None]

\* Mutant of JobAbort: the partial output is left to the startup sweep.
JobAbortLeaving(t) ==
  /\ job[t] \in {"opened", "found", "taking", "writing", "written"}
  /\ GoTo(t, "failed")
  /\ Closes(t)
  /\ UNCHANGED <<disk, history>> /\ Running

\* A bad input, an I/O error, a paranoid check that fails, a panic, or the cancel
\* flag: the writer, if there is one, removes its .tmp by name.
JobAbort(t) ==
  /\ job[t] \in {"opened", "found", "taking", "writing", "written"}
  /\ GoTo(t, "failed")
  /\ Closes(t)
  /\ tmp' = IF Writing(t) THEN Unnamed(Target(t)) ELSE tmp
  /\ UNCHANGED <<file, meta, sealed, stale, history>> /\ Running

\* The first check of the flag is after the writer is created.
JobCancelled(t) ==
  /\ t \in cancelled
  /\ job[t] = "writing"
  /\ JobAbort(t)

\* What the .tmp that the thread has written comes to hold: its own output, unless
\* the name is another file's by now or the file has had two writers.
Outputs(t) ==
  IF tmp[Target(t)] = holds[t] /\ t \notin shared
    THEN {IF reads[t] = "torn" THEN "torn" ELSE "whole"}
    ELSE {"whole", "torn"}

\* The digest of what was written must be the recorded one, where there is one
\* that a restore has to match.
Refuted(t) == t \in digest /\ reads[t] = "torn"

\* The failed restore is kept aside as <dst>.corrupt.
JobReject(t) ==
  /\ job[t] = "written"
  /\ Refuted(t)
  /\ GoTo(t, "failed")
  /\ Closes(t)
  /\ tmp' = Unnamed(Target(t))
  /\ UNCHANGED <<file, meta, sealed, stale, history>> /\ Running

\* The rename of whatever is named .tmp, whether or not a target has come to be
\* there.  A compressed tensor file records its digest; it is one that a restore
\* must match if the source's header was canonical.
Renames(t) ==
  LET f == Target(t) IN
  /\ \E out \in Outputs(t) : file' = [file EXCEPT ![f] = out]
  /\ GoTo(t, IF kind = "delta" /\ f = "packed" THEN "committed" ELSE "done")
  /\ IF kind = "tensor" /\ f = "packed" THEN sealed' \in BOOLEAN ELSE sealed' = sealed
  /\ unchecked' = (unchecked \/ (f = "plain" /\ t \notin digest))

\* Mutant of JobCommit: the output is renamed before it is verified.
JobCommitUnverified(t) ==
  /\ job[t] = "written"
  /\ \/ tmp[Target(t)] # None /\ Renames(t)
     \/ tmp[Target(t)] = None /\ GoTo(t, "failed") /\ UNCHANGED <<file, sealed, unchecked>>
  /\ Closes(t)
  /\ tmp' = Unnamed(Target(t))
  /\ UNCHANGED <<meta, stale, taken>> /\ Running

\* The commit fails when the .tmp has been renamed or removed by someone else.
JobCommit(t) ==
  /\ job[t] = "written"
  /\ ~Refuted(t)
  /\ \/ tmp[Target(t)] # None /\ Renames(t)
     \/ tmp[Target(t)] = None /\ GoTo(t, "failed") /\ UNCHANGED <<file, sealed, unchecked>>
  /\ Closes(t)
  /\ tmp' = Unnamed(Target(t))
  /\ UNCHANGED <<meta, stale, taken>> /\ Running

\* A delta is followed by its sidecar, which records the digest, and whose failure
\* fails the job.
JobSidecar(t) ==
  /\ job[t] = "committed"
  /\ \/ meta' = TRUE /\ sealed' = TRUE /\ GoTo(t, "done")
     \/ UNCHANGED <<meta, sealed>> /\ GoTo(t, "failed")
  /\ UNCHANGED <<file, tmp, stale, reads, digest, writers, history>> /\ Running

JobStep(t) ==
  \/ JobCheck(t) \/ JobOpen(t) \/ JobCreate(t) \/ JobStat(t) \/ JobTakeOver(t)
  \/ JobWrite(t) \/ JobCancelled(t) \/ JobReject(t) \/ JobCommit(t) \/ JobSidecar(t)

-----------------------------------------------------------------------------
(* The environment *)

\* A quarter of an hour passes over a .tmp nobody writes to (a live run keeps
\* writing to its own).  The sweep goes by the time it began at.
Stale(f) ==
  /\ tmp[f] # None /\ f \notin stale
  /\ \A t \in Task : Target(t) = f => ~Writing(t)
  /\ stale' = stale \cup {f}
  /\ sweeping' = sweeping \ {f}
  /\ UNCHANGED <<kind, doomed, restarts, rotten, history, file, meta, sealed, tmp, source, worker, threads, events, overlapped>>

\* A storage error damages the packed file, once; the record of its digest may be
\* what it hits.
Rot ==
  /\ ~rotten /\ file["packed"] = "whole"
  /\ rotten' = TRUE
  /\ file' = [file EXCEPT !["packed"] = "torn"]
  /\ sealed' \in {sealed, FALSE}
  /\ UNCHANGED <<kind, sweeping, doomed, restarts, history, meta, tmp, stale, source,
                 worker, threads, events, overlapped>>

\* ComfyUI is killed and, some time later, started again: no destructor runs, so a
\* .tmp stays.
Restart ==
  /\ restarts < MaxRestarts
  /\ restarts' = restarts + 1
  /\ \E s \in SUBSET {f \in Form : tmp[f] # None} : stale' = stale \cup s
  /\ sweeping' = stale' /\ doomed' = {}
  /\ worker' = [t \in Task |-> IF AtWork(t) THEN "lost" ELSE worker[t]]
  /\ job' = [t \in Task |-> "none"]
  /\ reads' = [t \in Task |-> "none"]
  /\ holds' = [t \in Task |-> None] /\ shared' = {}
  /\ digest' = {} /\ cancelled' = {} /\ gone' = {}
  /\ UNCHANGED <<kind, rotten, history, file, meta, sealed, tmp, source, events, overlapped>>

\* cleanup_stray_files, in the background of the start, looks at a .tmp's age ...
SweepLook(f) ==
  /\ f \in sweeping
  /\ sweeping' = sweeping \ {f}
  /\ doomed' = IF f \in stale THEN doomed \cup {f} ELSE doomed
  /\ UNCHANGED <<kind, restarts, rotten, history, disk, source, worker, threads,
                 events, overlapped>>

\* ... and removes it by name, whoever has taken it over in between.
SweepRemove(f) ==
  /\ f \in doomed
  /\ doomed' = doomed \ {f}
  /\ tmp' = Unnamed(f)
  /\ stale' = stale \ {f}
  /\ UNCHANGED <<kind, sweeping, restarts, rotten, history, file, meta, sealed, source,
                 worker, threads, events, overlapped>>

Next ==
  \/ \E t \in Task : \/ \E f \in Form : Accept(t, f)
                     \/ Cancel(t) \/ Unavailable(t) \/ PollStuck(t)
                     \/ WorkerStep(t) \/ JobStep(t) \/ JobAbort(t)
  \/ \E f \in Form : Stale(f) \/ SweepLook(f) \/ SweepRemove(f)
  \/ Rot \/ Restart

Spec == Init /\ [][Next]_vars

\* The event loop runs its workers and the threads run on.
FairSpec ==
  /\ Spec
  /\ \A t \in Task : WF_vars(WorkerStep(t) \/ PollStuck(t)) /\ WF_vars(JobStep(t))

-----------------------------------------------------------------------------
(* Properties *)

\* The packed form can be restored: a delta needs its sidecar.
Restorable == file["packed"] = "whole" /\ (kind = "delta" => meta)

\* "The plain .safetensors is only removed after the .znn.safetensors file has
\* been written and verified" (docs/USAGE.md), and conversely: whatever fails or
\* crashes, the model is there in one of its forms.
SomeFormRemains == file["plain"] = "whole" \/ Restorable

\* It holds while the model's tasks run one at a time, as the queue of one
\* browser tab runs them (no storage error assumed).
NeverLost == ~rotten /\ ~overlapped => SomeFormRemains

\* "A SECOND live job for the same destination gets a clean error": until a job
\* has taken over a .tmp that was there, one job at most has the form's .tmp open.
\* (Over a stale leftover it does not hold: two jobs that have both judged it stale
\* open the same file, see Opens.)
OneWriterPerTarget ==
  \A f \in Form \ taken :
    \A t, u \in Task : /\ Writing(t) /\ Writing(u)
                       /\ Target(t) = f /\ Target(u) = f
                       => t = u /\ t \notin shared

\* A job that is refused, cancelled or fails, a commit, or the startup sweep never
\* takes the .tmp of a concurrent job for the same target away (the comments in
\* _run_native_job and _cleanup_delta_failure): until a take-over, a writer's .tmp
\* keeps its name.
WriterKeepsTmp ==
  \A t \in Task : Writing(t) /\ Target(t) \notin taken => tmp[Target(t)] = holds[t]

\* "A mismatch keeps the compressed file": what a task restores is whole or is not
\* there, even from a packed file that has rotted, unless a restore had no digest
\* to match, or two tasks at once met over a .tmp that was taken over.
RestoredIntact ==
  file["plain"] = "torn" => unchecked \/ (overlapped /\ "plain" \in taken)

\* "A failed run cleans up its partial output": outside crashes, a .tmp belongs
\* to a job that is writing one for this target, or is the earlier session's.
NoStrayTmp ==
  restarts = 0 => \A f \in Form : tmp[f] # None /\ (tmp[f] = Left => f \in taken)
                    => \E t \in Task : Writing(t) /\ Target(t) = f

\* Every task that was accepted tells the client how it ended, unless the process
\* goes: "a worker that dies silently would leave the UI spinner running forever".
EveryTaskReports ==
  \A t \in Task : worker[t] = "accepted" ~> (events[t] = 1 \/ worker[t] = "lost")

\* "dst can only be ours here" (_cleanup_delta_failure): a delta that has been
\* committed is still there when its sidecar is written.
CleanupOwnsTarget == \A t \in Task : job[t] = "committed" => file["packed"] # "none"

-----------------------------------------------------------------------------
(* The invariants the safety properties rest on (see ZipnnJobsProofs) *)

\* Only a polled job is running, one that gc() has dropped has ended, and a task
\* has told its end once it has ended.
WorkerAndJob ==
  \A t \in Task :
    /\ worker[t] # "poll" => job[t] \in {"none", "done", "failed"}
    /\ worker[t] \in {"none", "accepted"} => job[t] = "none"
    /\ t \in gone => job[t] \in {"done", "failed"}
    /\ events[t] = IF worker[t] = "ended" THEN 1 ELSE 0

\* Whoever writes a .tmp keeps it fresh.
WriterKeepsFresh ==
  \A t \in Task : Writing(t) => Target(t) \notin stale

\* What the sweep has condemned stays stale until someone takes it over.
DoomedStale ==
  /\ \A f \in stale : tmp[f] # None
  /\ \A f \in doomed \ taken : f \in stale

\* A writer has a file open, and only a take-over makes two of them share it.
WriterHolds ==
  /\ \A t \in Task : Writing(t) => holds[t] # None
  /\ \A t \in shared : Writing(t) /\ Target(t) \in taken

\* A task alone has its .tmp for itself, if the sweep does not remove it.
AloneHolds ==
  ~overlapped =>
    /\ \A t, u \in Task : AtWork(t) /\ AtWork(u) => t = u
    /\ \A t \in Task : Writing(t) => /\ tmp[Target(t)] \in {holds[t], None}
                                     /\ t \notin shared

Has(f) == IF f = "plain" THEN file["plain"] = "whole" ELSE Restorable

\* Why nothing is lost: the source of a task stays until its worker has seen the
\* job done, and then the target is there.
Survival ==
  /\ \A t, u \in Task : AtWork(t) /\ AtWork(u) => t = u
  /\ \A f \in Form : file[f] # "torn"
  /\ \A t \in Task : reads[t] # "torn"
  /\ SomeFormRemains
  /\ \A t \in Task : worker[t] \in {"accepted", "poll", "jobFailed"} => Has(source[t])
  /\ \A t \in Task : worker[t] = "poll" /\ job[t] = "done" => Has(Target(t))
  /\ \A t \in Task : job[t] = "committed"
       => kind = "delta" /\ source[t] = "plain" /\ file["packed"] = "whole"

SurvivesAlone == ~rotten /\ ~overlapped => Survival
================================================================================
