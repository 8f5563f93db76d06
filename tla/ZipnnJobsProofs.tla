---------------------------- MODULE ZipnnJobsProofs ----------------------------
(***************************************************************************)
(* Proofs about ZipnnJobs, for any set of tasks and any bound on restarts. *)
(* The inductive invariant is Inv: types and control first, then who has   *)
(* which .tmp open, then the contents.                                     *)
(***************************************************************************)
EXTENDS ZipnnJobs, TLAPS

Types == TypeOK /\ WorkerAndJob

Writers ==
  /\ OneWriterPerTarget /\ WriterKeepsTmp /\ WriterKeepsFresh /\ NoStrayTmp
  /\ DoomedStale /\ WriterHolds

Inv == Types /\ Writers /\ AloneHolds /\ RestoredIntact /\ SurvivesAlone

-----------------------------------------------------------------------------
(* The forms *)

LEMMA OtherForm ==
  ASSUME NEW f \in Form
  PROVE  Other(f) \in Form /\ Other(f) # f /\ Other(Other(f)) = f
BY DEF Form, Other

LEMMA TargetForm ==
  ASSUME TypeOK, NEW t \in Task
  PROVE  source[t] \in Form /\ Target(t) \in Form /\ Target(t) # source[t]
BY OtherForm DEF TypeOK, Target

-----------------------------------------------------------------------------
(* Types and control: a worker's state bounds where its job can stand *)

LEMMA InitTypes == Init => Types
<1>. SUFFICES ASSUME Init  PROVE Types
  OBVIOUS
<1>1. /\ meta \in BOOLEAN /\ sealed \in BOOLEAN /\ rotten \in BOOLEAN
      /\ overlapped \in BOOLEAN /\ unchecked \in BOOLEAN
  BY DEF Init
<1>2. file \in [Form -> {"none", "whole", "torn"}]
  BY DEF Init
<1>3. /\ source \in [Task -> Form]
      /\ worker \in [Task -> WorkerStates]
      /\ job \in [Task -> JobStates]
      /\ reads \in [Task -> {"none", "whole", "torn"}]
      /\ holds \in [Task -> Files]
      /\ events \in [Task -> 0..1]
  BY DEF Init, Form, WorkerStates, JobStates, Files
<1>4. tmp \in [Form -> Files] /\ stale \subseteq Form /\ sweeping \subseteq Form
  BY DEF Init, Files
<1>5. TypeOK
  BY <1>1, <1>2, <1>3, <1>4, ZipnnAssumption DEF Init, TypeOK
<1>6. WorkerAndJob
  BY DEF Init, WorkerAndJob
<1>. QED  BY <1>5, <1>6 DEF Types

\* The worker's steps.
LEMMA WorkerKeepsTypes ==
  ASSUME Types, NEW t \in Task,
         Unavailable(t) \/ PollStuck(t) \/ WorkerStep(t)
  PROVE  Types'
<1>1. CASE Unavailable(t)
  BY <1>1 DEF Unavailable, Report, Types, TypeOK, WorkerAndJob, WorkerStates,
              outer, history, disk, threads, writers
<1>2. CASE PollStuck(t)
  BY <1>2 DEF PollStuck, Report, Types, TypeOK, WorkerAndJob, WorkerStates,
              outer, history, disk, threads, writers
<1>3. CASE Start(t)
  <2>1. PICK s \in SUBSET Expired : gone' = gone \cup s
    BY <1>3 DEF Start
  <2>2. digest' \subseteq Task /\ gone' \subseteq Task
    BY <1>3, <2>1 DEF Start, Expired, Types, TypeOK
  <2>3. TypeOK'
    BY <1>3, <2>2 DEF Start, Report, Types, TypeOK, WorkerStates, JobStates, outer,
                      history, disk, writers
  <2>4. WorkerAndJob'
    BY <1>3, <2>1 DEF Start, Expired, Report, Types, TypeOK, WorkerAndJob
  <2>. QED  BY <2>3, <2>4 DEF Types
<1>4. CASE PollFailed(t)
  BY <1>4 DEF PollFailed, Report, Types, TypeOK, WorkerAndJob, WorkerStates,
              outer, history, disk, threads, writers
<1>5. CASE PollDone(t)
  BY <1>5 DEF PollDone, Removed, Report, Types, TypeOK, WorkerAndJob,
              WorkerStates, outer, history, threads, writers
<1>6. CASE Finish(t)
  BY <1>6 DEF Finish, Complete, Report, Types, TypeOK, WorkerAndJob,
              WorkerStates, outer, history, disk, threads, writers
<1>7. CASE Fail(t)
  <2>1. file' \in [Form -> {"none", "whole", "torn"}]
    BY <1>7 DEF Fail, Removed, Types, TypeOK
  <2>. QED
    BY <1>7, <2>1 DEF Fail, Complete, Report, Types, TypeOK, WorkerAndJob,
                      WorkerStates, outer, history, threads, writers
<1>. QED
  BY <1>1, <1>2, <1>3, <1>4, <1>5, <1>6, <1>7 DEF WorkerStep

\* A thread in any state but its last has a worker that polls it.
LEMMA JobIsPolled ==
  ASSUME Types, NEW t \in Task, job[t] \notin {"none", "done", "failed"}
  PROVE  worker[t] = "poll" /\ t \notin gone
BY DEF Types, WorkerAndJob

\* What all steps of a thread have in common.
LEMMA GoToKeeps ==
  ASSUME Types, NEW t \in Task, job[t] \notin {"none", "done", "failed"},
         NEW state \in JobStates, GoTo(t, state), Running,
         file' \in [Form -> {"none", "whole", "torn"}], meta' \in BOOLEAN,
         sealed' \in BOOLEAN, tmp' \in [Form -> Files], stale' \subseteq Form,
         reads' \in [Task -> {"none", "whole", "torn"}], digest' \subseteq Task,
         holds' \in [Task -> Files], shared' \subseteq Task,
         taken' \subseteq Form, unchecked' \in BOOLEAN
  PROVE  Types'
<1>1. TypeOK'
  BY DEF Types, TypeOK, GoTo, Running
<1>2. WorkerAndJob'
  BY JobIsPolled DEF Types, TypeOK, WorkerAndJob, GoTo, Running
<1>. QED  BY <1>1, <1>2 DEF Types

\* A thread that closes its writer.
LEMMA ClosesKeeps ==
  ASSUME TypeOK, NEW t \in Task, Closes(t)
  PROVE  /\ holds' \in [Task -> Files] /\ shared' \subseteq Task
         /\ reads' \in [Task -> {"none", "whole", "torn"}] /\ digest' \subseteq Task
BY DEF Closes, TypeOK, Files

\* A thread that gets a writer.
LEMMA OpensKeeps ==
  ASSUME TypeOK, NEW t \in Task, Creates(t) \/ Opens(t)
  PROVE  /\ holds' \in [Task -> Files] /\ shared' \subseteq Task
         /\ tmp' \in [Form -> Files] /\ stale' \subseteq Form
         /\ GoTo(t, "writing")
<1>1. Target(t) \in Form
  BY TargetForm
<1>. QED
  BY <1>1 DEF Creates, Opens, TypeOK, Files

\* The thread's steps.
LEMMA JobKeepsTypes ==
  ASSUME Types, NEW t \in Task, JobStep(t) \/ JobAbort(t)
  PROVE  Types'
<1>. USE TargetForm DEF Types, TypeOK
<1>1. CASE JobCheck(t)
  <2>1. PICK s \in {"checked", "failed"} : GoTo(t, s)
    BY <1>1 DEF JobCheck
  <2>. QED
    BY <1>1, <2>1, GoToKeeps DEF JobCheck, JobStates, disk, writers, history
<1>2. CASE JobOpen(t)
  <2>1. PICK s \in {"opened", "failed"} : GoTo(t, s)
    BY <1>2 DEF JobOpen
  <2>2. reads' \in [Task -> {"none", "whole", "torn"}] /\ digest' \subseteq Task
    BY <1>2 DEF JobOpen
  <2>. QED
    BY <1>2, <2>1, <2>2, GoToKeeps DEF JobOpen, JobStates, disk, writers, history
<1>3. CASE JobCreate(t)
  <2>1. CASE Creates(t)
    BY <1>3, <2>1, OpensKeeps, GoToKeeps DEF JobCreate, Creates, JobStates
  <2>2. CASE ~Creates(t)
    BY <1>3, <2>2, GoToKeeps DEF JobCreate, JobStates, writers
  <2>. QED  BY <2>1, <2>2
<1>4. CASE JobStat(t)
  <2>1. PICK s \in {"taking", "failed"} : GoTo(t, s)
    BY <1>4 DEF JobStat
  <2>. QED
    BY <1>4, <2>1, GoToKeeps DEF JobStat, JobStates, disk, writers, history
<1>5. CASE JobTakeOver(t)
  <2>1. Creates(t) \/ Opens(t)
    BY <1>5 DEF JobTakeOver
  <2>2. taken' \subseteq Form
    BY <1>5 DEF JobTakeOver, Creates
  <2>. QED
    BY <1>5, <2>1, <2>2, OpensKeeps, GoToKeeps DEF JobTakeOver, JobStates
<1>6. CASE JobWrite(t)
  BY <1>6, GoToKeeps DEF JobWrite, JobStates, disk, writers, history
<1>7. CASE JobAbort(t) \/ JobCancelled(t)
  <2>1. JobAbort(t)
    BY <1>7 DEF JobCancelled
  <2>2. tmp' \in [Form -> Files]
    BY <2>1 DEF JobAbort, Unnamed, Files
  <2>. QED
    BY <2>1, <2>2, ClosesKeeps, GoToKeeps DEF JobAbort, JobStates, history
<1>8. CASE JobReject(t)
  <2>1. tmp' \in [Form -> Files]
    BY <1>8 DEF JobReject, Unnamed, Files
  <2>. QED
    BY <1>8, <2>1, ClosesKeeps, GoToKeeps DEF JobReject, JobStates, history
<1>9. CASE JobCommit(t)
  <2>1. PICK s \in {"committed", "done", "failed"} : GoTo(t, s)
    BY <1>9 DEF JobCommit, Renames
  <2>2. tmp' \in [Form -> Files]
    BY <1>9 DEF JobCommit, Unnamed, Files
  <2>3. /\ file' \in [Form -> {"none", "whole", "torn"}]
        /\ sealed' \in BOOLEAN /\ unchecked' \in BOOLEAN
    BY <1>9 DEF JobCommit, Renames, Outputs
  <2>. QED
    BY <1>9, <2>1, <2>2, <2>3, ClosesKeeps, GoToKeeps DEF JobCommit, JobStates
<1>10. CASE JobSidecar(t)
  <2>1. PICK s \in {"done", "failed"} : GoTo(t, s)
    BY <1>10 DEF JobSidecar
  <2>2. meta' \in BOOLEAN /\ sealed' \in BOOLEAN
    BY <1>10 DEF JobSidecar
  <2>. QED
    BY <1>10, <2>1, <2>2, GoToKeeps DEF JobSidecar, JobStates, writers, history
<1>. QED
  BY <1>1, <1>2, <1>3, <1>4, <1>5, <1>6, <1>7, <1>8, <1>9, <1>10 DEF JobStep

LEMMA NextTypes ==
  ASSUME Types, [Next]_vars
  PROVE  Types'
<1>1. ASSUME NEW t \in Task, NEW f \in Form, Accept(t, f)  PROVE Types'
  BY <1>1 DEF Accept, Types, TypeOK, WorkerAndJob, WorkerStates, outer, history,
              disk, threads, writers
<1>2. ASSUME NEW t \in Task, Cancel(t)  PROVE Types'
  BY <1>2 DEF Cancel, Types, TypeOK, WorkerAndJob, outer, history, disk, writers
<1>3. ASSUME NEW f \in Form, Stale(f)  PROVE Types'
  BY <1>3 DEF Stale, Types, TypeOK, WorkerAndJob, history, threads, writers
<1>4. CASE Rot
  BY <1>4 DEF Rot, Types, TypeOK, WorkerAndJob, history, threads, writers
<1>5. CASE Restart
  <2>1. /\ worker' \in [Task -> WorkerStates]
        /\ job' \in [Task -> JobStates]
        /\ reads' \in [Task -> {"none", "whole", "torn"}]
        /\ holds' \in [Task -> Files]
        /\ restarts' \in 0..MaxRestarts
    BY <1>5, ZipnnAssumption DEF Restart, Types, TypeOK, WorkerStates, JobStates,
       Files
  <2>2. stale' \subseteq Form /\ sweeping' \subseteq Form
    BY <1>5 DEF Restart, Types, TypeOK
  <2>3. TypeOK'
    BY <1>5, <2>1, <2>2 DEF Restart, Types, TypeOK, history
  <2>4. WorkerAndJob'
    BY <1>5 DEF Restart, AtWork, Types, TypeOK, WorkerAndJob, WorkerStates
  <2>. QED  BY <2>3, <2>4 DEF Types
<1>6. ASSUME NEW f \in Form, SweepLook(f)  PROVE Types'
  BY <1>6 DEF SweepLook, Types, TypeOK, WorkerAndJob, history, disk, threads, writers
<1>7. ASSUME NEW f \in Form, SweepRemove(f)  PROVE Types'
  BY <1>7 DEF SweepRemove, Unnamed, Types, TypeOK, WorkerAndJob, Files, history,
              threads, writers
<1>8. CASE UNCHANGED vars
  BY <1>8 DEF vars, outer, history, disk, threads, writers, Types, TypeOK,
              WorkerAndJob
<1>. QED
  BY <1>1, <1>2, <1>3, <1>4, <1>5, <1>6, <1>7, <1>8, WorkerKeepsTypes,
     JobKeepsTypes DEF Next

-----------------------------------------------------------------------------
(* The .tmp files: create_new opens none that another job has open *)

LEMMA InitWriters == Init => Writers
<1>. SUFFICES ASSUME Init  PROVE Writers
  OBVIOUS
<1>1. \A t \in Task : ~Writing(t)
  BY DEF Init, Writing
<1>2. /\ shared = {} /\ doomed = {} /\ taken = {}
      /\ stale \subseteq Form
      /\ tmp = [f \in Form |-> IF f \in stale THEN Left ELSE None]
  BY DEF Init
<1>3. NoStrayTmp
  BY <1>2 DEF NoStrayTmp
<1>. QED
  BY <1>1, <1>2, <1>3, ZipnnAssumption
     DEF Writers, OneWriterPerTarget, WriterKeepsTmp, WriterKeepsFresh, DoomedStale,
         WriterHolds

\* Steps that let every writer go on and touch no .tmp.
LEMMA SameWritersKeep ==
  ASSUME TypeOK, Writers, tmp' = tmp, stale' = stale, restarts' = restarts,
         doomed' = doomed, taken' = taken, holds' = holds, shared' = shared,
         \A t \in Task : Writing(t)' = Writing(t),
         \A t \in Task : Writing(t) => Target(t)' = Target(t)
  PROVE  Writers'
<1>1. \A t \in shared : t \in Task
  BY DEF TypeOK
<1>. QED
  BY <1>1 DEF Writers, OneWriterPerTarget, WriterKeepsTmp, WriterKeepsFresh, NoStrayTmp,
              DoomedStale, WriterHolds

\* A writer that ends takes the name .tmp along; until a take-over there is no
\* other writer to miss it.
LEMMA WriterEndsKeeps ==
  ASSUME Types, Writers, NEW t \in Task, Writing(t),
         NEW state \in JobStates \ {"writing", "written"}, GoTo(t, state),
         tmp' = Unnamed(Target(t)), Closes(t), stale' = stale, taken' = taken, Running
  PROVE  Writers'
<1>. DEFINE f == Target(t)
<1>1. \A u \in Task : Target(u)' = Target(u)
  BY DEF Running, Target
<1>2. \A u \in Task : Writing(u)' <=> Writing(u) /\ u # t
  BY DEF Types, TypeOK, Writing, GoTo
<1>3. /\ f \in Form
      /\ \A g \in Form : tmp'[g] = IF g = f THEN None ELSE tmp[g]
  BY TargetForm DEF Types, TypeOK, Unnamed
<1>4. /\ \A u \in Task : u # t => holds'[u] = holds[u]
      /\ shared' = shared \ {t}
  BY DEF Closes, Types, TypeOK
<1>5. restarts' = restarts /\ doomed' = doomed /\ taken' = taken /\ stale' = stale
  BY DEF Running
<1>6. \A u \in Task : Target(u) \in Form
  BY TargetForm DEF Types
<1>7. f \notin stale /\ (f \in doomed => f \in taken)
  BY <1>3 DEF Writers, WriterKeepsFresh, DoomedStale
<1>8. /\ stale \subseteq Form /\ shared \subseteq Task
  BY DEF Types, TypeOK
<1>9. \A u \in Task : u # t /\ Writing(u) /\ Target(u) \notin taken => Target(u) # f
  BY <1>3 DEF Writers, OneWriterPerTarget
<1>. HIDE DEF f
<1>10. OneWriterPerTarget'
  BY <1>1, <1>2, <1>4, <1>5 DEF Writers, OneWriterPerTarget
<1>11. WriterKeepsTmp'
  BY <1>1, <1>2, <1>3, <1>4, <1>5, <1>6, <1>9 DEF Writers, WriterKeepsTmp
<1>12. WriterKeepsFresh'
  BY <1>1, <1>2, <1>5 DEF Writers, WriterKeepsFresh
<1>13. NoStrayTmp'
  <2>. SUFFICES ASSUME restarts = 0, NEW g \in Form, tmp'[g] # None,
                       tmp'[g] = Left => g \in taken
                PROVE  \E u \in Task : Writing(u)' /\ Target(u)' = g
    BY <1>5 DEF NoStrayTmp
  <2>1. g # f /\ tmp'[g] = tmp[g]
    BY <1>3
  <2>2. PICK u \in Task : Writing(u) /\ Target(u) = g
    BY <2>1 DEF Writers, NoStrayTmp
  <2>3. u # t
    BY <2>1, <2>2 DEF f
  <2>. QED  BY <1>1, <1>2, <2>2, <2>3
<1>14. DoomedStale'
  BY <1>3, <1>5, <1>7, <1>8 DEF Writers, DoomedStale
<1>15. WriterHolds'
  BY <1>1, <1>2, <1>4, <1>5, <1>8 DEF Writers, WriterHolds
<1>. QED  BY <1>10, <1>11, <1>12, <1>13, <1>14, <1>15 DEF Writers

\* A file of one's own, where the name was free: until a take-over no other writer
\* of the form is there, since its file would have that name.
LEMMA CreatesKeepsWriters ==
  ASSUME Types, Writers, NEW t \in Task, ~Writing(t), tmp[Target(t)] = None, Creates(t),
         Running
  PROVE  Writers'
<1>. DEFINE f == Target(t)
<1>1. \A u \in Task : Target(u)' = Target(u) /\ Target(u) \in Form
  BY TargetForm DEF Running, Target, Types
<1>2. \A u \in Task : Writing(u)' <=> Writing(u) \/ u = t
  BY DEF Creates, GoTo, Writing, Types, TypeOK
<1>3. \A g \in Form : tmp'[g] = IF g = f THEN t ELSE tmp[g]
  BY <1>1 DEF Creates, Types, TypeOK
<1>4. \A u \in Task : holds'[u] = IF u = t THEN t ELSE holds[u]
  BY DEF Creates, Types, TypeOK
<1>5. /\ stale' = stale /\ shared' = shared /\ taken' = taken
      /\ restarts' = restarts /\ doomed' = doomed
  BY DEF Creates, Running
<1>6. tmp[f] = None /\ f \notin stale
  BY DEF Writers, DoomedStale
<1>7. \A u \in Task : Writing(u) /\ Target(u) = f => f \in taken
  BY <1>6 DEF Writers, WriterKeepsTmp, WriterHolds
<1>8. t \notin shared
  BY DEF Writers, WriterHolds
<1>9. t # None /\ t # Left
  BY ZipnnAssumption
<1>10. stale \subseteq Form /\ shared \subseteq Task
  BY DEF Types, TypeOK
<1>11. f = Target(t) /\ f \in Form
  BY <1>1
<1>. HIDE DEF f
<1>12. OneWriterPerTarget'
  <2>. SUFFICES ASSUME NEW g \in Form \ taken, NEW u \in Task, NEW v \in Task,
                       Writing(u)', Writing(v)', Target(u) = g, Target(v) = g
                PROVE  u = v /\ u \notin shared
    BY <1>1, <1>5 DEF OneWriterPerTarget
  <2>1. CASE g = f
    BY <2>1, <1>2, <1>7, <1>8
  <2>2. CASE g # f
    BY <2>2, <1>2, <1>11 DEF Writers, OneWriterPerTarget
  <2>. QED  BY <2>1, <2>2
<1>13. WriterKeepsTmp'
  BY <1>1, <1>2, <1>3, <1>4, <1>5, <1>7, <1>11 DEF Writers, WriterKeepsTmp
<1>14. WriterKeepsFresh'
  BY <1>1, <1>2, <1>5, <1>6, <1>11 DEF Writers, WriterKeepsFresh
<1>15. NoStrayTmp'
  <2>. SUFFICES ASSUME restarts = 0, NEW g \in Form, tmp'[g] # None,
                       tmp'[g] = Left => g \in taken
                PROVE  \E u \in Task : Writing(u)' /\ Target(u)' = g
    BY <1>5 DEF NoStrayTmp
  <2>1. CASE g = f
    BY <2>1, <1>1, <1>2, <1>11
  <2>2. CASE g # f
    <3>1. PICK u \in Task : Writing(u) /\ Target(u) = g
      BY <2>2, <1>3 DEF Writers, NoStrayTmp
    <3>. QED  BY <3>1, <1>1, <1>2
  <2>. QED  BY <2>1, <2>2
<1>16. DoomedStale'
  BY <1>3, <1>5, <1>9, <1>10 DEF Writers, DoomedStale
<1>17. WriterHolds'
  BY <1>1, <1>2, <1>4, <1>5, <1>9, <1>10 DEF Writers, WriterHolds
<1>. QED  BY <1>12, <1>13, <1>14, <1>15, <1>16, <1>17 DEF Writers

\* A take-over of a .tmp that is there puts the form out of what is claimed.
LEMMA OpensKeepsWriters ==
  ASSUME Types, Writers, NEW t \in Task, ~Writing(t), tmp[Target(t)] # None, Opens(t),
         taken' = taken \cup {Target(t)}, Running
  PROVE  Writers'
<1>. DEFINE f == Target(t)
<1>1. \A u \in Task : Target(u)' = Target(u) /\ Target(u) \in Form
  BY TargetForm DEF Running, Target, Types
<1>2. \A u \in Task : Writing(u)' <=> Writing(u) \/ u = t
  BY DEF Opens, GoTo, Writing, Types, TypeOK
<1>3. /\ tmp' = tmp /\ stale' = stale \ {f} /\ taken' = taken \cup {f}
      /\ restarts' = restarts /\ doomed' = doomed
  BY DEF Opens, Running
<1>4. \A u \in Task : holds'[u] = IF u = t THEN tmp[f] ELSE holds[u]
  BY DEF Opens, Types, TypeOK
<1>5. \A u \in shared' : u \in shared \/ (u \in Task /\ Target(u) = f /\ (Writing(u) \/ u = t))
  BY DEF Opens
<1>6. tmp[f] # None /\ f = Target(t) /\ f \in Form
  BY <1>1
<1>7. stale \subseteq Form /\ shared \subseteq Task
  BY DEF Types, TypeOK
<1>. HIDE DEF f
<1>8. OneWriterPerTarget'
  <2>. SUFFICES ASSUME NEW g \in Form \ taken', NEW u \in Task, NEW v \in Task,
                       Writing(u)', Writing(v)', Target(u) = g, Target(v) = g
                PROVE  u = v /\ u \notin shared'
    BY <1>1 DEF OneWriterPerTarget
  <2>1. g # f /\ g \in Form \ taken
    BY <1>3
  <2>2. Writing(u) /\ Writing(v)
    BY <2>1, <1>2, <1>6
  <2>. QED  BY <2>1, <2>2, <1>5 DEF Writers, OneWriterPerTarget
<1>9. WriterKeepsTmp'
  BY <1>1, <1>2, <1>3, <1>4, <1>6 DEF Writers, WriterKeepsTmp
<1>10. WriterKeepsFresh'
  BY <1>1, <1>2, <1>3, <1>6 DEF Writers, WriterKeepsFresh
<1>11. NoStrayTmp'
  <2>. SUFFICES ASSUME restarts = 0, NEW g \in Form, tmp[g] # None,
                       tmp[g] = Left => g \in taken'
                PROVE  \E u \in Task : Writing(u)' /\ Target(u)' = g
    BY <1>3 DEF NoStrayTmp
  <2>1. CASE g = f
    BY <2>1, <1>1, <1>2, <1>6
  <2>2. CASE g # f
    <3>1. PICK u \in Task : Writing(u) /\ Target(u) = g
      BY <2>2, <1>3 DEF Writers, NoStrayTmp
    <3>. QED  BY <3>1, <1>1, <1>2
  <2>. QED  BY <2>1, <2>2
<1>12. DoomedStale'
  BY <1>3, <1>7 DEF Writers, DoomedStale
<1>13. WriterHolds'
  BY <1>1, <1>2, <1>3, <1>4, <1>5, <1>6, <1>7 DEF Writers, WriterHolds
<1>. QED  BY <1>8, <1>9, <1>10, <1>11, <1>12, <1>13 DEF Writers

LEMMA JobKeepsWriters ==
  ASSUME Types, Writers, NEW t \in Task, JobStep(t) \/ JobAbort(t)
  PROVE  Writers'
<1>1. CASE \/ JobCheck(t) \/ JobOpen(t) \/ JobStat(t) \/ JobWrite(t) \/ JobSidecar(t)
           \/ JobCreate(t) /\ tmp[Target(t)] # None
  <2>1. /\ tmp' = tmp /\ stale' = stale /\ restarts' = restarts
        /\ doomed' = doomed /\ taken' = taken /\ holds' = holds /\ shared' = shared
        /\ \A u \in Task : Target(u)' = Target(u)
    BY <1>1 DEF JobCheck, JobOpen, JobStat, JobWrite, JobSidecar, JobCreate, Running,
                disk, writers, history, Target
  <2>2. \A u \in Task : Writing(u)' = Writing(u)
    BY <1>1 DEF JobCheck, JobOpen, JobStat, JobWrite, JobSidecar, JobCreate, GoTo,
                Writing, Types, TypeOK
  <2>. QED  BY <2>1, <2>2, SameWritersKeep DEF Types
<1>2. CASE JobCreate(t) /\ tmp[Target(t)] = None
  BY <1>2, CreatesKeepsWriters DEF JobCreate, Writing
<1>3. CASE JobTakeOver(t)
  BY <1>3, CreatesKeepsWriters, OpensKeepsWriters DEF JobTakeOver, Writing
<1>4. CASE JobAbort(t) \/ JobCancelled(t)
  <2>1. JobAbort(t)
    BY <1>4 DEF JobCancelled
  <2>2. CASE Writing(t)
    BY <2>1, <2>2, WriterEndsKeeps DEF JobAbort, JobStates, history
  <2>3. CASE ~Writing(t)
    <3>1. \A u \in Task : Writing(u)' = Writing(u)
      BY <2>1, <2>3 DEF JobAbort, GoTo, Writing, Types, TypeOK
    <3>2. t \notin shared
      BY <2>3 DEF Writers, WriterHolds
    <3>3. /\ tmp' = tmp /\ stale' = stale /\ restarts' = restarts /\ doomed' = doomed
          /\ taken' = taken /\ shared' = shared
          /\ \A u \in Task : Target(u)' = Target(u)
          /\ \A u \in Task : u # t => holds'[u] = holds[u]
      BY <2>1, <2>3, <3>2 DEF JobAbort, Closes, Running, history, Target, Types, TypeOK
    <3>4. \A u \in Task : Writing(u) => u # t
      BY <2>3
    <3>5. \A u \in shared : u \in Task
      BY DEF Types, TypeOK
    <3>. QED
      BY <3>1, <3>3, <3>4, <3>5 DEF Writers, OneWriterPerTarget, WriterKeepsTmp,
         WriterKeepsFresh, NoStrayTmp, DoomedStale, WriterHolds
  <2>. QED  BY <2>2, <2>3
<1>5. CASE JobReject(t)
  BY <1>5, WriterEndsKeeps DEF JobReject, JobStates, Writing, history
<1>6. CASE JobCommit(t)
  <2>1. PICK s \in {"committed", "done", "failed"} : GoTo(t, s)
    BY <1>6 DEF JobCommit, Renames
  <2>. QED
    BY <1>6, <2>1, WriterEndsKeeps DEF JobCommit, JobStates, Writing
<1>. QED
  BY <1>1, <1>2, <1>3, <1>4, <1>5, <1>6 DEF JobStep

LEMMA NextWriters ==
  ASSUME Types, Writers, [Next]_vars
  PROVE  Writers'
<1>1. ASSUME NEW t \in Task, NEW f \in Form, Accept(t, f)  PROVE Writers'
  <2>1. job[t] = "none"
    BY <1>1 DEF Accept, Types, WorkerAndJob
  <2>2. \A u \in Task : Writing(u)' = Writing(u)
    BY <1>1 DEF Accept, Writing, threads
  <2>3. \A u \in Task : Writing(u) => Target(u)' = Target(u)
    BY <1>1, <2>1 DEF Accept, Writing, Target, Types, TypeOK
  <2>. QED
    BY <1>1, <2>2, <2>3, SameWritersKeep
       DEF Accept, Types, disk, outer, history, threads, writers
<1>2. ASSUME NEW t \in Task,
             Cancel(t) \/ Unavailable(t) \/ PollStuck(t) \/ WorkerStep(t)
      PROVE  Writers'
  <2>1. /\ tmp' = tmp /\ stale' = stale /\ restarts' = restarts /\ doomed' = doomed
        /\ taken' = taken /\ holds' = holds /\ shared' = shared /\ source' = source
    BY <1>2 DEF Cancel, Unavailable, PollStuck, WorkerStep, Start, PollFailed,
       PollDone, Finish, Fail, disk, outer, history, threads, writers
  <2>2. \A u \in Task : Writing(u)' = Writing(u)
    <3>1. CASE Start(t)
      BY <3>1 DEF Start, Writing, Types, TypeOK, WorkerAndJob
    <3>2. CASE ~Start(t)
      BY <1>2, <3>2 DEF Cancel, Unavailable, PollStuck, WorkerStep, PollFailed,
         PollDone, Finish, Fail, threads, Writing
    <3>. QED  BY <3>1, <3>2
  <2>. QED  BY <2>1, <2>2, SameWritersKeep DEF Types, Target
<1>3. ASSUME NEW t \in Task, JobStep(t) \/ JobAbort(t)  PROVE Writers'
  BY <1>3, JobKeepsWriters
<1>4. ASSUME NEW f \in Form, Stale(f)  PROVE Writers'
  BY <1>4 DEF Stale, threads, writers, history, Writers, OneWriterPerTarget,
     WriterKeepsTmp, WriterKeepsFresh, NoStrayTmp, DoomedStale, WriterHolds, Writing,
     Target, Types, TypeOK
<1>5. CASE Rot
  BY <1>5, SameWritersKeep DEF Rot, threads, writers, history, Writing, Target, Types
<1>6. CASE Restart
  <2>1. \A t \in Task : ~Writing(t)'
    BY <1>6 DEF Restart, Writing
  <2>2. restarts' # 0
    BY <1>6 DEF Restart, Types, TypeOK
  <2>3. /\ tmp' = tmp /\ doomed' = {} /\ shared' = {}
        /\ \A f \in stale' : f \in stale \/ tmp[f] # None
    BY <1>6 DEF Restart
  <2>. QED
    BY <2>1, <2>2, <2>3 DEF Writers, OneWriterPerTarget, WriterKeepsTmp,
       WriterKeepsFresh, NoStrayTmp, DoomedStale, WriterHolds
<1>7. ASSUME NEW f \in Form, SweepLook(f)  PROVE Writers'
  BY <1>7 DEF SweepLook, threads, writers, history, disk, Writers, OneWriterPerTarget,
     WriterKeepsTmp, WriterKeepsFresh, NoStrayTmp, DoomedStale, WriterHolds, Writing,
     Target, Types, TypeOK
<1>8. ASSUME NEW f \in Form, SweepRemove(f)  PROVE Writers'
  <2>1. /\ \A t \in Task : Writing(t)' = Writing(t) /\ Target(t)' = Target(t)
        /\ \A t \in Task : Target(t) \in Form
        /\ restarts' = restarts /\ taken' = taken /\ holds' = holds /\ shared' = shared
    BY <1>8, TargetForm DEF SweepRemove, threads, writers, history, Writing, Target, Types
  <2>2. /\ \A g \in Form : tmp'[g] = IF g = f THEN None ELSE tmp[g]
        /\ stale' = stale \ {f} /\ doomed' = doomed \ {f} /\ f \in doomed
        /\ stale \subseteq Form /\ shared \subseteq Task
    BY <1>8 DEF SweepRemove, Unnamed, Types, TypeOK
  <2>3. \A t \in Task : Writing(t) /\ Target(t) \notin taken => Target(t) # f
    BY <2>2 DEF Writers, WriterKeepsFresh, DoomedStale
  <2>4. OneWriterPerTarget'
    BY <2>1 DEF Writers, OneWriterPerTarget
  <2>5. WriterKeepsTmp'
    BY <2>1, <2>2, <2>3 DEF Writers, WriterKeepsTmp
  <2>6. WriterKeepsFresh'
    BY <2>1, <2>2 DEF Writers, WriterKeepsFresh
  <2>7. NoStrayTmp'
    BY <2>1, <2>2 DEF Writers, NoStrayTmp
  <2>8. DoomedStale'
    BY <2>1, <2>2 DEF Writers, DoomedStale
  <2>9. WriterHolds'
    BY <2>1, <2>2 DEF Writers, WriterHolds
  <2>. QED
    BY <2>4, <2>5, <2>6, <2>7, <2>8, <2>9 DEF Writers
<1>9. CASE UNCHANGED vars
  BY <1>9, SameWritersKeep DEF vars, disk, outer, history, threads, writers, Writing,
     Target, Types
<1>. QED
  BY <1>1, <1>2, <1>3, <1>4, <1>5, <1>6, <1>7, <1>8, <1>9 DEF Next

-----------------------------------------------------------------------------
(* Tasks that run one at a time have their .tmp for themselves *)

LEMMA InitAlone == Init => AloneHolds
BY DEF Init, AloneHolds, AtWork, Writing

\* A step that brings no task to work, and takes no .tmp from its writer but to
\* remove it.
LEMMA AloneKeeps ==
  ASSUME Types, AloneHolds, overlapped' = overlapped,
         \A t \in Task : AtWork(t)' => AtWork(t),
         \A t \in Task : Writing(t)' =>
           /\ Writing(t) /\ holds'[t] = holds[t] /\ Target(t)' = Target(t)
           /\ tmp'[Target(t)] \in {tmp[Target(t)], None},
         shared' \subseteq shared
  PROVE  AloneHolds'
BY DEF AloneHolds

LEMMA NextAlone ==
  ASSUME Types, Writers, AloneHolds, [Next]_vars
  PROVE  AloneHolds'
<1>0. \A t \in Task : Target(t) \in Form
  BY TargetForm DEF Types
<1>1. ASSUME NEW t \in Task, NEW f \in Form, Accept(t, f)  PROVE AloneHolds'
  <2>. SUFFICES ASSUME ~overlapped'  PROVE AloneHolds'
    BY DEF AloneHolds
  <2>1. /\ \A u \in Task : ~AtWork(u)
        /\ job' = job /\ worker' = [worker EXCEPT ![t] = "accepted"]
    BY <1>1 DEF Accept, threads
  <2>2. \A u \in Task : ~Writing(u)
    BY <2>1, JobIsPolled DEF AtWork, Writing
  <2>. QED
    BY <2>1, <2>2 DEF AloneHolds, AtWork, Writing, Types, TypeOK
<1>2. ASSUME NEW t \in Task,
             Cancel(t) \/ Unavailable(t) \/ PollStuck(t) \/ WorkerStep(t)
      PROVE  AloneHolds'
  <2>1. /\ tmp' = tmp /\ overlapped' = overlapped
        /\ holds' = holds /\ shared' = shared /\ source' = source
    BY <1>2 DEF Cancel, Unavailable, PollStuck, WorkerStep, Start, PollFailed,
       PollDone, Finish, Fail, disk, outer, threads, writers
  <2>2. \A u \in Task : Writing(u)' => Writing(u)
    <3>1. CASE Start(t)
      BY <3>1 DEF Start, Writing, Types, TypeOK
    <3>2. CASE ~Start(t)
      BY <1>2, <3>2 DEF Cancel, Unavailable, PollStuck, WorkerStep, PollFailed,
         PollDone, Finish, Fail, threads, Writing
    <3>. QED  BY <3>1, <3>2
  <2>3. \A u \in Task : AtWork(u)' => AtWork(u)
    BY <1>2 DEF Cancel, Unavailable, PollStuck, WorkerStep, Start, PollFailed,
       PollDone, Finish, Fail, Complete, Report, AtWork, Types, TypeOK
  <2>. QED  BY <2>1, <2>2, <2>3, AloneKeeps DEF Target
<1>3. ASSUME NEW t \in Task, JobStep(t) \/ JobAbort(t)  PROVE AloneHolds'
  <2>1. /\ overlapped' = overlapped /\ worker' = worker
        /\ \A u \in Task : Target(u)' = Target(u)
        /\ job[t] \notin {"none", "done", "failed"}
        /\ \A u \in Task : u # t => job'[u] = job[u]
    BY <1>3 DEF JobStep, JobCheck, JobOpen, JobCreate, JobStat, JobTakeOver, Creates,
       Opens, JobWrite, JobCancelled, JobAbort, JobReject, JobCommit, Renames,
       JobSidecar, GoTo, Running, Target, Types, TypeOK
  <2>. SUFFICES ASSUME ~overlapped  PROVE AloneHolds'
    BY <2>1 DEF AloneHolds
  <2>2. \A u \in Task : u # t => ~Writing(u) /\ ~Writing(u)'
    <3>1. AtWork(t)
      BY <2>1, JobIsPolled DEF AtWork
    <3>2. \A u \in Task : Writing(u) => AtWork(u)
      BY JobIsPolled DEF AtWork, Writing
    <3>. QED  BY <2>1, <3>1, <3>2 DEF AloneHolds, Writing
  <2>3. \A u, v \in Task : AtWork(u)' /\ AtWork(v)' => u = v
    BY <2>1 DEF AloneHolds, AtWork
  <2>4. ASSUME Writing(t)'
        PROVE  tmp'[Target(t)] \in {holds'[t], None} /\ t \notin shared'
    <3>1. CASE JobWrite(t)
      BY <3>1 DEF JobWrite, AloneHolds, Writing, disk, writers
    <3>2. CASE Creates(t)
      <4>1. t \notin shared
        BY <1>3, <3>2, <2>4 DEF JobStep, JobCheck, JobOpen, JobCreate, JobStat,
           JobTakeOver, JobWrite, JobCancelled, JobAbort, JobReject, JobCommit,
           JobSidecar, Creates, GoTo, Writing, Writers, WriterHolds, AloneHolds,
           Types, TypeOK
      <4>. QED
        BY <3>2, <4>1, <1>0 DEF Creates, Types, TypeOK
    <3>3. CASE JobTakeOver(t) /\ Opens(t)
      <4>1. t \notin shared
        BY <3>3 DEF JobTakeOver, Writers, WriterHolds, Writing
      <4>2. {u \in Task : Writing(u) /\ Target(u) = Target(t) /\ holds[u] = tmp[Target(t)]} = {}
        BY <3>3, <2>2 DEF JobTakeOver, Writing
      <4>. QED
        BY <3>3, <4>1, <4>2 DEF Opens, Types, TypeOK
    <3>4. CASE ~(JobWrite(t) \/ Creates(t) \/ (JobTakeOver(t) /\ Opens(t)))
      BY <1>3, <2>4, <3>4 DEF JobStep, JobCheck, JobOpen, JobCreate, JobStat,
         JobTakeOver, JobCancelled, JobAbort, JobReject, JobCommit, Renames, JobSidecar,
         GoTo, Writing, Types, TypeOK
    <3>. QED  BY <3>1, <3>2, <3>3, <3>4
  <2>. QED  BY <2>1, <2>2, <2>3, <2>4 DEF AloneHolds
<1>4. CASE \/ \E f \in Form : Stale(f) \/ SweepLook(f)
           \/ Rot \/ UNCHANGED vars
  <2>1. /\ tmp' = tmp /\ overlapped' = overlapped /\ holds' = holds
        /\ shared' = shared /\ source' = source /\ job' = job /\ worker' = worker
    BY <1>4 DEF Stale, SweepLook, Rot, vars, disk, threads, writers
  <2>. QED  BY <2>1, AloneKeeps DEF Target, AtWork, Writing
<1>5. CASE Restart
  <2>1. /\ overlapped' = overlapped
        /\ \A t \in Task : ~Writing(t)' /\ ~AtWork(t)'
    BY <1>5 DEF Restart, Writing, AtWork
  <2>. QED  BY <2>1 DEF AloneHolds
<1>6. ASSUME NEW f \in Form, SweepRemove(f)  PROVE AloneHolds'
  <2>1. /\ overlapped' = overlapped /\ holds' = holds /\ shared' = shared
        /\ source' = source /\ job' = job /\ worker' = worker
        /\ \A g \in Form : tmp'[g] \in {tmp[g], None}
    BY <1>6 DEF SweepRemove, Unnamed, threads, writers, Types, TypeOK
  <2>. QED  BY <2>1, <1>0, AloneKeeps DEF Target, AtWork, Writing
<1>. QED
  BY <1>1, <1>2, <1>3, <1>4, <1>5, <1>6 DEF Next

-----------------------------------------------------------------------------
(* The contents: what verification keeps out *)

LEMMA InitRestored == Init => RestoredIntact
BY DEF Init, RestoredIntact, Form

\* A commit that verification lets through is whole, if the file is the job's own.
LEMMA CommitRestores ==
  ASSUME Types, Writers, AloneHolds, RestoredIntact, NEW t \in Task, JobCommit(t)
  PROVE  RestoredIntact'
<1>. SUFFICES ASSUME file'["plain"] = "torn", ~unchecked'
              PROVE  overlapped' /\ "plain" \in taken'
  BY DEF RestoredIntact
<1>1. overlapped' = overlapped /\ taken' = taken
  BY DEF JobCommit, Running
<1>2. CASE file'["plain"] = file["plain"]
  <2>1. ~unchecked
    BY DEF JobCommit, Renames
  <2>. QED  BY <1>1, <1>2, <2>1 DEF RestoredIntact
<1>3. CASE file'["plain"] # file["plain"]
  <2>1. Renames(t) /\ tmp[Target(t)] # None
    BY <1>3 DEF JobCommit
  <2>2. PICK out \in Outputs(t) : file' = [file EXCEPT ![Target(t)] = out]
    BY <2>1 DEF Renames
  <2>3. Target(t) = "plain" /\ out = "torn"
    BY <1>3, <2>2 DEF Types, TypeOK, Form
  <2>4. t \in digest
    BY <2>1, <2>3 DEF Renames
  <2>5. reads[t] # "torn"
    BY <2>4 DEF JobCommit, Refuted
  <2>6. ~(tmp[Target(t)] = holds[t] /\ t \notin shared)
    BY <2>2, <2>3, <2>5 DEF Outputs
  <2>7. Writing(t)
    BY DEF JobCommit, Writing
  <2>8. "plain" \in taken
    BY <2>3, <2>6, <2>7 DEF Writers, WriterKeepsTmp, WriterHolds
  <2>9. overlapped
    BY <2>1, <2>6, <2>7 DEF AloneHolds
  <2>. QED  BY <1>1, <2>8, <2>9
<1>. QED  BY <1>2, <1>3

LEMMA NextRestored ==
  ASSUME Types, Writers, AloneHolds, RestoredIntact, [Next]_vars
  PROVE  RestoredIntact'
<1>. "plain" \in Form /\ "packed" \in Form
  BY DEF Form
<1>1. ASSUME NEW t \in Task, PollDone(t) \/ Fail(t)
      PROVE  RestoredIntact'
  BY <1>1 DEF PollDone, Fail, Removed, RestoredIntact, outer, history, Types, TypeOK
<1>2. CASE Rot
  BY <1>2 DEF Rot, RestoredIntact, history, Types, TypeOK
<1>3. ASSUME NEW t \in Task,
             \/ \E f \in Form : Accept(t, f)
             \/ Cancel(t) \/ Unavailable(t) \/ PollStuck(t)
             \/ Start(t) \/ PollFailed(t) \/ Finish(t)
      PROVE  RestoredIntact'
  BY <1>3 DEF Accept, Cancel, Unavailable, PollStuck, Start, PollFailed, Finish, disk,
     outer, history, RestoredIntact
<1>4. ASSUME NEW t \in Task,
             \/ JobCheck(t) \/ JobOpen(t) \/ JobCreate(t) \/ JobStat(t)
             \/ JobTakeOver(t) \/ JobWrite(t) \/ JobAbort(t) \/ JobReject(t)
             \/ JobSidecar(t)
      PROVE  RestoredIntact'
  <2>1. /\ file' = file /\ unchecked' = unchecked /\ overlapped' = overlapped
        /\ taken \subseteq taken'
    BY <1>4 DEF JobCheck, JobOpen, JobCreate, Creates, JobStat, JobTakeOver, JobWrite,
       JobAbort, JobReject, JobSidecar, Running, disk, history
  <2>. QED  BY <2>1 DEF RestoredIntact
<1>5. CASE \/ \E f \in Form : Stale(f) \/ SweepLook(f) \/ SweepRemove(f)
           \/ Restart \/ UNCHANGED vars
  BY <1>5 DEF Stale, SweepLook, SweepRemove, Restart, vars, disk, outer, history,
     RestoredIntact
<1>. QED
  BY <1>1, <1>2, <1>3, <1>4, <1>5, CommitRestores
     DEF Next, WorkerStep, JobStep, JobCancelled

-----------------------------------------------------------------------------
(* The model survives tasks that run one at a time *)

LEMMA InitSurvives == Init => SurvivesAlone
<1>. SUFFICES ASSUME Init  PROVE Survival
  BY DEF SurvivesAlone
<1>1. file["plain"] = "whole" \/ file["packed"] = "whole"
  BY DEF Init, Form
<1>2. SomeFormRemains
  BY <1>1 DEF Init, SomeFormRemains, Restorable
<1>. QED  BY <1>2 DEF Init, Survival, AtWork

\* What a task alone at work has to keep: nothing else has a claim on the files.
LEMMA AloneSurvives ==
  ASSUME Types, Survival, NEW t \in Task, AtWork(t),
         worker' \in [Task -> WorkerStates],
         \A u \in Task : u # t => worker'[u] = worker[u] /\ job'[u] = job[u],
         \A f \in Form : file'[f] # "torn",
         \A u \in Task : reads'[u] # "torn",
         SomeFormRemains',
         worker'[t] \in {"accepted", "poll", "jobFailed"} => Has(source[t])',
         worker'[t] = "poll" /\ job'[t] = "done" => Has(Target(t))',
         job'[t] = "committed"
           => kind = "delta" /\ source[t] = "plain" /\ file'["packed"] = "whole",
         source' = source, kind' = kind
  PROVE  Survival'
<1>1. \A u \in Task : u # t => ~AtWork(u) /\ ~AtWork(u)'
  BY DEF Survival, AtWork
<1>2. \A u \in Task : u # t => job[u] # "committed" /\ job'[u] # "committed"
  BY <1>1, JobIsPolled DEF AtWork
<1>3. \A u \in Task : u # t => worker'[u] \notin {"accepted", "poll", "jobFailed"}
  BY <1>1 DEF AtWork
<1>4. \A u, v \in Task : AtWork(u)' /\ AtWork(v)' => u = v
  BY <1>1
<1>5. \A u \in Task : worker'[u] \in {"accepted", "poll", "jobFailed"}
        => Has(source[u])'
  BY <1>3
<1>6. \A u \in Task : worker'[u] = "poll" /\ job'[u] = "done" => Has(Target(u))'
  BY <1>3
<1>7. \A u \in Task : job'[u] = "committed"
        => kind' = "delta" /\ source'[u] = "plain" /\ file'["packed"] = "whole"
  BY <1>2
<1>. QED
  BY <1>4, <1>5, <1>6, <1>7 DEF Survival

\* A task alone at work that leaves the files alone and gives up no claim of its
\* own.
LEMMA SameFilesSurvive ==
  ASSUME Types, Survival, NEW t \in Task, AtWork(t),
         worker' \in [Task -> WorkerStates],
         \A u \in Task : u # t => worker'[u] = worker[u] /\ job'[u] = job[u],
         file' = file, meta' = meta, \A u \in Task : reads'[u] # "torn",
         source' = source, kind' = kind,
         worker'[t] \in {"accepted", "poll", "jobFailed"}
           => worker[t] \in {"accepted", "poll", "jobFailed"},
         worker'[t] = "poll" /\ job'[t] = "done"
           => worker[t] = "poll" /\ job[t] = "done",
         job'[t] = "committed" => job[t] = "committed"
  PROVE  Survival'
<1>1. \A f \in Form : Has(f)' = Has(f)
  BY DEF Has, Restorable
<1>2. SomeFormRemains' = SomeFormRemains
  BY DEF SomeFormRemains, Restorable
<1>. QED
  BY <1>1, <1>2, AloneSurvives, TargetForm DEF Survival, Types, TypeOK, Target

\* The worker: the source is removed once the target is there, the clean-up
\* takes only a delta whose source is still there.
LEMMA WorkerSurvives ==
  ASSUME Types, Survival, NEW t \in Task,
         Unavailable(t) \/ PollStuck(t) \/ WorkerStep(t), Types'
  PROVE  Survival'
<1>1. worker' \in [Task -> WorkerStates]
  BY DEF Types, TypeOK
<1>2. AtWork(t)
  BY DEF Unavailable, PollStuck, WorkerStep, Start, PollFailed, PollDone, Finish,
         Fail, AtWork
<1>3. /\ source' = source /\ kind' = kind /\ reads' = reads
      /\ \A u \in Task : reads'[u] # "torn"
      /\ \A u \in Task : u # t => worker'[u] = worker[u] /\ job'[u] = job[u]
  BY DEF Unavailable, PollStuck, WorkerStep, Start, PollFailed, PollDone, Finish,
         Fail, Complete, Report, outer, threads, Survival, Types, TypeOK
<1>4. CASE Unavailable(t) \/ PollStuck(t) \/ Start(t) \/ PollFailed(t) \/ Finish(t)
  <2>1. file' = file /\ meta' = meta
    BY <1>4 DEF Unavailable, PollStuck, Start, PollFailed, Finish, disk
  <2>2. /\ worker'[t] \in {"accepted", "poll", "jobFailed"}
             => worker[t] \in {"accepted", "poll", "jobFailed"}
        /\ worker'[t] = "poll" /\ job'[t] = "done"
             => worker[t] = "poll" /\ job[t] = "done"
        /\ job'[t] = "committed" => job[t] = "committed"
    BY <1>4 DEF Unavailable, PollStuck, Start, PollFailed, Finish, Complete,
       Report, threads, writers, Types, TypeOK
  <2>. QED  BY <1>1, <1>2, <1>3, <2>1, <2>2, SameFilesSurvive
<1>5. CASE PollDone(t)
  <2>1. /\ worker[t] = "poll" /\ job[t] = "done" /\ job' = job
        /\ worker'[t] = "replaced"
        /\ \A f \in Form : file'[f] = IF f = source[t] THEN "none" ELSE file[f]
        /\ meta' = (meta /\ source[t] = "plain")
    BY <1>5 DEF PollDone, Removed, Report, threads, writers, Types, TypeOK
  <2>2. Has(Target(t))
    BY <2>1 DEF Survival
  <2>3. SomeFormRemains'
    <3>1. CASE source[t] = "plain"
      <4>1. Restorable
        BY <2>2, <3>1 DEF Has, Target, Other
      <4>. QED
        BY <1>3, <2>1, <3>1, <4>1 DEF SomeFormRemains, Restorable, Form
    <3>2. CASE source[t] = "packed"
      BY <2>1, <2>2, <3>2 DEF Has, Target, Other, SomeFormRemains, Form
    <3>. QED  BY <3>1, <3>2, TargetForm DEF Form, Types
  <2>4. \A f \in Form : file'[f] # "torn"
    BY <2>1 DEF Survival
  <2>5. \A u \in Task : reads'[u] # "torn"
    BY <1>3 DEF Survival
  <2>. QED
    BY <1>1, <1>2, <1>3, <2>1, <2>3, <2>4, <2>5, AloneSurvives
<1>6. CASE Fail(t)
  <2>1. worker'[t] = "ended" /\ meta' = meta /\ job' = job
    BY <1>6 DEF Fail, Complete, Report, threads, writers, Types, TypeOK
  <2>2. job[t] # "committed"
    BY <1>6, JobIsPolled DEF Fail
  <2>3. (\A f \in Form : file'[f] # "torn") /\ SomeFormRemains'
    <3>1. CASE file' = file
      BY <1>3, <2>1, <3>1 DEF Survival, SomeFormRemains, Restorable
    <3>2. CASE file' # file
      <4>1. /\ worker[t] = "jobFailed" /\ source[t] = "plain"
            /\ \A f \in Form : file'[f] = IF f = "packed" THEN "none" ELSE file[f]
        BY <1>6, <3>2 DEF Fail, Removed, Types, TypeOK
      <4>2. file["plain"] = "whole"
        BY <4>1 DEF Survival, Has
      <4>. QED  BY <4>1, <4>2 DEF Survival, SomeFormRemains, Form
    <3>. QED  BY <3>1, <3>2
  <2>4. \A u \in Task : reads'[u] # "torn"
    BY <1>3 DEF Survival
  <2>. QED
    BY <1>1, <1>2, <1>3, <2>1, <2>2, <2>3, <2>4, AloneSurvives
<1>. QED
  BY <1>4, <1>5, <1>6 DEF WorkerStep

\* The thread: what it commits is whole.
LEMMA JobSurvives ==
  ASSUME Types, AloneHolds, ~overlapped, Survival, NEW t \in Task,
         JobStep(t) \/ JobAbort(t), Types'
  PROVE  Survival'
<1>1. /\ job[t] \notin {"none", "done", "failed"}
      /\ worker' = worker /\ source' = source /\ kind' = kind
      /\ \A u \in Task : u # t => job'[u] = job[u]
  BY DEF JobStep, JobCheck, JobOpen, JobCreate, JobStat, JobTakeOver, Creates, Opens,
         JobWrite, JobCancelled, JobAbort, JobReject, JobCommit, Renames, JobSidecar,
         GoTo, Running, Types, TypeOK
<1>2. worker[t] = "poll" /\ AtWork(t)
  BY <1>1, JobIsPolled DEF AtWork
<1>3. worker' \in [Task -> WorkerStates]
  BY DEF Types, TypeOK
<1>4. Has(source[t])
  BY <1>2 DEF Survival
<1>5. CASE \/ JobCheck(t) \/ JobCreate(t) \/ JobStat(t) \/ JobTakeOver(t)
           \/ JobWrite(t) \/ JobAbort(t) \/ JobCancelled(t) \/ JobReject(t)
           \/ JobCommit(t) /\ tmp[Target(t)] = None
  <2>1. /\ file' = file /\ meta' = meta
        /\ job'[t] \notin {"done", "committed"}
        /\ \A u \in Task : reads'[u] \in {reads[u], "none"}
    BY <1>5 DEF JobCheck, JobCreate, JobStat, JobTakeOver, Creates, Opens, JobWrite,
       JobAbort, JobCancelled, JobReject, JobCommit, Closes, GoTo, disk, Types, TypeOK
  <2>2. \A u \in Task : reads'[u] # "torn"
    BY <2>1 DEF Survival
  <2>. QED  BY <1>1, <1>2, <1>3, <2>1, <2>2, SameFilesSurvive
<1>6. CASE JobOpen(t)
  <2>1. /\ file' = file /\ meta' = meta
        /\ job'[t] \notin {"done", "committed"}
        /\ \A u \in Task : reads'[u] = IF u = t THEN file[source[t]] ELSE reads[u]
    BY <1>6 DEF JobOpen, GoTo, disk, Types, TypeOK
  <2>2. \A u \in Task : reads'[u] # "torn"
    BY <2>1, TargetForm DEF Survival, Types
  <2>3. Has(source[t])' /\ SomeFormRemains' /\ \A f \in Form : file'[f] # "torn"
    BY <1>1, <1>4, <2>1 DEF Has, Restorable, Survival, SomeFormRemains
  <2>. QED
    BY <1>1, <1>2, <1>3, <2>1, <2>2, <2>3, AloneSurvives
<1>7. CASE JobCommit(t) /\ tmp[Target(t)] # None
  <2>1. Outputs(t) = {"whole"}
    <3>1. tmp[Target(t)] = holds[t] /\ t \notin shared
      BY <1>7 DEF JobCommit, AloneHolds, Writing
    <3>. QED  BY <3>1 DEF Outputs, Survival
  <2>2. /\ \A f \in Form : file'[f] = IF f = Target(t) THEN "whole" ELSE file[f]
        /\ meta' = meta /\ (\A u \in Task : reads'[u] \in {reads[u], "none"})
        /\ job'[t] = IF kind = "delta" /\ Target(t) = "packed" THEN "committed"
                                                               ELSE "done"
    BY <1>7, <2>1 DEF JobCommit, Renames, Closes, GoTo, Types, TypeOK
  <2>3. \A f \in Form : Has(f) => Has(f)'
    BY <1>1, <2>2 DEF Has, Restorable, Form
  <2>4. Has(source[t])' /\ SomeFormRemains'
    <3>1. Has(source[t])'
      BY <1>1, <1>4, <2>3, TargetForm DEF Has, Types
    <3>2. SomeFormRemains <=> Has("plain") \/ Has("packed")
      BY DEF SomeFormRemains, Has
    <3>3. SomeFormRemains' <=> Has("plain")' \/ Has("packed")'
      BY DEF SomeFormRemains, Has
    <3>. QED  BY <2>3, <3>1, <3>2, <3>3 DEF Survival, Form
  <2>5. (\A f \in Form : file'[f] # "torn") /\ (\A u \in Task : reads'[u] # "torn")
    BY <2>2 DEF Survival
  <2>6. job'[t] = "done" => Has(Target(t))'
    BY <1>1, <2>2, TargetForm, ZipnnAssumption
       DEF Has, Restorable, Form, Types, TypeOK, Target
  <2>7. job'[t] = "committed"
          => kind = "delta" /\ source[t] = "plain" /\ file'["packed"] = "whole"
    BY <2>2, TargetForm DEF Form, Types, Target, Other
  <2>. QED
    BY <1>1, <1>2, <1>3, <2>4, <2>5, <2>6, <2>7, AloneSurvives
<1>8. CASE JobSidecar(t)
  <2>1. /\ file' = file /\ reads' = reads
        /\ \/ meta' = TRUE /\ job'[t] = "done"
           \/ meta' = meta /\ job'[t] = "failed"
    BY <1>8 DEF JobSidecar, GoTo, Types, TypeOK
  <2>2. source[t] = "plain" /\ file["packed"] = "whole"
    BY <1>8 DEF JobSidecar, Survival
  <2>3. Has(source[t])' /\ SomeFormRemains'
    BY <1>1, <1>4, <2>1, <2>2 DEF Has, SomeFormRemains
  <2>4. job'[t] = "done" => Has(Target(t))'
    BY <1>1, <2>1, <2>2 DEF Has, Restorable, Target, Other
  <2>5. (\A f \in Form : file'[f] # "torn") /\ (\A u \in Task : reads'[u] # "torn")
    BY <2>1 DEF Survival
  <2>. QED
    BY <1>1, <1>2, <1>3, <2>1, <2>3, <2>4, <2>5, AloneSurvives
<1>. QED
  BY <1>5, <1>6, <1>7, <1>8 DEF JobStep

LEMMA NextSurvives ==
  ASSUME Types, AloneHolds, SurvivesAlone, [Next]_vars, Types'
  PROVE  SurvivesAlone'
<1>. SUFFICES ASSUME ~rotten', ~overlapped'  PROVE Survival'
  BY DEF SurvivesAlone
<1>1. ASSUME NEW t \in Task, NEW f \in Form, Accept(t, f)  PROVE Survival'
  <2>1. /\ ~rotten /\ ~overlapped /\ \A u \in Task : ~AtWork(u)
        /\ file[f] # "none" /\ file[Other(f)] = "none"
    BY <1>1 DEF Accept, outer, history
  <2>2. Survival
    BY <2>1 DEF SurvivesAlone
  <2>3. Has(f)
    <3>1. file[f] = "whole"
      BY <2>1, <2>2 DEF Survival, Types, TypeOK
    <3>. QED
      BY <2>1, <2>2, <3>1 DEF Has, Other, Form, Survival, SomeFormRemains
  <2>4. /\ source'[t] = f /\ kind' = kind /\ file' = file /\ meta' = meta
        /\ worker' = [worker EXCEPT ![t] = "accepted"]
        /\ job' = job /\ reads' = reads
    BY <1>1 DEF Accept, outer, history, disk, threads, writers, Types, TypeOK
  <2>5. \A u \in Task : AtWork(u)' <=> u = t
    BY <2>1, <2>4 DEF AtWork, Types, TypeOK
  <2>6. \A u \in Task : worker'[u] \in {"accepted", "poll", "jobFailed"} => u = t
    BY <2>5 DEF AtWork
  <2>7. Has(source[t])' /\ SomeFormRemains'
    BY <2>2, <2>3, <2>4 DEF Has, Restorable, SomeFormRemains, Survival
  <2>8. \A u \in Task : worker'[u] # "poll"
    BY <2>4, <2>6 DEF Types, TypeOK
  <2>9. \A u \in Task : job[u] # "committed"
    BY <2>1, JobIsPolled DEF AtWork
  <2>. QED
    BY <2>2, <2>4, <2>5, <2>6, <2>7, <2>8, <2>9 DEF Survival
<1>2. ASSUME NEW t \in Task, Unavailable(t) \/ PollStuck(t) \/ WorkerStep(t)
      PROVE  Survival'
  <2>1. ~rotten /\ ~overlapped
    BY <1>2 DEF Unavailable, PollStuck, WorkerStep, Start, PollFailed, PollDone,
       Finish, Fail, outer, history
  <2>. QED  BY <1>2, <2>1, WorkerSurvives DEF SurvivesAlone
<1>3. ASSUME NEW t \in Task, JobStep(t) \/ JobAbort(t)  PROVE Survival'
  <2>1. ~rotten /\ ~overlapped
    BY <1>3 DEF JobStep, JobCheck, JobOpen, JobCreate, JobStat, JobTakeOver, JobWrite,
       JobCancelled, JobAbort, JobReject, JobCommit, JobSidecar, Running
  <2>. QED  BY <1>3, <2>1, JobSurvives DEF SurvivesAlone
<1>4. CASE Restart
  <2>1. Survival
    BY <1>4 DEF Restart, SurvivesAlone
  <2>2. /\ file' = file /\ meta' = meta /\ kind' = kind
        /\ \A t \in Task : ~AtWork(t)' /\ job'[t] = "none" /\ reads'[t] = "none"
    BY <1>4 DEF Restart, disk, AtWork
  <2>3. SomeFormRemains'
    BY <2>1, <2>2 DEF Survival, SomeFormRemains, Restorable
  <2>4. \A t \in Task : worker'[t] \notin {"accepted", "poll", "jobFailed"}
    BY <2>2 DEF AtWork
  <2>. QED  BY <2>1, <2>2, <2>3, <2>4 DEF Survival
<1>5. CASE \/ \E t \in Task : Cancel(t)
           \/ \E f \in Form : Stale(f) \/ SweepLook(f) \/ SweepRemove(f)
           \/ UNCHANGED vars
  <2>1. /\ file' = file /\ meta' = meta /\ kind' = kind /\ worker' = worker
        /\ job' = job /\ reads' = reads /\ source' = source
        /\ rotten' = rotten /\ overlapped' = overlapped
    BY <1>5 DEF Cancel, Stale, SweepLook, SweepRemove, vars, disk, threads, writers, outer, history
  <2>2. Survival
    BY <2>1 DEF SurvivesAlone
  <2>. QED
    BY <2>1, <2>2 DEF Survival, SomeFormRemains, Restorable, Has, AtWork, Target
<1>6. CASE Rot
  BY <1>6 DEF Rot
<1>. QED
  BY <1>1, <1>2, <1>3, <1>4, <1>5, <1>6 DEF Next

-----------------------------------------------------------------------------
(* The theorems *)

\* Inv holds of every behaviour.
THEOREM Invariance == Spec => []Inv
<1>1. Init => Inv
  BY InitTypes, InitWriters, InitAlone, InitRestored, InitSurvives DEF Inv
<1>2. Inv /\ [Next]_vars => Inv'
  BY NextTypes, NextWriters, NextAlone, NextRestored, NextSurvives DEF Inv
<1>. QED  BY <1>1, <1>2, PTL DEF Spec

\* Types, and that no task tells its end twice (events is 0 or 1).
THEOREM TypeCorrect == Spec => []TypeOK
<1>1. Inv => TypeOK
  BY DEF Inv, Types
<1>. QED  BY <1>1, Invariance, PTL

\* However many jobs run for one target, AtomicWriter lets one write at a time,
\* until one of them takes over a .tmp that was there.
THEOREM ExclusiveWriter == Spec => []OneWriterPerTarget
<1>1. Inv => OneWriterPerTarget
  BY DEF Inv, Writers
<1>. QED  BY <1>1, Invariance, PTL

\* No failure, refusal, cancellation or startup sweep takes a writer's .tmp away,
\* where none was taken over.
THEOREM TmpSafe == Spec => []WriterKeepsTmp
<1>1. Inv => WriterKeepsTmp
  BY DEF Inv, Writers
<1>. QED  BY <1>1, Invariance, PTL

\* Until the process is killed, a .tmp has a job that is writing it.
THEOREM NothingLeftOver == Spec => []NoStrayTmp
<1>1. Inv => NoStrayTmp
  BY DEF Inv, Writers
<1>. QED  BY <1>1, Invariance, PTL

\* decompress_file and delta_decompress verify before they rename: where there is a
\* digest to match, a rotten packed file never becomes a plain one.
THEOREM RestoreVerified == Spec => []RestoredIntact
<1>1. Inv => RestoredIntact
  BY DEF Inv
<1>. QED  BY <1>1, Invariance, PTL

\* Whatever fails, is cancelled or is killed, in whichever order, tasks that run
\* one at a time leave the model in one of its forms.
THEOREM ModelSurvives == Spec => []NeverLost
<1>1. Inv => NeverLost
  BY DEF Inv, SurvivesAlone, Survival, NeverLost
<1>. QED  BY <1>1, Invariance, PTL

================================================================================
