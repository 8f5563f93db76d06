-------------------------- MODULE DownloadTasksProofs --------------------------
(***************************************************************************)
(* Proofs about DownloadTasks, for any number of tasks, coroutines and     *)
(* library paths.  The inductive invariant is Inv; the safety properties   *)
(* follow from it.                                                         *)
(***************************************************************************)
EXTENDS DownloadTasks, TLAPS

\* What Submit, End, Fail, GoTo and Cancel have to keep.
CoroutinesOK ==
  /\ pool \in [Task -> Run \cup {None}]
  /\ pc \in [Run -> Await \cup {"idle", "done"}]
  /\ owner \in [Run -> Task \cup {None}]
  /\ cancelled \in [Run -> BOOLEAN]
  /\ appending \in [Run -> BOOLEAN]
  /\ PoolAgrees

RequestsOK ==
  /\ creating \in [Task -> {"new", "previews", "announce", "done", "failed"}]
  /\ goal \in [Task -> Path \cup {None}]
  /\ deleting \in [Task -> {"no", "told", "toldRunning", "sleep"}]
  /\ removed \subseteq Task

DiskOK ==
  /\ taskFile \subseteq Task
  /\ partial \in [Task -> {"none", "part", "full"}]
  /\ torn \subseteq Task
  /\ library \in [Path -> Task \cup {None}]
  /\ damaged \subseteq Path

StatusOK == status \in [Task -> {"unknown", "pause", "waiting", "doing"}]

\* The inductive invariant for types and for the pool.
Inv == CoroutinesOK /\ RequestsOK /\ DiskOK /\ StatusOK /\ PooledSeen

-----------------------------------------------------------------------------
(* The pool *)

\* submit leaves the pool in order and enters at most the given task.
LEMMA SubmitKeeps ==
  ASSUME CoroutinesOK, NEW t \in Task, Submit(t)
  PROVE  /\ CoroutinesOK'
         /\ \A u \in Task : pool'[u] # None => pool[u] # None \/ u = t
<1>1. CASE UNCHANGED coroutine
  BY <1>1 DEF CoroutinesOK, PoolAgrees, coroutine
<1>2. CASE ~UNCHANGED coroutine
  <2>1. PICK r \in Run :
          /\ IF pool[t] = None THEN pc[r] = "idle" ELSE r = pool[t]
          /\ pool' = [pool EXCEPT ![t] = r]
          /\ pc' = [pc EXCEPT ![r] = "queued"]
          /\ owner' = [owner EXCEPT ![r] = t]
          /\ cancelled' = [cancelled EXCEPT ![r] = FALSE]
          /\ appending' = [appending EXCEPT ![r] = FALSE]
    BY <1>2 DEF Submit
  <2>2. /\ pool' \in [Task -> Run \cup {None}]
        /\ pc' \in [Run -> Await \cup {"idle", "done"}]
        /\ owner' \in [Run -> Task \cup {None}]
        /\ cancelled' \in [Run -> BOOLEAN]
        /\ appending' \in [Run -> BOOLEAN]
    BY <2>1 DEF CoroutinesOK, Await
  <2>3. ASSUME NEW u \in Task, u # t  PROVE pool[u] # r
    BY <2>1, <2>3, DownloadAssumption DEF CoroutinesOK, PoolAgrees
  <2>4. PoolAgrees'
    BY <2>1, <2>3, DownloadAssumption DEF CoroutinesOK, PoolAgrees
  <2>. QED
    BY <2>1, <2>2, <2>4 DEF CoroutinesOK
<1>. QED  BY <1>1, <1>2

\* The end of a coroutine leaves the pool in order and enters no task.
LEMMA EndKeeps ==
  ASSUME CoroutinesOK, NEW r \in Run, pc[r] # "idle", End(r)
  PROVE  /\ CoroutinesOK'
         /\ \A u \in Task : pool'[u] # None => pool[u] # None
<1>1. /\ pool' \in [Task -> Run \cup {None}]
      /\ pc' \in [Run -> Await \cup {"idle", "done"}]
      /\ owner' \in [Run -> Task \cup {None}]
      /\ cancelled' \in [Run -> BOOLEAN]
      /\ appending' \in [Run -> BOOLEAN]
  BY DEF CoroutinesOK, End
<1>2. owner[r] \in Task /\ pool[owner[r]] = r
  BY DEF CoroutinesOK, PoolAgrees
<1>3. PoolAgrees'
  BY <1>2, DownloadAssumption DEF CoroutinesOK, PoolAgrees, End
<1>. QED
  BY <1>1, <1>2, <1>3 DEF CoroutinesOK, End

\* Moving on to another await leaves the pool in order.
LEMMA GoToKeeps ==
  ASSUME CoroutinesOK, NEW r \in Run, pc[r] # "idle",
         NEW await \in Await \cup {"done"}, GoTo(r, await),
         appending' \in [Run -> BOOLEAN]
  PROVE  CoroutinesOK' /\ pool' = pool
<1>1. await # "idle"
  BY DEF Await
<1>2. PoolAgrees'
  BY <1>1 DEF CoroutinesOK, PoolAgrees, GoTo
<1>. QED
  BY <1>2 DEF CoroutinesOK, GoTo

LEMMA CancelKeeps ==
  ASSUME CoroutinesOK, NEW t \in Task, Cancel(t)
  PROVE  CoroutinesOK' /\ pool' = pool
BY DEF CoroutinesOK, PoolAgrees, Cancel, Existing

\* An error leaves the pool in order, whether or not the task has a row.
LEMMA FailKeeps ==
  ASSUME CoroutinesOK, StatusOK, NEW r \in Run, pc[r] # "idle", Fail(r)
  PROVE  /\ CoroutinesOK' /\ StatusOK'
         /\ \A u \in Task : pool'[u] # None => pool[u] # None
<1>1. CASE Known(owner[r])
  <2>1. appending' \in [Run -> BOOLEAN] /\ GoTo(r, "report") /\ StatusOK'
    BY <1>1 DEF CoroutinesOK, StatusOK, Fail
  <2>. QED
    BY <2>1, GoToKeeps DEF Await
<1>2. CASE ~Known(owner[r])
  BY <1>2, EndKeeps DEF StatusOK, Fail
<1>. QED  BY <1>1, <1>2

-----------------------------------------------------------------------------
(* The inductive invariant *)

\* A coroutine that takes a step works for a task whose target is known.
LEMMA RunHasTask ==
  ASSUME Inv, NEW r \in Run, pc[r] # "idle"
  PROVE  /\ owner[r] \in Task /\ pool[owner[r]] = r
         /\ goal[owner[r]] \in Path
         /\ creating[owner[r]] \in {"announce", "done"}
BY DownloadAssumption DEF Inv, CoroutinesOK, PoolAgrees, PooledSeen

LEMMA RunIsLive ==
  ASSUME NEW r \in Run, RunStep(r)
  PROVE  pc[r] # "idle"
BY DEF RunStep, RunStart, RunRequest, RunOrphaned, RunRangeRejected, RunAnswer,
       RunOpen, RunReceive, RunFail, RunShort, RunReread, RunReject, RunCollide,
       RunLand, RunClose, RunEnd, RunUnwind, Completing, At, Live

\* No step of a coroutine touches the requests or enters a task in the pool.
LEMMA SeenKept ==
  ASSUME PooledSeen, UNCHANGED request,
         \A u \in Task : pool'[u] # None => pool[u] # None
  PROVE  PooledSeen'
BY DEF PooledSeen, request

LEMMA OpenPartialKeeps ==
  ASSUME DiskOK, NEW t \in Task, NEW append \in BOOLEAN, OpenPartial(t, append)
  PROVE  /\ partial' \in [Task -> {"none", "part", "full"}]
         /\ torn' \subseteq Task
BY DEF DiskOK, OpenPartial

LEMMA RunKeeps ==
  ASSUME Inv, NEW r \in Run, RunStep(r)
  PROVE  Inv'
<1>. DEFINE t == owner[r]
<1>1. /\ pc[r] # "idle" /\ t \in Task /\ goal[t] \in Path
      /\ CoroutinesOK /\ RequestsOK /\ DiskOK /\ StatusOK /\ PooledSeen
  BY RunIsLive, RunHasTask DEF Inv
<1>2. SUFFICES /\ CoroutinesOK' /\ DiskOK' /\ StatusOK'
               /\ UNCHANGED <<request, removed>>
               /\ \A u \in Task : pool'[u] # None => pool[u] # None
  BY <1>1, SeenKept DEF Inv, RequestsOK, request
<1>3. /\ \A await \in Await \cup {"done"} :
           GoTo(r, await) /\ appending' \in [Run -> BOOLEAN]
             => CoroutinesOK' /\ pool' = pool
      /\ End(r) => /\ CoroutinesOK'
                   /\ \A u \in Task : pool'[u] # None => pool[u] # None
      /\ Fail(r) => /\ CoroutinesOK' /\ StatusOK'
                    /\ \A u \in Task : pool'[u] # None => pool[u] # None
  BY <1>1, GoToKeeps, EndKeeps, FailKeeps
<1>4. UNCHANGED appending => appending' \in [Run -> BOOLEAN]
  BY <1>1 DEF CoroutinesOK
<1>5. (UNCHANGED disk => DiskOK') /\ (UNCHANGED status => StatusOK')
  BY <1>1 DEF DiskOK, StatusOK, disk
<1>6. CASE RunStart(r)
  BY <1>1, <1>3, <1>4, <1>5, <1>6 DEF RunStart, StatusOK, Await
<1>7. CASE RunRequest(r)
  <2>1. appending' \in [Run -> BOOLEAN] /\ StatusOK'
    BY <1>1, <1>7 DEF RunRequest, CoroutinesOK, StatusOK
  <2>. QED  BY <1>3, <1>5, <1>7, <2>1 DEF RunRequest, Await
<1>8. CASE RunOrphaned(r) \/ RunFail(r) \/ RunCollide(r)
  BY <1>3, <1>5, <1>8 DEF RunOrphaned, RunFail, RunCollide
<1>9. CASE RunRangeRejected(r)
  <2>1. DiskOK' /\ StatusOK'
    BY <1>1, <1>9 DEF RunRangeRejected, DiskOK, StatusOK
  <2>2. CoroutinesOK' /\ pool' = pool
    BY <1>1, <1>9 DEF RunRangeRejected, CoroutinesOK, PoolAgrees
  <2>. QED  BY <1>9, <2>1, <2>2 DEF RunRangeRejected
<1>10. CASE RunAnswer(r)
  <2>1. PICK append \in BOOLEAN, resized \in BOOLEAN :
          /\ taskFile' = IF resized THEN taskFile \cup {t} ELSE taskFile
          /\ appending' = [appending EXCEPT ![r] = append]
          /\ IF resized \/ (append /\ t \in Hashed)
               THEN GoTo(r, "open") /\ UNCHANGED <<partial, torn>>
               ELSE GoTo(r, "stream") /\ OpenPartial(t, append)
    BY <1>10 DEF RunAnswer
  <2>2. UNCHANGED <<library, damaged, status, request, removed>>
    BY <1>10 DEF RunAnswer
  <2>3. /\ partial' \in [Task -> {"none", "part", "full"}]
        /\ torn' \subseteq Task
    BY <1>1, <2>1, OpenPartialKeeps DEF DiskOK
  <2>4. CoroutinesOK' /\ pool' = pool
    BY <1>1, <1>3, <2>1 DEF CoroutinesOK, Await
  <2>. QED  BY <1>1, <1>5, <2>1, <2>2, <2>3, <2>4 DEF DiskOK
<1>11. CASE RunOpen(r)
  <2>1. /\ partial' \in [Task -> {"none", "part", "full"}]
        /\ torn' \subseteq Task
    BY <1>1, <1>11, OpenPartialKeeps DEF RunOpen, CoroutinesOK
  <2>. QED  BY <1>1, <1>3, <1>4, <1>5, <1>11, <2>1 DEF RunOpen, DiskOK, Await
<1>12. CASE RunReceive(r)
  BY <1>1, <1>3, <1>4, <1>5, <1>12 DEF RunReceive, DiskOK, Await
<1>13. CASE RunShort(r)
  BY <1>1, <1>3, <1>4, <1>5, <1>13 DEF RunShort, StatusOK, Await
<1>14. CASE RunReread(r)
  BY <1>3, <1>4, <1>5, <1>14 DEF RunReread, Await
<1>15. CASE RunReject(r)
  BY <1>1, <1>3, <1>15 DEF RunReject, DiskOK
<1>16. CASE RunLand(r)
  BY <1>1, <1>3, <1>4, <1>5, <1>16 DEF RunLand, DiskOK, Await
<1>17. CASE RunClose(r)
  BY <1>1, <1>3, <1>4, <1>5, <1>17 DEF RunClose, DiskOK, Await
<1>18. CASE RunEnd(r)
  BY <1>3, <1>5, <1>18 DEF RunEnd
<1>19. CASE RunUnwind(r)
  BY <1>3, <1>4, <1>5, <1>19 DEF RunUnwind
<1>. QED
  BY <1>6, <1>7, <1>8, <1>9, <1>10, <1>11, <1>12, <1>13, <1>14, <1>15, <1>16,
     <1>17, <1>18, <1>19 DEF RunStep

LEMMA HandlerKeeps ==
  ASSUME Inv, NEW t \in Task, Client(t) \/ HandlerStep(t)
  PROVE  Inv'
<1>1. CoroutinesOK /\ RequestsOK /\ DiskOK /\ StatusOK /\ PooledSeen
  BY DEF Inv
<1>2. UNCHANGED coroutine => CoroutinesOK' /\ pool' = pool
  BY <1>1 DEF coroutine, CoroutinesOK, PoolAgrees
<1>3. (UNCHANGED disk => DiskOK') /\ (UNCHANGED status => StatusOK')
  BY <1>1 DEF DiskOK, StatusOK, disk
<1>4. ASSUME NEW p \in Path, CreateChecks(t, p)  PROVE Inv'
  <2>1. creating' = [creating EXCEPT ![t] = "previews"] /\ pool[t] = None
    BY <1>1, <1>4 DEF CreateChecks, PooledSeen
  <2>2. RequestsOK' /\ PooledSeen'
    BY <1>1, <1>2, <1>4, <2>1 DEF CreateChecks, RequestsOK, PooledSeen
  <2>. QED  BY <1>2, <1>3, <1>4, <2>2 DEF CreateChecks, Inv
<1>5. CASE CreateFails(t)
  <2>1. RequestsOK' /\ PooledSeen'
    BY <1>1, <1>2, <1>5 DEF CreateFails, RequestsOK, PooledSeen
  <2>. QED  BY <1>2, <1>3, <1>5, <2>1 DEF CreateFails, Inv
<1>6. CASE CreateStore(t)
  <2>1. RequestsOK' /\ PooledSeen'
    BY <1>1, <1>2, <1>6 DEF CreateStore, RequestsOK, PooledSeen
  <2>2. DiskOK' /\ StatusOK'
    BY <1>1, <1>6 DEF CreateStore, DiskOK, StatusOK
  <2>. QED  BY <1>2, <1>6, <2>1, <2>2 DEF CreateStore, Inv
<1>7. CASE CreateSubmit(t)
  <2>1. /\ CoroutinesOK'
        /\ \A u \in Task : pool'[u] # None => pool[u] # None \/ u = t
    BY <1>1, <1>7, SubmitKeeps DEF CreateSubmit
  <2>2. RequestsOK' /\ PooledSeen'
    BY <1>1, <1>7, <2>1 DEF CreateSubmit, RequestsOK, PooledSeen
  <2>. QED  BY <1>3, <1>7, <2>1, <2>2 DEF CreateSubmit, Inv
<1>8. CASE Resume(t)
  <2>1. /\ CoroutinesOK'
        /\ \A u \in Task : pool'[u] # None => pool[u] # None \/ u = t
    BY <1>1, <1>8, SubmitKeeps DEF Resume
  <2>2. RequestsOK' /\ PooledSeen'
    BY <1>1, <1>8, <2>1 DEF Resume, RequestsOK, PooledSeen, request
  <2>. QED  BY <1>3, <1>8, <2>1, <2>2 DEF Resume, Inv
<1>9. CASE Pause(t)
  <2>1. CoroutinesOK' /\ pool' = pool
    BY <1>1, <1>9, CancelKeeps DEF Pause
  <2>2. RequestsOK' /\ PooledSeen' /\ StatusOK'
    BY <1>1, <1>9, <2>1 DEF Pause, RequestsOK, PooledSeen, StatusOK, request
  <2>. QED  BY <1>3, <1>9, <2>1, <2>2 DEF Pause, Inv
<1>10. CASE DeleteStart(t) \/ CreateAborts(t)
  <2>1. RequestsOK' /\ PooledSeen' /\ StatusOK'
    BY <1>1, <1>2, <1>10
       DEF DeleteStart, CreateAborts, RequestsOK, PooledSeen, StatusOK
  <2>. QED  BY <1>2, <1>3, <1>10, <2>1 DEF DeleteStart, CreateAborts, Inv
<1>11. ASSUME RemoveFiles(t), CoroutinesOK', pool' = pool  PROVE Inv'
  BY <1>1, <1>11 DEF RemoveFiles, Inv, RequestsOK, DiskOK, StatusOK, PooledSeen
<1>12. CASE DeleteIdle(t)
  BY <1>1, <1>11, <1>12, CancelKeeps DEF DeleteIdle
<1>13. CASE DeleteRunning(t)
  <2>1. CoroutinesOK' /\ pool' = pool
    BY <1>1, <1>13, CancelKeeps DEF DeleteRunning
  <2>2. RequestsOK' /\ PooledSeen' /\ StatusOK'
    BY <1>1, <1>13, <2>1 DEF DeleteRunning, RequestsOK, PooledSeen, StatusOK
  <2>. QED  BY <1>3, <1>13, <2>1, <2>2 DEF DeleteRunning, Inv
<1>14. CASE DeleteFiles(t)
  BY <1>2, <1>11, <1>14 DEF DeleteFiles
<1>. QED
  BY <1>4, <1>5, <1>6, <1>7, <1>8, <1>9, <1>10, <1>12, <1>13, <1>14
     DEF Client, HandlerStep

LEMMA NextKeeps == Inv /\ [Next]_vars => Inv'
<1> SUFFICES ASSUME Inv, [Next]_vars  PROVE Inv'
  OBVIOUS
<1>1. CASE List
  BY <1>1 DEF List, Inv, CoroutinesOK, PoolAgrees, RequestsOK, DiskOK, StatusOK,
              PooledSeen, disk, coroutine, request
<1>2. CASE Restart
  <2>1. CoroutinesOK'
    BY <1>2 DEF Restart, CoroutinesOK, PoolAgrees
  <2>2. RequestsOK'
    BY <1>2 DEF Restart, Inv, RequestsOK
  <2>3. PooledSeen'
    BY <1>2 DEF Restart, Inv, RequestsOK, PooledSeen
  <2>. QED
    BY <1>2, <2>1, <2>2, <2>3 DEF Restart, Inv, DiskOK, StatusOK, disk
<1>3. CASE UNCHANGED vars
  BY <1>3 DEF vars, Inv, CoroutinesOK, PoolAgrees, RequestsOK, DiskOK, StatusOK,
              PooledSeen, disk, coroutine, request
<1>. QED
  BY <1>1, <1>2, <1>3, RunKeeps, HandlerKeeps DEF Next

LEMMA InvHolds == Spec => []Inv
<1>1. Init => Inv
  BY DEF Init, Inv, CoroutinesOK, PoolAgrees, RequestsOK, DiskOK, StatusOK, PooledSeen
<1>. QED  BY <1>1, NextKeeps, PTL DEF Spec

\* Every variable keeps its type.
THEOREM TypeCorrect == Spec => []TypeOK
<1>1. Inv => TypeOK
  BY DEF Inv, TypeOK, CoroutinesOK, RequestsOK, DiskOK, StatusOK
<1>. QED  BY <1>1, InvHolds, PTL

\* Two coroutines never work for one task (DownloadThreadPool.submit): the pool
\* has one entry for a task, and each coroutine is the entry of its task.
THEOREM OneWriter == Spec => []SingleWriter
<1>1. Inv => SingleWriter
  BY DEF Inv, CoroutinesOK, PoolAgrees, SingleWriter, Live
<1>. QED  BY <1>1, InvHolds, PTL

-----------------------------------------------------------------------------
(* The library *)

\* Only the rename of a completed transfer touches the library.
LEMMA OnlyLandings ==
  ASSUME [Next]_vars
  PROVE  UNCHANGED <<library, damaged>> \/ \E r \in Run : RunLand(r)
<1>1. ASSUME NEW t \in Task, Client(t) \/ HandlerStep(t)
      PROVE  UNCHANGED <<library, damaged>>
  BY <1>1 DEF Client, HandlerStep, CreateChecks, CreateFails, CreateStore, CreateSubmit,
      CreateAborts, Resume, Pause, DeleteStart, DeleteIdle, DeleteRunning,
      DeleteFiles, RemoveFiles, disk
<1>2. ASSUME NEW r \in Run, RunStep(r), ~RunLand(r)
      PROVE  UNCHANGED <<library, damaged>>
  BY <1>2 DEF RunStep, RunStart, RunRequest, RunOrphaned, RunRangeRejected,
      RunAnswer, RunOpen, RunReceive, RunFail, RunShort, RunReread, RunReject,
      RunCollide, RunClose, RunEnd, RunUnwind, disk
<1>. QED
  BY <1>1, <1>2 DEF Next, List, Restart, vars, disk

\* A landing fills one free path, with a file that is not torn if verified.
LEMMA Landing ==
  ASSUME Inv, NEW r \in Run, RunLand(r)
  PROVE  \E t \in Task, p \in Path :
           /\ t = owner[r]
           /\ library[p] = None
           /\ library' = [library EXCEPT ![p] = t]
           /\ damaged' = IF t \in torn THEN damaged \cup {p} ELSE damaged
           /\ t \in Hashed => t \notin torn
<1>1. pc[r] # "idle"
  BY RunIsLive DEF RunStep
<1>. QED
  BY <1>1, RunHasTask DEF RunLand

\* A file in the library is never replaced, moved or removed by a download:
\* rename_model lands only where nothing is.
THEOREM NeverOverwritten == Spec => LibraryKept
<1>1. Inv /\ [Next]_vars
        => \A p \in Path : library[p] # None => library'[p] = library[p]
  <2> SUFFICES ASSUME Inv, [Next]_vars, NEW p \in Path, library[p] # None
               PROVE  library'[p] = library[p]
    OBVIOUS
  <2>1. CASE UNCHANGED library
    BY <2>1
  <2>2. CASE \E r \in Run : RunLand(r)
    BY <2>2, Landing DEF Inv, DiskOK
  <2>. QED  BY <2>1, <2>2, OnlyLandings
<1>2. Inv /\ [Next]_vars
        => [\A p \in Path : library[p] # None => library'[p] = library[p]]_vars
  BY <1>1
<1>. QED  BY <1>2, InvHolds, PTL DEF Spec, LibraryKept

\* A task with a published SHA256 never puts a torn file in the library: the
\* gate of _download_complete stands before the rename, with no await between.
THEOREM NothingTornIsVerified == Spec => []VerifiedIntact
<1>. DEFINE Intact == DamagedIsThere /\ VerifiedIntact
<1>1. Init => Intact
  BY DEF Init, DamagedIsThere, VerifiedIntact
<1>2. Inv /\ Intact /\ [Next]_vars => Intact'
  <2> SUFFICES ASSUME Inv, Intact, [Next]_vars  PROVE Intact'
    OBVIOUS
  <2>1. CASE UNCHANGED <<library, damaged>>
    BY <2>1 DEF DamagedIsThere, VerifiedIntact
  <2>2. ASSUME NEW r \in Run, RunLand(r)  PROVE Intact'
    <3>1. PICK t \in Task, p \in Path :
            /\ library[p] = None
            /\ library' = [library EXCEPT ![p] = t]
            /\ damaged' = IF t \in torn THEN damaged \cup {p} ELSE damaged
            /\ t \in Hashed => t \notin torn
      BY <2>2, Landing
    <3>2. library \in [Path -> Task \cup {None}] /\ damaged \subseteq Path /\ None \notin Task
      BY DownloadAssumption DEF Inv, DiskOK
    <3>3. DamagedIsThere'
      BY <3>1, <3>2 DEF DamagedIsThere
    <3>4. VerifiedIntact'
      BY <3>1, <3>2, DownloadAssumption DEF DamagedIsThere, VerifiedIntact
    <3>. QED  BY <3>3, <3>4
  <2>. QED  BY <2>1, <2>2, OnlyLandings
<1>3. Intact => VerifiedIntact
  OBVIOUS
<1>. QED  BY <1>1, <1>2, <1>3, InvHolds, PTL DEF Spec

\* A step of one coroutine leaves alone what the others resume from.
LEMMA OthersKeepPartial ==
  ASSUME Inv, NEW r \in Run, RunStep(r), NEW s \in Run, s # r, pc[s] # "idle"
  PROVE  /\ pc'[s] = pc[s] /\ owner'[s] = owner[s] /\ appending'[s] = appending[s]
         /\ owner[s] \in Task /\ partial'[owner[s]] = partial[owner[s]]
<1>1. /\ pc \in [Run -> Await \cup {"idle", "done"}]
      /\ owner \in [Run -> Task \cup {None}]
      /\ appending \in [Run -> BOOLEAN]
      /\ partial \in [Task -> {"none", "part", "full"}]
  BY DEF Inv, CoroutinesOK, DiskOK
<1>2. owner[s] \in Task /\ owner[r] \in Task /\ owner[s] # owner[r]
  BY RunIsLive, RunHasTask
<1>3. CASE RunStart(r) \/ RunOrphaned(r) \/ RunFail(r) \/ RunCollide(r) \/ RunEnd(r)
           \/ RunUnwind(r)
  BY <1>1, <1>2, <1>3 DEF RunStart, RunOrphaned, RunFail, RunCollide, RunEnd,
                          RunUnwind, Fail, End, GoTo, disk
<1>4. CASE RunRequest(r) \/ RunRangeRejected(r) \/ RunReceive(r) \/ RunShort(r)
           \/ RunReread(r) \/ RunLand(r) \/ RunClose(r)
  BY <1>1, <1>2, <1>4 DEF RunRequest, RunRangeRejected, RunReceive, RunShort,
                          RunReread, RunLand, RunClose, GoTo, disk
<1>5. CASE RunAnswer(r)
  BY <1>1, <1>2, <1>5 DEF RunAnswer, OpenPartial, GoTo
<1>6. CASE RunOpen(r)
  BY <1>1, <1>2, <1>6 DEF RunOpen, OpenPartial, GoTo
<1>7. CASE RunReject(r)
  BY <1>1, <1>2, <1>7 DEF RunReject, Fail, End, GoTo
<1>. QED
  BY <1>3, <1>4, <1>5, <1>6, <1>7 DEF RunStep

LEMMA RunTears ==
  ASSUME Inv, TornOnlyByDelete, NEW r \in Run, RunStep(r)
  PROVE  TornOnlyByDelete'
<1>. DEFINE t == owner[r]
            Resumable(s) == pc[s] \in {"request", "open"} /\ appending[s]
                              => partial[owner[s]] # "none" \/ owner[s] \in removed
<1>1. /\ pc \in [Run -> Await \cup {"idle", "done"}]
      /\ owner \in [Run -> Task \cup {None}]
      /\ appending \in [Run -> BOOLEAN]
      /\ partial \in [Task -> {"none", "part", "full"}]
      /\ torn \subseteq removed
      /\ Resumable(r)
      /\ t \in Task
  BY RunIsLive, RunHasTask DEF Inv, CoroutinesOK, DiskOK, TornOnlyByDelete
<1>2. removed' = removed
  BY DEF RunStep, RunStart, RunRequest, RunOrphaned, RunRangeRejected, RunAnswer,
         RunOpen, RunReceive, RunFail, RunShort, RunReread, RunReject, RunCollide,
         RunLand, RunClose, RunEnd, RunUnwind
<1>3. ASSUME NEW s \in Run, s # r, pc[s] # "idle"  PROVE Resumable(s)'
  BY <1>2, <1>3, OthersKeepPartial DEF TornOnlyByDelete
<1>4. ASSUME NEW s \in Run, s # r, pc[s] = "idle"  PROVE pc'[s] = "idle"
  <2>1. CASE RunStart(r) \/ RunOrphaned(r) \/ RunFail(r) \/ RunCollide(r) \/ RunEnd(r)
             \/ RunUnwind(r) \/ RunReject(r)
    BY <1>1, <1>4, <2>1 DEF RunStart, RunOrphaned, RunFail, RunCollide, RunEnd,
                            RunUnwind, RunReject, Fail, End, GoTo
  <2>2. CASE RunRequest(r) \/ RunRangeRejected(r) \/ RunReceive(r) \/ RunShort(r)
             \/ RunReread(r) \/ RunLand(r) \/ RunClose(r) \/ RunAnswer(r) \/ RunOpen(r)
    BY <1>1, <1>4, <2>2 DEF RunRequest, RunRangeRejected, RunReceive, RunShort,
                            RunReread, RunLand, RunClose, RunAnswer, RunOpen, GoTo
  <2>. QED  BY <2>1, <2>2 DEF RunStep
<1>5. SUFFICES torn' \subseteq removed /\ Resumable(r)'
  BY <1>2, <1>3, <1>4 DEF TornOnlyByDelete
<1>6. CASE RunStart(r) \/ RunOrphaned(r) \/ RunFail(r) \/ RunCollide(r) \/ RunEnd(r)
           \/ RunUnwind(r) \/ RunReject(r)
  <2>1. pc'[r] \in {"announce", "report", "idle", "done"}
    BY <1>1, <1>6 DEF RunStart, RunOrphaned, RunFail, RunCollide, RunEnd,
                      RunUnwind, RunReject, Fail, End, GoTo
  <2>2. torn' \subseteq torn
    BY <1>6 DEF RunStart, RunOrphaned, RunFail, RunCollide, RunEnd, RunUnwind,
                RunReject, disk
  <2>. QED  BY <1>1, <2>1, <2>2
<1>7. CASE RunReceive(r) \/ RunShort(r) \/ RunReread(r) \/ RunLand(r) \/ RunClose(r)
  <2>1. pc'[r] \notin {"request", "open"} /\ torn' \subseteq torn
    BY <1>1, <1>7 DEF RunReceive, RunShort, RunReread, RunLand, RunClose, GoTo, disk
  <2>. QED  BY <1>1, <2>1
<1>8. CASE RunRequest(r)
  BY <1>1, <1>8 DEF RunRequest, GoTo, disk
<1>9. CASE RunRangeRejected(r)
  BY <1>1, <1>9 DEF RunRangeRejected
<1>10. CASE RunAnswer(r)
  BY <1>1, <1>10 DEF RunAnswer, OpenPartial, GoTo, At
<1>11. CASE RunOpen(r)
  BY <1>1, <1>11 DEF RunOpen, OpenPartial, GoTo, At
<1>. QED
  BY <1>6, <1>7, <1>8, <1>9, <1>10, <1>11 DEF RunStep

LEMMA HandlerTears ==
  ASSUME Inv, TornOnlyByDelete, NEW t \in Task, Client(t) \/ HandlerStep(t)
  PROVE  TornOnlyByDelete' /\ removed \subseteq removed'
<1>1. /\ pc \in [Run -> Await \cup {"idle", "done"}]
      /\ owner \in [Run -> Task \cup {None}]
      /\ appending \in [Run -> BOOLEAN]
      /\ partial \in [Task -> {"none", "part", "full"}]
      /\ \A r \in Run : pc[r] # "idle" => owner[r] \in Task
  BY DEF Inv, CoroutinesOK, PoolAgrees, DiskOK
<1>2. ASSUME Submit(t), UNCHANGED <<disk, removed>>  PROVE TornOnlyByDelete'
  BY <1>1, <1>2 DEF Submit, TornOnlyByDelete, coroutine, disk
<1>3. ASSUME UNCHANGED <<pc, owner, appending>>, UNCHANGED <<partial, torn, removed>>
      PROVE  TornOnlyByDelete'
  BY <1>3 DEF TornOnlyByDelete
<1>4. ASSUME UNCHANGED <<pc, owner, appending>>, RemoveFiles(t)
      PROVE  TornOnlyByDelete' /\ removed \subseteq removed'
  BY <1>1, <1>4 DEF RemoveFiles, TornOnlyByDelete
<1>5. CASE CreateSubmit(t) \/ Resume(t)
  BY <1>2, <1>5 DEF CreateSubmit, Resume
<1>6. CASE DeleteIdle(t) \/ DeleteFiles(t)
  BY <1>4, <1>6 DEF DeleteIdle, DeleteFiles, Cancel, coroutine
<1>7. CASE \/ \E p \in Path : CreateChecks(t, p)
           \/ CreateFails(t) \/ CreateStore(t) \/ CreateAborts(t) \/ Pause(t)
           \/ DeleteStart(t) \/ DeleteRunning(t)
  BY <1>3, <1>7 DEF CreateChecks, CreateFails, CreateStore, CreateAborts, Pause,
                    DeleteStart, DeleteRunning, Cancel, coroutine, disk
<1>. QED
  BY <1>5, <1>6, <1>7 DEF Client, HandlerStep

\* Without a SHA256 only a transfer overtaken by a delete request can put a torn
\* file in the library: a resume appends to the partial file it measured, whose
\* one writer it is, so that nothing else can take that file away from under it.
THEOREM OnlyDeletesDamage == Spec => []IntactUnlessRemoved
<1>. DEFINE Intact == TornOnlyByDelete /\ DamagedIsThere /\ IntactUnlessRemoved
<1>1. Init => Intact
  BY DEF Init, TornOnlyByDelete, DamagedIsThere, IntactUnlessRemoved
<1>2. Inv /\ Intact /\ [Next]_vars => Intact'
  <2> SUFFICES ASSUME Inv, Intact, [Next]_vars  PROVE Intact'
    OBVIOUS
  <2>1. TornOnlyByDelete' /\ removed \subseteq removed'
    <3>1. ASSUME NEW r \in Run, RunStep(r)  PROVE removed' = removed
      BY <3>1 DEF RunStep, RunStart, RunRequest, RunOrphaned, RunRangeRejected,
          RunAnswer, RunOpen, RunReceive, RunFail, RunShort, RunReread, RunReject,
          RunCollide, RunLand, RunClose, RunEnd, RunUnwind
    <3>2. CASE List \/ Restart \/ UNCHANGED vars
      BY <3>2 DEF List, Restart, vars, disk, coroutine, TornOnlyByDelete
    <3>. QED  BY <3>1, <3>2, RunTears, HandlerTears DEF Next
  <2>2. CASE UNCHANGED <<library, damaged>>
    BY <2>1, <2>2 DEF DamagedIsThere, IntactUnlessRemoved, Inv, DiskOK
  <2>3. ASSUME NEW r \in Run, RunLand(r)  PROVE Intact'
    <3>1. PICK t \in Task, p \in Path :
            /\ library[p] = None
            /\ library' = [library EXCEPT ![p] = t]
            /\ damaged' = IF t \in torn THEN damaged \cup {p} ELSE damaged
      BY <2>3, Landing
    <3>2. /\ library \in [Path -> Task \cup {None}] /\ damaged \subseteq Path
          /\ None \notin Task /\ torn \subseteq removed
      BY DownloadAssumption DEF Inv, DiskOK, TornOnlyByDelete
    <3>3. DamagedIsThere'
      BY <3>1, <3>2 DEF DamagedIsThere
    <3>4. IntactUnlessRemoved'
      BY <2>1, <3>1, <3>2 DEF DamagedIsThere, IntactUnlessRemoved
    <3>. QED  BY <2>1, <3>3, <3>4
  <2>. QED  BY <2>1, <2>2, <2>3, OnlyLandings
<1>3. Intact => IntactUnlessRemoved
  OBVIOUS
<1>. QED  BY <1>1, <1>2, <1>3, InvHolds, PTL DEF Spec

-----------------------------------------------------------------------------
(* The rows *)

\* What a step of one coroutine leaves alone: the other coroutines, and the rows of
\* the tasks that are not its own.
LEMMA OthersKept ==
  ASSUME Inv, NEW r \in Run, RunStep(r), NEW t \in Task, t = owner[r]
  PROVE  /\ \A s \in Run \ {r} : /\ pc'[s] = pc[s] /\ owner'[s] = owner[s]
                                 /\ cancelled'[s] = cancelled[s]
         /\ \A u \in Task \ {t} : status'[u] = status[u] /\ (u \in taskFile' <=> u \in taskFile)
         /\ creating' = creating /\ goal' = goal /\ deleting' = deleting /\ removed' = removed
<1>1. /\ pc \in [Run -> Await \cup {"idle", "done"}]
      /\ owner \in [Run -> Task \cup {None}]
      /\ cancelled \in [Run -> BOOLEAN]
      /\ status \in [Task -> {"unknown", "pause", "waiting", "doing"}]
  BY DEF Inv, CoroutinesOK, StatusOK
<1>2. CASE RunStart(r) \/ RunOrphaned(r) \/ RunFail(r) \/ RunCollide(r) \/ RunEnd(r)
           \/ RunUnwind(r) \/ RunReject(r)
  BY <1>1, <1>2 DEF RunStart, RunOrphaned, RunFail, RunCollide, RunEnd, RunUnwind, RunReject,
                    Fail, End, GoTo, disk, request
<1>3. CASE RunRequest(r) \/ RunRangeRejected(r) \/ RunReceive(r) \/ RunShort(r)
           \/ RunReread(r) \/ RunLand(r) \/ RunClose(r) \/ RunAnswer(r) \/ RunOpen(r)
  BY <1>1, <1>3 DEF RunRequest, RunRangeRejected, RunReceive, RunShort, RunReread, RunLand,
                    RunClose, RunAnswer, RunOpen, GoTo, disk, request
<1>. QED  BY <1>2, <1>3 DEF RunStep

\* What has been published stays so.
LEMMA PublishedStays ==
  ASSUME Inv, [Next]_vars, NEW t \in Task, Published(t)
  PROVE  Published(t)'
<1>1. PICK p \in Path : library[p] = t
  BY DEF Published
<1>2. CASE UNCHANGED library
  BY <1>2 DEF Published
<1>3. CASE \E r \in Run : RunLand(r)
  BY <1>1, <1>3, Landing, DownloadAssumption DEF Inv, DiskOK, Published
<1>. QED  BY <1>2, <1>3, OnlyLandings

\* What RowsAreTrue rests on.
Rows == RowsRecorded /\ SettlesLanded /\ RowsOfRunning /\ NoPhantomRunning /\ PausedStays

\* The row of the task a coroutine works for, and the coroutine, after its step: it is
\* still there, or it has ended and the row does not say that it runs.
LEMMA RunRow ==
  ASSUME Inv, Rows, NEW r \in Run, RunStep(r), NEW t \in Task, t = owner[r]
  PROVE  /\ status'[t] # "unknown" => t \in taskFile' \/ Published(t)'
         /\ pc'[r] \in {"settle", "notify"} => Published(t)'
         /\ Live(r)' => owner'[r] = t
         /\ Live(r)' /\ (pc'[r] = "report" \/ cancelled'[r])
              => status'[t] # "doing" \/ Published(t)'
         /\ Live(r)' /\ pc'[r] # "queued" /\ status'[t] = "unknown" => t \in removed
         /\ ~Live(r)' => status'[t] # "doing" \/ Published(t)'
         /\ t \notin removed /\ status'[t] = "pause" /\ deleting[t] = "no" /\ Live(r)'
              => cancelled'[r] \/ pc'[r] \in {"queued", "report"}
<1>1. /\ pc \in [Run -> Await \cup {"idle", "done"}]
      /\ owner \in [Run -> Task \cup {None}]
      /\ cancelled \in [Run -> BOOLEAN]
      /\ status \in [Task -> {"unknown", "pause", "waiting", "doing"}]
      /\ pc[r] # "idle"
  BY RunIsLive DEF Inv, CoroutinesOK, StatusOK
<1>2. Published(t) => Published(t)'
  <2>1. [Next]_vars
    BY DEF Next
  <2>. QED  BY <2>1, PublishedStays
<1>3. /\ status[t] # "unknown" => t \in taskFile \/ Published(t)
      /\ pc[r] \in {"settle", "notify"} => Published(t)
      /\ Live(r) /\ (pc[r] = "report" \/ cancelled[r]) => status[t] # "doing" \/ Published(t)
      /\ Live(r) /\ pc[r] # "queued" /\ status[t] = "unknown" => t \in removed
      /\ t \notin removed /\ status[t] = "pause" /\ deleting[t] = "no" /\ Live(r)
           => cancelled[r] \/ pc[r] \in {"queued", "report"}
  BY <1>1 DEF Rows, RowsRecorded, SettlesLanded, RowsOfRunning, PausedStays
<1>4. CASE RunStart(r) \/ RunOrphaned(r) \/ RunFail(r) \/ RunCollide(r) \/ RunReject(r)
  BY <1>1, <1>2, <1>3, <1>4 DEF RunStart, RunOrphaned, RunFail, RunCollide, RunReject, Fail, End,
     GoTo, At, Live, Known, Completing, disk
<1>5. CASE RunEnd(r) \/ RunUnwind(r)
  <2>1. /\ ~Live(r)' /\ pc'[r] \in {"idle", "done"}
        /\ taskFile' = taskFile /\ status' = status
    BY <1>1, <1>5 DEF RunEnd, RunUnwind, End, GoTo, Live, disk
  <2>2. status[t] # "doing" \/ Published(t)
    BY <1>3, <1>5 DEF RunEnd, RunUnwind, At, Live
  <2>. QED  BY <1>2, <1>3, <2>1, <2>2
<1>6. CASE RunRequest(r) \/ RunRangeRejected(r) \/ RunAnswer(r) \/ RunOpen(r)
  BY <1>1, <1>2, <1>3, <1>6 DEF RunRequest, RunRangeRejected, RunAnswer, RunOpen, GoTo, At, Live,
     disk
<1>7. CASE RunReceive(r) \/ RunShort(r) \/ RunReread(r)
  BY <1>1, <1>2, <1>3, <1>7 DEF RunReceive, RunShort, RunReread, GoTo, At, Live, disk
<1>8. CASE RunClose(r)
  BY <1>1, <1>2, <1>3, <1>8 DEF RunClose, GoTo, At, Live
<1>9. CASE RunLand(r)
  <2>1. Published(t)'
    BY <1>9, Landing, RunHasTask DEF Inv, DiskOK, Published
  <2>2. pc[r] \in {"announce", "received", "verify"} /\ ~cancelled[r] /\ Live(r)
    BY <1>9 DEF RunLand, Completing, At, Live
  <2>3. /\ pc'[r] = "settle" /\ owner' = owner /\ cancelled' = cancelled /\ status' = status
    BY <1>1, <1>9 DEF RunLand, GoTo
  <2>. QED  BY <1>1, <1>3, <2>1, <2>2, <2>3 DEF Live
<1>. QED
  BY <1>4, <1>5, <1>6, <1>7, <1>8, <1>9 DEF RunStep

LEMMA RunRows == ASSUME Inv, Rows, NEW r \in Run, RunStep(r)  PROVE Rows'
<1>1. PICK t \in Task : t = owner[r]
  BY RunIsLive, RunHasTask
<1>2. /\ pc[r] # "idle" /\ pool[t] = r
      /\ \A s \in Run : pc[s] # "idle" => owner[s] \in Task /\ pool[owner[s]] = s
  BY <1>1, RunIsLive, RunHasTask
<1>3. \A u \in Task : Published(u) => Published(u)'
  <2>1. [Next]_vars
    BY DEF Next
  <2>. QED  BY <2>1, PublishedStays
<1>4. /\ \A s \in Run \ {r} : /\ pc'[s] = pc[s] /\ owner'[s] = owner[s]
                              /\ cancelled'[s] = cancelled[s]
      /\ \A u \in Task \ {t} : status'[u] = status[u] /\ (u \in taskFile' <=> u \in taskFile)
      /\ deleting' = deleting /\ removed' = removed
  BY <1>1, OthersKept
<1>5. \A s \in Run \ {r} : pc[s] # "idle" => owner[s] \in Task \ {t}
  BY <1>1, <1>2
<1>6. RowsRecorded'
  BY <1>1, <1>3, <1>4, RunRow DEF Rows, RowsRecorded
<1>7. SettlesLanded'
  <2>. SUFFICES ASSUME NEW s \in Run, NEW u, u = owner'[s], pc'[s] \in {"settle", "notify"}
                PROVE  Published(u)'
    BY DEF SettlesLanded
  <2>1. CASE s = r
    BY <1>1, <2>1, RunRow DEF Live
  <2>2. CASE s # r
    BY <1>3, <1>4, <1>5, <2>2 DEF Rows, SettlesLanded
  <2>. QED  BY <2>1, <2>2
<1>8. RowsOfRunning'
  <2>. SUFFICES ASSUME NEW s \in Run, Live(s)', NEW u, u = owner'[s]
                PROVE  /\ pc'[s] = "report" \/ cancelled'[s]
                            => status'[u] # "doing" \/ Published(u)'
                       /\ pc'[s] # "queued" /\ status'[u] = "unknown" => u \in removed'
    BY DEF RowsOfRunning
  <2>1. CASE s = r
    BY <1>1, <1>4, <2>1, RunRow
  <2>2. CASE s # r
    BY <1>3, <1>4, <1>5, <2>2 DEF Rows, RowsOfRunning, Live
  <2>. QED  BY <2>1, <2>2
<1>9. NoPhantomRunning'
  <2>. SUFFICES ASSUME NEW u \in Task, status'[u] = "doing", ~Published(u)'
                PROVE  \E s \in Run : Live(s)' /\ owner'[s] = u
    BY DEF NoPhantomRunning
  <2>1. CASE u = t
    BY <1>1, <2>1, RunRow
  <2>2. CASE u # t
    <3>1. PICK s \in Run : Live(s) /\ owner[s] = u
      BY <1>3, <1>4, <2>2 DEF Rows, NoPhantomRunning
    <3>. QED  BY <1>1, <1>4, <2>2, <3>1 DEF Live
  <2>. QED  BY <2>1, <2>2
<1>10. PausedStays'
  <2>. SUFFICES ASSUME NEW u \in Task, u \notin removed', status'[u] = "pause",
                       deleting'[u] = "no", NEW s \in Run, Live(s)', owner'[s] = u
                PROVE  cancelled'[s] \/ pc'[s] \in {"queued", "report"}
    BY DEF PausedStays
  <2>1. CASE s = r
    BY <1>1, <1>4, <2>1, RunRow
  <2>2. CASE s # r
    BY <1>4, <1>5, <2>2 DEF Rows, PausedStays, Live
  <2>. QED  BY <2>1, <2>2
<1>. QED  BY <1>6, <1>7, <1>8, <1>9, <1>10 DEF Rows

\* A submission leaves every coroutine but a new one of its task, which is queued.
LEMMA SubmitRows ==
  ASSUME Inv, Rows, NEW t \in Task, Submit(t), UNCHANGED <<disk, status, deleting, removed>>
  PROVE  Rows'
<1>1. \A u : Published(u)' <=> Published(u)
  BY DEF Published, disk
<1>2. taskFile' = taskFile /\ status' = status /\ deleting' = deleting /\ removed' = removed
  BY DEF disk
<1>3. CASE UNCHANGED coroutine
  BY <1>1, <1>2, <1>3 DEF coroutine, Rows, RowsRecorded, SettlesLanded, RowsOfRunning,
     NoPhantomRunning, PausedStays, Live
<1>4. CASE ~UNCHANGED coroutine
  <2>1. PICK r \in Run :
          /\ IF pool[t] = None THEN pc[r] = "idle" ELSE r = pool[t]
          /\ pc' = [pc EXCEPT ![r] = "queued"]
          /\ owner' = [owner EXCEPT ![r] = t]
          /\ cancelled' = [cancelled EXCEPT ![r] = FALSE]
    BY <1>4 DEF Submit
  <2>2. ~Existing(t)
    BY <1>4 DEF Submit
  <2>3. ~Live(r)
    BY <2>1, <2>2 DEF Live, Existing
  <2>4. /\ pc'[r] = "queued" /\ owner'[r] = t /\ cancelled'[r] = FALSE
        /\ \A s \in Run \ {r} : /\ pc'[s] = pc[s] /\ owner'[s] = owner[s]
                                /\ cancelled'[s] = cancelled[s]
    BY <2>1 DEF Inv, CoroutinesOK
  <2>5. RowsRecorded' /\ SettlesLanded'
    BY <1>1, <1>2, <2>4 DEF Rows, RowsRecorded, SettlesLanded
  <2>6. RowsOfRunning' /\ PausedStays'
    BY <1>1, <1>2, <2>4 DEF Rows, RowsOfRunning, PausedStays, Live
  <2>7. NoPhantomRunning'
    BY <1>1, <1>2, <2>3, <2>4 DEF Rows, NoPhantomRunning, Live
  <2>. QED  BY <2>5, <2>6, <2>7 DEF Rows
<1>. QED  BY <1>3, <1>4

\* What a request may do to the row of its task.
LEMMA RequestRows ==
  ASSUME Inv, Rows, NEW t \in Task, UNCHANGED <<library, pc, owner>>,
         \A u \in Task \ {t} : /\ status'[u] = status[u] /\ deleting'[u] = deleting[u]
                               /\ u \in taskFile' <=> u \in taskFile,
         removed \subseteq removed' /\ removed' \subseteq removed \cup {t},
         \A r \in Run : cancelled[r] => cancelled'[r],
         \A r \in Run : cancelled'[r] /\ ~cancelled[r]
                       => owner[r] = t /\ (status'[t] # "doing" \/ Published(t)),
         status'[t] = "doing" => status[t] = "doing",
         status'[t] # "unknown" => t \in taskFile' \/ Published(t),
         \A r \in Run : Live(r) /\ owner[r] = t =>
           /\ pc[r] # "queued" /\ status'[t] = "unknown" => t \in removed'
           /\ t \notin removed' /\ status'[t] = "pause" /\ deleting'[t] = "no"
                => cancelled'[r] \/ pc[r] \in {"queued", "report"}
  PROVE  Rows'
<1>1. \A u : Published(u)' <=> Published(u)
  BY DEF Published
<1>2. \A r \in Run : (Live(r)' <=> Live(r)) /\ (Live(r) => owner[r] \in Task)
  BY DEF Live, Inv, CoroutinesOK, PoolAgrees
<1>3. RowsRecorded' /\ SettlesLanded'
  BY <1>1 DEF Rows, RowsRecorded, SettlesLanded
<1>4. RowsOfRunning'
  BY <1>1, <1>2 DEF Rows, RowsOfRunning
<1>5. NoPhantomRunning'
  BY <1>1, <1>2 DEF Rows, NoPhantomRunning
<1>6. PausedStays'
  BY <1>2 DEF Rows, PausedStays
<1>. QED  BY <1>3, <1>4, <1>5, <1>6 DEF Rows

LEMMA HandlerRows ==
  ASSUME Inv, Rows, NEW t \in Task, Client(t) \/ HandlerStep(t)
  PROVE  Rows'
<1>1. /\ status \in [Task -> {"unknown", "pause", "waiting", "doing"}]
      /\ cancelled \in [Run -> BOOLEAN]
      /\ deleting \in [Task -> {"no", "told", "toldRunning", "sleep"}]
      /\ taskFile \subseteq Task
  BY DEF Inv, CoroutinesOK, StatusOK, RequestsOK, DiskOK
<1>2. /\ status[t] # "unknown" => t \in taskFile \/ Published(t)
      /\ \A r \in Run : Live(r) /\ owner[r] = t =>
           /\ pc[r] # "queued" /\ status[t] = "unknown" => t \in removed
           /\ t \notin removed /\ status[t] = "pause" /\ deleting[t] = "no"
                => cancelled[r] \/ pc[r] \in {"queued", "report"}
  BY DEF Rows, RowsRecorded, RowsOfRunning, PausedStays
\* cancel reaches the one coroutine of the task.
<1>3. ASSUME Cancel(t)
      PROVE  /\ UNCHANGED <<pc, owner>>
             /\ \A r \in Run : cancelled[r] => cancelled'[r]
             /\ \A r \in Run : cancelled'[r] /\ ~cancelled[r] => owner[r] = t
             /\ \A r \in Run : Live(r) /\ owner[r] = t => cancelled'[r]
  <2>1. /\ UNCHANGED <<pc, owner>>
        /\ \A r \in Run : cancelled'[r] = (cancelled[r] \/ (Existing(t) /\ r = pool[t]))
    BY <1>3 DEF Cancel
  <2>2. ASSUME NEW r \in Run, Existing(t), r = pool[t]  PROVE owner[r] = t
    BY <2>2 DEF Existing, Inv, CoroutinesOK, PoolAgrees
  <2>3. ASSUME NEW r \in Run, Live(r), owner[r] = t  PROVE Existing(t) /\ r = pool[t]
    BY <2>3, DownloadAssumption DEF Existing, Live, Inv, CoroutinesOK, PoolAgrees
  <2>. QED  BY <1>1, <2>1, <2>2, <2>3
<1>4. CASE CreateSubmit(t) \/ Resume(t)
  BY <1>4, SubmitRows DEF CreateSubmit, Resume, request
<1>5. CASE (\E p \in Path : CreateChecks(t, p)) \/ CreateFails(t)
  BY <1>1, <1>2, <1>5, RequestRows DEF CreateChecks, CreateFails, disk, coroutine
<1>6. CASE CreateStore(t)
  <2>1. \A r \in Run : Live(r) => owner[r] # t
    BY <1>6, DownloadAssumption DEF CreateStore, Live, Inv, CoroutinesOK, PoolAgrees, PooledSeen
  <2>. QED  BY <1>1, <1>2, <1>6, <2>1, RequestRows DEF CreateStore, coroutine
<1>7. CASE Pause(t)
  BY <1>1, <1>2, <1>3, <1>7, RequestRows DEF Pause, Known, disk, request
<1>8. CASE DeleteStart(t) \/ CreateAborts(t)
  BY <1>1, <1>2, <1>8, RequestRows DEF DeleteStart, CreateAborts, Known, disk, coroutine
<1>9. CASE DeleteRunning(t)
  BY <1>1, <1>2, <1>3, <1>9, RequestRows DEF DeleteRunning, disk
<1>10. CASE DeleteIdle(t)
  BY <1>1, <1>2, <1>3, <1>10, RequestRows DEF DeleteIdle, RemoveFiles
<1>11. CASE DeleteFiles(t)
  BY <1>1, <1>2, <1>11, RequestRows DEF DeleteFiles, RemoveFiles, coroutine
<1>. QED
  BY <1>4, <1>5, <1>6, <1>7, <1>8, <1>9, <1>10, <1>11 DEF Client, HandlerStep

LEMMA RowsStep == Inv /\ Rows /\ [Next]_vars => Rows'
<1>. SUFFICES ASSUME Inv, Rows, [Next]_vars  PROVE Rows'
  OBVIOUS
<1>1. CASE List
  <2>1. /\ UNCHANGED <<taskFile, library, pc, owner, cancelled, deleting, removed>>
        /\ status' = [t \in Task |-> IF status[t] = "unknown" /\ t \in taskFile
                                      THEN "pause" ELSE status[t]]
    BY <1>1 DEF List, disk, coroutine, request
  <2>2. /\ \A u : Published(u)' <=> Published(u)
        /\ \A r \in Run : (Live(r)' <=> Live(r)) /\ (Live(r) => owner[r] \in Task)
    BY <2>1 DEF Published, Live, Inv, CoroutinesOK, PoolAgrees
  <2>3. RowsRecorded' /\ SettlesLanded' /\ NoPhantomRunning'
    BY <2>1, <2>2 DEF Rows, RowsRecorded, SettlesLanded, NoPhantomRunning
  <2>4. RowsOfRunning' /\ PausedStays'
    BY <2>1, <2>2 DEF Rows, RowsOfRunning, PausedStays
  <2>. QED  BY <2>3, <2>4 DEF Rows
<1>2. CASE Restart
  BY <1>2 DEF Restart, Live, Rows, RowsRecorded, SettlesLanded, RowsOfRunning,
              NoPhantomRunning, PausedStays
<1>3. CASE UNCHANGED vars
  BY <1>3 DEF vars, disk, coroutine, request, Live, Published, Rows, RowsRecorded, SettlesLanded,
              RowsOfRunning, NoPhantomRunning, PausedStays
<1>. QED  BY <1>1, <1>2, <1>3, RunRows, HandlerRows DEF Next

\* The rows tell what the coroutines do: "doing" has a transfer behind it or a file in
\* the library, and "pause" none that goes on, in any order of pauses, resumes,
\* errors, deletes and restarts.
THEOREM RowsTell == Spec => []RowsAreTrue
<1>1. Init => Rows
  BY DEF Init, Live, Rows, RowsRecorded, SettlesLanded, RowsOfRunning, NoPhantomRunning,
         PausedStays
<1>2. Rows => RowsAreTrue
  BY DEF Rows, RowsAreTrue
<1>. QED  BY <1>1, <1>2, RowsStep, InvHolds, PTL DEF Spec

-----------------------------------------------------------------------------
(* The promise to the library *)

\* What the refinement rests on.
Kept == Traced /\ VerifiesRecorded

Begun(t) == creating[t] \in {"announce", "done"}

\* A task that can land has been created.
LEMMA OpenBegun == ASSUME Inv, Traced, NEW t \in Task, Open(t)  PROVE Begun(t)
BY RunHasTask DEF Open, Traced, Begun, At

\* No step of a coroutine opens a task, and none touches the requests.
LEMMA RunOpens ==
  ASSUME Inv, NEW r \in Run, RunStep(r), NEW t \in Task, t = owner[r]
  PROVE  /\ Open(t)' => Open(t)
         /\ \A u \in Task \ {t} : Open(u)' <=> Open(u)
<1>1. /\ pc \in [Run -> Await \cup {"idle", "done"}]
      /\ owner \in [Run -> Task \cup {None}]
      /\ cancelled \in [Run -> BOOLEAN]
      /\ pc[r] # "idle"
      /\ \A s \in Run \ {r} : pc[s] # "idle" => owner[s] # t
  BY RunIsLive, RunHasTask DEF Inv, CoroutinesOK
<1>2. /\ \A s \in Run \ {r} : /\ pc'[s] = pc[s] /\ owner'[s] = owner[s]
                              /\ cancelled'[s] = cancelled[s]
      /\ \A u \in Task \ {t} : u \in taskFile' <=> u \in taskFile
  BY OthersKept
<1>3. /\ t \in taskFile' => Open(t)
      /\ pc'[r] = "request" => owner'[r] = t /\ Open(t)
  <2>1. CASE RunStart(r) \/ RunOrphaned(r) \/ RunFail(r) \/ RunCollide(r) \/ RunEnd(r)
             \/ RunUnwind(r) \/ RunReject(r)
    <3>1. taskFile' = taskFile
      BY <2>1 DEF RunStart, RunOrphaned, RunFail, RunCollide, RunEnd, RunUnwind, RunReject, disk
    <3>2. pc'[r] \in {"announce", "report", "idle", "done"}
      BY <1>1, <2>1 DEF RunStart, RunOrphaned, RunFail, RunCollide, RunEnd, RunUnwind, RunReject,
                        Fail, End, GoTo
    <3>. QED  BY <3>1, <3>2 DEF Open
  <2>2. CASE RunRequest(r) \/ RunRangeRejected(r) \/ RunAnswer(r)
    BY <1>1, <2>2 DEF RunRequest, RunRangeRejected, RunAnswer, GoTo, disk, Open, At
  <2>3. CASE RunReceive(r) \/ RunShort(r) \/ RunReread(r) \/ RunLand(r) \/ RunClose(r) \/ RunOpen(r)
    BY <1>1, <2>3 DEF RunReceive, RunShort, RunReread, RunLand, RunClose, RunOpen, GoTo, disk, Open
  <2>. QED  BY <2>1, <2>2, <2>3 DEF RunStep
<1>4. ASSUME NEW u \in Task \ {t}  PROVE Open(u)' <=> Open(u)
  <2>1. \A s \in Run \ {r} : At(s, "request")' /\ owner'[s] = u <=> At(s, "request") /\ owner[s] = u
    BY <1>2 DEF At
  <2>2. ~(At(r, "request")' /\ owner'[r] = u) /\ ~(At(r, "request") /\ owner[r] = u)
    BY <1>3 DEF At
  <2>. QED  BY <1>2, <2>1, <2>2 DEF Open
<1>5. Open(t)' => Open(t)
  <2>1. ASSUME NEW s \in Run \ {r}  PROVE ~(At(s, "request")' /\ owner'[s] = t)
    BY <1>1, <1>2 DEF At
  <2>. QED  BY <1>3, <2>1 DEF Open, At
<1>. QED  BY <1>4, <1>5

LEMMA KeptStep == Inv /\ Kept /\ [Next]_vars => Kept'
<1>. SUFFICES ASSUME Inv, Kept, [Next]_vars  PROVE Kept'
  OBVIOUS
<1>1. /\ creating \in [Task -> {"new", "previews", "announce", "done", "failed"}]
      /\ goal \in [Task -> Path \cup {None}]
      /\ taskFile \subseteq Task
      /\ partial \in [Task -> {"none", "part", "full"}]
      /\ library \in [Path -> Task \cup {None}]
      /\ \A r \in Run : pc[r] # "idle" => owner[r] \in Task
  BY RunHasTask DEF Inv, RequestsOK, DiskOK
<1>2. CASE List \/ UNCHANGED vars
  BY <1>2 DEF List, vars, disk, coroutine, request, Kept, Traced, VerifiesRecorded
<1>3. CASE Restart
  BY <1>1, <1>3 DEF Restart, disk, Kept, Traced, VerifiesRecorded
<1>4. ASSUME NEW t \in Task, Client(t) \/ HandlerStep(t)  PROVE Kept'
  <2>1. UNCHANGED library
    BY <1>4 DEF Client, HandlerStep, CreateChecks, CreateFails, CreateStore, CreateSubmit,
       CreateAborts, Resume, Pause, DeleteStart, DeleteIdle, DeleteRunning, DeleteFiles,
       RemoveFiles, disk
  <2>2. /\ \A u \in Task : creating[u] \in {"announce", "done"}
                           => creating'[u] \in {"announce", "done"} /\ goal'[u] = goal[u]
        /\ \A u \in taskFile' : u \in taskFile \/ creating'[u] = "announce"
    BY <1>1, <1>4 DEF Client, HandlerStep, CreateChecks, CreateFails, CreateStore, CreateSubmit,
       CreateAborts, Resume, Pause, DeleteStart, DeleteIdle, DeleteRunning, DeleteFiles,
       RemoveFiles, disk, request
  <2>3. Traced'
    BY <1>1, <2>1, <2>2 DEF Kept, Traced
  <2>4. \A r \in Run : pc'[r] = "verify" => pc[r] = "verify" /\ owner'[r] = owner[r]
    <3>1. CASE CreateSubmit(t) \/ Resume(t)
      BY <3>1 DEF CreateSubmit, Resume, Submit, coroutine, Inv, CoroutinesOK
    <3>. QED
      BY <1>4, <3>1 DEF Client, HandlerStep, CreateChecks, CreateFails, CreateStore, CreateAborts,
         Pause, DeleteStart, DeleteIdle, DeleteRunning, DeleteFiles, Cancel, coroutine
  <2>5. \A u \in Task : partial'[u] # "none"
                        => partial[u] # "none" /\ (u \in taskFile => u \in taskFile')
    BY <1>1, <1>4 DEF Client, HandlerStep, CreateChecks, CreateFails, CreateStore, CreateSubmit,
       CreateAborts, Resume, Pause, DeleteStart, DeleteIdle, DeleteRunning, DeleteFiles,
       RemoveFiles, disk
  <2>6. VerifiesRecorded'
    <3>. SUFFICES ASSUME NEW r \in Run, pc'[r] = "verify", partial'[owner'[r]] # "none"
                  PROVE  owner'[r] \in taskFile'
      BY DEF VerifiesRecorded
    <3>1. pc[r] = "verify" /\ owner'[r] = owner[r] /\ owner[r] \in Task
      BY <1>1, <2>4
    <3>2. PICK u \in Task : u = owner[r] /\ u = owner'[r]
      BY <3>1
    <3>3. partial[u] # "none" /\ (u \in taskFile => u \in taskFile')
      BY <2>5, <3>2
    <3>. QED  BY <3>1, <3>2, <3>3 DEF Kept, VerifiesRecorded
  <2>. QED  BY <2>3, <2>6 DEF Kept
<1>5. ASSUME NEW r \in Run, RunStep(r)  PROVE Kept'
  <2>1. PICK t \in Task : t = owner[r]
    BY <1>5, RunIsLive, RunHasTask
  <2>2. /\ \A s \in Run \ {r} : pc'[s] = pc[s] /\ owner'[s] = owner[s]
        /\ \A u \in Task \ {t} : u \in taskFile' <=> u \in taskFile
        /\ creating' = creating /\ goal' = goal
    BY <1>5, <2>1, OthersKept
  <2>3. \A u \in taskFile' : u \in Task /\ Begun(u)
    <3>1. taskFile' \subseteq Task
      BY <1>5, RunKeeps DEF Inv, DiskOK
    <3>2. t \in Task /\ Begun(t)
      BY <1>5, <2>1, RunIsLive, RunHasTask DEF Begun
    <3>. QED  BY <2>2, <3>1, <3>2 DEF Kept, Traced, Begun
  <2>4. Traced'
    <3>1. CASE UNCHANGED library
      BY <2>2, <2>3, <3>1 DEF Kept, Traced, Begun
    <3>2. CASE RunLand(r)
      <4>1. /\ library' = [library EXCEPT ![goal[t]] = t] /\ goal[t] \in Path /\ Begun(t)
        BY <1>5, <2>1, <3>2, RunIsLive, RunHasTask DEF RunLand, Begun
      <4>. QED  BY <1>1, <2>2, <2>3, <4>1 DEF Kept, Traced, Begun
    <3>3. CASE ~RunLand(r)
      BY <1>5, <3>1, <3>3 DEF RunStep, RunStart, RunRequest, RunOrphaned, RunRangeRejected,
         RunAnswer, RunOpen, RunReceive, RunFail, RunShort, RunReread, RunReject, RunCollide,
         RunClose, RunEnd, RunUnwind, disk
    <3>. QED  BY <3>2, <3>3
  <2>5. VerifiesRecorded'
    <3>1. ASSUME NEW s \in Run \ {r}, pc'[s] = "verify", partial'[owner'[s]] # "none"
          PROVE  owner'[s] \in taskFile'
      <4>1. owner[s] \in Task \ {t} /\ partial'[owner[s]] = partial[owner[s]]
        BY <1>5, <2>1, <2>2, <3>1, OthersKeepPartial, RunHasTask, RunIsLive
      <4>. QED  BY <2>2, <3>1, <4>1 DEF Kept, VerifiesRecorded
    <3>2. pc'[r] = "verify" => owner'[r] \in taskFile'
      <4>1. /\ pc \in [Run -> Await \cup {"idle", "done"}] /\ pc[r] # "idle"
        BY <1>5, RunIsLive DEF Inv, CoroutinesOK
      <4>2. CASE RunReread(r)
        BY <2>1, <4>1, <4>2 DEF RunReread, GoTo, disk
      <4>3. CASE RunStart(r) \/ RunOrphaned(r) \/ RunFail(r) \/ RunCollide(r) \/ RunEnd(r)
                 \/ RunUnwind(r) \/ RunReject(r)
        BY <4>1, <4>3 DEF RunStart, RunOrphaned, RunFail, RunCollide, RunEnd, RunUnwind,
           RunReject, Fail, End, GoTo
      <4>4. CASE RunRequest(r) \/ RunRangeRejected(r) \/ RunReceive(r) \/ RunShort(r)
                 \/ RunLand(r) \/ RunClose(r) \/ RunAnswer(r) \/ RunOpen(r)
        BY <4>1, <4>4 DEF RunRequest, RunRangeRejected, RunReceive, RunShort, RunLand, RunClose,
           RunAnswer, RunOpen, GoTo, At
      <4>. QED  BY <1>5, <4>2, <4>3, <4>4 DEF RunStep
    <3>. QED  BY <3>1, <3>2 DEF VerifiesRecorded
  <2>. QED  BY <2>4, <2>5 DEF Kept
<1>. QED  BY <1>2, <1>3, <1>4, <1>5 DEF Next

\* A step that lands nothing and opens nothing retires the tasks that it closes.
LEMMA Retires ==
  ASSUME Inv, Traced, UNCHANGED library,
         \A t \in Task : Open(t)' => Open(t),
         \A t \in Task : Begun(t)' <=> Begun(t)
  PROVE  [Promise!Next]_(Promise!vars)
<1>. DEFINE S == {t \in Task : Open(t) /\ ~Open(t)'}
<1>1. \A t \in Task : Published(t)' <=> Published(t)
  BY DEF Published
<1>2. \A t \in Task : Open(t) => Begun(t)
  BY OpenBegun
<1>3. ASSUME NEW t \in Task
      PROVE  /\ t \notin S => Stage(t)' = Stage(t)
             /\ t \in S => /\ Stage(t) \in {"open", "landed"}
                          /\ Stage(t)' = IF Stage(t) = "open" THEN "gone" ELSE "closed"
  BY <1>1, <1>2, <1>3 DEF Stage, Begun
<1>4. CASE S = {}
  BY <1>3, <1>4 DEF Promise!vars
<1>5. CASE S # {}
  <2>1. Promise!Retire(S)
    BY <1>3, <1>5 DEF Promise!Retire
  <2>. QED  BY <2>1 DEF Promise!Next
<1>. QED  BY <1>4, <1>5

LEMMA RunPromise ==
  ASSUME Inv, Kept, NEW r \in Run, RunStep(r)
  PROVE  [Promise!Next]_(Promise!vars)
<1>1. PICK t \in Task : t = owner[r]
  BY RunIsLive, RunHasTask
<1>2. /\ Open(t)' => Open(t)
      /\ \A u \in Task \ {t} : Open(u)' <=> Open(u)
      /\ \A u \in Task : Begun(u)' <=> Begun(u)
  BY <1>1, RunOpens, OthersKept DEF Begun
<1>3. CASE UNCHANGED library
  BY <1>2, <1>3, Retires DEF Kept
<1>4. CASE RunLand(r)
  <2>1. PICK p \in Path : p = goal[t]
    BY <1>1, RunIsLive, RunHasTask
  <2>2. /\ library[p] = None /\ library' = [library EXCEPT ![p] = t]
        /\ library \in [Path -> Task \cup {None}]
        /\ t \in taskFile /\ t \in taskFile'
    BY <1>1, <1>4, <2>1 DEF RunLand, Completing, At, Kept, VerifiesRecorded, Inv, DiskOK
  <2>3. Stage(t) = "open" /\ Stage(t)' = "landed"
    <3>1. ~Published(t) /\ Published(t)'
      BY <2>1, <2>2, DownloadAssumption DEF Published, Kept, Traced
    <3>2. Open(t) /\ Open(t)'
      BY <2>2 DEF Open
    <3>. QED  BY <3>1, <3>2 DEF Stage
  <2>4. ASSUME NEW u \in Task \ {t}  PROVE Stage(u)' = Stage(u)
    <3>1. Published(u)' <=> Published(u)
      BY <2>2, <2>4, DownloadAssumption DEF Published
    <3>. QED  BY <1>2, <2>4, <3>1 DEF Stage, Begun
  <2>5. Promise!Land(t, p)
    BY <2>2, <2>3, <2>4 DEF Promise!Land
  <2>. QED  BY <2>5 DEF Promise!Next
<1>5. CASE ~RunLand(r)
  BY <1>3, <1>5 DEF RunStep, RunStart, RunRequest, RunOrphaned, RunRangeRejected, RunAnswer,
     RunOpen, RunReceive, RunFail, RunShort, RunReread, RunReject, RunCollide, RunClose, RunEnd,
     RunUnwind, disk
<1>. QED  BY <1>4, <1>5

LEMMA HandlerPromise ==
  ASSUME Inv, Kept, NEW t \in Task, Client(t) \/ HandlerStep(t)
  PROVE  [Promise!Next]_(Promise!vars)
<1>1. /\ creating \in [Task -> {"new", "previews", "announce", "done", "failed"}]
      /\ cancelled \in [Run -> BOOLEAN]
      /\ \A r \in Run : pc[r] # "idle" => owner[r] \in Task
  BY RunHasTask DEF Inv, CoroutinesOK, RequestsOK
<1>2. UNCHANGED library
  BY DEF Client, HandlerStep, CreateChecks, CreateFails, CreateStore, CreateSubmit, CreateAborts,
     Resume, Pause, DeleteStart, DeleteIdle, DeleteRunning, DeleteFiles, RemoveFiles, disk
<1>3. \A r \in Run : At(r, "request")' => At(r, "request") /\ owner'[r] = owner[r]
  <2>1. CASE CreateSubmit(t) \/ Resume(t)
    BY <1>1, <2>1 DEF CreateSubmit, Resume, Submit, coroutine, At, Inv, CoroutinesOK
  <2>2. CASE DeleteIdle(t) \/ DeleteRunning(t) \/ Pause(t)
    BY <1>1, <2>2 DEF DeleteIdle, DeleteRunning, Pause, Cancel, At
  <2>. QED
    BY <2>1, <2>2 DEF Client, HandlerStep, CreateChecks, CreateFails, CreateStore, CreateAborts,
       DeleteStart, DeleteFiles, coroutine, At
<1>4. CASE CreateStore(t)
  <2>1. ~Open(t) /\ ~Published(t) /\ ~Begun(t)
    <3>1. ~Begun(t)
      BY <1>4 DEF CreateStore, Begun
    <3>. QED  BY <3>1, OpenBegun, DownloadAssumption DEF Kept, Traced, Published, Begun
  <2>2. Stage(t) = "new" /\ Stage(t)' = "open"
    BY <1>2, <1>4, <2>1 DEF CreateStore, Stage, Open, Published, Begun
  <2>3. ASSUME NEW u \in Task \ {t}  PROVE Stage(u)' = Stage(u)
    BY <1>1, <1>4, <2>3 DEF CreateStore, Stage, Open, Published, At, coroutine
  <2>4. Promise!Open(t)
    BY <1>2, <2>2, <2>3 DEF Promise!Open
  <2>. QED  BY <2>4 DEF Promise!Next
<1>5. CASE ~CreateStore(t)
  <2>1. taskFile' \subseteq taskFile /\ \A u \in Task : Begun(u)' <=> Begun(u)
    BY <1>1, <1>5 DEF Client, HandlerStep, CreateChecks, CreateFails, CreateSubmit, CreateAborts,
       Resume, Pause, DeleteStart, DeleteIdle, DeleteRunning, DeleteFiles, RemoveFiles, disk,
       request, Begun
  <2>2. \A u \in Task : Open(u)' => Open(u)
    BY <1>3, <2>1 DEF Open
  <2>. QED  BY <1>2, <2>1, <2>2, Retires DEF Kept
<1>. QED  BY <1>4, <1>5

\* The component implements what DownloadPromise says of it: a task is opened once,
\* lands at most once, only where no file is and only while it is open, and does not
\* come back, in any order of requests, transfers, errors, deletes and restarts.
THEOREM ImplementsPromise == Spec => KeepsPromise
<1>1. Init => Kept /\ Promise!Init
  <2>. SUFFICES ASSUME Init  PROVE Kept /\ Promise!Init
    OBVIOUS
  <2>1. Kept
    BY DEF Init, Kept, Traced, VerifiesRecorded
  <2>2. ASSUME NEW t \in Task  PROVE Stage(t) = "new"
    BY DownloadAssumption DEF Init, Stage, Published, Open, At
  <2>. QED  BY <2>1, <2>2 DEF Init, Promise!Init
<1>2. Inv /\ Kept /\ [Next]_vars => [Promise!Next]_(Promise!vars)
  <2>. SUFFICES ASSUME Inv, Kept, [Next]_vars  PROVE [Promise!Next]_(Promise!vars)
    OBVIOUS
  <2>1. CASE List \/ UNCHANGED vars
    <3>1. UNCHANGED <<taskFile, library, pc, owner, cancelled, creating>>
      BY <2>1 DEF List, vars, disk, coroutine, request
    <3>. QED  BY <3>1 DEF Promise!vars, Stage, Published, Open, At
  <2>2. CASE Restart
    <3>1. UNCHANGED library /\ \A t \in Task : Open(t)' => Open(t)
      BY <2>2 DEF Restart, disk, Open, At
    <3>2. \A t \in Task : Begun(t)' <=> Begun(t)
      BY <2>2 DEF Restart, Begun, Inv, RequestsOK
    <3>. QED  BY <3>1, <3>2, Retires DEF Kept
  <2>. QED  BY <2>1, <2>2, RunPromise, HandlerPromise DEF Next
<1>. QED  BY <1>1, <1>2, KeptStep, InvHolds, PTL DEF Spec, KeepsPromise, Promise!Spec
================================================================================
