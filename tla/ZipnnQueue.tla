------------------------------ MODULE ZipnnQueue ------------------------------
(***************************************************************************)
(* The ZipNN queue of one browser tab: src/hooks/zipnn.ts, which runs      *)
(* folder batches and automatic compressions one after another, although   *)
(* it tracks a single task.  JavaScript runs each handler to its end; only *)
(* the POST of beginTask is awaited.  Its answer and the websocket's       *)
(* events travel apart, so either may arrive first; events keep their      *)
(* order and go to every tab, hence this tab sees other tabs' tasks too.   *)
(*                                                                         *)
(* The backend is what ZipnnJobs shows it to be: a request is refused, or  *)
(* accepted and its task reports its end once, unless the process goes.    *)
(***************************************************************************)
EXTENDS Naturals, Sequences, SequencesExt

CONSTANTS
  Batches,  \* bound: folder batches the user queues, numbered in their order
  Single,   \* requests for one model, queued or made from its card
  Foreign,  \* tasks started by another tab
  Faults,   \* what may happen besides refusals: "unresolved" targets, and
            \* (bound: once) a "disconnect" or a "restart"
  None

Batch == 1..Batches
Item == Batch \cup Single
Task == Item \cup Foreign

ASSUME QueueAssumption ==
  /\ Batches \in Nat /\ Faults \subseteq {"unresolved", "disconnect", "restart"}
  /\ Batch \cap (Single \cup Foreign) = {} /\ Single \cap Foreign = {}
  /\ None \notin Task

VARIABLES
  \* the tab
  active,       \* zipnnState.active
  taskId,       \* zipnnState.taskId, or None
  lastRequest,  \* the request beginTask saw last, or None
  batchQueue, singleQueue,
  misfiled,     \* a settle record has named another request than its task's
  \* the POSTs of the tab
  post,         \* post[i]: "none", "sent", being answered ("accepted", "refused"), "closed"
  \* the backend and the websocket
  task,         \* task[t]: "none", "running", "ended" or "lost"
  socket,       \* the zipnn_complete events on their way to this tab
  \* history
  made,         \* how many batches have been queued
  begun,        \* the batches in the order of their POSTs
  doomed,       \* the requests that waited when the tab heard of a failure
  mixed,        \* a task ran beside another one: see the actions that set it
  broken        \* the chain of completions was cut: see the actions that set it

state   == <<active, taskId, lastRequest>>
queues  == <<batchQueue, singleQueue>>
backend == <<task, socket>>
history == <<made, begun, doomed, mixed, broken>>
vars    == <<state, queues, misfiled, post, backend, history>>

Event == [task : Task, ok : BOOLEAN]

TypeOK ==
  /\ active \in BOOLEAN
  /\ taskId \in Item \cup {None} /\ lastRequest \in Item \cup {None}
  /\ batchQueue \in Seq(Batch) /\ singleQueue \in Seq(Single)
  /\ misfiled \in BOOLEAN
  /\ post \in [Item -> {"none", "sent", "accepted", "refused", "closed"}]
  /\ task \in [Task -> {"none", "running", "ended", "lost"}]
  /\ socket \in Seq(Event)
  /\ made \in 0..Batches /\ begun \in Seq(Batch)
  /\ doomed \subseteq Item
  /\ mixed \in BOOLEAN /\ broken \in BOOLEAN

\* The page has been loaded while nothing is running.
Init ==
  /\ active = FALSE /\ taskId = None /\ lastRequest = None
  /\ batchQueue = <<>> /\ singleQueue = <<>> /\ misfiled = FALSE
  /\ post = [i \in Item |-> "none"]
  /\ task = [t \in Task |-> "none"]
  /\ socket = <<>>
  /\ made = 0 /\ begun = <<>> /\ doomed = {}
  /\ mixed = FALSE /\ broken = FALSE

Waiting(i) == i \in ToSet(batchQueue) \cup ToSet(singleQueue)

\* A request nobody has made yet.
New(i) == post[i] = "none" /\ ~Waiting(i) /\ i \notin doomed

Running(t) == task[t] = "running"

\* An event of the task may still come.
Heard(t) == Running(t) \/ \E k \in DOMAIN socket : socket[k].task = t

-----------------------------------------------------------------------------
(* Starting a task *)

\* beginTask, up to its await.
Begin(i) ==
  /\ lastRequest' = i
  /\ taskId' = None
  /\ active' = TRUE
  /\ post' = [post EXCEPT ![i] = "sent"]
  /\ begun' = IF i \in Batch THEN Append(begun, i) ELSE begun

\* No task starts; the flag and the task id are left as given.
Rest(a, id) ==
  /\ active' = a /\ taskId' = id
  /\ UNCHANGED <<lastRequest, post, begun>>

\* startZipnnBatch: a target the page could not resolve is refused on the spot.
StartBatch(i, a, id) ==
  \/ Begin(i) /\ UNCHANGED broken
  \/ "unresolved" \in Faults /\ Rest(a, id) /\ broken' = TRUE

\* Mutant of QueueBatches: the bug its comment tells of, a start while another
\* task is running.
QueueBatchesUnconditionally(n) ==
  LET q == batchQueue \o [k \in 1..n |-> made + k] IN
  /\ made' = made + n
  /\ batchQueue' = Tail(q) /\ StartBatch(Head(q), active, taskId)
  /\ UNCHANGED <<singleQueue, misfiled, backend, doomed, mixed>>

\* queueZipnnBatches, with the n folders of a selection.
QueueBatches(n) ==
  LET q == batchQueue \o [k \in 1..n |-> made + k] IN
  /\ made' = made + n
  /\ IF active
       THEN batchQueue' = q /\ Rest(active, taskId) /\ UNCHANGED broken
       ELSE batchQueue' = Tail(q) /\ StartBatch(Head(q), active, taskId)
  /\ UNCHANGED <<singleQueue, misfiled, backend, doomed, mixed>>

\* Mutant of QueueSingle: a compression that has to wait joins the other queue.
QueueSingleAsBatch(i) ==
  /\ New(i)
  /\ IF ~active /\ batchQueue = <<>> /\ singleQueue = <<>>
       THEN Begin(i) /\ UNCHANGED batchQueue
       ELSE batchQueue' = Append(batchQueue, i) /\ Rest(active, taskId)
  /\ UNCHANGED <<singleQueue, misfiled, backend, made, doomed, mixed, broken>>

\* queueSingleCompress, for each of its items.
QueueSingle(i) ==
  /\ New(i)
  /\ IF ~active /\ batchQueue = <<>> /\ singleQueue = <<>>
       THEN Begin(i) /\ UNCHANGED singleQueue
       ELSE singleQueue' = Append(singleQueue, i) /\ Rest(active, taskId)
  /\ UNCHANGED <<batchQueue, misfiled, backend, made, doomed, mixed, broken>>

\* The buttons of a card and the delta dialog start their task at once, whatever
\* the queue is doing.
StartDirectly(i) ==
  /\ New(i)
  /\ Begin(i)
  /\ mixed' = (mixed \/ active)
  /\ UNCHANGED <<queues, misfiled, backend, made, doomed, broken>>

-----------------------------------------------------------------------------
(* The answer to the POST *)

\* The rest of beginTask.  An answer that comes after the task's own end sets the
\* id of a task that has gone.
Answered(i) ==
  /\ post[i] = "accepted"
  /\ post' = [post EXCEPT ![i] = "closed"]
  /\ taskId' = i
  /\ broken' = (broken \/ ~Heard(i))
  /\ UNCHANGED <<active, lastRequest, queues, misfiled, backend, made, begun, doomed, mixed>>

Failed(i) ==
  /\ post[i] = "refused"
  /\ post' = [post EXCEPT ![i] = "closed"]
  /\ taskId' = None /\ active' = FALSE
  /\ broken' = TRUE
  /\ UNCHANGED <<lastRequest, queues, misfiled, backend, made, begun, doomed, mixed>>

-----------------------------------------------------------------------------
(* The events *)

Ignored(t) == taskId # None /\ t # taskId

\* update_zipnn_progress, which comes at any time before its task's completion.
OnProgress(t) ==
  /\ Heard(t) /\ ~Ignored(t)
  /\ active' = TRUE
  /\ UNCHANGED <<taskId, lastRequest, queues, misfiled, post, backend, history>>

\* Mutant of Advance: a failure does not abort the queue.
AdvanceAnyway(ok) ==
  \/ /\ batchQueue # <<>>
     /\ batchQueue' = Tail(batchQueue) /\ UNCHANGED singleQueue
     /\ StartBatch(Head(batchQueue), FALSE, None)
  \/ /\ batchQueue = <<>>
     /\ UNCHANGED queues
     /\ Rest(FALSE, None) /\ UNCHANGED broken

\* Mutant of Advance: the automatic compressions are forgotten.
AdvanceBatches(ok) ==
  \/ /\ ok /\ batchQueue # <<>>
     /\ batchQueue' = Tail(batchQueue) /\ UNCHANGED singleQueue
     /\ StartBatch(Head(batchQueue), FALSE, None)
  \/ /\ ~ok \/ batchQueue = <<>>
     /\ batchQueue' = <<>> /\ singleQueue' = IF ok THEN singleQueue ELSE <<>>
     /\ Rest(FALSE, None) /\ UNCHANGED broken

\* settleZipnnState, then advanceZipnnQueue.
Advance(ok) ==
  \/ /\ ok /\ batchQueue # <<>>
     /\ batchQueue' = Tail(batchQueue) /\ UNCHANGED singleQueue
     /\ StartBatch(Head(batchQueue), FALSE, None)
  \/ /\ ok /\ batchQueue = <<>> /\ singleQueue # <<>>
     /\ singleQueue' = Tail(singleQueue) /\ UNCHANGED batchQueue
     /\ Begin(Head(singleQueue)) /\ UNCHANGED broken
  \/ /\ ~ok \/ (batchQueue = <<>> /\ singleQueue = <<>>)
     /\ batchQueue' = <<>> /\ singleQueue' = <<>>
     /\ Rest(FALSE, None) /\ UNCHANGED broken

\* Mutant of Record: the settle record is written after the queue has advanced.
RecordLate(t) == misfiled' = (misfiled \/ lastRequest' \notin {None, t})

\* recordZipnnSettle, which describes the last request; App.vue takes it at once.
Record(t) == misfiled' = (misfiled \/ lastRequest \notin {None, t})

\* zipnn_complete.
OnComplete ==
  LET e == Head(socket) IN
  /\ socket # <<>> /\ ~Ignored(e.task)
  /\ socket' = Tail(socket)
  /\ Advance(e.ok)
  /\ Record(e.task)
  /\ doomed' = IF e.ok THEN doomed
                       ELSE doomed \cup ToSet(batchQueue) \cup ToSet(singleQueue)
  /\ UNCHANGED <<task, made, mixed>>

\* zipnn_complete of a task that is not the tracked one.
OnOtherComplete ==
  /\ socket # <<>> /\ Ignored(Head(socket).task)
  /\ socket' = Tail(socket)
  /\ UNCHANGED <<state, queues, misfiled, post, task, history>>

-----------------------------------------------------------------------------
(* The backend, the network and the other tabs *)

Accept(i) ==
  /\ post[i] = "sent"
  /\ post' = [post EXCEPT ![i] = "accepted"]
  /\ task' = [task EXCEPT ![i] = "running"]
  /\ UNCHANGED <<state, queues, misfiled, socket, history>>

Refuse(i) ==
  /\ post[i] = "sent"
  /\ post' = [post EXCEPT ![i] = "refused"]
  /\ UNCHANGED <<state, queues, misfiled, backend, history>>

\* The answer of an accepted request is lost: the tab is told of a failure while
\* the task goes on.
LoseAnswer(i) ==
  /\ post[i] = "accepted"
  /\ post' = [post EXCEPT ![i] = "refused"]
  /\ mixed' = TRUE
  /\ UNCHANGED <<state, queues, misfiled, backend, made, begun, doomed, broken>>

End(t) ==
  /\ Running(t)
  /\ task' = [task EXCEPT ![t] = "ended"]
  /\ \E ok \in BOOLEAN : socket' = Append(socket, [task |-> t, ok |-> ok])
  /\ UNCHANGED <<state, queues, misfiled, post, history>>

StartElsewhere(t) ==
  /\ task[t] = "none"
  /\ task' = [task EXCEPT ![t] = "running"]
  /\ mixed' = TRUE
  /\ UNCHANGED <<state, queues, misfiled, post, socket, made, begun, doomed, broken>>

\* The websocket breaks: the events on their way are lost, and the tab keeps its
\* state when it connects again.
Disconnect ==
  /\ "disconnect" \in Faults /\ ~broken /\ socket # <<>>
  /\ socket' = <<>>
  /\ broken' = TRUE
  /\ UNCHANGED <<state, queues, misfiled, post, task, made, begun, doomed, mixed>>

\* ComfyUI restarts under the open page: tasks and requests are gone.
Restart ==
  /\ "restart" \in Faults /\ ~broken /\ \E t \in Task : Running(t)
  /\ task' = [t \in Task |-> IF Running(t) THEN "lost" ELSE task[t]]
  /\ post' = [i \in Item |-> IF post[i] = "sent" THEN "refused" ELSE post[i]]
  /\ socket' = <<>>
  /\ broken' = TRUE
  /\ UNCHANGED <<state, queues, misfiled, made, begun, doomed, mixed>>

Next ==
  \/ \E n \in 1..Batches - made : QueueBatches(n)
  \/ \E i \in Single : QueueSingle(i) \/ StartDirectly(i)
  \/ \E i \in Item : Accept(i) \/ Refuse(i) \/ LoseAnswer(i) \/ Answered(i) \/ Failed(i)
  \/ \E t \in Task : OnProgress(t) \/ End(t)
  \/ OnComplete \/ OnOtherComplete
  \/ \E t \in Foreign : StartElsewhere(t)
  \/ Disconnect \/ Restart

Spec == Init /\ [][Next]_vars

\* Requests are answered, tasks end and events arrive.  Users are not fair.
FairSpec ==
  /\ Spec
  /\ \A i \in Item : WF_vars(Accept(i) \/ Refuse(i)) /\ WF_vars(Answered(i) \/ Failed(i))
  /\ \A t \in Task : WF_vars(End(t))
  /\ WF_vars(OnComplete \/ OnOtherComplete)

-----------------------------------------------------------------------------
(* Properties *)

\* "Batches run one after another": the tab has one task at a time, and the settle
\* record that renames an open card is the record of the task that has ended, also
\* when the next one starts in the same handler; unless one was started beside the
\* queue, from another tab, or behind a lost answer.
TasksKeptApart ==
  ~mixed => ~misfiled /\ \A i, j \in Item : Running(i) /\ Running(j) => i = j

\* No batch is sent twice, they are sent in the order of the selections, whatever
\* else is started, refused or dropped in between, and "a failure aborts the rest of
\* the queue": nothing that waited when the tab heard of a failure is ever sent.
InOrder ==
  /\ \A k, l \in DOMAIN begun : k < l => begun[k] < begun[l]
  /\ \A i \in doomed : post[i] = "none"

\* The queue drains, even beside direct starts and other tabs, as long as no POST
\* failed, no event was lost and no answer came after the end of its task.
DrainsUnlessBroken == \A i \in Item : Waiting(i) ~> (~Waiting(i) \/ broken)

\* "Start the next folder once this one succeeded; a failure aborts the rest of
\* the queue", as long as the connection and the process live: no waiting request
\* is left behind for ever.
QueueDrains == \A i \in Item : Waiting(i) ~> ~Waiting(i)
================================================================================
