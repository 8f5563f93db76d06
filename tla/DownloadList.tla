----------------------------- MODULE DownloadList -----------------------------
(***************************************************************************)
(* The task list of the page, src/hooks/download.ts 23-240, against the    *)
(* rows of py/download.py and py/upload.py.  Events come over one socket   *)
(* in the order they were sent; the answers of GET /download/task and the  *)
(* requests of the page are on connections of their own, in no order.      *)
(* How a coroutine of the pool lives and dies is DownloadTasks'.           *)
(***************************************************************************)
EXTENDS Integers, Sequences, FiniteSets

CONSTANTS
  Tasks,       \* the tasks there may be
  MaxUpsets,   \* how many breaks of the socket and prompts there are
  MaxMail      \* how many events are on their way at once

ListAssumption == IsFiniteSet(Tasks)

VARIABLES
  local,      \* the tasks that are uploads from a browser
  rows,       \* the server's status of every task
  running,    \* the tasks with a live coroutine, or a live upload
  stray,      \* what else the pool has of a task: a coroutine that a resume started for
              \* an upload, or one that was cancelled, or failed, and has not unwound
  deleting,   \* the tasks whose deletion sleeps
  inbox,      \* the events on their way
  taskList,   \* what the page lists
  reads,      \* the answers under way, with the events each is ahead of the page
  online, drops,
  prompts, prompting,
  asked,      \* the requests under way
  byPrompt,   \* pausedByPrompt
  held,       \* history: the tasks whose last pause was the listener's
  behind,     \* history: events got lost, or passed an answer, since the last read
  missed      \* history: the tasks for which the listener's resume came to nothing: it
              \* failed, met a coroutine that was unwinding, or passed the pause

server == <<local, rows, running, stray, deleting>>
past   == <<behind, missed>>
listVars == <<server, inbox, taskList, reads, online, drops, prompts, prompting,
              asked, byPrompt, held, past>>

Absent == {"none", "gone"}
Shown  == {"waiting", "doing", "pause"}
Row(t, s) == [id |-> t, status |-> s]
EventSorts == {"create", "update", "delete", "complete"}
Rows   == [id : Tasks, status : Shown \cup {"gone"}]
Signal(s) == [sort |-> s, row |-> Row("prompt", "gone")]
Events == [sort : EventSorts, row : Rows] \cup {Signal("exec"), Signal("idle")}
Readings == [at : {"asked"}, after : Nat] \cup
            [at : {"answered"}, after : Nat, rows : [Tasks -> Shown \cup Absent], ahead : Int]
Requests == [id : Tasks, what : {"pause", "resume", "delete"}, by : {"user", "prompt"}]

TypeOK ==
  /\ local \subseteq Tasks
  /\ rows \in [Tasks -> Shown \cup Absent]
  /\ running \subseteq Tasks /\ deleting \subseteq Tasks /\ byPrompt \subseteq Tasks
  /\ stray \in [Tasks -> {"none", "submitted", "begun", "unwinding"}]
  /\ inbox \in Seq(Events) /\ asked \subseteq Requests
  /\ taskList \in Seq([id : Tasks, status : Shown])
  /\ reads \subseteq Readings /\ drops \in Nat
  /\ running \cap {t \in Tasks : rows[t] \in Absent} = {}

Init ==
  /\ local \in SUBSET Tasks
  /\ rows = [t \in Tasks |-> "none"] /\ running = {} /\ deleting = {}
  /\ stray = [t \in Tasks |-> "none"]
  /\ inbox = <<>> /\ taskList = <<>> /\ online = TRUE /\ drops = 0
  /\ reads = {[at |-> "asked", after |-> 0]}
  /\ prompts = 0 /\ prompting = FALSE
  /\ asked = {} /\ byPrompt = {} /\ held = {}
  /\ behind = TRUE /\ missed = {}

Send(e) == Len(inbox) < MaxMail /\ inbox' = IF online THEN Append(inbox, e) ELSE inbox

-----------------------------------------------------------------------------
(* The server *)

\* create_model_download_task, and the upload's create_local_task.
Create(t) ==
  /\ rows[t] = "none"
  /\ LET s == IF t \in local THEN "doing" ELSE "pause" IN
     rows' = [rows EXCEPT ![t] = s] /\ Send([sort |-> "create", row |-> Row(t, s)])
  /\ running' = running \cup {t}
  /\ UNCHANGED <<local, stray, deleting, taskList, reads, online, drops, prompts,
                 prompting, asked, byPrompt, held, past>>

\* A coroutine begins, or fails.
Report(t, s) ==
  /\ t \in running \ local
  /\ rows' = [rows EXCEPT ![t] = s]
  /\ Send([sort |-> "update", row |-> Row(t, s)])
  /\ UNCHANGED <<local, deleting, taskList, reads, online, drops, prompts, prompting,
                 asked, byPrompt, held, past>>
Starts(t) == rows[t] # "doing" /\ Report(t, "doing") /\ UNCHANGED <<running, stray>>
Fails(t)  ==
  /\ rows[t] = "doing" /\ Report(t, "pause") /\ running' = running \ {t}
  /\ stray' = [stray EXCEPT ![t] = "unwinding"]

\* The wrapper's finally: the pool forgets the coroutine.
Unwinds(t) ==
  /\ stray[t] = "unwinding" /\ stray' = [stray EXCEPT ![t] = "none"]
  /\ UNCHANGED <<local, rows, running, deleting, inbox, taskList, reads, online, drops,
                 prompts, prompting, asked, byPrompt, held, past>>

\* One that was resumed is an upload: there is no address to fetch it from.
StrayBegins(t) ==
  /\ stray[t] = "submitted"
  /\ IF rows[t] \in Absent
       THEN stray' = [stray EXCEPT ![t] = "none"] /\ UNCHANGED <<rows, inbox>>
       ELSE /\ stray' = [stray EXCEPT ![t] = "begun"] /\ rows' = [rows EXCEPT ![t] = "doing"]
            /\ Send([sort |-> "update", row |-> Row(t, "doing")])
  /\ UNCHANGED <<local, running, deleting, taskList, reads, online, drops, prompts, prompting,
                asked, byPrompt, held, past>>
StrayFails(t) ==
  /\ stray[t] = "begun" /\ stray' = [stray EXCEPT ![t] = "unwinding"]
  /\ IF rows[t] \in Absent
       THEN UNCHANGED <<rows, inbox>>
       ELSE /\ rows' = [rows EXCEPT ![t] = "pause"]
            /\ Send([sort |-> "update", row |-> Row(t, "pause")])
  /\ UNCHANGED <<local, running, deleting, taskList, reads, online, drops, prompts, prompting,
                asked, byPrompt, held, past>>

\* The record is removed, then one event is sent.
Ends(t, sort) ==
  /\ rows' = [rows EXCEPT ![t] = "gone"] /\ running' = running \ {t}
  /\ Send([sort |-> sort, row |-> Row(t, "gone")])
  /\ held' = held \ {t}
  /\ UNCHANGED <<local, stray, taskList, reads, online, drops, prompts, prompting,
                 asked, byPrompt, past>>
\* An upload looks at its status after every chunk, so not after the last.
Completes(t) ==
  /\ t \in running /\ (t \in local \/ rows[t] = "doing")
  /\ Ends(t, "complete") /\ UNCHANGED deleting

\* The upload reads the status "pause" as its cancellation, and it may fail.
UploadEnds(t) ==
  /\ t \in running \cap local
  /\ Ends(t, "delete") /\ UNCHANGED deleting

\* The second half of delete_model_download_task.
DeleteEnds(t) ==
  /\ t \in deleting /\ deleting' = deleting \ {t}
  /\ IF rows[t] \in Absent
       THEN /\ Send([sort |-> "delete", row |-> Row(t, "gone")])
            /\ UNCHANGED <<local, rows, running, stray, taskList, reads, online, drops,
                           prompts, prompting, asked, byPrompt, held, past>>
       ELSE Ends(t, "delete")

\* Mutant of Known: a request for a record that is gone is served.
AnyKnown(t) == t \in Tasks

\* There is a record, without which get_task_status raises.
Known(t) == rows[t] \notin Absent

\* The requests are handled in any order, and the listener swallows what becomes of its
\* own.
Handle(r) ==
  /\ r \in asked /\ asked' = asked \ {r}
  /\ UNCHANGED <<taskList, reads, online, drops, prompts, prompting, byPrompt, behind>>
Misses(r) == missed' = IF r.what = "resume" /\ r.by = "prompt" THEN missed \cup {r.id} ELSE missed

\* One that names no record fails, and any may be lost.
Refused(r) ==
  Handle(r) /\ ~Known(r.id) /\ UNCHANGED <<server, inbox, held, missed>>
Lost(r) == Handle(r) /\ Misses(r) /\ UNCHANGED <<server, inbox, held>>

\* A transfer is cancelled through the pool, an upload is not in it.
Cancel(t) ==
  /\ running' = running \ ({t} \ local)
  /\ stray' = IF t \in running \ local \/ stray[t] # "none"
              THEN [stray EXCEPT ![t] = "unwinding"] ELSE stray
Paused(r) ==
  /\ Handle(r) /\ r.what = "pause" /\ Known(r.id)
  /\ rows' = [rows EXCEPT ![r.id] = "pause"]
  /\ Cancel(r.id)
  /\ Send([sort |-> "update", row |-> Row(r.id, "pause")])
  /\ held' = IF r.by = "prompt" THEN held \cup {r.id} ELSE held \ {r.id}
  /\ UNCHANGED <<local, deleting, missed>>

\* The pool starts nothing beside a coroutine that has not unwound, and says so to
\* nobody.
Resumes(t) ==
  /\ stray[t] # "unwinding"
  /\ running' = running \cup ({t} \ local)
  /\ stray' = IF t \in local /\ stray[t] = "none" THEN [stray EXCEPT ![t] = "submitted"]
              ELSE stray
  /\ held' = held \ {t}
Resumed(r) ==
  /\ Handle(r) /\ r.what = "resume" /\ Known(r.id)
  /\ \/ Resumes(r.id)
     \/ stray[r.id] = "unwinding" /\ UNCHANGED <<running, stray, held>>
  /\ IF stray[r.id] = "unwinding" \/ \E p \in asked : p.id = r.id /\ p.what = "pause" /\ p.by = "prompt"
     THEN Misses(r) ELSE UNCHANGED missed
  /\ UNCHANGED <<local, rows, deleting, inbox>>
Deleted(r) ==
  /\ Handle(r) /\ r.what = "delete" /\ Known(r.id)
  /\ rows' = [rows EXCEPT ![r.id] = IF @ = "doing" THEN "pause" ELSE "waiting"]
  /\ Cancel(r.id)
  /\ deleting' = deleting \cup {r.id} /\ held' = held \ {r.id}
  /\ Send([sort |-> "delete", row |-> Row(r.id, "gone")])
  /\ UNCHANGED <<local, missed>>

\* scan_model_download_task_list.  What the page has not seen of it is in inbox.
Answers ==
  \E r \in reads :
    /\ r.at = "asked"
    /\ reads' = (reads \ {r}) \cup
         {[at |-> "answered", after |-> r.after, rows |-> rows, ahead |-> IF online THEN Len(inbox) ELSE -1]}
    /\ UNCHANGED <<server, inbox, taskList, online, drops, prompts, prompting,
                   asked, byPrompt, held, past>>

\* The executing events of ComfyUI.
Prompt ==
  /\ drops + prompts < MaxUpsets \/ prompting
  /\ prompting' = ~prompting /\ prompts' = IF prompting THEN prompts ELSE prompts + 1
  /\ Send(Signal(IF prompting THEN "idle" ELSE "exec"))
  /\ UNCHANGED <<server, taskList, reads, online, drops, asked, byPrompt, held, past>>

\* The socket breaks: the events on their way are lost, and no answer of before
\* can be trusted.
Breaks ==
  /\ online /\ drops + prompts < MaxUpsets
  /\ online' = FALSE /\ drops' = drops + 1 /\ inbox' = <<>> /\ behind' = TRUE
  /\ reads' = {IF r.at = "asked" THEN r ELSE [r EXCEPT !.ahead = -1] : r \in reads}
Drop == Breaks /\ UNCHANGED <<server, taskList, prompts, prompting, asked, byPrompt,
                              held, missed>>

\* The server restarts: every record is read anew as paused.
Restart ==
  /\ Breaks
  /\ rows' = [t \in Tasks |-> IF rows[t] \in Absent THEN rows[t] ELSE "pause"]
  /\ running' = {} /\ deleting' = {}
  /\ stray' = [t \in Tasks |-> "none"] /\ asked' = {} /\ held' = {} /\ prompting' = FALSE
  /\ missed' = {} /\ UNCHANGED <<local, taskList, prompts, byPrompt>>

-----------------------------------------------------------------------------
(* The page *)

\* The reconnected listener reads the list.
Reconnect ==
  /\ ~online /\ online' = TRUE
  /\ reads' = reads \cup {[at |-> "asked", after |-> drops]}
  /\ UNCHANGED <<server, inbox, taskList, drops, prompts, prompting, asked,
                 byPrompt, held, past>>

\* The answer takes the place of the list, whenever it comes.
ReadLands ==
  \E r \in reads :
    /\ r.at = "answered" /\ reads' = reads \ {r}
    /\ \E l \in [1..Cardinality({t \in Tasks : r.rows[t] \notin Absent}) -> Tasks] :
         /\ {l[i] : i \in DOMAIN l} = {t \in Tasks : r.rows[t] \notin Absent}
         /\ taskList' = [i \in DOMAIN l |-> Row(l[i], r.rows[l[i]])]
    /\ behind' = (r.ahead # 0)
    /\ UNCHANGED <<server, inbox, online, drops, prompts, prompting, asked,
                   byPrompt, held, missed>>

\* The list without the rows of a task, in its order.
Without(t) ==
  LET kept   == {i \in DOMAIN taskList : taskList[i].id # t}
      nth(k) == CHOOSE i \in kept : Cardinality({j \in kept : j <= i}) = k
  IN [k \in 1..Cardinality(kept) |-> taskList[nth(k)]]

\* What the four listeners make of the list.
Listed(e) ==
  LET of(row) == row.id = e.row.id IN
  CASE e.sort = "create" -> <<e.row>> \o taskList
    [] e.sort = "update" -> [i \in DOMAIN taskList |-> IF of(taskList[i]) THEN e.row ELSE taskList[i]]
    [] OTHER -> Without(e.row.id)

Taken(sorts) ==
  /\ inbox # <<>> /\ Head(inbox).sort \in sorts /\ inbox' = Tail(inbox)
  /\ reads' = {IF r.at = "asked" THEN r ELSE [r EXCEPT !.ahead = IF @ < 0 THEN @ ELSE @ - 1] : r \in reads}
  /\ UNCHANGED <<server, online, drops, prompts, prompting, held, behind>>
OnRow ==
  /\ Taken(EventSorts) /\ taskList' = Listed(Head(inbox))
  /\ UNCHANGED <<asked, byPrompt, missed>>

\* The executing listener: it pauses what is running and not its own already, and
\* resumes what it has paused.
Running == {taskList[i].id : i \in {j \in DOMAIN taskList : taskList[j].status = "doing"}}
Ask(ts, what, by) == [id : ts, what : {what}, by : {by}]
OnExec ==
  /\ Taken({"exec"})
  /\ byPrompt' = byPrompt \cup Running
  /\ asked' = asked \cup Ask(Running \ byPrompt, "pause", "prompt")
  /\ missed' = missed \ Running /\ UNCHANGED taskList

\* Mutant of ToResume: only what the list still shows as paused.
ToResumeListed == {t \in byPrompt : \E i \in DOMAIN taskList : taskList[i] = Row(t, "pause")}
ToResume == byPrompt

OnIdle ==
  /\ Taken({"idle"})
  /\ byPrompt' = {} /\ asked' = asked \cup Ask(ToResume, "resume", "prompt")
  /\ UNCHANGED <<taskList, missed>>

\* The buttons of a row: pause, resume and delete, each offered by its status.
Click(what) ==
  /\ \E i \in DOMAIN taskList :
       LET t == taskList[i].id IN
       /\ \A r \in asked : r.by # "user"
       /\ what = "pause"  => taskList[i].status = "doing" /\ t \notin local
       /\ what = "resume" => taskList[i].status = "pause" /\ t \notin local
       /\ asked' = asked \cup Ask({t}, what, "user")
  /\ UNCHANGED <<server, inbox, taskList, reads, online, drops, prompts, prompting,
                 byPrompt, held, past>>

Next ==
  \/ \E t \in Tasks : \/ Create(t) \/ Starts(t) \/ Fails(t) \/ StrayBegins(t) \/ StrayFails(t)
                    \/ Unwinds(t) \/ Completes(t) \/ UploadEnds(t) \/ DeleteEnds(t)
  \/ \E r \in asked : Refused(r) \/ Lost(r) \/ Paused(r) \/ Resumed(r) \/ Deleted(r)
  \/ Answers \/ Prompt \/ Drop \/ Restart
  \/ Reconnect \/ ReadLands \/ OnRow \/ OnExec \/ OnIdle
  \/ \E what \in {"pause", "resume", "delete"} : Click(what)

Spec == Init /\ [][Next]_listVars

-----------------------------------------------------------------------------
Copies(t) == {i \in DOMAIN taskList : taskList[i].id = t}

\* The list is the server's, every task once and with its status, when nothing is
\* on its way and no event has passed an answer or got lost since the last read; a
\* task that is being deleted may still be there.
MirrorsServer ==
  online /\ inbox = <<>> /\ ~behind =>
    \A t \in Tasks :
      /\ Cardinality(Copies(t)) <= 1
      /\ rows[t] \in Absent => Copies(t) = {}
      /\ rows[t] \notin Absent /\ t \notin deleting => \E i \in Copies(t) : taskList[i].status = rows[t]

\* What a prompt has paused, or has asked to pause, the listener has still to resume, or
\* its resume is under way, or was and came to nothing.
Remembered(t) == t \in byPrompt \cup missed \/ Ask({t}, "resume", "prompt") \subseteq asked

\* A task that a prompt has paused stays so, once its resume was sent, only where that
\* request failed, met the coroutine while it was still unwinding, or passed the pause:
\* the list, which readings and events rewrite meanwhile, makes none forgotten.
HeldIsRemembered == \A t \in held : Remembered(t)

\* The invariant that both rest on.  It compares what the page has, and what each answer
\* under way will give it, with the server's row, through the events on their way: those
\* about a task, after the first n.
About(e, t) == e.sort \in EventSorts /\ e.row.id = t
Mail(n, t)  == {i \in n + 1..Len(inbox) : About(inbox[i], t)}
Seen(t)     == {taskList[i].status : i \in Copies(t)}

\* Where a task is seen in these statuses: nothing is seen before its creation, an end is
\* still told, and what is neither ended nor being deleted is seen or is created, and
\* ends up as it is.
Tracks(n, t, seen) ==
  LET mail    == Mail(n, t)
      creates == {i \in mail : inbox[i].sort = "create"} IN
  /\ \A i \in creates : seen = {} /\ \A j \in mail : i <= j
  /\ rows[t] = "none" => seen = {} /\ mail = {}
  /\ rows[t] = "gone" /\ (seen # {} \/ creates # {}) =>
       \E i \in mail : inbox[i].sort \in {"delete", "complete"}
  /\ rows[t] \in Shown /\ t \notin deleting =>
       /\ \A i \in mail : inbox[i].sort \in {"create", "update"}
       /\ seen # {} \/ creates # {}
       /\ mail = {} => seen = {rows[t]}
       /\ \A i \in mail : (\A j \in mail : j <= i) => inbox[i].row.status = rows[t]

\* What anything speaks of has been created.
Born ==
  /\ \A t \in byPrompt \cup deleting : rows[t] # "none"
  /\ \A r \in asked : rows[r.id] # "none"
  /\ \A i \in DOMAIN taskList : rows[taskList[i].id] # "none"
  /\ \A i \in DOMAIN inbox : inbox[i].sort \in EventSorts => rows[inbox[i].row.id] # "none"
  /\ \A r \in reads : r.at = "answered" => \A t \in Tasks : r.rows[t] \notin Absent => rows[t] # "none"

AnswersTrack ==
  \A r \in reads : r.at = "answered" /\ r.ahead >= 0 =>
    r.ahead <= Len(inbox) /\ \A t \in Tasks : Tracks(r.ahead, t, {r.rows[t]} \ Absent)

ListTracks ==
  ~behind => \A t \in Tasks : Tracks(0, t, Seen(t)) /\ \A i, j \in Copies(t) : i = j

OfflineIsBehind ==
  ~online => inbox = <<>> /\ behind /\ \A r \in reads : r.at = "answered" => r.ahead < 0

PausesRemembered ==
  /\ \A t \in held : t \in Tasks /\ Known(t) /\ Remembered(t)
  /\ \A r \in asked : r.what = "pause" /\ r.by = "prompt" /\ Known(r.id) => Remembered(r.id)

RowsInv ==
  /\ TypeOK /\ Born /\ AnswersTrack /\ ListTracks /\ OfflineIsBehind
  /\ \A i \in DOMAIN inbox : inbox[i].sort \in {"create", "update"} => inbox[i].row.status \in Shown

ListInv == RowsInv /\ PausesRemembered

\* Between them: what the page shows and what it means to resume are true.
ListIsTrue == MirrorsServer /\ HeldIsRemembered
===============================================================================
