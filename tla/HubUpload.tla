------------------------------- MODULE HubUpload -------------------------------
(***************************************************************************)
(* Uploads to a hub: src/hooks/hfUpload.ts and handleUpload of            *)
(* DialogHfUpload.vue in one page, run_hub_upload of py/upload_hf.py, and  *)
(* the uploads of other pages, whose events every page gets.  Events come  *)
(* in the order they were sent, the answer of a POST whenever it comes.    *)
(***************************************************************************)
EXTENDS Naturals, Sequences

CONSTANTS
  Own,        \* the uploads of this page
  Other,      \* the uploads of other pages
  MaxInbox,   \* bounds the events on their way
  Nobody      \* no task

HubAssumption == Own \cap Other = {} /\ Nobody \notin Own \cup Other

VARIABLES
  upload,     \* what the backend makes of every upload
  posts,      \* the POSTs that are not answered
  toPage,     \* the events on their way
  hubTask, active, finished,   \* hfUploadState.taskId and active, finishedTaskIds
  foreign,    \* history: an event of another page's upload has been taken
  lost        \* history: an event was lost, or never sent

barVars == <<hubTask, active, finished, foreign, lost>>
hubVars == <<upload, posts, toPage, barVars>>

HubUploads == Own \cup Other

TypeOK ==
  /\ upload \in [HubUploads -> {"none", "running", "ended", "silent"}]
  /\ posts \subseteq Own /\ finished \subseteq HubUploads
  /\ toPage \in Seq([task : HubUploads, sort : {"progress", "end"}])
  /\ hubTask \in Own \cup {Nobody}
  /\ {active, foreign, lost} \subseteq BOOLEAN

Init ==
  /\ upload = [t \in HubUploads |-> "none"] /\ posts = {} /\ toPage = <<>>
  /\ hubTask = Nobody /\ active = FALSE /\ finished = {}
  /\ foreign = FALSE /\ lost = FALSE

-----------------------------------------------------------------------------
(* The backend *)

Sends(t, sorts) ==
  /\ Len(toPage) + Len(sorts) <= MaxInbox
  /\ toPage' = toPage \o [i \in DOMAIN sorts |-> [task |-> t, sort |-> sorts[i]]]

\* _start_hub_upload: the first progress is sent, then the POST is answered.
Start(t) ==
  /\ upload[t] = "none" /\ t \in posts \cup Other
  /\ upload' = [upload EXCEPT ![t] = "running"] /\ Sends(t, <<"progress">>)
  /\ UNCHANGED <<posts, barVars>>

Progress(t) ==
  /\ upload[t] = "running" /\ Sends(t, <<"progress">>)
  /\ UNCHANGED <<upload, posts, barVars>>

\* The last file is through, which a last progress precedes, or a transfer fails.
Ends(t, sorts) ==
  /\ upload[t] = "running" /\ sorts \in {<<"progress", "end">>, <<"end">>}
  /\ upload' = [upload EXCEPT ![t] = "ended"] /\ Sends(t, sorts)
  /\ UNCHANGED <<posts, barVars>>

\* Anything but the transfer fails - the repository, the size of a file: the pool
\* logs it, and no event says so.
FailsSilently(t) ==
  /\ upload[t] = "running"
  /\ upload' = [upload EXCEPT ![t] = "silent"] /\ lost' = TRUE
  /\ UNCHANGED <<posts, toPage, hubTask, active, finished, foreign>>

\* The socket breaks.
Disconnect ==
  /\ toPage # <<>> /\ toPage' = <<>> /\ lost' = TRUE
  /\ UNCHANGED <<upload, posts, hubTask, active, finished, foreign>>

-----------------------------------------------------------------------------
(* The state of the page *)

\* handleUpload up to its await; the button is disabled while the bar is on, and
\* HubWizard says when there is a model to send.
Begin(t) ==
  /\ ~active /\ t \in Own \ posts /\ upload[t] = "none"
  /\ posts' = posts \cup {t}
  /\ hubTask' = Nobody /\ active' = TRUE
  /\ UNCHANGED <<upload, toPage, finished, foreign, lost>>

\* Mutant of KnownAs: the id is kept though its end has come.
AlwaysKnown(t) == t

\* The id of a finished upload is not kept.
KnownAs(t) == IF t \in finished THEN Nobody ELSE t

Answered(t) ==
  /\ t \in posts /\ upload[t] # "none" /\ posts' = posts \ {t}
  /\ hubTask' = KnownAs(t)
  /\ UNCHANGED <<upload, toPage, active, finished, foreign, lost>>

\* The POST is refused before anything has started.
Rejected(t) ==
  /\ t \in posts /\ upload[t] = "none"
  /\ posts' = posts \ {t} /\ upload' = [upload EXCEPT ![t] = "ended"]
  /\ active' = FALSE /\ hubTask' = Nobody
  /\ UNCHANGED <<toPage, finished, foreign, lost>>

\* Mutant of Matches: every event is taken.
MatchesAny(t) == t \in HubUploads

\* While an id is known, events of other uploads are ignored.
Matches(t) == hubTask \in {Nobody, t}

OnEvent ==
  /\ toPage # <<>> /\ toPage' = Tail(toPage)
  /\ LET e == Head(toPage) IN
     IF ~Matches(e.task)
       THEN UNCHANGED barVars
       ELSE /\ active' = (e.sort = "progress")
            /\ IF e.sort = "progress"
                 THEN UNCHANGED <<finished, hubTask>>
                 ELSE finished' = finished \cup {e.task} /\ hubTask' = Nobody
            /\ foreign' = (foreign \/ (hubTask = Nobody /\ e.task \in Other))
            /\ UNCHANGED lost
  /\ UNCHANGED <<upload, posts>>

Next ==
  \/ \E t \in HubUploads : Start(t) \/ Progress(t) \/ FailsSilently(t)
  \/ \E t \in HubUploads, sorts \in {<<"progress", "end">>, <<"end">>} : Ends(t, sorts)
  \/ \E t \in Own : Begin(t) \/ Answered(t) \/ Rejected(t)
  \/ Disconnect \/ OnEvent

Spec == Init /\ [][Next]_hubVars

-----------------------------------------------------------------------------
Ending(t) == \E i \in DOMAIN toPage : toPage[i] = [task |-> t, sort |-> "end"]

\* While no event was lost and none of another page's upload was taken for this
\* page's: the bar goes off when the uploads have ended and all is delivered, it is
\* on while an upload of this page runs, and the id that filters the events is that
\* of an upload whose end is still to come.
BarIsHonest ==
  ~lost /\ ~foreign =>
    /\ toPage = <<>> /\ posts = {} /\ (\A t \in Own : upload[t] # "running") => ~active
    /\ (\E t \in Own : upload[t] = "running") => active
    /\ hubTask # Nobody => upload[hubTask] = "running" \/ Ending(hubTask)

-----------------------------------------------------------------------------
(* The invariant of its proof *)

Events == [task : HubUploads, sort : {"progress", "end"}]

\* An event that is on its way: the end is the last of an upload, and one comes after
\* every progress of an upload that has ended.
Ordered ==
  \A i \in DOMAIN toPage :
    IF toPage[i].sort = "end"
      THEN /\ upload[toPage[i].task] = "ended"
           /\ \A j \in DOMAIN toPage : i < j => toPage[j].task # toPage[i].task
      ELSE \/ upload[toPage[i].task] = "running"
           \/ \E j \in DOMAIN toPage : i < j /\ toPage[j] = [task |-> toPage[i].task, sort |-> "end"]

\* From the button until the page takes the end.
Live(t) == (t \in posts /\ upload[t] = "none") \/ upload[t] = "running" \/ Ending(t)

\* One upload of this page is live at most, and the bar is on while one is; an
\* answer that is to come is of an upload that is live, or whose end is known.
HubInv ==
  /\ upload \in [HubUploads -> {"none", "running", "ended", "silent"}] /\ posts \subseteq Own
  /\ toPage \in Seq(Events) /\ hubTask \in Own \cup {Nobody} /\ active \in BOOLEAN
  /\ ~lost /\ ~foreign =>
       /\ Ordered
       /\ \A t, u \in Own : Live(t) /\ Live(u) => t = u
       /\ active <=> \E t \in Own : Live(t)
       /\ hubTask # Nobody => Live(hubTask) /\ upload[hubTask] # "none"
       /\ \A t \in posts : Live(t) \/ t \in finished
================================================================================
