-------------------------------- MODULE Watcher --------------------------------
(***************************************************************************)
(* The folder watcher: ModelWatcher of py/watcher.py, one task of the      *)
(* event loop, and the native sessions of znn-codec/src/watch.rs, which    *)
(* threads of the executor start and stop.  A step of the task is the code *)
(* between two awaits.                                                     *)
(***************************************************************************)
EXTENDS Naturals, FiniteSets, Functions

CONSTANTS
  Types,        \* the model types
  Roots,        \* the local directories they may have
  Files,        \* what changes in them
  RootOf,       \* the directory a file is in
  ClaimedBy,    \* the types that claim it; none of a link that leads elsewhere
  All,          \* the type of a broadcast that is for all types
  MaxEvents,    \* how often anything changes
  NoHandle

WatcherAssumption ==
  /\ RootOf \in [Files -> Roots] /\ ClaimedBy \in [Files -> SUBSET Types]
  /\ All \notin Types /\ NoHandle \notin Nat /\ MaxEvents \in Nat

VARIABLES
  on,         \* the setting
  roots,      \* the directories there are now
  task,       \* the await at which the task is
  handle,     \* _handle
  stopped,    \* _stopped
  waiting,    \* _degraded_until lies ahead
  cooling,    \* what was broadcast less than TYPE_COOLDOWN ago
  todo,       \* what the tick still has to broadcast
  sessions,   \* the registry: what each live session has seen
  arming,     \* the call of watch_start, planned or in the executor
  closing,    \* the calls of watch_stop in the executor
  owed,       \* history: what changed under the task's own session, untold
  events      \* how many events there were

outside == <<on, roots, events>>
watchVars == <<outside, task, handle, stopped, waiting, cooling, todo, sessions, arming, closing, owed>>

Handles == 1..3
NoCall  == [at |-> "none", roots |-> {}, id |-> NoHandle]
Session == [roots : SUBSET Roots, files : SUBSET Files, rescan : BOOLEAN, degraded : BOOLEAN]

\* The types that claim one of the files.
Claims(fs) == UNION {ClaimedBy[f] : f \in fs}

TypeOK ==
  /\ on \in BOOLEAN /\ roots \subseteq Roots /\ stopped \in BOOLEAN /\ waiting \in BOOLEAN
  /\ task \in {"none", "sleep", "release", "arm", "tell", "over"}
  /\ cooling \cup todo \cup owed \subseteq Types \cup {All}
  /\ DOMAIN sessions \subseteq Handles /\ \A i \in DOMAIN sessions : sessions[i] \in Session
  /\ handle \in DOMAIN sessions \cup {NoHandle} /\ closing \subseteq DOMAIN sessions
  /\ arming.at \in {"none", "planned", "called", "done", "failed"}

Init ==
  /\ on = FALSE /\ roots \in SUBSET Roots /\ events = 0
  /\ task = "none" /\ handle = NoHandle /\ todo = {} /\ stopped = FALSE /\ waiting = FALSE
  /\ cooling = {} /\ owed = {} /\ sessions = <<>> /\ arming = NoCall /\ closing = {}

-----------------------------------------------------------------------------
(* The task *)

\* At startup, or at the first listing of the models.
EnsureTask ==
  /\ task = "none" /\ ~stopped /\ task' = "sleep"
  /\ UNCHANGED <<outside, handle, stopped, waiting, cooling, todo, sessions, arming, closing, owed>>

\* _release_session: the handle is forgotten before the thread is asked, and what the
\* session has seen with it.
Release(h) == handle' = NoHandle /\ closing' = closing \cup ({h} \ {NoHandle}) /\ owed' = {}

\* A tick with the setting off, or with no directory left.
TickOff ==
  /\ task = "sleep" /\ handle # NoHandle /\ (~on \/ (~waiting /\ roots = {}))
  /\ Release(handle) /\ task' = "release"
  /\ UNCHANGED <<outside, stopped, waiting, cooling, todo, sessions, arming>>

Ready == task = "sleep" /\ on /\ ~waiting /\ roots # {}
Call(at) == [at |-> at, roots |-> roots, id |-> NoHandle]

\* A tick with no session, or with one on other directories.
TickArm ==
  /\ Ready /\ handle = NoHandle /\ arming' = Call("called") /\ task' = "arm"
  /\ UNCHANGED <<outside, handle, stopped, waiting, cooling, todo, sessions, closing, owed>>
TickRearm ==
  /\ Ready /\ handle # NoHandle /\ sessions[handle].roots # roots
  /\ Release(handle) /\ arming' = Call("planned") /\ task' = "release"
  /\ UNCHANGED <<outside, stopped, waiting, cooling, todo, sessions>>

\* The await of watch_stop is over.
Released ==
  /\ task = "release" /\ closing = {}
  /\ IF arming.at = "planned"
       THEN task' = "arm" /\ arming' = [arming EXCEPT !.at = "called"]
       ELSE task' = "sleep" /\ UNCHANGED arming
  /\ UNCHANGED <<outside, handle, stopped, waiting, cooling, todo, sessions, closing, owed>>

\* One broadcast of those in ts, up to its await.
Tell(t, ts, left) ==
  /\ t \in ts /\ todo' = ts \ {t} /\ task' = "tell"
  /\ owed' = IF t = All THEN {} ELSE left \ {t}

\* Mutant of Announced: one type that is cooling ends the loop.
AnnouncedUnlessCooling(ts) == IF ts \cap cooling = {} THEN ts ELSE {}

\* The cooldown skips the types that were announced a moment ago.
Announced(ts) == ts \ cooling

\* What follows a report of changes.  What the cooldown skips, and a file that no type
\* claims beside one that is claimed, is announced to nobody.
Report(s) ==
  LET ts   == IF s.rescan THEN {All} ELSE Claims(s.files)
      left == IF s.rescan THEN {} ELSE (owed \cap (Types \ cooling)) IN
  IF ts = {} THEN /\ Tell(All, {All}, {}) /\ UNCHANGED cooling
  ELSE IF Announced(ts) = {}
    THEN task' = "sleep" /\ owed' = left /\ UNCHANGED <<todo, cooling>>
    ELSE \E t \in Announced(ts) : Tell(t, Announced(ts), left) /\ cooling' = cooling \cup {t}

\* watch_poll takes all that the session has seen.
Poll(h) ==
  LET s == sessions[h] IN
  /\ sessions' = [sessions EXCEPT ![h].files = {}, ![h].rescan = FALSE]
  /\ IF s.degraded
       THEN Release(h) /\ task' = "release" /\ waiting' = TRUE /\ UNCHANGED <<todo, cooling>>
       ELSE /\ handle' = h /\ UNCHANGED <<waiting, closing>>
            /\ IF s.rescan \/ s.files # {} THEN Report(s)
               ELSE task' = "sleep" /\ UNCHANGED <<owed, todo, cooling>>

TickPoll ==
  /\ Ready /\ handle # NoHandle /\ sessions[handle].roots = roots
  /\ Poll(handle) /\ UNCHANGED <<outside, stopped, arming>>

\* The await of watch_start is over; the tick goes on to its poll.
Armed ==
  /\ task = "arm" /\ arming.at \in {"done", "failed"} /\ arming' = NoCall
  /\ IF arming.at = "done" THEN Poll(arming.id)
     ELSE /\ task' = "sleep" /\ waiting' = TRUE
          /\ UNCHANGED <<handle, cooling, todo, sessions, closing, owed>>
  /\ UNCHANGED <<outside, stopped>>

\* The await of a broadcast is over.
ToldOne ==
  /\ task = "tell"
  /\ IF todo = {} THEN task' = "sleep" /\ UNCHANGED <<todo, cooling, owed>>
     ELSE \E t \in todo : Tell(t, todo, owed) /\ cooling' = cooling \cup {t}
  /\ UNCHANGED <<outside, handle, stopped, waiting, sessions, arming, closing>>

\* stop() cancels the task at its await, and the task's finally releases the session
\* it has.  A call of watch_start goes on in its thread.
Stop ==
  /\ ~stopped /\ stopped' = TRUE /\ task' = "over" /\ todo' = {} /\ Release(handle)
  /\ arming' = IF arming.at = "planned" THEN NoCall ELSE arming
  /\ UNCHANGED <<outside, waiting, cooling, sessions>>

-----------------------------------------------------------------------------
(* The threads, the clock and the disk *)

WatchStart ==
  /\ arming.at = "called"
  /\ \/ arming' = [arming EXCEPT !.at = "failed"] /\ UNCHANGED sessions
     \/ \E d \in BOOLEAN :
          LET i == CHOOSE i \in Handles \ DOMAIN sessions : TRUE IN
          /\ arming' = [arming EXCEPT !.at = "done", !.id = i]
          /\ sessions' = [n \in DOMAIN sessions \cup {i} |->
               IF n = i THEN [roots |-> arming.roots, files |-> {}, rescan |-> FALSE, degraded |-> d]
               ELSE sessions[n]]
  /\ UNCHANGED <<outside, task, handle, stopped, waiting, cooling, todo, closing, owed>>

WatchStop(i) ==
  /\ i \in closing /\ closing' = closing \ {i}
  /\ sessions' = Restrict(sessions, DOMAIN sessions \ {i})
  /\ UNCHANGED <<outside, task, handle, stopped, waiting, cooling, todo, arming, owed>>

Cool(t) ==
  /\ t \in cooling /\ cooling' = cooling \ {t}
  /\ UNCHANGED <<outside, task, handle, stopped, waiting, todo, sessions, arming, closing, owed>>

RetryDue ==
  /\ waiting /\ waiting' = FALSE
  /\ UNCHANGED <<outside, task, handle, stopped, cooling, todo, sessions, arming, closing, owed>>

\* The session the task has, or is about to get.
Mine == IF stopped THEN {} ELSE {handle, arming.id} \ {NoHandle}

Event == events < MaxEvents /\ events' = events + 1

\* A file changes; beyond MAX_PENDING_PATHS the set gives way to a rescan.
Change(f) ==
  LET seen == {i \in DOMAIN sessions : RootOf[f] \in sessions[i].roots} IN
  /\ Event /\ RootOf[f] \in roots /\ seen # {}
  /\ \E full \in BOOLEAN :
       sessions' = [i \in DOMAIN sessions |->
         IF i \notin seen THEN sessions[i]
         ELSE IF full THEN [sessions[i] EXCEPT !.files = {}, !.rescan = TRUE]
         ELSE [sessions[i] EXCEPT !.files = @ \cup {f}]]
  /\ owed' = IF seen \cap Mine = {} THEN owed
             ELSE owed \cup IF ClaimedBy[f] = {} THEN {All} ELSE ClaimedBy[f]
  /\ UNCHANGED <<on, roots, task, handle, stopped, waiting, cooling, todo, arming, closing>>

\* The backend lost track of what happened, or of a watch.
LoseTrack(i, d) ==
  /\ Event /\ i \in DOMAIN sessions
  /\ sessions' = [sessions EXCEPT ![i].rescan = @ \/ ~d, ![i].degraded = @ \/ d]
  /\ owed' = IF i \in Mine THEN owed \cup {All} ELSE owed
  /\ UNCHANGED <<on, roots, task, handle, stopped, waiting, cooling, todo, arming, closing>>

\* A volume appears or goes; the user changes the setting.
Mount(r) ==
  /\ Event /\ roots' = IF r \in roots THEN roots \ {r} ELSE roots \cup {r}
  /\ UNCHANGED <<on, task, handle, stopped, waiting, cooling, todo, sessions, arming, closing, owed>>
Switch ==
  /\ Event /\ on' = ~on
  /\ UNCHANGED <<roots, task, handle, stopped, waiting, cooling, todo, sessions, arming, closing, owed>>

Next ==
  \/ EnsureTask \/ TickOff \/ TickArm \/ TickRearm \/ Released \/ TickPoll \/ Armed \/ ToldOne
  \/ Stop \/ WatchStart \/ RetryDue \/ Switch
  \/ \E i \in closing : WatchStop(i)
  \/ \E t \in cooling : Cool(t)
  \/ \E f \in Files : Change(f)
  \/ \E r \in Roots : Mount(r)
  \/ \E i \in DOMAIN sessions, d \in BOOLEAN : LoseTrack(i, d)

Spec == Init /\ [][Next]_watchVars

-----------------------------------------------------------------------------
\* A change that a session of the task has seen is still on its way: in the session,
\* or among what the tick has yet to broadcast.  It ends in a broadcast, but for what
\* the cooldown skips, for a link beside other files, and for a session that is let go.
NothingForgotten ==
  \A t \in owed :
    \/ t \in todo
    \/ \E i \in Mine : \/ sessions[i].rescan \/ sessions[i].degraded
                       \/ t \in Claims(sessions[i].files)
                       \/ t = All /\ \E f \in sessions[i].files : ClaimedBy[f] = {}

\* No session is left behind with its thread and its watches: each has its owner, or
\* is being stopped.  A stop while the directories are being armed leaves that one.
NoneLeftBehind ==
  /\ DOMAIN sessions \subseteq closing \cup ({handle, arming.id} \ {NoHandle})
  /\ Cardinality(DOMAIN sessions) <= 1

WatcherIsTrue == NothingForgotten /\ NoneLeftBehind
=============================================================================
