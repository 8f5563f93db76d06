---------------------------- MODULE DownloadPromise ----------------------------
(***************************************************************************)
(* What the download component promises to the model library, whatever the *)
(* order of its requests, its transfers and its restarts:                  *)
(*                                                                         *)
(*   - a task is opened once (its id is a fresh uuid), and while it is     *)
(*     open it may land its file in the library, at most once;             *)
(*   - a file lands only where no file is, and is never replaced after;    *)
(*   - a task that is retired without having landed never lands later, and *)
(*     no retired task comes back.                                         *)
(*                                                                         *)
(* DownloadTasks refines this specification.                               *)
(***************************************************************************)
CONSTANTS Task, Path, None

VARIABLES
  stage,    \* stage[t]: how far task t has come
  library   \* library[p]: the task whose file lies at path p, or None

vars == <<stage, library>>

Stage == {"new", "open", "landed", "gone", "closed"}

Init ==
  /\ stage = [t \in Task |-> "new"]
  /\ library = [p \in Path |-> None]

Open(t) ==
  /\ stage[t] = "new"
  /\ stage' = [stage EXCEPT ![t] = "open"]
  /\ UNCHANGED library

Land(t, p) ==
  /\ stage[t] = "open"
  /\ library[p] = None
  /\ library' = [library EXCEPT ![p] = t]
  /\ stage' = [stage EXCEPT ![t] = "landed"]

\* The process may stop: several tasks can retire in one step.
Retire(S) ==
  /\ S # {}
  /\ \A t \in S : stage[t] \in {"open", "landed"}
  /\ stage' = [t \in Task |-> IF t \notin S THEN stage[t]
                              ELSE IF stage[t] = "open" THEN "gone" ELSE "closed"]
  /\ UNCHANGED library

Next ==
  \/ \E t \in Task : Open(t)
  \/ \E t \in Task, p \in Path : Land(t, p)
  \/ \E S \in SUBSET Task : Retire(S)

Spec == Init /\ [][Next]_vars
================================================================================
