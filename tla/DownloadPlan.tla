------------------------------ MODULE DownloadPlan ------------------------------
(***************************************************************************)
(* What the download form says before the download: the free space, the    *)
(* plan and the accounts (DialogCreateTask.vue), beside the version and    *)
(* the file that are chosen (useModelSearch of hooks/download.ts).         *)
(***************************************************************************)
EXTENDS Naturals, Sequences, Functions

CONSTANTS
  Versions,  \* the versions a model page may have
  TypeOf,    \* the model type each is given, or None
  HubOf,     \* the hub each is from, or None
  Tokens,    \* the hubs
  Route,     \* FILE_TYPE_ROUTE: the type of a file that is filed elsewhere
  MaxAsked,  \* bounds the requests for free space in flight
  None       \* no version, no type, no hub, no answer

TypeNames == {TypeOf[v] : v \in Versions} \cup {Route, None}

PlanAssumption ==
  /\ DOMAIN TypeOf = Versions /\ HubOf \in [Versions -> Tokens \cup {None}]
  /\ None \notin Versions \cup Tokens \cup {Route} /\ MaxAsked \in Nat
  /\ None \notin [target : TypeNames, authOk : BOOLEAN]

VARIABLES
  data,      \* the versions of the page that was resolved, each with its type
  model,     \* currentModel
  free,      \* freeSpace: the type whose directory it is of
  asked,     \* the requests for it in flight, by type
  status,    \* authStatus: the hubs with a token, None before the answer
  accounts,  \* the hubs whose account is named, None before the answers
  mixed      \* the number may be of another directory: an older answer was still to
             \* come, or the type was changed where the watcher does not look

planVars == <<data, model, free, asked, status, accounts, mixed>>

TypeOK ==
  /\ data \in UNION {[versions -> TypeNames] : versions \in SUBSET Versions}
  /\ model \in DOMAIN data \cup {None} /\ free \in TypeNames /\ asked \in Seq(TypeNames)
  /\ status = None \/ status \subseteq Tokens
  /\ accounts = None \/ accounts \subseteq Tokens
  /\ mixed \in BOOLEAN

Init ==
  /\ data = <<>> /\ model = None /\ free = None /\ asked = <<>>
  /\ status = None /\ accounts = None /\ mixed = FALSE

\* Mutant of Watched: a version without a type keeps the number.
WatchedKeeping(type) ==
  /\ mixed' = (asked # <<>>) /\ free' = free
  /\ IF type = None THEN UNCHANGED asked
     ELSE Len(asked) < MaxAsked /\ asked' = Append(asked, type)

\* The watcher of currentModel: the space of its directory is asked for, and the old
\* number stands until the answer.
Watched(type) ==
  /\ mixed' = (asked # <<>>)
  /\ IF type = None THEN free' = None /\ UNCHANGED asked
     ELSE Len(asked) < MaxAsked /\ asked' = Append(asked, type) /\ UNCHANGED free

\* A page, or a direct link, is resolved: its first version is shown.
Resolved(versions) ==
  /\ data' = [v \in versions |-> TypeOf[v]]
  /\ IF versions = {} THEN model' = None /\ Watched(None)
     ELSE \E v \in versions : model' = v /\ Watched(TypeOf[v])
  /\ UNCHANGED <<status, accounts>>

\* The buttons of the versions.
PickVersion(v) ==
  /\ v \in DOMAIN data /\ v # model /\ model' = v /\ Watched(data[v])
  /\ UNCHANGED <<data, status, accounts>>

\* A file of another kind takes the version to that kind's folder, for good; the
\* version is the same object, and its watcher sees nothing.
PickRoutedFile ==
  /\ model # None /\ data[model] # Route
  /\ data' = [data EXCEPT ![model] = Route] /\ mixed' = TRUE
  /\ UNCHANGED <<model, free, asked, status, accounts>>

\* An answer is shown as it comes; a failure clears the number.
Answered(i) ==
  /\ \E ok \in BOOLEAN : free' = IF ok THEN asked[i] ELSE None
  /\ asked' = SubSeq(asked, 1, i - 1) \o SubSeq(asked, i + 1, Len(asked))
  /\ UNCHANGED <<data, model, status, accounts, mixed>>

\* /auth-status, or an empty record when it fails.
AuthAnswered(hubs) ==
  /\ status = None /\ status' = hubs
  /\ UNCHANGED <<data, model, free, asked, accounts, mixed>>

\* The accounts of those hubs are asked for, and named when all have answered.
WhoamisAnswered(hubs) ==
  /\ status # None /\ accounts = None /\ hubs \subseteq status /\ accounts' = hubs
  /\ UNCHANGED <<data, model, free, asked, status, mixed>>

\* downloadPlan: where the version goes, and whether its hub has a token.
Plan ==
  IF model = None \/ data[model] = None THEN None
  ELSE [target |-> data[model],
        authOk |-> HubOf[model] # None => status # None /\ HubOf[model] \in status]

\* What the form shows of it: the free space, the target and whether a token is set; and
\* the accounts.
FreeRow     == model # None /\ free # None
TargetRow   == IF Plan = None THEN None ELSE Plan.target
AuthRow     == Plan # None /\ Plan.authOk
AccountRows == IF accounts = None THEN {} ELSE accounts

Next ==
  \/ \E versions \in SUBSET Versions : Resolved(versions)
  \/ \E v \in Versions : PickVersion(v)
  \/ PickRoutedFile
  \/ \E i \in DOMAIN asked : Answered(i)
  \/ \E hubs \in SUBSET Tokens : AuthAnswered(hubs) \/ WhoamisAnswered(hubs)

Spec == Init /\ [][Next]_planVars

-----------------------------------------------------------------------------
\* "Pre-download free-space guard read-out" (DialogCreateTask.vue): once the answers are
\* there the number is of the directory the plan names, unless they crossed or a file
\* took the version elsewhere; and an account is named only beside a plan that finds its
\* hub's token.
PlanIsTrue ==
  /\ FreeRow /\ asked = <<>> /\ ~mixed => free = TargetRow
  /\ Plan # None /\ HubOf[model] \in AccountRows => AuthRow

-----------------------------------------------------------------------------
\* The invariant of its proof: unless it may be of another directory, the number is of
\* the version's, or there is none, or it is what the one request in flight asks for.
PlanInv ==
  /\ \A v \in DOMAIN data : data[v] \in TypeNames
  /\ model \in DOMAIN data \cup {None}
  /\ model # None /\ ~mixed =>
       \/ asked = <<>> /\ free \in {None, data[model]}
       \/ asked = <<data[model]>>
  /\ accounts # None => status # None /\ accounts \subseteq status
================================================================================
