------------------------------ MODULE LocalUpload ------------------------------
(***************************************************************************)
(* Uploading a file of one's own: the wizard of DialogUpload.vue with its  *)
(* tree of folders (useModelFolder of hooks/model.ts), and upload_model of *)
(* py/upload.py, which writes beside the target and renames.  Two uploads  *)
(* of one name share the file they write to.                               *)
(***************************************************************************)
EXTENDS Naturals, Sequences

CONSTANTS
  Kinds,      \* the model types
  Dirs,       \* the folders a listing has: [kind, path], the root with an empty path
  Uploads,    \* the requests
  MaxChunks,  \* bounds the size of a file
  Old,        \* a model that was there before
  None        \* no type, no folder, no file, no data

UploadAssumption ==
  /\ Dirs \subseteq [kind : Kinds, path : Seq(STRING)]
  /\ \A k \in Kinds : [kind |-> k, path |-> <<>>] \in Dirs
  /\ {Old, None} \cap Uploads = {} /\ None \notin Kinds \cup Dirs /\ MaxChunks \in Nat

VARIABLES
  wizard,      \* stepValue
  kind,        \* currentType
  folder,      \* selectedModelFolder
  up,          \* each request: how far it is, and with what
  tmp,         \* <folder>/<name>.tmp: the file that is there, named by who created it
  file,        \* <folder>/<name>, likewise
  data,        \* who wrote each chunk of a file
  records,     \* the uploads that have a row, and a <id>.task
  overlapped,  \* folders where two uploads were under way
  crashed      \* ComfyUI was restarted under an upload

wizardVars == <<wizard, kind, folder>>
diskVars   == <<tmp, file, data>>
uploadVars == <<wizardVars, up, diskVars, records, overlapped, crashed>>

Chunks == 1..MaxChunks
NoBytes == [c \in Chunks |-> None]
Idle   == [at |-> "idle", to |-> None, inode |-> None, size |-> 0, got |-> 0, paused |-> FALSE]
UnderWay(u) == up[u].at \in {"named", "writing", "read"}
Over(r)     == [r EXCEPT !.at = "over", !.to = None, !.inode = None, !.paused = FALSE]
Ended(u)    == [up EXCEPT ![u] = Over(@)]

Requests ==
  [at : {"idle", "sent", "named", "writing", "read", "over"}, to : Dirs \cup {None},
   inode : Uploads \cup {None}, size : 0..MaxChunks, got : 0..MaxChunks, paused : BOOLEAN]

TypeOK ==
  /\ wizard \in 1..3 /\ kind \in Kinds \cup {None} /\ folder \in Dirs \cup {None}
  /\ up \in [Uploads -> Requests] /\ \A u \in Uploads : up[u].got <= up[u].size
  /\ tmp \in [Dirs -> Uploads \cup {None}] /\ file \in [Dirs -> Uploads \cup {Old, None}]
  /\ data \in [Uploads -> [Chunks -> Uploads \cup {None}]]
  /\ records \subseteq Uploads /\ overlapped \subseteq Dirs /\ crashed \in BOOLEAN

Init ==
  /\ wizard = 1 /\ kind = None /\ folder = None
  /\ up = [u \in Uploads |-> Idle] /\ tmp = [d \in Dirs |-> None]
  /\ file \in [Dirs -> {Old, None}] /\ data = [u \in Uploads |-> NoBytes]
  /\ records = {} /\ overlapped = {} /\ crashed = FALSE

-----------------------------------------------------------------------------
(* The wizard *)

\* buildPathIndexNode: a folder hangs under its parent, and one whose parent the
\* listing does not have hangs nowhere.
Hangs(d) ==
  \A n \in 1..Len(d.path) - 1 : [d EXCEPT !.path = SubSeq(d.path, 1, n)] \in Dirs

PathOptions == {d \in Dirs : d.kind = kind /\ Hangs(d)}

PickType(k) ==
  /\ wizard = 1 /\ kind' = k /\ wizard' = 2
  /\ UNCHANGED <<folder, up, diskVars, records, overlapped, crashed>>

\* A click in the tree; one on the folder that is chosen drops it.
PickFolder(d) ==
  /\ wizard = 2 /\ d \in PathOptions
  /\ folder' = IF folder = d THEN None ELSE d
  /\ UNCHANGED <<wizard, kind, up, diskVars, records, overlapped, crashed>>

\* Mutant of HandleConfirmSubdir: the button is never off.
ConfirmAnySubdir ==
  /\ wizard = 2 /\ wizard' = 3
  /\ UNCHANGED <<kind, folder, up, diskVars, records, overlapped, crashed>>

HandleConfirmSubdir ==
  /\ wizard = 2 /\ folder # None /\ wizard' = 3
  /\ UNCHANGED <<kind, folder, up, diskVars, records, overlapped, crashed>>

HandleBackTypeSelect ==
  /\ wizard = 2 /\ wizard' = 1 /\ kind' = None /\ folder' = None
  /\ UNCHANGED <<up, diskVars, records, overlapped, crashed>>

\* A tab behind, or the last step's button; what was chosen stays.
Tab(to) ==
  /\ to < wizard /\ wizard' = to
  /\ UNCHANGED <<kind, folder, up, diskVars, records, overlapped, crashed>>

\* The request is sent and the window closed; the next one begins anew.
ChooseFile(u, size) ==
  /\ wizard = 3 /\ up[u].at = "idle"
  /\ up' = [up EXCEPT ![u] = [Idle EXCEPT !.at = "sent", !.to = folder, !.size = size]]
  /\ wizard' = 1 /\ kind' = None /\ folder' = None
  /\ UNCHANGED <<diskVars, records, overlapped, crashed>>

-----------------------------------------------------------------------------
(* upload_model *)

\* The file part begins: the target is refused, or the task created.
CreateLocalTask(u) ==
  /\ up[u].at = "sent"
  /\ \/ /\ up' = Ended(u) /\ UNCHANGED <<records, overlapped>>
     \/ /\ up' = [up EXCEPT ![u].at = "named"] /\ records' = records \cup {u}
        /\ overlapped' = overlapped \cup
             {d \in {up[u].to} : \E v \in Uploads : UnderWay(v) /\ up[v].to = d}
  /\ UNCHANGED <<wizardVars, diskVars, crashed>>

\* Mutant of CleanupLocalTask: the file stays.
CleanupRow(u) ==
  /\ records' = records \ {u} /\ up' = Ended(u)
  /\ UNCHANGED <<wizardVars, diskVars, overlapped, crashed>>

\* cleanup_local_task, by the path, whoever writes to it
CleanupLocalTask(u) ==
  /\ tmp' = [tmp EXCEPT ![up[u].to] = None]
  /\ records' = records \ {u} /\ up' = Ended(u)
  /\ UNCHANGED <<wizardVars, file, data, overlapped, crashed>>

\* open(tmp_filepath, "wb"): a file that is there is emptied under its writer.
OpenTmp(u) ==
  LET d == up[u].to
      i == IF tmp[d] = None THEN u ELSE tmp[d]
  IN /\ up[u].at = "named"
     /\ tmp' = [tmp EXCEPT ![d] = i] /\ data' = [data EXCEPT ![i] = NoBytes]
     /\ up' = [up EXCEPT ![u].at = "writing", ![u].inode = i]
     /\ UNCHANGED <<wizardVars, file, records, overlapped, crashed>>

\* A chunk is written to the open file, wherever that has been renamed to; then a
\* pause is found, which cancels.
Chunk(u) ==
  /\ up[u].at = "writing" /\ up[u].got < up[u].size
  /\ data' = [data EXCEPT ![up[u].inode][up[u].got + 1] = u]
  /\ IF up[u].paused
     THEN /\ up' = [up EXCEPT ![u] = Over([up[u] EXCEPT !.got = @ + 1])]
          /\ tmp' = [tmp EXCEPT ![up[u].to] = None] /\ records' = records \ {u}
     ELSE up' = [up EXCEPT ![u].got = @ + 1] /\ UNCHANGED <<tmp, records>>
  /\ UNCHANGED <<wizardVars, file, overlapped, crashed>>

\* The body ends, or breaks off; the folder may be gone before the file is opened.
BodyEnds(u) ==
  /\ up[u].at = "writing" /\ up[u].got = up[u].size
  /\ up' = [up EXCEPT ![u].at = "read"]
  /\ UNCHANGED <<wizardVars, diskVars, records, overlapped, crashed>>
Breaks(u) == up[u].at \in {"named", "writing"} /\ CleanupLocalTask(u)

\* os.rename takes the place of a model that is there, and fails when another upload
\* has renamed the file.
Rename(u) ==
  /\ up[u].at = "read" /\ tmp[up[u].to] # None
  /\ file' = [file EXCEPT ![up[u].to] = tmp[up[u].to]]
  /\ tmp' = [tmp EXCEPT ![up[u].to] = None]
  /\ records' = records \ {u} /\ up' = Ended(u)
  /\ UNCHANGED <<wizardVars, data, overlapped, crashed>>
RenameFails(u) == up[u].at = "read" /\ tmp[up[u].to] = None /\ CleanupLocalTask(u)

\* The pause button of the row, and its delete button, which takes the record too.
Pause(u) ==
  /\ UnderWay(u) /\ u \in records /\ up' = [up EXCEPT ![u].paused = TRUE]
  /\ UNCHANGED <<wizardVars, diskVars, records, overlapped, crashed>>
Delete(u) ==
  /\ u \in records /\ records' = records \ {u}
  /\ up' = [up EXCEPT ![u].paused = UnderWay(u) \/ @]
  /\ UNCHANGED <<wizardVars, diskVars, overlapped, crashed>>

\* ComfyUI is restarted: files and records are as they were.
Crash ==
  /\ \E u \in Uploads : UnderWay(u)
  /\ up' = [u \in Uploads |-> IF up[u].at = "idle" THEN up[u] ELSE Over(up[u])]
  /\ crashed' = TRUE
  /\ UNCHANGED <<wizardVars, diskVars, records, overlapped>>

Next ==
  \/ \E k \in Kinds : PickType(k)
  \/ \E d \in Dirs : PickFolder(d)
  \/ HandleConfirmSubdir \/ HandleBackTypeSelect \/ Crash
  \/ \E to \in 1..2 : Tab(to)
  \/ \E u \in Uploads :
       \/ \E size \in 0..MaxChunks : ChooseFile(u, size)
       \/ CreateLocalTask(u) \/ OpenTmp(u) \/ Chunk(u) \/ BodyEnds(u) \/ Breaks(u)
       \/ Rename(u) \/ RenameFails(u) \/ Pause(u) \/ Delete(u)

Spec == Init /\ [][Next]_uploadVars

-----------------------------------------------------------------------------
Whole(i) ==
  \E u \in Uploads : /\ up[u].at = "over" /\ up[u].got = up[u].size
                     /\ data[i] = [c \in Chunks |-> IF c <= up[u].size THEN u ELSE None]

\* However uploads are paused, deleted, cut off or restarted: what lies under a model's
\* name is one whole upload, or the model that was there; once none is under way nothing
\* is left beside it and no row stays, unless ComfyUI was restarted; all this unless two
\* uploads of one name overlapped.  The last step of the wizard has a folder to send to.
UploadIsSafe ==
  /\ \A d \in Dirs \ overlapped :
       /\ file[d] \in Uploads => Whole(file[d])
       /\ ~crashed /\ (\A u \in Uploads : UnderWay(u) => up[u].to # d) => tmp[d] = None
  /\ ~crashed => \A u \in records : UnderWay(u)
  /\ wizard = 3 => folder # None

-----------------------------------------------------------------------------
(* The invariant of its proof *)

Opened(u) == up[u].at \in {"writing", "read"}

\* A file is in one place, and nobody writes to one that is in another folder than the
\* one it uploads to; a request that has opened none has made none.
Places ==
  /\ \A d, e \in Dirs :
       /\ tmp[d] = tmp[e] /\ tmp[d] # None => d = e
       /\ file[d] = file[e] /\ file[d] \in Uploads => d = e
       /\ tmp[d] # None => tmp[d] # file[e]
  /\ \A u \in Uploads : Opened(u) =>
       /\ up[u].inode \in Uploads
       /\ \A d \in Dirs \ {up[u].to} : tmp[d] # up[u].inode /\ file[d] # up[u].inode
       /\ \A v \in Uploads : Opened(v) /\ up[u].inode = up[v].inode => up[u].to = up[v].to
  /\ \A u \in Uploads : up[u].at \in {"idle", "sent", "named"} =>
       /\ \A d \in Dirs : tmp[d] # u /\ file[d] # u
       /\ \A v \in Uploads : Opened(v) => up[v].inode # u

\* Where no two uploads overlapped, one is under way at most, and what it has written
\* is what its file holds.
Alone ==
  /\ \A u, v \in Uploads : UnderWay(u) /\ UnderWay(v) /\ up[u].to = up[v].to /\ u # v =>
       up[u].to \in overlapped
  /\ \A u \in Uploads : Opened(u) /\ up[u].to \notin overlapped =>
       /\ tmp[up[u].to] = up[u].inode
       /\ data[up[u].inode] = [c \in Chunks |-> IF c <= up[u].got THEN u ELSE None]
  /\ \A u \in Uploads : up[u].at = "read" => up[u].got = up[u].size

UploadInv ==
  /\ TypeOK
  /\ \A u \in Uploads :
       /\ up[u].at = "sent" \/ UnderWay(u) => up[u].to \in Dirs
       /\ up[u].at \in {"idle", "sent", "named"} => up[u].got = 0
  /\ Places /\ Alone /\ UploadIsSafe
================================================================================
