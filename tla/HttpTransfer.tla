------------------------------ MODULE HttpTransfer ------------------------------
(***************************************************************************)
(* One HTTP download, byte by byte: download_model_file_http and           *)
(* _download_complete of py/download.py, across pauses, restarts, lost     *)
(* connections and servers that ignore ranges, leave out Content-Length or *)
(* replace the object.                                                     *)
(*                                                                         *)
(* A byte is the version of the remote object it comes from, so a file is  *)
(* a sequence of versions and is whole when it is Size[v] times v.  A      *)
(* digest is the sequence that was hashed (SHA256 has no collisions here). *)
(* One chunk is one byte.  DownloadTasks shows that one coroutine at a     *)
(* time works for a task; here it is the only one.                         *)
(***************************************************************************)
EXTENDS Naturals, Sequences

CONSTANTS
  Version,    \* the versions of the remote object
  Size,       \* Size[v]: the number of bytes of version v
  MaxFaults,  \* bound on pauses, restarts, errors, replacements, unsized answers
  None

ASSUME HttpAssumption ==
  /\ Size \in [Version -> Nat \ {0}]
  /\ MaxFaults \in Nat
  /\ None \notin Seq(Version) /\ None \notin Version

VARIABLES
  \* the server
  remote,     \* the version it serves
  \* on disk
  exists,     \* <id>.download exists
  file,       \* its bytes
  record,     \* <id>.task: "none" once it is removed, else "kept"
  sizeBytes,  \* the size in the record
  landed,     \* the bytes of the library file, or None
  \* the task's content, fixed at creation
  pinned,     \* the version the page described when the task was created
  hashed,     \* the page published a SHA256 and the platform is Civitai
  \* in memory
  inline,     \* the entry of _inline_sha256, or None
  pc,         \* the await at which the coroutine is suspended, or "idle"
  downloaded, \* downloaded_size
  total,      \* total_size
  ranged,     \* the request carries a Range header
  retried,    \* this is the second attempt
  mode,       \* the open mode, "ab" or "wb"
  body,       \* the bytes the response still has to deliver
  sized,      \* the response has a Content-Length
  hasher,     \* what the native hasher has been fed, or None
  \* bound and history
  faults,     \* faults so far
  replaced,   \* the object has been replaced
  unsized     \* an answer came without Content-Length

server == <<remote>>
store  == <<exists, file, record, sizeBytes, landed>>
given  == <<pinned, hashed>>
answer == <<mode, body, sized>>
local  == <<pc, downloaded, total, ranged, retried, answer, hasher>>
past   == <<faults, replaced, unsized>>
vars   == <<server, store, given, inline, local, past>>

Bytes(v, n) == [i \in 1..n |-> v]
Whole(v) == Bytes(v, Size[v])

TypeOK ==
  /\ remote \in Version /\ pinned \in Version
  /\ exists \in BOOLEAN /\ hashed \in BOOLEAN
  /\ file \in Seq(Version)
  /\ record \in {"kept", "none"}
  /\ sizeBytes \in Nat /\ total \in Nat /\ downloaded \in Nat
  /\ landed \in Seq(Version) \cup {None}
  /\ inline \in Seq(Version) \cup {None}
  /\ pc \in {"idle", "request", "open", "stream", "received", "verify", "settle"}
  /\ ranged \in BOOLEAN /\ retried \in BOOLEAN /\ sized \in BOOLEAN
  /\ mode \in {"ab", "wb"}
  /\ body \in Seq(Version)
  /\ hasher \in Seq(Version) \cup {None}
  /\ faults \in 0..MaxFaults
  /\ replaced \in BOOLEAN /\ unsized \in BOOLEAN

\* A new task.  The announced size may be unknown (0) or inexact: Civitai
\* publishes kilobytes.
Init ==
  /\ pinned \in Version /\ remote = pinned
  /\ hashed \in BOOLEAN
  /\ exists = FALSE /\ file = <<>> /\ record = "kept" /\ landed = None
  /\ sizeBytes \in {0, Size[pinned], Size[pinned] + 1}
  /\ inline = None
  /\ pc = "idle" /\ downloaded = 0 /\ total = 0
  /\ ranged = FALSE /\ retried = FALSE
  /\ mode = "wb" /\ body = <<>> /\ sized = TRUE /\ hasher = None
  /\ faults = 0 /\ replaced = FALSE /\ unsized = FALSE

Fault == faults < MaxFaults /\ faults' = faults + 1

-----------------------------------------------------------------------------
(* Completion: _download_complete *)

\* The coroutine ends; its locals die with it (only their reset is modelled).
Stop ==
  /\ pc' = "idle"
  /\ downloaded' = 0 /\ total' = 0 /\ ranged' = FALSE /\ retried' = FALSE
  /\ mode' = "wb" /\ body' = <<>> /\ sized' = TRUE /\ hasher' = None

Stay == UNCHANGED <<downloaded, total, ranged, retried, answer, hasher>>

\* The integrity gate, given what has been hashed, then rename_model.
Reject ==
  /\ exists' = FALSE /\ file' = <<>>
  /\ Stop
  /\ UNCHANGED <<record, sizeBytes, landed>>

\* Mutant of Collide: the move overwrites the file that is there.
Overwrite ==
  /\ landed # None
  /\ landed' = file
  /\ exists' = FALSE /\ file' = <<>>
  /\ pc' = "settle" /\ Stay
  /\ UNCHANGED <<record, sizeBytes>>

Collide ==
  /\ landed # None
  /\ Stop
  /\ UNCHANGED store

Land ==
  /\ landed = None
  /\ landed' = file
  /\ exists' = FALSE /\ file' = <<>>
  /\ pc' = "settle" /\ Stay
  /\ UNCHANGED <<record, sizeBytes>>

\* Mutant of Gate: the published digest is not looked at.
GateOpen(digest) == Collide \/ Land

Gate(digest) ==
  IF hashed /\ digest # Whole(pinned) THEN Reject ELSE Collide \/ Land

\* _download_complete with the digest staged for the task, or None: without
\* one, a hashed file is read again in an executor.
Complete(digest) ==
  /\ inline' = None
  /\ IF hashed /\ digest = None
       THEN pc' = "verify" /\ Stay /\ UNCHANGED store
       ELSE Gate(digest)

-----------------------------------------------------------------------------
(* The transfer: download_model_file_http *)

\* A resume.  Any digest a former attempt left is dropped; a file of the
\* recorded size completes at once; a partial asks for the rest.
Begin ==
  /\ pc = "idle"
  /\ record = "kept"
  /\ IF sizeBytes > 0 /\ Len(file) = sizeBytes
       THEN Complete(None)
       ELSE /\ pc' = "request"
            /\ downloaded' = Len(file) /\ total' = sizeBytes
            /\ ranged' = exists
            /\ retried' = (Len(file) = 0)
            /\ inline' = None
            /\ UNCHANGED <<store, answer, hasher>>
  /\ UNCHANGED <<server, given, past>>

\* The size the answer announces; 0 when it has no Content-Length.
Announced(n) == IF sized' THEN n ELSE 0

\* The answer's size, when it is news, replaces the recorded one.
Resize(size) ==
  /\ total' = size
  /\ sizeBytes' = IF total = 0 \/ total # size THEN size ELSE sizeBytes

\* Whether an answer leaves out Content-Length counts as a fault.
Sizing ==
  \/ sized' = TRUE /\ UNCHANGED past
  \/ sized' = FALSE /\ unsized' = TRUE /\ Fault /\ UNCHANGED replaced

\* Mutant of Answer206: the length of the rest is taken for that of the whole.
Answer206Whole ==
  /\ pc = "request"
  /\ ranged
  /\ downloaded < Size[remote]
  /\ Sizing
  /\ mode' = "ab"
  /\ body' = Bytes(remote, Size[remote] - downloaded)
  /\ Resize(Announced(Size[remote] - downloaded) - downloaded)
  /\ pc' = "open"
  /\ UNCHANGED <<server, exists, file, record, landed, given, inline>>
  /\ UNCHANGED <<downloaded, ranged, retried, hasher>>

\* 206: the rest of the object as it is now, whatever the partial came from.
Answer206 ==
  /\ pc = "request"
  /\ ranged
  /\ downloaded < Size[remote]
  /\ Sizing
  /\ mode' = "ab"
  /\ body' = Bytes(remote, Size[remote] - downloaded)
  /\ Resize(Announced(Size[remote] - downloaded) + downloaded)
  /\ pc' = "open"
  /\ UNCHANGED <<server, exists, file, record, landed, given, inline>>
  /\ UNCHANGED <<downloaded, ranged, retried, hasher>>

\* Mutant of Answer200: the recorded size is trusted over the announced one.
Answer200Unsized ==
  /\ pc = "request"
  /\ Sizing
  /\ mode' = "wb"
  /\ body' = Whole(remote)
  /\ downloaded' = 0
  /\ UNCHANGED <<total, sizeBytes>>
  /\ pc' = "open"
  /\ UNCHANGED <<server, exists, file, record, landed, given, inline>>
  /\ UNCHANGED <<ranged, retried, hasher>>

\* 200: the whole object; the partial will be overwritten.
Answer200 ==
  /\ pc = "request"
  /\ Sizing
  /\ mode' = "wb"
  /\ body' = Whole(remote)
  /\ downloaded' = 0
  /\ Resize(Announced(Size[remote]))
  /\ pc' = "open"
  /\ UNCHANGED <<server, exists, file, record, landed, given, inline>>
  /\ UNCHANGED <<ranged, retried, hasher>>

\* 416: the partial is at least as long as the object.  It is discarded and
\* the whole object requested, once.
Answer416 ==
  /\ pc = "request"
  /\ ranged
  /\ ~retried
  /\ downloaded >= Size[remote]
  /\ retried' = TRUE /\ ranged' = FALSE /\ downloaded' = 0
  /\ exists' = FALSE /\ file' = <<>>
  /\ UNCHANGED <<server, record, sizeBytes, landed, given, inline, past>>
  /\ UNCHANGED <<pc, total, answer, hasher>>

\* Mutant of Open: a resumed transfer starts its hasher fresh.
OpenUnseeded ==
  /\ pc = "open"
  /\ exists' = TRUE
  /\ file' = IF mode = "ab" THEN file ELSE <<>>
  /\ hasher' \in {None} \cup (IF ~hashed THEN {} ELSE {<<>>})
  /\ pc' = "stream"
  /\ UNCHANGED <<server, record, sizeBytes, landed, given, inline, past>>
  /\ UNCHANGED <<downloaded, total, ranged, retried, answer>>

\* The hasher is seeded with the partial file, if the native core is there;
\* then the file is opened.
Open ==
  /\ pc = "open"
  /\ exists' = TRUE
  /\ file' = IF mode = "ab" THEN file ELSE <<>>
  /\ hasher' \in {None} \cup (IF ~hashed THEN {}
                             ELSE IF downloaded > 0 THEN {file} ELSE {<<>>})
  /\ pc' = "stream"
  /\ UNCHANGED <<server, record, sizeBytes, landed, given, inline, past>>
  /\ UNCHANGED <<downloaded, total, ranged, retried, answer>>

\* A chunk is written and hashed; the hasher's handle may have been evicted.
Chunk ==
  /\ pc = "stream"
  /\ body # <<>>
  /\ file' = Append(file, Head(body))
  /\ body' = Tail(body)
  /\ downloaded' = downloaded + 1
  /\ \/ hasher # None /\ hasher' = Append(hasher, Head(body))
     \/ hasher' = None
  /\ UNCHANGED <<server, exists, record, sizeBytes, landed, given, inline, past>>
  /\ UNCHANGED <<pc, total, ranged, retried, mode, sized>>

\* The body ends.  Without a length to compare with, a connection closed early
\* looks the same.
EndOfBody ==
  /\ pc = "stream"
  /\ body = <<>> \/ ~sized
  /\ pc' = "received" /\ Stay
  /\ UNCHANGED <<server, store, given, inline, past>>

\* After the last progress push: a transfer that has reached the total stages
\* its digest and completes, any other stops as paused.
Settle ==
  /\ pc = "received"
  /\ IF total > 0 /\ downloaded = total
       THEN Complete(hasher)
       ELSE Stop /\ UNCHANGED <<store, inline>>
  /\ UNCHANGED <<server, given, past>>

\* The notes file, the first thing the completion writes, cannot be written:
\* the coroutine fails with its digest staged.
NotesFail ==
  /\ pc = "received"
  /\ total > 0 /\ downloaded = total
  /\ Fault
  /\ inline' = hasher
  /\ Stop
  /\ UNCHANGED <<server, store, given, replaced, unsized>>

\* The re-read is done: the gate sees what is on disk.
Verify ==
  /\ pc = "verify"
  /\ Gate(file)
  /\ UNCHANGED <<server, given, inline, past>>

\* A second after the rename the record goes and the task is complete.
Close ==
  /\ pc = "settle"
  /\ record' = "none"
  /\ Stop
  /\ UNCHANGED <<server, exists, file, sizeBytes, landed, given, inline, past>>

-----------------------------------------------------------------------------
(* What interrupts it *)

\* A pause cancels the coroutine at any await.
Pause ==
  /\ pc # "idle"
  /\ Fault
  /\ Stop
  /\ UNCHANGED <<server, store, given, inline, replaced, unsized>>

Restart ==
  /\ Fault
  /\ Stop
  /\ inline' = None
  /\ UNCHANGED <<server, store, given, replaced, unsized>>

\* A status other than 200, 206 and the first 416, an HTML page, a lost
\* connection, a timeout, a disk that is full or cannot be read: the coroutine
\* fails and the task shows as paused.
Error ==
  /\ pc \in {"request", "open", "stream", "verify"}
  /\ Fault
  /\ Stop
  /\ UNCHANGED <<server, store, given, inline, replaced, unsized>>

\* The object is replaced upstream.
Replace ==
  /\ Fault
  /\ remote' \in Version \ {remote}
  /\ replaced' = TRUE
  /\ UNCHANGED <<store, given, inline, local, unsized>>

Transfer ==
  \/ Answer206 \/ Answer200 \/ Answer416 \/ Open \/ Chunk \/ EndOfBody
  \/ Settle \/ Verify \/ Close

Next == Begin \/ Transfer \/ NotesFail \/ Pause \/ Restart \/ Error \/ Replace

Spec == Init /\ [][Next]_vars

\* The event loop and the server go on (every await has a timeout), and the
\* client resumes a task that has stopped.
FairSpec == Spec /\ WF_vars(Transfer) /\ WF_vars(Begin)

-----------------------------------------------------------------------------
(* Properties *)

\* A file enters the library as the version the page described, whole, or not at
\* all: with a published SHA256 whatever the server does; without one, if the object
\* was never replaced and every answer had a length, whatever pauses, restarts,
\* ignored ranges and inexact sizes come in between.
LandsWhole ==
  landed # None /\ (hashed \/ (~replaced /\ ~unsized)) => landed = Whole(pinned)

\* "resume still works through the Range header and the partial file": of an
\* object that is never replaced, no truncated copy enters the library.
NeverTruncated == landed # None /\ ~replaced => Len(landed) = Size[pinned]

\* What the code keeps about the partial file is true of the file: the count that the
\* completion test and the next resume compare, the hasher, which has been fed the
\* file, no more and no less, across resumes that append to it, and the digest
\* staged for the completion.
BooksMatchDisk ==
  /\ pc \in {"stream", "received"} => downloaded = Len(file) /\ hasher \in {None, file}
  /\ inline # None => exists /\ inline = file

\* A library file, once landed, is never changed by a later resume.
LandedKept == [][landed # None => landed' = landed]_vars

\* A client that keeps resuming gets its file, unless the object was replaced.
EventuallyLands == <>(landed # None \/ replaced)

\* "resume, pause, delete and the sub-folder landing all keep working": a task
\* whose file has landed is completed and leaves the list.
LandedCloses == (landed # None) ~> (record = "none")
================================================================================
