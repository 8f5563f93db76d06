--------------------------- MODULE HttpTransferProofs ---------------------------
(***************************************************************************)
(* Proofs about HttpTransfer, for objects of any size, any number of       *)
(* versions of them and any number of faults.  The inductive invariant is  *)
(* Inv: types, then what the coroutine's locals say of the partial file,   *)
(* then what the file is of while the server is honest.                    *)
(***************************************************************************)
EXTENDS HttpTransfer, SequenceTheorems, TLAPS

\* A sequence of bytes of one version.
Of(s, v) == \A i \in 1..Len(s) : s[i] = v

\* The count follows the file at every await where it is still to be used, and an
\* answer that appends starts where the file ends.
Counted ==
  /\ pc = "request" => downloaded = Len(file)
  /\ pc = "open" => downloaded = IF mode = "ab" THEN Len(file) ELSE 0
  /\ pc \in {"stream", "received"} => exists

\* A digest is staged only while nothing runs; only a hashed file is read again.
Staged ==
  /\ pc # "idle" => inline = None
  /\ pc = "verify" => hashed

Honest == ~replaced /\ ~unsized

\* While the server is honest, the file is a beginning of the object, the recorded
\* size is its size unless no answer has told it, and what an answer brings is what
\* the file lacks.
Begun ==
  /\ remote = pinned /\ Of(file, pinned) /\ Len(file) <= Size[pinned]
  /\ sizeBytes \in {0, Size[pinned], Size[pinned] + 1}
  /\ pc \in {"open", "stream", "received"} => sized /\ total = Size[pinned]
  /\ pc \in {"open", "stream"} => Of(body, pinned) /\ downloaded + Len(body) = Size[pinned]

Inv ==
  /\ TypeOK /\ BooksMatchDisk /\ Counted /\ Staged /\ LandsWhole
  /\ Honest => Begun

-----------------------------------------------------------------------------
(* Sequences of bytes *)

LEMMA NoBytes == <<>> \in Seq(Version)
BY EmptySeq

LEMMA BytesOf ==
  ASSUME NEW v \in Version, NEW n \in Nat
  PROVE  Bytes(v, n) \in Seq(Version) /\ Len(Bytes(v, n)) = n /\ Of(Bytes(v, n), v)
<1>1. Bytes(v, n) \in [1..n -> Version]
  BY DEF Bytes
<1>2. Bytes(v, n) \in Seq(Version) /\ Len(Bytes(v, n)) = n
  BY <1>1, SeqDef, LenProperties
<1>. QED  BY <1>2 DEF Of, Bytes

LEMMA WholeIsOf ==
  ASSUME NEW v \in Version, NEW s \in Seq(Version), Of(s, v), Len(s) = Size[v]
  PROVE  s = Whole(v)
<1>1. Size[v] \in Nat
  BY HttpAssumption
<1>2. /\ Whole(v) \in Seq(Version) /\ Len(Whole(v)) = Size[v] /\ Of(Whole(v), v)
  BY <1>1, BytesOf DEF Whole
<1>. QED  BY <1>2, SeqEqual DEF Of

LEMMA AppendOf ==
  ASSUME NEW v \in Version, NEW s \in Seq(Version), NEW b \in Seq(Version),
         Of(s, v), Of(b, v), b # <<>>
  PROVE  Of(Append(s, Head(b)), v) /\ Of(Tail(b), v) /\ Len(Tail(b)) = Len(b) - 1
<1>1. Head(b) = v /\ Len(b) \in Nat /\ Len(b) > 0
  BY DEF Of
<1>2. /\ Len(Tail(b)) = Len(b) - 1
      /\ \A i \in 1..Len(Tail(b)) : Tail(b)[i] = b[i + 1]
  BY <1>1
<1>3. Of(Tail(b), v)
  BY <1>1, <1>2 DEF Of
<1>4. Of(Append(s, Head(b)), v)
  BY <1>1 DEF Of
<1>. QED  BY <1>2, <1>3, <1>4

LEMMA Sizes ==
  /\ \A v \in Version : Size[v] \in Nat /\ Size[v] > 0
  /\ None \notin Seq(Version)
BY HttpAssumption

-----------------------------------------------------------------------------
(* Completion *)

\* The coroutine has stopped, and left the partial file and its books alone.
LEMMA StopKeeps ==
  ASSUME Inv, Stop, UNCHANGED <<exists, file, sizeBytes, landed, pinned, hashed>>,
         record' \in {"kept", "none"}, inline' \in {None, inline},
         faults' \in 0..MaxFaults, replaced' \in BOOLEAN, unsized' \in BOOLEAN,
         remote' \in Version, replaced => replaced', unsized => unsized',
         ~replaced' => remote' = remote
  PROVE  Inv'
<1>. USE DEF Inv, Stop
<1>1. TypeOK'
  <2>1. body' \in Seq(Version) /\ mode' \in {"ab", "wb"} /\ downloaded' \in Nat /\ total' \in Nat
    OBVIOUS
  <2>2. ranged' \in BOOLEAN /\ retried' \in BOOLEAN /\ sized' \in BOOLEAN
        /\ hasher' \in Seq(Version) \cup {None}
    OBVIOUS
  <2>3. inline' \in Seq(Version) \cup {None}
    BY DEF TypeOK
  <2>. QED  BY <2>1, <2>2, <2>3 DEF TypeOK
<1>2. BooksMatchDisk'
  BY DEF BooksMatchDisk
<1>3. Counted' /\ Staged'
  BY DEF Counted, Staged
<1>4. LandsWhole'
  BY DEF LandsWhole, Whole, Bytes
<1>5. Honest' => Begun'
  BY DEF Honest, Begun, Of
<1>. QED  BY <1>1, <1>2, <1>3, <1>4, <1>5

\* The completion: the file is what the task asks for, or is refused.
LEMMA GateKeeps ==
  ASSUME Inv, NEW digest, Gate(digest), hashed => digest = file,
         ~hashed /\ Honest => Len(file) = Size[pinned],
         inline' = None, UNCHANGED <<server, given, past>>
  PROVE  Inv'
<1>. USE DEF Inv, given, server, past
<1>1. CASE Reject
  <2>0. /\ exists' \in BOOLEAN /\ file' \in Seq(Version) /\ body' \in Seq(Version)
        /\ mode' \in {"ab", "wb"} /\ downloaded' \in Nat /\ total' \in Nat
        /\ ranged' \in BOOLEAN /\ retried' \in BOOLEAN /\ sized' \in BOOLEAN
        /\ hasher' \in Seq(Version) \cup {None} /\ inline' \in Seq(Version) \cup {None}
        /\ pc' = "idle"
    BY <1>1, NoBytes DEF Reject, Stop
  <2>1. TypeOK'
    <3>1. UNCHANGED <<remote, pinned, hashed, faults, replaced, unsized, record, sizeBytes, landed>>
      BY <1>1 DEF Reject
    <3>. QED  BY ONLY TypeOK, <2>0, <3>1 DEF TypeOK
  <2>2. BooksMatchDisk' /\ Counted' /\ Staged' /\ LandsWhole'
    BY <1>1 DEF BooksMatchDisk, Counted, Staged, LandsWhole, Whole, Bytes, Reject, Stop
  <2>3. Honest' => Begun'
    BY <1>1, Sizes DEF Honest, Begun, Of, Reject, Stop, TypeOK
  <2>. QED  BY <2>1, <2>2, <2>3
<1>2. CASE Collide
  BY <1>2, StopKeeps DEF Collide, store, TypeOK
<1>3. CASE Land /\ (hashed => digest = Whole(pinned))
  <2>0. /\ exists' \in BOOLEAN /\ file' \in Seq(Version) /\ landed' \in Seq(Version) \cup {None}
        /\ inline' \in Seq(Version) \cup {None} /\ pc' = "settle"
        /\ UNCHANGED <<downloaded, total, ranged, retried, mode, body, sized, hasher>>
    BY <1>3, NoBytes DEF Land, Stay, answer, TypeOK
  <2>1. TypeOK'
    <3>1. UNCHANGED <<remote, pinned, hashed, faults, replaced, unsized, record, sizeBytes>>
      BY <1>3 DEF Land
    <3>. QED  BY ONLY TypeOK, <2>0, <3>1 DEF TypeOK
  <2>2. BooksMatchDisk' /\ Counted' /\ Staged'
    BY <1>3 DEF BooksMatchDisk, Counted, Staged, Land, Stay
  <2>3. LandsWhole'
    <3>1. CASE hashed
      BY <1>3, <3>1 DEF LandsWhole, Whole, Bytes, Land
    <3>2. CASE ~hashed /\ Honest
      <4>1. file = Whole(pinned)
        BY <3>2, WholeIsOf DEF TypeOK, Begun
      <4>. QED  BY <1>3, <4>1 DEF LandsWhole, Whole, Bytes, Land
    <3>3. CASE ~hashed /\ ~Honest
      BY <3>3 DEF LandsWhole, Honest
    <3>. QED  BY <3>1, <3>2, <3>3
  <2>4. Honest' => Begun'
    BY <1>3, Sizes DEF Honest, Begun, Of, Land, Stay, TypeOK
  <2>. QED  BY <2>1, <2>2, <2>3, <2>4
<1>. QED  BY <1>1, <1>2, <1>3 DEF Gate

LEMMA CompleteKeeps ==
  ASSUME Inv, NEW digest, Complete(digest), hashed => digest \in {None, file},
         ~hashed /\ Honest => Len(file) = Size[pinned],
         UNCHANGED <<server, given, past>>
  PROVE  Inv'
<1>. USE DEF Inv, given, server, past
<1>1. CASE hashed /\ digest = None
  <2>1. /\ inline' = None /\ pc' = "verify"
        /\ UNCHANGED <<downloaded, total, ranged, retried, mode, body, sized, hasher>>
        /\ UNCHANGED <<exists, file, record, sizeBytes, landed>>
    BY <1>1 DEF Complete, Stay, store, answer
  <2>2. TypeOK'
    BY <2>1 DEF TypeOK
  <2>3. BooksMatchDisk' /\ Counted' /\ Staged' /\ LandsWhole'
    BY <1>1, <2>1 DEF BooksMatchDisk, Counted, Staged, LandsWhole, Whole, Bytes
  <2>4. Honest' => Begun'
    BY <2>1 DEF Honest, Begun, Of
  <2>. QED  BY <2>2, <2>3, <2>4
<1>2. CASE ~(hashed /\ digest = None)
  BY <1>2, GateKeeps DEF Complete
<1>. QED  BY <1>1, <1>2

-----------------------------------------------------------------------------
(* The actions *)

LEMMA BeginKeeps == ASSUME Inv, Begin  PROVE Inv'
<1>. USE DEF Inv
<1>1. CASE sizeBytes > 0 /\ Len(file) = sizeBytes
  <2>1. Complete(None) /\ UNCHANGED <<server, given, past>>
    BY <1>1 DEF Begin
  <2>2. ~hashed /\ Honest => Len(file) = Size[pinned]
    BY <1>1, Sizes DEF Begun, TypeOK
  <2>. QED  BY <2>1, <2>2, CompleteKeeps
<1>2. CASE ~(sizeBytes > 0 /\ Len(file) = sizeBytes)
  <2>1. /\ pc' = "request" /\ downloaded' = Len(file) /\ total' = sizeBytes
        /\ ranged' = exists /\ retried' = (Len(file) = 0) /\ inline' = None
        /\ UNCHANGED <<exists, file, record, sizeBytes, landed, mode, body, sized, hasher>>
        /\ UNCHANGED <<remote, pinned, hashed, faults, replaced, unsized>>
    BY <1>2 DEF Begin, store, answer, server, given, past
  <2>2. TypeOK'
    BY ONLY TypeOK, <2>1 DEF TypeOK
  <2>3. BooksMatchDisk' /\ Counted' /\ Staged' /\ LandsWhole'
    BY <2>1 DEF BooksMatchDisk, Counted, Staged, LandsWhole, Whole, Bytes
  <2>4. Honest' => Begun'
    BY <2>1 DEF Honest, Begun, Of
  <2>. QED  BY <2>2, <2>3, <2>4
<1>. QED  BY <1>1, <1>2

\* The two answers that bring bytes.
LEMMA AnswerKeeps ==
  ASSUME Inv, pc = "request", Sizing, NEW n \in Nat, NEW m \in Nat,
         mode' \in {"ab", "wb"}, body' = Bytes(remote, n),
         downloaded' = IF mode' = "ab" THEN downloaded ELSE 0,
         m = downloaded' + n, Honest => m = Size[remote],
         total' \in Nat, sizeBytes' \in {sizeBytes, total'},
         sized' => total' = m, pc' = "open",
         UNCHANGED <<server, exists, file, record, landed, given, inline>>,
         UNCHANGED <<ranged, retried, hasher>>
  PROVE  Inv'
<1>. USE DEF Inv, server, given
<1>1. /\ sized' \in BOOLEAN /\ faults' \in 0..MaxFaults /\ UNCHANGED replaced
      /\ unsized' \in BOOLEAN /\ (Honest' => Honest /\ sized')
  <2>1. CASE sized' = TRUE /\ UNCHANGED <<faults, replaced, unsized>>
    BY <2>1 DEF TypeOK, Honest
  <2>2. CASE sized' = FALSE /\ unsized' = TRUE /\ Fault /\ UNCHANGED replaced
    <3>1. faults' \in 0..MaxFaults
      BY <2>2, HttpAssumption DEF Fault, TypeOK
    <3>. QED  BY <2>2, <3>1 DEF Honest
  <2>. QED  BY <2>1, <2>2 DEF Sizing, past
<1>2. body' \in Seq(Version) /\ Len(body') = n /\ Of(body', remote)
  <2>1. remote \in Version
    BY DEF TypeOK
  <2>. QED  BY <2>1, BytesOf
<1>3. downloaded' \in Nat
  BY DEF TypeOK
<1>4. TypeOK'
  <2>1. sizeBytes' \in Nat
    BY DEF TypeOK
  <2>2. UNCHANGED <<remote, exists, file, record, landed, pinned, hashed, inline, ranged, retried,
                    hasher, replaced>>
    BY <1>1
  <2>. QED  BY ONLY TypeOK, <2>1, <2>2, <1>1, <1>2, <1>3, total' \in Nat, pc' = "open",
                    mode' \in {"ab", "wb"}
            DEF TypeOK
<1>5. BooksMatchDisk' /\ Staged' /\ LandsWhole'
  BY <1>1 DEF BooksMatchDisk, Staged, LandsWhole, Whole, Bytes, Honest
<1>6. Counted'
  BY DEF Counted
<1>7. Honest' => Begun'
  BY <1>1, <1>2 DEF Begun, Of
<1>. QED  BY <1>4, <1>5, <1>6, <1>7

LEMMA Answer206Keeps == ASSUME Inv, Answer206  PROVE Inv'
<1>. USE DEF Inv
<1>1. /\ downloaded \in Nat /\ Size[remote] \in Nat /\ downloaded < Size[remote]
  BY Sizes DEF Answer206, TypeOK
<1>2. /\ total' = Announced(Size[remote] - downloaded) + downloaded
      /\ sizeBytes' \in {sizeBytes, total'} /\ sized' \in BOOLEAN
  BY DEF Answer206, Resize, Sizing
<1>3. /\ total' \in Nat /\ (sized' => total' = Size[remote])
  BY <1>1, <1>2 DEF Announced
<1>. DEFINE n == Size[remote] - downloaded
<1>4. n \in Nat /\ Size[remote] = downloaded + n
  BY <1>1
<1>. QED
  BY <1>1, <1>2, <1>3, <1>4, AnswerKeeps DEF Answer206

LEMMA Answer200Keeps == ASSUME Inv, Answer200  PROVE Inv'
<1>. USE DEF Inv
<1>1. Size[remote] \in Nat
  BY Sizes DEF TypeOK
<1>2. /\ total' = Announced(Size[remote])
      /\ sizeBytes' \in {sizeBytes, total'} /\ sized' \in BOOLEAN
  BY DEF Answer200, Resize, Sizing
<1>3. /\ total' \in Nat /\ (sized' => total' = Size[remote])
  BY <1>1, <1>2 DEF Announced
<1>. QED
  BY <1>1, <1>2, <1>3, AnswerKeeps DEF Answer200, Whole

LEMMA Answer416Keeps == ASSUME Inv, Answer416  PROVE Inv'
<1>. USE DEF Inv
<1>1. /\ pc = "request" /\ retried' = TRUE /\ ranged' = FALSE /\ downloaded' = 0
      /\ exists' = FALSE /\ file' = <<>> /\ inline = None
      /\ UNCHANGED <<remote, record, sizeBytes, landed, pinned, hashed, inline, faults, replaced,
                     unsized, pc, total, mode, body, sized, hasher>>
  BY DEF Answer416, server, given, past, answer, Staged
<1>2. TypeOK'
  BY ONLY TypeOK, <1>1, NoBytes DEF TypeOK
<1>3. BooksMatchDisk' /\ Counted' /\ Staged' /\ LandsWhole'
  BY <1>1 DEF BooksMatchDisk, Counted, Staged, LandsWhole, Whole, Bytes
<1>4. Honest' => Begun'
  BY <1>1, Sizes DEF Honest, Begun, Of, TypeOK
<1>. QED  BY <1>2, <1>3, <1>4

LEMMA OpenKeeps == ASSUME Inv, Open  PROVE Inv'
<1>. USE DEF Inv
<1>1. /\ pc = "open" /\ exists' = TRUE /\ file' = (IF mode = "ab" THEN file ELSE <<>>)
      /\ pc' = "stream" /\ inline = None
      /\ UNCHANGED <<remote, record, sizeBytes, landed, pinned, hashed, inline, faults, replaced,
                     unsized, downloaded, total, ranged, retried, mode, body, sized>>
  BY DEF Open, server, given, past, answer, Staged
<1>2. file' \in Seq(Version) /\ Len(file') \in Nat /\ downloaded = Len(file')
  BY <1>1, NoBytes DEF TypeOK, Counted
<1>3. hasher' \in {None, file'}
  <2>1. hasher' \in {None} \/ (hasher' = file /\ downloaded > 0)
        \/ (hasher' = <<>> /\ ~(downloaded > 0))
    BY DEF Open
  <2>2. downloaded > 0 => file' = file
    BY <1>1, <1>2 DEF Counted
  <2>3. ~(downloaded > 0) => file' = <<>>
    BY <1>2, EmptySeq DEF TypeOK
  <2>. QED  BY <2>1, <2>2, <2>3
<1>4. TypeOK'
  <2>1. hasher' \in Seq(Version) \cup {None}
    BY <1>2, <1>3
  <2>. QED  BY ONLY TypeOK, <1>1, <1>2, <2>1 DEF TypeOK
<1>5. BooksMatchDisk' /\ Counted' /\ Staged' /\ LandsWhole'
  BY <1>1, <1>2, <1>3 DEF BooksMatchDisk, Counted, Staged, LandsWhole, Whole, Bytes
<1>6. Honest' => Begun'
  BY <1>1, <1>2, Sizes DEF Honest, Begun, Of, TypeOK
<1>. QED  BY <1>4, <1>5, <1>6

LEMMA ChunkKeeps == ASSUME Inv, Chunk  PROVE Inv'
<1>. USE DEF Inv
<1>1. /\ pc = "stream" /\ body # <<>>
      /\ file' = Append(file, Head(body)) /\ body' = Tail(body)
      /\ downloaded' = downloaded + 1 /\ inline = None
      /\ UNCHANGED <<remote, exists, record, sizeBytes, landed, pinned, hashed, inline, faults,
                     replaced, unsized, pc, total, ranged, retried, mode, sized>>
  BY DEF Chunk, server, given, past, Staged
<1>2. /\ file' \in Seq(Version) /\ body' \in Seq(Version)
      /\ Len(file') = Len(file) + 1 /\ Len(file) \in Nat
      /\ Len(body') = Len(body) - 1 /\ Len(body) \in Nat
  BY <1>1 DEF TypeOK
<1>3. hasher' \in {None, file'}
  BY <1>1 DEF Chunk, BooksMatchDisk
<1>4. TypeOK'
  <2>1. hasher' \in Seq(Version) \cup {None}
    BY <1>2, <1>3
  <2>2. downloaded' \in Nat
    BY <1>1 DEF TypeOK
  <2>. QED  BY ONLY TypeOK, <1>1, <1>2, <2>1, <2>2 DEF TypeOK
<1>5. BooksMatchDisk' /\ Counted' /\ Staged' /\ LandsWhole'
  BY <1>1, <1>2, <1>3 DEF BooksMatchDisk, Counted, Staged, LandsWhole, Whole, Bytes, TypeOK
<1>6. ASSUME Honest'  PROVE Begun'
  <2>1. Honest /\ Begun
    BY <1>1, <1>6 DEF Honest
  <2>2. Of(file', pinned) /\ Of(body', pinned)
    BY <1>1, <2>1, AppendOf DEF Begun, TypeOK
  <2>3. downloaded = Len(file) /\ downloaded' + Len(body') = Size[pinned]
    BY <1>1, <1>2, <2>1 DEF Begun, BooksMatchDisk, TypeOK
  <2>4. Len(file') <= Size[pinned]
    BY <1>1, <1>2, <2>3
  <2>. QED  BY <1>1, <2>1, <2>2, <2>3, <2>4 DEF Begun, Of
<1>. QED  BY <1>4, <1>5, <1>6

LEMMA EndOfBodyKeeps == ASSUME Inv, EndOfBody  PROVE Inv'
<1>. USE DEF Inv
<1>1. /\ pc = "stream" /\ pc' = "received"
      /\ UNCHANGED <<remote, exists, file, record, sizeBytes, landed, pinned, hashed, inline,
                     faults, replaced, unsized, downloaded, total, ranged, retried, mode, body,
                     sized, hasher>>
  BY DEF EndOfBody, Stay, server, store, given, past, answer
<1>2. TypeOK'
  BY ONLY TypeOK, <1>1 DEF TypeOK
<1>3. BooksMatchDisk' /\ Counted' /\ Staged' /\ LandsWhole'
  BY <1>1 DEF BooksMatchDisk, Counted, Staged, LandsWhole, Whole, Bytes
<1>4. Honest' => Begun'
  BY <1>1 DEF Honest, Begun, Of
<1>. QED  BY <1>2, <1>3, <1>4

LEMMA SettleKeeps == ASSUME Inv, Settle  PROVE Inv'
<1>. USE DEF Inv
<1>1. CASE total > 0 /\ downloaded = total
  <2>1. Complete(hasher) /\ UNCHANGED <<server, given, past>>
    BY <1>1 DEF Settle
  <2>2. hasher \in {None, file} /\ downloaded = Len(file)
    BY DEF Settle, BooksMatchDisk
  <2>3. Honest => Len(file) = Size[pinned]
    BY <1>1, <2>2 DEF Settle, Begun
  <2>. QED  BY <2>1, <2>2, <2>3, CompleteKeeps
<1>2. CASE ~(total > 0 /\ downloaded = total)
  BY <1>2, StopKeeps DEF Settle, server, store, given, past, TypeOK
<1>. QED  BY <1>1, <1>2

LEMMA VerifyKeeps == ASSUME Inv, Verify  PROVE Inv'
BY GateKeeps DEF Inv, Verify, Staged

LEMMA NotesFailKeeps == ASSUME Inv, NotesFail  PROVE Inv'
<1>. USE DEF Inv
<1>1. /\ pc = "received" /\ pc' = "idle" /\ inline' = hasher
      /\ downloaded' = 0 /\ total' = 0 /\ ranged' = FALSE /\ retried' = FALSE
      /\ mode' = "wb" /\ body' = <<>> /\ sized' = TRUE /\ hasher' = None
      /\ faults' \in 0..MaxFaults
      /\ UNCHANGED <<remote, exists, file, record, sizeBytes, landed, pinned, hashed, replaced,
                     unsized>>
  BY HttpAssumption DEF NotesFail, Stop, Fault, TypeOK, server, store, given
<1>2. TypeOK'
  BY ONLY TypeOK, <1>1, NoBytes DEF TypeOK
<1>3. BooksMatchDisk' /\ Counted' /\ Staged' /\ LandsWhole'
  BY <1>1 DEF BooksMatchDisk, Counted, Staged, LandsWhole, Whole, Bytes
<1>4. Honest' => Begun'
  BY <1>1 DEF Honest, Begun, Of
<1>. QED  BY <1>2, <1>3, <1>4

\* The steps that only stop the coroutine.
LEMMA InterruptKeeps == ASSUME Inv, Pause \/ Restart \/ Error \/ Close  PROVE Inv'
<1>1. /\ Stop /\ UNCHANGED <<remote, exists, file, sizeBytes, landed, pinned, hashed, replaced,
                             unsized>>
      /\ record' \in {"kept", "none"} /\ inline' \in {None, inline}
  BY DEF Pause, Restart, Error, Close, server, store, given, past, Inv, TypeOK
<1>2. faults' \in 0..MaxFaults
  BY HttpAssumption DEF Pause, Restart, Error, Close, Fault, past, Inv, TypeOK
<1>3. replaced' \in BOOLEAN /\ unsized' \in BOOLEAN /\ remote' \in Version
  BY <1>1 DEF Inv, TypeOK
<1>. QED  BY <1>1, <1>2, <1>3, StopKeeps

LEMMA ReplaceKeeps == ASSUME Inv, Replace  PROVE Inv'
<1>. USE DEF Inv
<1>1. /\ remote' \in Version /\ replaced' = TRUE /\ faults' \in 0..MaxFaults
      /\ UNCHANGED <<exists, file, record, sizeBytes, landed, pinned, hashed, inline, unsized,
                     pc, downloaded, total, ranged, retried, mode, body, sized, hasher>>
  BY HttpAssumption DEF Replace, Fault, store, given, local, answer, TypeOK
<1>2. TypeOK'
  BY ONLY TypeOK, <1>1 DEF TypeOK
<1>3. BooksMatchDisk' /\ Counted' /\ Staged' /\ LandsWhole'
  BY <1>1 DEF BooksMatchDisk, Counted, Staged, LandsWhole, Whole, Bytes
<1>. QED  BY <1>1, <1>2, <1>3 DEF Honest

LEMMA InitInv == Init => Inv
<1>. SUFFICES ASSUME Init  PROVE Inv
  OBVIOUS
<1>1. pinned \in Version /\ Size[pinned] \in Nat /\ Size[pinned] > 0 /\ MaxFaults \in Nat
  BY HttpAssumption DEF Init
<1>2. TypeOK
  <2>1. sizeBytes \in Nat /\ faults \in 0..MaxFaults
    BY <1>1 DEF Init
  <2>2. /\ file \in Seq(Version) /\ body \in Seq(Version)
        /\ exists \in BOOLEAN /\ ranged \in BOOLEAN /\ retried \in BOOLEAN /\ sized \in BOOLEAN
        /\ replaced \in BOOLEAN /\ unsized \in BOOLEAN /\ hashed \in BOOLEAN
    BY NoBytes DEF Init
  <2>3. /\ landed \in Seq(Version) \cup {None} /\ inline \in Seq(Version) \cup {None}
        /\ hasher \in Seq(Version) \cup {None} /\ remote \in Version
    BY DEF Init
  <2>. QED  BY <1>1, <2>1, <2>2, <2>3 DEF Init, TypeOK
<1>3. BooksMatchDisk /\ Counted /\ Staged /\ LandsWhole
  BY DEF Init, BooksMatchDisk, Counted, Staged, LandsWhole
<1>4. Begun
  BY <1>1, NoBytes DEF Init, Begun, Of
<1>. QED  BY <1>2, <1>3, <1>4 DEF Inv

LEMMA StepInv == Inv /\ [Next]_vars => Inv'
<1>. SUFFICES ASSUME Inv, [Next]_vars  PROVE Inv'
  OBVIOUS
<1>1. CASE Next
  BY <1>1, BeginKeeps, Answer206Keeps, Answer200Keeps, Answer416Keeps, OpenKeeps, ChunkKeeps,
     EndOfBodyKeeps, SettleKeeps, VerifyKeeps, NotesFailKeeps, InterruptKeeps, ReplaceKeeps
     DEF Next, Transfer
<1>2. CASE UNCHANGED vars
  <2>1. UNCHANGED <<remote, exists, file, record, sizeBytes, landed, pinned, hashed, inline, pc,
                    downloaded, total, ranged, retried, mode, body, sized, hasher, faults,
                    replaced, unsized>>
    BY <1>2 DEF vars, server, store, given, local, answer, past
  <2>2. TypeOK'
    BY ONLY TypeOK, Inv, <2>1 DEF TypeOK, Inv
  <2>3. BooksMatchDisk' /\ Counted' /\ Staged' /\ LandsWhole'
    BY <2>1 DEF Inv, BooksMatchDisk, Counted, Staged, LandsWhole, Whole, Bytes
  <2>4. Honest' => Begun'
    BY <2>1 DEF Inv, Honest, Begun, Of
  <2>. QED  BY <2>2, <2>3, <2>4 DEF Inv
<1>. QED  BY <1>1, <1>2

-----------------------------------------------------------------------------
(* The properties *)

LEMMA Invariance == Spec => []Inv
BY InitInv, StepInv, PTL DEF Spec

\* Every variable keeps its type.
THEOREM TypeCorrect == Spec => []TypeOK
<1>1. Inv => TypeOK
  BY DEF Inv
<1>. QED  BY <1>1, Invariance, PTL

\* download_model_file_http and _download_complete: what enters the library is the
\* version the page described, whole, for objects of any size and whatever pauses,
\* restarts, refused or ignored ranges and inexact sizes there were.
THEOREM WholeOrNothing == Spec => []LandsWhole
<1>1. Inv => LandsWhole
  BY DEF Inv
<1>. QED  BY <1>1, Invariance, PTL

\* The count, the hasher and the staged digest are those of the bytes on disk.
THEOREM BooksKept == Spec => []BooksMatchDisk
<1>1. Inv => BooksMatchDisk
  BY DEF Inv
<1>. QED  BY <1>1, Invariance, PTL

\* rename_model never replaces a file: what has landed stays.
THEOREM LandedStays == Spec => LandedKept
<1>1. [Next]_vars => [landed # None => landed' = landed]_vars
  BY DEF Next, Begin, Transfer, Answer206, Answer200, Answer416, Open, Chunk, EndOfBody, Settle,
         Verify, Close, NotesFail, Pause, Restart, Error, Replace, Complete, Gate, Reject, Collide,
         Land, Stay, store, vars
<1>. QED  BY <1>1, PTL DEF Spec, LandedKept
================================================================================
