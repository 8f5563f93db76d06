-------------------------------- MODULE Editor --------------------------------
(***************************************************************************)
(* The form of an open model: useModelFormData, useModelBaseInfoEditor and *)
(* updateModel of src/hooks/model.ts, with ModelContent.vue,               *)
(* ModelBaseInfo.vue, ModelDescription.vue and DialogModelDetail.vue, and  *)
(* update_model of py/manager.py.  The preview gallery is Gallery's.       *)
(*                                                                         *)
(* The overlay covers the window while a save is under way.  A folder is   *)
(* the sequence of its segments, so that what a save normalises is whole.  *)
(***************************************************************************)
EXTENDS Naturals, Sequences

CONSTANTS
  Kinds,       \* the model types
  Roots,       \* the number of base directories of every type
  Segments,    \* the names of sub-folders
  Names,       \* the names a file may get
  Notes,       \* the texts of its notes
  Home,        \* the place of the file when its window is opened
  Taken,       \* the places of other files
  NoNotes      \* the notes of a form that has not read them

Folders == {<<>>} \cup {<<s>> : s \in Segments} \cup (Segments \X Segments)
Places  == [type : Kinds, index : 0..Roots - 1, sub : Folders, name : Names]

\* What the constants have to satisfy.
EditorAssumption ==
  /\ Roots \in Nat
  /\ Home \in Places /\ Taken \subseteq Places \ {Home} /\ NoNotes \notin Notes

VARIABLES
  file,       \* on disk: the place of the file and its notes
  model,      \* props.model: the place the listing gave the window
  extra,      \* extraInfo: the notes read when the window was opened
  form,       \* formData; prefix is what the name field has before the name
  clean,      \* dirtySnapshot
  edits,      \* editable
  reflect,    \* pendingReflect
  request,    \* the PUT under way: what it sets, and how far it has come
  closed,     \* the window is gone
  touched,    \* history: the user has changed a field since the form was filled
  failed,     \* history: a save has failed since then
  retyped     \* history: a reset has taken a type back

fields     == <<form, clean, edits>>
history    == <<touched, failed, retyped>>
editorVars == <<file, model, extra, fields, reflect, request, closed, history>>

Forms  == [at : Places, prefix : Folders, notes : Notes \cup {NoNotes}]
NoPut  == [at |-> "none", place |-> Home, notes |-> NoNotes]

TypeOK ==
  /\ file \in [at : Places, notes : Notes] /\ model \in Places
  /\ extra \in Notes \cup {NoNotes}
  /\ form \in Forms /\ clean \in Forms
  /\ {edits, reflect, closed, touched, failed, retyped} \subseteq BOOLEAN
  /\ request.at \in {"none", "sent", "done", "failed"}

\* modelContent: the listing's model with what the read added.
Content == [at |-> model, prefix |-> <<>>, notes |-> extra]

Init ==
  /\ file \in [at : {Home}, notes : Notes]
  /\ model = Home /\ extra = NoNotes
  /\ form = Content /\ clean = Content /\ edits = FALSE
  /\ reflect = FALSE /\ request = NoPut
  /\ closed = FALSE /\ touched = FALSE /\ failed = FALSE /\ retyped = FALSE

Idle == ~closed /\ request.at = "none"

\* The watcher of the type empties the sub-folder whenever the type has changed,
\* by whatever hand, after the handler that changed it.
Watched(old, new) == IF old.at.type = new.at.type THEN new ELSE [new EXCEPT !.at.sub = <<>>]

\* Mutant of ResetTo: the form keeps what was typed.
SnapshotOnly(c) ==
  /\ form' = form /\ clean' = c /\ edits' = FALSE
  /\ touched' = FALSE /\ failed' = FALSE /\ UNCHANGED retyped

\* handleReset: the form becomes c, the snapshot is taken before the watcher runs,
\* and handleCancel ends the edit mode.
ResetTo(c) ==
  /\ form' = Watched(form, c) /\ clean' = c /\ edits' = FALSE
  /\ retyped' = (retyped \/ form.at.type # c.at.type)
  /\ touched' = FALSE /\ failed' = FALSE

-----------------------------------------------------------------------------
(* The user *)

\* The snapshot is taken when the edit mode begins.
Edit ==
  /\ Idle /\ ~edits
  /\ edits' = TRUE /\ clean' = form
  /\ UNCHANGED <<file, model, extra, form, reflect, request, closed, history>>

\* A field of the form is committed.
Change(f) ==
  /\ Idle /\ edits /\ f # form
  /\ form' = Watched(form, f) /\ touched' = TRUE
  /\ UNCHANGED <<file, model, extra, clean, edits, reflect, request, closed, failed, retyped>>

SetType(t)       == Change([form EXCEPT !.at.type = t, !.at.index = 0])
\* handleConfirmSelectFolder: i and s are what it makes of the folder that was clicked,
\* the first base directory that is part of its path, and the rest.
PickFolder(i, s) == Change([form EXCEPT !.at.index = i, !.at.sub = s])
SetName(p, n)    == Change([form EXCEPT !.prefix = p, !.at.name = n])
SetNotes(d)      == form.notes # NoNotes /\ Change([form EXCEPT !.notes = d])

\* handleCancelClick; a form that differs from the snapshot is given up in a
\* confirmation first.
Cancel ==
  /\ Idle /\ edits
  /\ ResetTo(Content)
  /\ UNCHANGED <<file, model, extra, reflect, request, closed>>

\* submit: the prefix of the name is a folder below the sub-folder.
Submitted == [form.at EXCEPT !.sub = @ \o form.prefix]

\* Mutant of Differs: the name of the file is not compared.
DiffersInFolder(place) == [place EXCEPT !.name = model.name] # model

\* buildUpdatePayload compares every part of the place.
Differs(place) == place # model

\* handleSave.  What did not change is not sent; when nothing is, the answer of
\* update is the end of it, and pendingReflect stays.
Save ==
  /\ Idle /\ edits /\ Submitted \in Places
  /\ reflect' = TRUE
  /\ IF Differs(Submitted) \/ form.notes # Content.notes
       THEN /\ request' = [at    |-> "sent",
                           place |-> IF Differs(Submitted) THEN Submitted ELSE model,
                           notes |-> IF form.notes = Content.notes THEN NoNotes ELSE form.notes]
            /\ UNCHANGED edits
       ELSE edits' = FALSE /\ UNCHANGED request
  /\ UNCHANGED <<file, model, extra, form, clean, closed, history>>

-----------------------------------------------------------------------------
(* The backend *)

\* update_model writes the notes first; the move may then find a file in its way,
\* and the notes stay written.
SaveLands ==
  /\ request.at = "sent"
  /\ IF file.at # model
       THEN request' = [request EXCEPT !.at = "failed"] /\ UNCHANGED file
       ELSE LET notes == IF request.notes = NoNotes THEN file.notes ELSE request.notes IN
            IF request.place \in Taken
              THEN file' = [file EXCEPT !.notes = notes] /\ request' = [request EXCEPT !.at = "failed"]
              ELSE file' = [at |-> request.place, notes |-> notes] /\ request' = [request EXCEPT !.at = "done"]
  /\ UNCHANGED <<model, extra, fields, reflect, closed, history>>

\* The answer gets lost, or the preview of the request could not be read.
SaveFails ==
  /\ request.at = "sent"
  /\ request' = [request EXCEPT !.at = "failed"]
  /\ UNCHANGED <<file, model, extra, fields, reflect, closed, history>>

\* updateModel returns or throws.  A move closes the window by its old key; the
\* edit mode ends in any case, and a failure keeps the form.
SaveAnswered ==
  /\ request.at \in {"done", "failed"}
  /\ request' = NoPut /\ edits' = FALSE
  /\ reflect' = (reflect /\ request.at = "done")
  /\ closed' = (request.at = "done" /\ request.place # model)
  /\ failed' = (failed \/ request.at = "failed")
  /\ UNCHANGED <<file, model, extra, form, clean, touched, retyped>>

\* The file is moved by somebody else.
MovedElsewhere(n) ==
  /\ ~closed /\ file.at = Home
  /\ [Home EXCEPT !.name = n] \notin Taken
  /\ file' = [file EXCEPT !.at.name = n]
  /\ UNCHANGED <<model, extra, fields, reflect, request, closed, history>>

-----------------------------------------------------------------------------
(* The page *)

\* The one read of the window is answered, which replaces the content.
ExtraArrives ==
  /\ ~closed /\ extra = NoNotes /\ file.at = model
  /\ extra' = file.notes
  /\ ResetTo([Content EXCEPT !.notes = file.notes])
  /\ UNCHANGED <<file, model, reflect, request, closed>>

\* A scan of the folder lands.  The first one that has the model after a save
\* gives the window the model it found, whoever asked for the scan.
ScanLands ==
  /\ ~closed
  /\ IF reflect /\ file.at = model
       THEN reflect' = FALSE /\ ResetTo(Content)
       ELSE UNCHANGED <<reflect, fields, history>>
  /\ UNCHANGED <<file, model, extra, request, closed>>

Next ==
  \/ Edit \/ Cancel \/ Save
  \/ \E t \in Kinds : SetType(t)
  \/ \E i \in 0..Roots - 1, s \in {<<>>} \cup {<<x>> : x \in Segments} : PickFolder(i, s)
  \/ \E p \in {<<>>} \cup {<<x>> : x \in Segments}, n \in Names : SetName(p, n)
  \/ \E d \in Notes : SetNotes(d)
  \/ SaveLands \/ SaveFails \/ SaveAnswered
  \/ \E n \in Names : MovedElsewhere(n)
  \/ ExtraArrives \/ ScanLands

Spec == Init /\ [][Next]_editorVars

-----------------------------------------------------------------------------
\* A form the user has not touched since it was filled is not sent, whatever
\* resets, failed saves and scans came in between, unless a reset took a type back
\* (its watcher has emptied the sub-folder then).
SendsOnlyEdits ==
  request.at = "none" /\ request'.at = "sent" /\ ~touched /\ ~retyped
    => request'.place = model /\ request'.notes = NoNotes

\* An edit mode that a save ends without a failure has left nothing behind: the
\* file is where the form says and has the notes the user wrote into it.
LeavesNothing ==
  edits /\ ~edits' /\ form' = form /\ request.at # "failed" /\ ~retyped'
    => \/ file.at.name # Submitted.name /\ file.at.name # model.name      \* moved elsewhere
       \/ file.at = Submitted /\ form.notes \in {extra, file.notes}

\* A Cancel that does not ask gives up nothing of the user's, unless a save has
\* failed: the next edit mode takes its snapshot of what that save had to write.
CancelAsks ==
  Cancel /\ form = clean /\ ~failed /\ ~retyped
    => Submitted = model /\ form.notes \in {extra, file.notes}

\* What a save of the form does is what the user did to it, and no more.
SavesTheEdits == SendsOnlyEdits /\ LeavesNothing /\ CancelAsks

-----------------------------------------------------------------------------
(* The invariant of its proof *)

\* A form a save would change nothing by.
Kept(f) == [f.at EXCEPT !.sub = @ \o f.prefix] = model /\ f.notes \in {extra, file.notes}

\* The file is where the window was opened, or where somebody else renamed it to.
NotMoved == \E n \in Names : file.at = [Home EXCEPT !.name = n]

\* What the PUT under way asks for is what the form has, as long as the edit mode
\* lasts; a reset in between has filled the form from the model.
Carried ==
  /\ request \in [at : {"none", "sent", "done", "failed"}, place : Places, notes : Notes \cup {NoNotes}]
  /\ request.at # "none" =>
       /\ ~closed
       /\ edits => /\ request.place = Submitted
                   /\ request.notes = IF form.notes = extra THEN NoNotes ELSE form.notes
       /\ ~edits /\ ~retyped => form = Content
  /\ request.at = "done" =>
       /\ file.at = request.place \/ (request.place = Home /\ NotMoved)
       /\ request.notes \in {NoNotes, file.notes}
  /\ ~closed /\ request.at # "done" => NotMoved

\* The form outside an edit mode, and the snapshot within one, is what is there
\* already, until a save fails.
NothingLeft ==
  /\ form.notes = NoNotes => extra = NoNotes
  /\ ~touched /\ ~retyped => form = Content
  /\ ~edits /\ ~failed /\ ~retyped /\ ~closed => Kept(form)
  /\ edits /\ ~failed /\ ~retyped /\ request.at = "none" => Kept(clean)

EditorInv == TypeOK /\ model = Home /\ Carried /\ NothingLeft
===============================================================================
