------------------------------- MODULE Gallery -------------------------------
(***************************************************************************)
(* The preview gallery of a model's editor: useModelPreviewEditor of       *)
(* src/hooks/model.ts and src/components/ModelPreview.vue.  Indices count  *)
(* from 0, as in the code.                                                 *)
(***************************************************************************)
EXTENDS Integers, FiniteSets, Sequences, SequencesExt

CONSTANTS
  Saved,     \* the previews of the model, in order, the primary one first
  Local      \* the image files that can be added

\* What the constants have to satisfy.
GalleryAssumption ==
  /\ Saved \in Seq(Range(Saved)) /\ IsInjective(Saved)
  /\ IsFiniteSet(Local) /\ Range(Saved) \cap Local = {}

VARIABLES
  content,   \* defaultContent
  page,      \* defaultContentPage: what the read mode looks at
  ring,      \* selectedPrimary: what a save makes the primary preview
  editing    \* editable

galleryVars == <<content, page, ring, editing>>

Count == Len(content)
At(i) == content[i + 1]
Min0(a, b) == IF a < b THEN a ELSE b

TypeOK ==
  /\ content \in Seq(Range(Saved) \cup Local) /\ IsInjective(content)
  /\ page \in 0..Len(Saved) + Cardinality(Local) /\ ring \in 0..Len(Saved) + Cardinality(Local)
  /\ editing \in BOOLEAN

Init == content = Saved /\ page = 0 /\ ring = 0 /\ editing = FALSE

\* Edit mode starts from the primary preview, whatever the read mode looked at.
Edit ==
  /\ ~editing
  /\ editing' = TRUE /\ page' = 0 /\ ring' = 0
  /\ UNCHANGED content

\* The callback of a reset, which ends the edit mode.
Reset ==
  /\ editing
  /\ content' = Saved /\ page' = 0 /\ ring' = 0 /\ editing' = FALSE

\* stepPage, from the entry the preview area shows.
Shown == IF editing THEN ring ELSE page

StepPage(delta) ==
  /\ Count > 1
  /\ page' = (Shown + delta) % Count
  /\ ring' = IF editing THEN page' ELSE ring
  /\ UNCHANGED <<content, editing>>

\* A click on a tile, which only the edit mode shows.
PickPage(i) ==
  /\ editing
  /\ page' = i /\ ring' = i
  /\ UNCHANGED <<content, editing>>

\* Mutant of RingMoved: the ring stays where it is.
RingKept(i, target) == ring

\* The ring after the entries i and target have changed places.
RingMoved(i, target) == IF ring = i THEN target ELSE IF ring = target THEN i ELSE ring

MovePreview(i, target) ==
  /\ editing
  /\ content' = [content EXCEPT ![i + 1] = At(target), ![target + 1] = At(i)]
  /\ page' = target /\ ring' = RingMoved(i, target)
  /\ UNCHANGED editing

RemovePreview(i) ==
  LET left == IF Count = 1 THEN 0 ELSE Count - 2 IN      \* the last index that is left
  /\ editing
  /\ content' = RemoveAt(content, i + 1)
  /\ page' = Min0(page, left)
  /\ ring' = IF ring > i THEN ring - 1 ELSE Min0(ring, left)
  /\ UNCHANGED editing

\* pickPreviewFiles: the files go to the end, and the last one is looked at.
AddLocal(files) ==
  /\ editing /\ files # <<>> /\ Range(files) \cap Range(content) = {}
  /\ content' = content \o files
  /\ page' = Len(content') - 1
  /\ UNCHANGED <<ring, editing>>

\* The gallery submit sends: the entry of the ring comes first.
Submitted ==
  IF ring > 0 /\ ring < Count THEN <<At(ring)>> \o RemoveAt(content, ring + 1) ELSE content

Next ==
  \/ Edit \/ Reset
  \/ \E delta \in {1, Count - 1} : StepPage(delta)
  \/ \E i \in 0..Count - 1 :
       PickPage(i) \/ RemovePreview(i)
       \/ \E target \in {i - 1, i + 1} \cap 0..Count - 1 : MovePreview(i, target)
  \/ \E S \in SUBSET Local : \E files \in SetToSeqs(S) : AddLocal(files)

Spec == Init /\ [][Next]_galleryVars

-----------------------------------------------------------------------------
\* "The ring stays glued to the SAME image" through every reorder, removal and
\* addition of the others, so that the primary preview a save submits changes
\* only when the user picks another or removes it; and none is lost on the way.
PrimaryKept ==
  editing /\ editing' /\ Count > 0 /\ ring < Count /\ At(ring) \in Range(content')
    => \/ Head(Submitted') = At(ring) /\ ToSet(Submitted') = ToSet(content')
       \/ \E i \in 0..Count - 1 : PickPage(i)
       \/ \E delta \in {1, Count - 1} : StepPage(delta)

-----------------------------------------------------------------------------
\* The invariant of its proof: no image is there twice, so that "the same image" is one.
GalleryInv ==
  /\ content \in Seq(Range(Saved) \cup Local) /\ IsInjective(content)
  /\ page \in Nat /\ ring \in Nat
================================================================================
