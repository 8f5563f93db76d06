-------------------------------- MODULE Lightbox --------------------------------
(***************************************************************************)
(* The full-screen viewer of a model's previews (PreviewLightbox.vue, as   *)
(* ModelPreview.vue opens it), and the generation metadata it asks for.    *)
(***************************************************************************)
EXTENDS Integers, Sequences, Functions

CONSTANTS
  Galleries,  \* the galleries a model may have, one after the other: sequences of images
  None,       \* no image, no metadata
  MaxAsked    \* bounds the requests in flight

LightboxAssumption == (\A g \in Galleries : None \notin Range(g)) /\ MaxAsked \in Nat

VARIABLES
  items,    \* lightboxItems
  page,     \* displayPage of the preview below
  version,  \* the model page names a version: civitaiVersionId
  open,     \* lightboxOpen
  index,    \* lightboxIndex
  meta,     \* the image whose metadata is shown
  asked,    \* the requests in flight, by the image they are for
  crossed   \* the image came while the metadata of another was still asked for

lightboxVars == <<items, page, version, open, index, meta, asked, crossed>>

Images  == UNION {Range(g) : g \in Galleries}
Current == IF index < Len(items) THEN items[index + 1] ELSE None

TypeOK ==
  /\ items \in Galleries /\ page \in Nat /\ index \in Nat
  /\ version \in BOOLEAN /\ open \in BOOLEAN /\ crossed \in BOOLEAN
  /\ meta \in Images \cup {None} /\ asked \in Seq(Images)

Init ==
  /\ items \in Galleries /\ page = 0 /\ version \in BOOLEAN
  /\ open = FALSE /\ index = 0 /\ meta = None /\ asked = <<>> /\ crossed = FALSE

\* Mutant of Watched: what is shown stays until the answer comes.
WatchedKeeping ==
  LET asks == open' /\ version' /\ Current' # None IN
  IF <<open, index, version, Current>>' = <<open, index, version, Current>>
  THEN UNCHANGED <<meta, asked, crossed>>
  ELSE /\ meta' = meta /\ (asks => Len(asked) < MaxAsked)
       /\ asked' = IF asks THEN Append(asked, Current') ELSE asked
       /\ crossed' = (asked # <<>>)

\* The watcher: whenever what is shown changes, the metadata goes, and that of the new
\* image is asked for.
Watched ==
  LET asks == open' /\ version' /\ Current' # None IN
  IF <<open, index, version, Current>>' = <<open, index, version, Current>>
  THEN UNCHANGED <<meta, asked, crossed>>
  ELSE /\ meta' = None /\ (asks => Len(asked) < MaxAsked)
       /\ asked' = IF asks THEN Append(asked, Current') ELSE asked
       /\ crossed' = (asked # <<>>)

\* openLightbox: from the page that the preview shows.
OpenLightbox ==
  /\ ~open /\ items # <<>>
  /\ open' = TRUE /\ index' = IF Len(items) > 1 THEN page ELSE 0
  /\ UNCHANGED <<items, page, version>> /\ Watched

\* The button, the backdrop, or Escape
Close ==
  /\ open /\ open' = FALSE
  /\ UNCHANGED <<items, page, version, index>> /\ Watched

\* prev and next, by the buttons or the arrows, which a single image does not have
Step(delta) ==
  /\ open /\ Len(items) > 1
  /\ index' = (index + delta) % Len(items)
  /\ UNCHANGED <<items, page, version, open>> /\ Watched

\* Below, the preview is paged; the viewer covers it while it is open.
PageBelow(to) ==
  /\ ~open /\ page' = to
  /\ UNCHANGED <<items, version, open, index>> /\ Watched

\* The model is swapped or read again under the viewer: another gallery, another page.
ModelReplaced(gallery, named) ==
  /\ items' = gallery /\ version' = named /\ page' = 0
  /\ UNCHANGED <<open, index>> /\ Watched

\* An answer is shown as it comes: the metadata, or that there is none.
Answered(i) ==
  /\ \E found \in BOOLEAN : meta' = IF found THEN asked[i] ELSE None
  /\ asked' = SubSeq(asked, 1, i - 1) \o SubSeq(asked, i + 1, Len(asked))
  /\ UNCHANGED <<items, page, version, open, index, crossed>>

Next ==
  \/ OpenLightbox \/ Close
  \/ \E delta \in {1, Len(items) - 1} : Step(delta)
  \/ \E to \in 0..Len(items) - 1 : PageBelow(to)
  \/ \E gallery \in Galleries, named \in BOOLEAN : ModelReplaced(gallery, named)
  \/ \E i \in DOMAIN asked : Answered(i)

Spec == Init /\ [][Next]_lightboxVars

-----------------------------------------------------------------------------
\* "image left / meta right" (PreviewLightbox.vue): the metadata is that of the image
\* it stands beside, unless the answer for another was still to come.
MetaBelongs == meta # None /\ open /\ ~crossed => meta = Current

\* The invariant: unless a request was passed on the way, none but that for the image that
\* is shown is under way, and nothing is shown before it is answered.
LightboxInv ==
  ~crossed => \/ asked = <<>> /\ meta \in {None, Current}
              \/ asked = <<Current>> /\ meta = None
================================================================================
