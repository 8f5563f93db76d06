------------------------------ MODULE ZipnnConfirm ------------------------------
(***************************************************************************)
(* Asking before a ZipNN task: the corner button of a card and the window  *)
(* of a model (CardCornerControls.vue, DialogModelDetail.vue), which ask   *)
(* through confirmSingleZipnn of hooks/zipnn.ts.  What the header of the   *)
(* file holds is read meanwhile, and changes the question when it comes;   *)
(* the page has one question at a time, and a bulk delete may take its     *)
(* place (hooks/toast.ts).                                                 *)
(***************************************************************************)
EXTENDS Naturals, FiniteSets

CONSTANTS
  Plain,       \* safetensors models, which are compressed
  Packed,      \* compressed models
  Delta,       \* deltas, restored through their base model
  Folder,      \* folders, for a batch
  Extended,    \* the plain models with types the official tools do not read
  MaxAsked,    \* bounds the questions
  Nothing      \* no question, no list of types

\* Every entry is of one of the four, and no question is "no question".
ConfirmAssumption ==
  /\ Extended \subseteq Plain /\ MaxAsked \in Nat
  /\ Plain \cap (Packed \cup Delta \cup Folder) = {} /\ Packed \cap (Delta \cup Folder) = {}
  /\ \A kind \in {"compress", "decompress", "delta", "batch", "delete"} :
     \A i \in Plain \cup Packed \cup Delta \cup Folder : \A m \in Plain \cup {Nothing} :
       Nothing # [kind |-> kind, of |-> i, listed |-> m]

VARIABLES
  options,    \* confirmState.options: the question on the screen
  epoch,      \* confirmEpoch
  settled,    \* the epochs whose question was answered
  inspects,   \* the header reads in flight: the model and the epoch
  running,    \* the task that is under way, by model
  displaced   \* the last question of this module was replaced before its answer

confirmVars == <<options, epoch, settled, inspects, running, displaced>>

Models == Plain \cup Packed \cup Delta
Items  == Models \cup Folder
Kind(i) == CASE i \in Plain -> "compress" [] i \in Packed -> "decompress"
             [] i \in Delta -> "delta" [] i \in Folder -> "batch"

\* A question: what it asks, of what, and whose types its message lists.
Question(kind, of) == [kind |-> kind, of |-> of, listed |-> Nothing]

TypeOK ==
  /\ options = Nothing \/ options \in
       [kind : {"compress", "decompress", "delta", "batch", "delete"}, of : Items,
        listed : Plain \cup {Nothing}]
  /\ epoch \in 0..MaxAsked /\ settled \subseteq 1..MaxAsked
  /\ inspects \subseteq [model : Plain, epoch : 1..MaxAsked]
  /\ running \in Items \cup {Nothing} /\ displaced \in BOOLEAN

Init ==
  /\ options = Nothing /\ epoch = 0 /\ settled = {} /\ inspects = {}
  /\ running = Nothing /\ displaced = FALSE

\* requestZipnn: a folder or a delta is asked about at once; the button of a model is
\* off while a task runs for it.
RequestOther(i) ==
  /\ options = Nothing /\ i \in Delta \cup Folder /\ running # i
  /\ options' = Question(Kind(i), i)
  /\ UNCHANGED <<epoch, settled, inspects, running, displaced>>

\* confirmSingleZipnn; a compression has the header read meanwhile.
ConfirmSingleZipnn(m) ==
  /\ options = Nothing /\ m \in Plain \cup Packed /\ running # m /\ epoch < MaxAsked
  /\ options' = Question(Kind(m), m) /\ epoch' = epoch + 1
  /\ inspects' = inspects \cup {[model |-> m, epoch |-> epoch'] : p \in {m} \cap Plain}
  /\ displaced' = FALSE
  /\ UNCHANGED <<settled, running>>

\* Mutant of Upgrades: whichever question is open.
UpgradesAny(i) == i.epoch \notin settled /\ options # Nothing

\* Only the last question, unless it was answered.
Upgrades(i) == i.epoch = epoch /\ i.epoch \notin settled /\ options # Nothing

\* The header holds other types, or not, or cannot be read.
InspectAnswered(i) ==
  /\ i \in inspects /\ inspects' = inspects \ {i}
  /\ \E failed \in BOOLEAN :
       options' = IF ~failed /\ i.model \in Extended /\ Upgrades(i)
                  THEN [options EXCEPT !.listed = i.model] ELSE options
  /\ UNCHANGED <<epoch, settled, running, displaced>>

\* The epoch of the question on the screen, which only the last one can be.
OwnEpoch == IF options.kind \in {"compress", "decompress"} THEN {epoch} ELSE {}

\* settle("accept"): the task of what was asked about begins, unless another is under
\* way; a delete goes its own way.
Accept ==
  /\ options # Nothing /\ options' = Nothing /\ settled' = settled \cup OwnEpoch
  /\ running' = IF options.kind # "delete" /\ running = Nothing THEN options.of ELSE running
  /\ UNCHANGED <<epoch, inspects, displaced>>

Reject ==
  /\ options # Nothing /\ options' = Nothing /\ settled' = settled \cup OwnEpoch
  /\ UNCHANGED <<epoch, inspects, running, displaced>>

\* The loop of a bulk delete asks about its next model, whatever is on the screen.
Displace(i) ==
  /\ options' = Question("delete", i)
  /\ displaced' = (displaced \/ (options # Nothing /\ OwnEpoch # {}))
  /\ UNCHANGED <<epoch, settled, inspects, running>>

TaskOver ==
  /\ running # Nothing /\ running' = Nothing
  /\ UNCHANGED <<options, epoch, settled, inspects, displaced>>

Next ==
  \/ \E i \in Items : RequestOther(i) \/ ConfirmSingleZipnn(i) \/ Displace(i)
  \/ \E i \in inspects : InspectAnswered(i)
  \/ Accept \/ Reject \/ TaskOver

Spec == Init /\ [][Next]_confirmVars

-----------------------------------------------------------------------------
\* The invariant that OwnTypesListed rests on: the reads of the last epoch are of the
\* model of the question on the screen, if that one is it, and the last epoch is settled
\* where another kind of question is there, unless that one took its place.
ConfirmInv ==
  /\ epoch \in Nat /\ \A i \in inspects : i.epoch \in 1..epoch
  /\ settled \subseteq 1..epoch
  /\ options # Nothing => options \in
       [kind : {"compress", "decompress", "delta", "batch", "delete"}, of : Items,
        listed : Plain \cup {Nothing}]
  /\ IF options # Nothing /\ options.kind \in {"compress", "decompress"}
       THEN /\ epoch # 0
            /\ \A i \in inspects : i.epoch = epoch => options.kind = "compress" /\ options.of = i.model
       ELSE ~displaced => epoch = 0 \/ epoch \in settled
  /\ options # Nothing /\ options.listed # Nothing =>
       \/ options.kind = "compress" /\ options.listed = options.of
       \/ displaced /\ options.kind \notin {"compress", "decompress"}

\* "Only upgrade THIS dialog" (hooks/zipnn.ts): a question to compress lists no other
\* model's types, and no other question lists any, unless it has taken the place of one
\* that was not answered.
OwnTypesListed ==
  options # Nothing /\ options.listed # Nothing =>
    \/ options.kind = "compress" /\ options.listed = options.of
    \/ displaced /\ options.kind \notin {"compress", "decompress"}
================================================================================
