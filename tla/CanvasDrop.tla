------------------------------- MODULE CanvasDrop -------------------------------
(***************************************************************************)
(* Models on the canvas of ComfyUI: dragged onto it (utils/modelGrid.ts)   *)
(* or added by the button of a card (useModelNodeAction of hooks/model.ts).*)
(* A drop on a node looks for the combos that list the model; where it     *)
(* finds none, a loader of the model's type is added.  Embeddings, which   *)
(* are dropped on text, are left out.                                      *)
(***************************************************************************)
EXTENDS Naturals, FiniteSets, Sequences, Functions

CONSTANTS
  Path,       \* the models
  TypeOf,
  NodeKind,   \* the kinds of nodes
  Widgets,    \* for each kind what its widgets list; {} is not a combo
  DropKind,   \* MODEL_NODE_TYPE: the kind that a drop adds for a type, or Nothing
  ClickKind,  \* the kind that the button adds
  MaxNodes,   \* bounds the nodes
  Nothing

\* The loader that a drop adds has a widget.
DropAssumption ==
  /\ Widgets \in [NodeKind -> Seq(SUBSET Path)] /\ MaxNodes \in Nat \ {0}
  /\ \A p \in Path :
       /\ {DropKind[TypeOf[p]], ClickKind[TypeOf[p]]} \subseteq NodeKind \cup {Nothing}
       /\ DropKind[TypeOf[p]] # Nothing => Widgets[DropKind[TypeOf[p]]] # <<>>

VARIABLES
  canvas,    \* the nodes of the graph: kind and the value of each widget
  selected,  \* the node that is selected last, or 0
  odd        \* history: the widgets [node, index] written without a look at their list

canvasVars == <<canvas, selected, odd>>

Places(kind) == DOMAIN Widgets[kind]
Fresh(kind)  == [kind |-> kind, held |-> [i \in Places(kind) |-> Nothing]]

TypeOK ==
  /\ Len(canvas) <= MaxNodes /\ selected \in 0..MaxNodes
  /\ \A n \in Range(canvas) : n.kind \in NodeKind /\ n.held \in [Places(n.kind) -> Path \cup {Nothing}]
  /\ \A o \in odd : o.node \in DOMAIN canvas /\ o.index \in Places(canvas[o.node].kind)

Init == \E kind \in NodeKind : canvas = <<Fresh(kind)>> /\ selected = 0 /\ odd = {}

-----------------------------------------------------------------------------
\* getWidgetComboIndices
Matching(n, p) == {i \in Places(canvas[n].kind) : p \in Widgets[canvas[n].kind][i]}

\* Mutant of DropIndex: the widget under the pointer, whatever it lists.
DropIndexUnder(n, p, under) == under

\* The widgets that count among several: a place is not an index.
Counted(n, p) == Cardinality(Matching(n, p)) > 1

\* resolveDropWidgetIndex: the combo that lists the model; of several, the place among
\* them of the one under the pointer.  0 is none.
DropIndex(n, p, under) ==
  LET found == Matching(n, p) IN
  IF found = {} THEN 0
  ELSE IF ~Counted(n, p) THEN CHOOSE i \in found : TRUE
  ELSE IF under \in found THEN Cardinality({i \in found : i <= under}) ELSE 0

Added(kind, index, p) ==
  /\ canvas' = Append(canvas, [Fresh(kind) EXCEPT !.held[index] = p])
  /\ selected' = Len(canvas')
  /\ odd' = odd \cup {[node |-> Len(canvas'), index |-> index]}

\* dragAddModel on a node, at a widget or beside all (0); n = 0 is the empty canvas.
Drop(p, n, under) ==
  LET index == IF n = 0 THEN 0 ELSE DropIndex(n, p, under)
      kind  == DropKind[TypeOf[p]] IN
  IF index # 0
    THEN /\ canvas' = [canvas EXCEPT ![n].held[index] = p]
         /\ selected' = n
         /\ odd' = IF Counted(n, p) THEN odd \cup {[node |-> n, index |-> index]} ELSE odd
    ELSE kind # Nothing /\ Len(canvas) < MaxNodes /\ Added(kind, 1, p)

\* addModelNode: the first combo of a loader (each has one), whatever it lists.
AddModelNode(p) ==
  LET kind   == ClickKind[TypeOf[p]]
      combos == IF kind = Nothing THEN {} ELSE {i \in Places(kind) : Widgets[kind][i] # {}} IN
  /\ combos # {} /\ Len(canvas) < MaxNodes
  /\ Added(kind, CHOOSE i \in combos : \A j \in combos : i <= j, p)

Next ==
  \E p \in Path :
    \/ AddModelNode(p)
    \/ Drop(p, 0, 0)
    \/ \E n \in DOMAIN canvas : \E under \in {0} \cup Places(canvas[n].kind) : Drop(p, n, under)

Spec == Init /\ [][Next]_canvasVars

-----------------------------------------------------------------------------
\* A widget holds a model that it lists, wherever models are dropped; but for a node
\* that was just added, whose list is not asked, and a drop on a node with several
\* combos that list the model, where the place among them is taken for the widget.
HoldsWhatItLists ==
  \A n \in DOMAIN canvas : \A i \in Places(canvas[n].kind) :
    canvas[n].held[i] # Nothing /\ [node |-> n, index |-> i] \notin odd =>
      canvas[n].held[i] \in Widgets[canvas[n].kind][i]

\* The invariant: each node has a value for each of its widgets, and holds what it lists.
CanvasInv ==
  /\ canvas \in Seq([kind : NodeKind,
                     held : UNION {[Places(k) -> Path \cup {Nothing}] : k \in NodeKind}])
  /\ \A n \in DOMAIN canvas : DOMAIN canvas[n].held = Places(canvas[n].kind)
  /\ HoldsWhatItLists
=================================================================================
