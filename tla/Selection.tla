------------------------------ MODULE Selection ------------------------------
(***************************************************************************)
(* Selecting entries of the library and deleting them: useSelection of     *)
(* src/hooks/zipnn.ts, the bulk bar of src/hooks/folderSelection.ts,       *)
(* deleteModel of src/hooks/model.ts, and the one confirmation of the page *)
(* (src/hooks/toast.ts, src/components/GlobalConfirm.vue) they all ask.    *)
(*                                                                         *)
(* A click on a button of the confirmation runs the closing of reka-ui and *)
(* then the handler in one turn; the microtask of handleOpenChange finds   *)
(* another token and does nothing.  A click or Escape is one step.         *)
(***************************************************************************)
EXTENDS Naturals, FiniteSets, Sequences, Functions

CONSTANTS
  Node,          \* the entries of the library
  Folder,        \* the folders among them
  Parent,        \* the folder of each node, or Nothing
  Loop,          \* bound: bulk deletes that may run at a time
  Nothing

\* What the constants have to satisfy.
SelectionAssumption ==
  /\ Folder \subseteq Node
  /\ Parent \in [Node -> Folder \cup {Nothing}]
  /\ IsFiniteSet(Node) /\ Nothing \notin Node /\ "card" \notin Loop
  /\ \A nodes \in SUBSET Node : Nothing # [kind |-> "bulk", nodes |-> nodes]
  /\ \A n \in Node, c \in Loop \cup {"card"} : Nothing # [kind |-> "one", node |-> n, by |-> c]

VARIABLES
  files,       \* the nodes on disk
  tree,        \* the nodes the page shows
  enabled,     \* the selection mode
  selected,    \* selectionState: what is ticked
  options,     \* confirmState.options: what is being asked, or Nothing
  todo,        \* todo[l]: the nodes deleteSelected has still to remove
  step,        \* how far the remove of a loop or of the card has come
  agreed,      \* history: the nodes whose own deletion was agreed to
  crossed      \* history: a bulk delete was started while another one ran

asking        == <<options, todo, step, agreed, crossed>>
selectionVars == <<files, tree, enabled, selected, asking>>

\* Who calls deleteModel: a bulk delete, or a card.
Caller == Loop \cup {"card"}

\* What a confirmation asks: to delete these nodes, or the node of a caller.
Ask == [kind : {"bulk"}, nodes : SUBSET Node] \cup [kind : {"one"}, node : Node, by : Caller]

\* deleteModel asks, sends the DELETE, scans the folder again, and resolves.
Step == [at : {"rest", "asked", "sent", "done", "failed"}, node : Node \cup {Nothing}]
Rest == [at |-> "rest", node |-> Nothing]

TypeOK ==
  /\ files \subseteq Node /\ tree \subseteq Node
  /\ enabled \in BOOLEAN /\ crossed \in BOOLEAN /\ agreed \subseteq Node
  /\ selected \subseteq Node
  /\ options \in Ask \cup {Nothing}
  /\ todo \in [Loop -> Seq(Node)]
  /\ step \in [Caller -> Step]

Init ==
  /\ files = Node /\ tree = Node
  /\ enabled = FALSE /\ selected = {}
  /\ options = Nothing
  /\ todo = [l \in Loop |-> <<>>] /\ step = [c \in Caller |-> Rest]
  /\ agreed = {} /\ crossed = FALSE

-----------------------------------------------------------------------------
(* Selecting.  The confirmation is modal: nothing behind it can be clicked. *)

Free == options = Nothing

Enter ==
  /\ Free /\ ~enabled
  /\ enabled' = TRUE
  /\ UNCHANGED <<files, tree, selected, asking>>

Exit ==
  /\ Free /\ enabled
  /\ enabled' = FALSE /\ selected' = {}
  /\ UNCHANGED <<files, tree, asking>>

Clear ==
  /\ Free /\ enabled /\ selected # {}
  /\ selected' = {}
  /\ UNCHANGED <<files, tree, enabled, asking>>

\* A click: what is ticked already may drive out, or keep out, what is ticked as a
\* folder of the other kind (SelectionState has which).
Toggle(n) ==
  /\ Free /\ enabled /\ n \in tree
  /\ IF n \in selected THEN selected' = selected \ {n}
     ELSE \/ \E s \in SUBSET (selected \cap Folder) : selected' = (selected \ s) \cup {n}
          \/ n \in Folder /\ UNCHANGED selected
  /\ UNCHANGED <<files, tree, enabled, asking>>

-----------------------------------------------------------------------------
(* Deleting *)

\* selectedNodes: a key the tree no longer has is left out.
SelectedNodes == selected \cap tree

\* Mutant of Require: an open confirmation is kept.
RequireIfFree(ask) == options' = IF options = Nothing THEN ask ELSE options

\* confirm.require, which takes the place of whatever is being asked.
Require(ask) == options' = ask

\* deleteSelected
AskBulk ==
  /\ Free /\ enabled /\ selected # {}
  /\ Require([kind |-> "bulk", nodes |-> SelectedNodes])
  /\ UNCHANGED <<files, tree, enabled, selected, todo, step, agreed, crossed>>

\* The delete button of a card's window.
AskOne(n) ==
  /\ Free /\ n \in tree \ Folder /\ step["card"] = Rest
  /\ Require([kind |-> "one", node |-> n, by |-> "card"])
  /\ step' = [step EXCEPT !["card"] = [at |-> "asked", node |-> n]]
  /\ UNCHANGED <<files, tree, enabled, selected, todo, agreed, crossed>>

\* The loop of deleteSelected comes to its next node, or to its end; o is what
\* else would be asked.
LoopOn(l, nodes, s, o) ==
  /\ todo' = [todo EXCEPT ![l] = IF nodes = <<>> THEN <<>> ELSE Tail(nodes)]
  /\ IF nodes = <<>>
       THEN /\ options' = o /\ selected' = {}
            /\ step' = [s EXCEPT ![l] = Rest]
       ELSE /\ Require([kind |-> "one", node |-> Head(nodes), by |-> l])
            /\ step' = [s EXCEPT ![l] = [at |-> "asked", node |-> Head(nodes)]]
            /\ UNCHANGED selected

\* The promise of a remove resolves.
Resolved(c, o) ==
  IF c \in Loop THEN LoopOn(c, todo[c], step, o)
  ELSE /\ step' = [step EXCEPT ![c] = Rest]
       /\ options' = o
       /\ UNCHANGED <<todo, selected>>

\* settle("accept") of a bulk delete, whose loop asks for its first node.
AcceptBulk(l) ==
  /\ options \in Ask /\ options.kind = "bulk"
  /\ step[l] = Rest /\ l = CHOOSE k \in Loop : step[k] = Rest      \* any idle one
  /\ \E nodes \in Bijection(1..Cardinality(options.nodes), options.nodes) : LoopOn(l, nodes, step, Nothing)
  /\ crossed' = (crossed \/ \E k \in Loop : step[k] # Rest)
  /\ UNCHANGED <<files, tree, enabled, agreed>>

\* settle("accept") of one node: the DELETE is sent.
AcceptOne ==
  /\ options \in Ask /\ options.kind = "one"
  /\ options' = Nothing
  /\ step' = [step EXCEPT ![options.by] = [at |-> "sent", node |-> options.node]]
  /\ agreed' = agreed \cup {options.node}
  /\ UNCHANGED <<files, tree, enabled, selected, todo, crossed>>

\* settle("reject"), by the button or by Escape: a loop goes on with its next node.
Reject ==
  /\ options # Nothing
  /\ IF options.kind = "bulk"
       THEN options' = Nothing /\ UNCHANGED <<selected, todo, step>>
       ELSE Resolved(options.by, Nothing)
  /\ UNCHANGED <<files, tree, enabled, agreed, crossed>>

\* The node and what is in it.
Within[n \in Node] == {n} \cup UNION {Within[m] : m \in {k \in Node : Parent[k] = n}}

\* The backend removes the node, or does not find it.
Deleted(c) ==
  /\ step[c].at = "sent"
  /\ files' = files \ Within[step[c].node]
  /\ step' = [step EXCEPT ![c].at = IF step[c].node \in files THEN "done" ELSE "failed"]
  /\ UNCHANGED <<tree, enabled, selected, options, todo, agreed, crossed>>

\* The answer, and after a success the scan, which may fail.
Answered(c) ==
  /\ step[c].at \in {"done", "failed"}
  /\ tree' \in IF step[c].at = "done" THEN {files, tree} ELSE {tree}
  /\ Resolved(c, options)
  /\ UNCHANGED <<files, enabled, agreed, crossed>>

\* Somebody else's change of the library is scanned.
Rescan ==
  /\ tree # files
  /\ tree' = files
  /\ UNCHANGED <<files, enabled, selected, asking>>

Next ==
  \/ Enter \/ Exit \/ Clear \/ AskBulk \/ AcceptOne \/ Reject \/ Rescan
  \/ \E n \in Node : Toggle(n) \/ AskOne(n)
  \/ \E l \in Loop : AcceptBulk(l)
  \/ \E c \in Caller : Deleted(c) \/ Answered(c)

Spec == Init /\ [][Next]_selectionVars

-----------------------------------------------------------------------------
\* A file disappears only because the user agreed to delete it or a folder it is
\* in, in a confirmation that named it: whatever else was asked meanwhile, and
\* whatever an earlier answer of the same bulk delete was.
OnlyAgreed == \A n \in Node \ files : \E m \in agreed : n \in Within[m]

\* A bulk delete that no other one overlaps never hangs: while it waits for a
\* confirmation, that confirmation is the one on the screen, whatever else the
\* user deletes while its requests are under way.
LoopGoesOn == ~crossed => \A l \in Loop : step[l].at = "asked" =>
  options # Nothing /\ options.kind = "one" /\ options.by = l

\* The invariant that SelectionSafe rests on: a DELETE that was sent was agreed to; and
\* while no two bulk deletes overlap, one loop at most is not at rest, and a question
\* of its own is what it waits for.
SelectionInv ==
  /\ TypeOK
  /\ \A c \in Caller : step[c].at = "sent" => step[c].node \in agreed
  /\ OnlyAgreed
  /\ ~crossed => \A k, l \in Loop : step[k].at # "rest" /\ step[l].at # "rest" => k = l
  /\ ~crossed /\ options # Nothing /\ options.kind = "one" /\ options.by \in Loop =>
       step[options.by].at = "asked"
  /\ LoopGoesOn

\* "for (const node of nodes) await remove(node)": a bulk delete removes nothing
\* that was not agreed to, and comes to its end unless another one overlaps it.
SelectionSafe == OnlyAgreed /\ LoopGoesOn

=============================================================================
