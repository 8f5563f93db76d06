------------------------------ MODULE TensorTable ------------------------------
(***************************************************************************)
(* The tensor table of a model's window (utils/tensorTree.ts,              *)
(* ModelInformation.vue): the tensors' dotted names folded into a          *)
(* pre-order table of nodes by the backend or by the page itself, checked  *)
(* before it is used, and shown as rows that the user expands.  Counts are *)
(* natural numbers here; parameters go the way of the counts, and the      *)
(* order of siblings on the screen is left out.                            *)
(***************************************************************************)
EXTENDS Naturals, Sequences, FiniteSets, SequencesExt

CONSTANTS
  Lists,    \* the tensor lists: sequences of names, which are sequences of segments
  Tables,   \* tables that may come with them, whatever made them
  Page,     \* TENSOR_PAGE
  Empty,    \* the empty segment
  Unnamed,  \* "(unnamed)"
  NoTable   \* no tensorTree

TableAssumption == Page \in Nat /\ \A l \in Lists : Len(l) > 0 /\ \A i \in DOMAIN l : Len(l[i]) > 0

VARIABLES
  tensors,   \* the names of the tensors
  payload,   \* tensorTree
  expanded,  \* expandedNodes: paths
  allLeaves  \* allLeavesNodes: paths

tableVars == <<tensors, payload, expanded, allLeaves>>

SumSeq(s) == FoldLeft(LAMBDA sum, n : sum + n, 0, s)

-----------------------------------------------------------------------------
(* buildTensorTreePayload *)

FolderOf(name) == [k \in 1..Len(name) - 1 |-> IF name[k] = Empty THEN Unnamed ELSE name[k]]

\* The folders, in the order in which the tensors mention them.
Folders(list) ==
  FoldLeft(LAMBDA seen, p : IF p \in Range(seen) THEN seen ELSE Append(seen, p), <<>>,
           FlattenSeq([i \in DOMAIN list |->
             [k \in 1..Len(list[i]) - 1 |-> SubSeq(FolderOf(list[i]), 1, k)]]))

Own(list, p) == SelectSeq([i \in DOMAIN list |-> i], LAMBDA i : FolderOf(list[i]) = p)

\* A folder's entry, its own leaves, then its sub-folders; the totals come from below.
Emit(list) ==
  LET folders == Folders(list)
      emit[p \in {<<>>} \cup Range(folders)] ==
        LET kids  == SelectSeq(folders, LAMBDA q : Len(q) = Len(p) + 1 /\ IsPrefix(p, q))
            below == [k \in DOMAIN kids |-> emit[kids[k]]]
            own   == Own(list, p)
            node  == [segment |-> IF p = <<>> THEN Empty ELSE Last(p), children |-> Len(kids), own |-> Len(own),
                      total |-> Len(own) + SumSeq([k \in DOMAIN kids |-> below[k].nodes[1].total])] IN
        [nodes  |-> <<node>> \o FlattenSeq([k \in DOMAIN kids |-> below[k].nodes]),
         leaves |-> own \o FlattenSeq([k \in DOMAIN kids |-> below[k].leaves])] IN
  emit

Fold(list) == Emit(list)[<<>>]

-----------------------------------------------------------------------------
(* createTensorTreeIndex *)

\* The frames of the pre-order pass that still wait for children.
Unfinished(stack) ==
  LET waiting == {k \in DOMAIN stack : stack[k] > 0} IN
  SubSeq(stack, 1, CHOOSE k \in {0} \cup waiting : \A j \in waiting : j <= k)

\* One entry takes its place below the innermost frame that waits.
Placed(pass, children) ==
  LET stack == Unfinished(pass.stack)
      top   == Len(stack) IN
  [roots |-> pass.roots + (IF top = 0 THEN 1 ELSE 0),
   stack |-> Append(IF top = 0 THEN <<>> ELSE [stack EXCEPT ![top] = @ - 1], children)]

PreOrder(nodes) ==
  LET pass == FoldLeft(LAMBDA p, n : Placed(p, n.children), [roots |-> 0, stack |-> <<>>], nodes) IN
  pass.roots = 1 /\ Unfinished(pass.stack) = <<>>

Accepted(table, list) ==
  /\ table # NoTable /\ table.nodes # <<>>
  /\ Range(table.leaves) \subseteq DOMAIN list
  /\ SumSeq([i \in DOMAIN table.nodes |-> table.nodes[i].own]) = Len(table.leaves)
  /\ Len(table.leaves) = Len(list)
  /\ PreOrder(table.nodes)

\* subtree: how many entries a node and what is below it take.
Subtree(nodes) ==
  LET subtree[i \in DOMAIN nodes] ==
        FoldLeft(LAMBDA size, k : size + subtree[i + size], 1, [k \in 1..nodes[i].children |-> k]) IN
  subtree

\* Mutant of ChildrenOf: siblings are taken to be adjacent.
ChildrenInARow(nodes, i) == [k \in 1..nodes[i].children |-> i + k]

\* childrenOf: each child begins where the one before it ends.
ChildrenOf(nodes, i) ==
  FoldLeft(LAMBDA kids, k :
             Append(kids, IF k = 1 THEN i + 1 ELSE Last(kids) + Subtree(nodes)[Last(kids)]),
           <<>>, [k \in 1..nodes[i].children |-> k])

\* tensorsOf
TensorsOf(table, i) ==
  LET start == SumSeq([k \in 1..i - 1 |-> table.nodes[k].own]) IN
  SubSeq(table.leaves, start + 1, start + table.nodes[i].own)

-----------------------------------------------------------------------------
(* ModelInformation.vue *)

\* tensorIndex
Shown == IF Accepted(payload, tensors) THEN payload ELSE Fold(tensors)

Labels == {Unnamed} \cup UNION {Range(n) : n \in UNION {Range(l) : l \in Lists}}

\* tensorRows
Walk(table) ==
  LET walk[i \in DOMAIN table.nodes, path \in Seq(Labels)] ==
        LET kids   == ChildrenOf(table.nodes, i)
            To(k)  == Append(path, table.nodes[k].segment)
            leaves == TensorsOf(table, i)
            more   == Len(leaves) > Page
            shown  == IF more /\ path \notin allLeaves THEN SubSeq(leaves, 1, Page) ELSE leaves IN
        FlattenSeq([k \in DOMAIN kids |->
          <<[kind |-> "folder", path |-> To(kids[k]), total |-> table.nodes[kids[k]].total]>>
            \o (IF To(kids[k]) \in expanded THEN walk[kids[k], To(kids[k])] ELSE <<>>)])
        \o [k \in DOMAIN shown |-> [kind |-> "leaf", path |-> path, tensor |-> shown[k]]]
        \o (IF more THEN <<[kind |-> "more", path |-> path, total |-> Len(leaves)]>> ELSE <<>>) IN
  walk

Rows == Walk(Shown)[1, <<>>]

TypeOK ==
  /\ tensors \in Lists
  /\ payload = NoTable \/ DOMAIN payload = {"nodes", "leaves"}
  /\ expanded \cup allLeaves \subseteq Seq(Labels)

\* A window opens with whatever came.
Init ==
  /\ tensors \in Lists
  /\ payload \in {NoTable, Fold(tensors)} \cup Tables
  /\ expanded = {} /\ allLeaves = {}

\* The header is read again, with its own table or none; what was expanded stays so.
Replace ==
  /\ tensors' \in Lists
  /\ payload' \in {NoTable, Fold(tensors')}
  /\ UNCHANGED <<expanded, allLeaves>>

Toggled(set, p) == IF p \in set THEN set \ {p} ELSE set \cup {p}

\* toggleTensorNode
ToggleTensorNode ==
  /\ \E row \in Range(Rows) : row.kind = "folder" /\ expanded' = Toggled(expanded, row.path)
  /\ UNCHANGED <<tensors, payload, allLeaves>>

\* toggleTensorLeaves
ToggleTensorLeaves ==
  /\ \E row \in Range(Rows) : row.kind = "more" /\ allLeaves' = Toggled(allLeaves, row.path)
  /\ UNCHANGED <<tensors, payload, expanded>>

Next == Replace \/ ToggleTensorNode \/ ToggleTensorLeaves

Spec == Init /\ [][Next]_tableVars

-----------------------------------------------------------------------------
\* The entries in the order of a walk, from each.
Visited(nodes) ==
  LET visited[i \in DOMAIN nodes] ==
        LET kids == ChildrenOf(nodes, i) IN
        <<i>> \o FlattenSeq([k \in DOMAIN kids |-> visited[kids[k]]]) IN
  visited

\* The table that is shown, whoever made it, has been accepted and can be walked:
\* every entry is reached from the first, once.
AcceptedWalks ==
  LET nodes == Shown.nodes
      order == Visited(nodes)[1] IN
  Accepted(Shown, tensors) /\ Len(order) = Len(nodes) /\ Range(order) = DOMAIN nodes

\* With its own table, no table, or one that is refused, the rows tell the truth: a
\* folder's total counts the tensors below it; a tensor has one row, in its folder,
\* if that folder is open all the way and the page reaches it.
OwnTableIsTrue ==
  Shown = Fold(tensors) =>
    LET rows   == Rows
        Of(i)  == {k \in DOMAIN rows : rows[k].kind = "leaf" /\ rows[k].tensor = i}
        home   == [i \in DOMAIN tensors |-> FolderOf(tensors[i])]
        Open(p) == \A n \in 1..Len(p) : SubSeq(p, 1, n) \in expanded
        Rank(i) == Cardinality({j \in 1..i : home[j] = home[i]}) IN
    /\ \A row \in Range(rows) : row.kind = "folder" =>
         row.total = Cardinality({i \in DOMAIN tensors : IsPrefix(row.path, home[i])})
    /\ \A i \in DOMAIN tensors :
         /\ Cardinality(Of(i)) = IF Open(home[i]) /\ (home[i] \in allLeaves \/ Rank(i) <= Page) THEN 1 ELSE 0
         /\ \A k \in Of(i) : rows[k].path = home[i]

\* "so a hostile or stale tree can never render a wrong table", as far as it is kept:
\* a table of as many tensors is taken on trust.
TableIsWhole == AcceptedWalks /\ OwnTableIsTrue
================================================================================
