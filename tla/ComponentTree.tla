----------------------------- MODULE ComponentTree -----------------------------
(***************************************************************************)
(* The tree of the scene panel (packages/editor/src/tree/component-tree.ts) *)
(* over the list of core/src/query/tree.ts: rows that are built again when *)
(* the document changed in what they show, or other nodes are expanded,    *)
(* and only marked again when the selection changed; and what the user     *)
(* does on a row, decided by what the row was built from.                  *)
(*                                                                         *)
(* A command is what it makes of the document (module Editor has them in   *)
(* detail).  Indexes are numbers; a place stands for the layout.           *)
(***************************************************************************)
EXTENDS Integers, Sequences, FiniteSets, FiniteSetsExt, SequencesExt

CONSTANTS
  TreePage, TreeNodes,
  InitialTree,     \* the nodes there are
  Names,
  MaxTreeInputs    \* bound: what the user and others do

\* A node's record, as far as the tree reads it.
TreeRecord ==
  [parent: TreeNodes \cup {TreePage}, index: Int, name: Names, visible: BOOLEAN, locked: BOOLEAN,
   place: 0 .. 1]

\* Every node has its parent, none is below itself, and no two siblings have an index.
ValidTree(nodes) ==
  /\ DOMAIN nodes \subseteq TreeNodes
  /\ \A n \in DOMAIN nodes : nodes[n].parent \in DOMAIN nodes \cup {TreePage}
  /\ \A some \in SUBSET DOMAIN nodes : some = {} \/ \E n \in some : nodes[n].parent \notin some
  /\ \A m, n \in DOMAIN nodes : nodes[m].parent = nodes[n].parent /\ nodes[m].index = nodes[n].index => m = n

ASSUME InitialTreeAssumption ==
  /\ IsFiniteSet(TreeNodes) /\ TreePage \notin TreeNodes
  /\ \E ids \in SUBSET TreeNodes : InitialTree \in [ids -> TreeRecord]
  /\ ValidTree(InitialTree)

VARIABLES
  document,        \* nodes' records
  expanded, selection,              \* of the session
  treeRows, rowsDocument, marked,   \* what is shown, of which document, as selected
  treeInputs

treeVars == <<document, expanded, selection, treeRows, rowsDocument, marked, treeInputs>>

\* buildChildrenIndex.
Children(nodes, parent) ==
  CHOOSE siblings \in SetToSeqs({n \in DOMAIN nodes : nodes[n].parent = parent}) :
    \A i, j \in DOMAIN siblings : i < j => nodes[siblings[i]].index <= nodes[siblings[j]].index

\* getTreeItems: the page and, under what is expanded, the children in order.
TreeItems(nodes, open) ==
  LET Item(id, depth) ==
        [id |-> id, depth |-> depth,
         name |-> IF id = TreePage THEN "page" ELSE nodes[id].name,
         visible |-> id = TreePage \/ nodes[id].visible,
         locked |-> id # TreePage /\ nodes[id].locked,
         hasChildren |-> \E n \in DOMAIN nodes : nodes[n].parent = id]
      walk[at \in (DOMAIN nodes \cup {TreePage}) \X (0 .. Cardinality(TreeNodes))] ==
        LET children == Children(nodes, at[1])
        IN  <<Item(at[1], at[2])>> \o
            (IF at[1] \notin open THEN << >>
             ELSE FlattenSeq([i \in DOMAIN children |-> walk[<<children[i], at[2] + 1>>]]))
  IN  walk[<<TreePage, 0>>]

\* A tree that is not built again when siblings change places.
NeedsUpdateButOrder(before, after) ==
  \/ DOMAIN before # DOMAIN after
  \/ \E n \in DOMAIN before :
       \/ before[n].name # after[n].name \/ before[n].parent # after[n].parent
       \/ before[n].visible # after[n].visible \/ before[n].locked # after[n].locked

\* treeNeedsUpdate.
TreeNeedsUpdate(before, after) ==
  \/ DOMAIN before # DOMAIN after
  \/ \E n \in DOMAIN before : [before[n] EXCEPT !.place = 0] # [after[n] EXCEPT !.place = 0]

ShownIds == {treeRows[i].id : i \in DOMAIN treeRows}

\* buildTree, of the document and the session there are then.
BuildTree ==
  /\ treeRows' = TreeItems(document', expanded')
  /\ rowsDocument' = document'
  /\ marked' = selection' \cap {treeRows'[i].id : i \in DOMAIN treeRows'}

\* onCoreChange.
OnCoreChange ==
  IF TreeNeedsUpdate(document, document') THEN BuildTree
  ELSE UNCHANGED <<treeRows, rowsDocument, marked>>

\* onSessionChange.
OnSessionChange ==
  IF expanded' # expanded THEN BuildTree
  ELSE marked' = selection' \cap ShownIds /\ UNCHANGED <<treeRows, rowsDocument>>

TreeInit ==
  /\ document = InitialTree
  /\ expanded = {TreePage}
  /\ selection = {}
  /\ treeRows = TreeItems(document, expanded)
  /\ rowsDocument = document
  /\ marked = {}
  /\ treeInputs = 0

TreeInput == treeInputs < MaxTreeInputs /\ treeInputs' = treeInputs + 1

-----------------------------------------------------------------------------
(* What a user does on a row.                                              *)

Toggled(set, id) == SymDiff(set, {id})

\* selectItem: with a modifier, the item comes to the selection or leaves it.
Selected(id, modifier) == IF modifier THEN Toggled(selection, id) ELSE {id}

\* A click selects, and expands or collapses what has children.
ClickRow(item, modifier) ==
  /\ TreeInput
  /\ selection' = Selected(item.id, modifier)
  /\ expanded' = IF item.hasChildren THEN Toggled(expanded, item.id) ELSE expanded
  /\ UNCHANGED document
  /\ OnSessionChange

\* Enter on a row selects only, the expand control only expands.
KeyOnRow(item) ==
  /\ TreeInput
  /\ \/ selection' = {item.id} /\ UNCHANGED expanded
     \/ item.hasChildren /\ expanded' = Toggled(expanded, item.id) /\ UNCHANGED selection
  /\ UNCHANGED document
  /\ OnSessionChange

\* The visibility and the lock become the other of what the row shows; a new name.
EditRow(item, name) ==
  /\ TreeInput
  /\ item.id \in DOMAIN document
  /\ \/ document' = [document EXCEPT ![item.id].visible = ~item.visible]
     \/ document' = [document EXCEPT ![item.id].locked = ~item.locked]
     \/ name # item.name /\ document' = [document EXCEPT ![item.id].name = name]
  /\ UNCHANGED <<expanded, selection>>
  /\ OnCoreChange

\* The nodes below one, and itself.
Below(nodes, id) ==
  LET children(set) == {n \in DOMAIN nodes : nodes[n].parent \in set}
      below[depth \in 0 .. Cardinality(TreeNodes)] ==
        IF depth = 0 THEN {id} ELSE below[depth - 1] \cup children(below[depth - 1])
  IN  below[Cardinality(TreeNodes)]

\* Delete: the node goes with what is below it, and the selection after it.
DeleteRow(item) ==
  /\ TreeInput
  /\ item.id \in DOMAIN document
  /\ document' = [n \in DOMAIN document \ Below(document, item.id) |-> document[n]]
  /\ selection' = {}
  /\ UNCHANGED expanded
  /\ BuildTree

\* lockedTreeRecord.
LockedTreeRecord(nodes, id) ==
  \E n \in DOMAIN nodes : nodes[n].locked /\ id \in Below(nodes, n)

\* A row may be dropped on a sibling, neither of them locked.
MayDrop(nodes, source, target) ==
  /\ {source, target} \subseteq DOMAIN nodes /\ source # target
  /\ nodes[source].parent = nodes[target].parent
  /\ ~LockedTreeRecord(nodes, source) /\ ~LockedTreeRecord(nodes, target)

\* reorderTreeItem, of the document the rows were built from: node.reorder with the
\* target's index, whose sibling gets the source's.
DropRow(source, target) ==
  /\ TreeInput
  /\ MayDrop(rowsDocument, source, target)
  /\ document' = [n \in DOMAIN document |->
       CASE n = source -> [document[n] EXCEPT !.index = rowsDocument[target].index]
         [] n # source /\ document[n].parent = document[source].parent
              /\ document[n].index = rowsDocument[target].index ->
              [document[n] EXCEPT !.index = document[source].index]
         [] OTHER -> document[n]]
  /\ UNCHANGED <<expanded, selection>>
  /\ OnCoreChange

-----------------------------------------------------------------------------
\* The canvas, the inspector, undo and redo.
OtherChange ==
  /\ TreeInput
  /\ \/ \E n \in DOMAIN document : document' = [document EXCEPT ![n].place = 1 - @]
     \/ document' = InitialTree
     \/ \E n \in TreeNodes \ DOMAIN document :
          document' = [m \in DOMAIN document \cup {n} |->
            IF m = n THEN [parent |-> TreePage, name |-> CHOOSE name \in Names : TRUE, visible |-> TRUE,
                           locked |-> FALSE, place |-> 0,
                           index |-> 1 + Max({document[o].index : o \in DOMAIN document} \cup {0})]
            ELSE document[m]]
  /\ UNCHANGED <<expanded, selection>>
  /\ OnCoreChange

OtherSelection ==
  /\ TreeInput
  /\ selection' \in SUBSET TreeNodes
  /\ UNCHANGED <<document, expanded>>
  /\ OnSessionChange

RowInput ==
  \E i \in DOMAIN treeRows :
    \/ \E modifier \in BOOLEAN : ClickRow(treeRows[i], modifier)
    \/ KeyOnRow(treeRows[i]) \/ DeleteRow(treeRows[i])
    \/ \E name \in Names : EditRow(treeRows[i], name)
    \/ \E j \in DOMAIN treeRows : DropRow(treeRows[i].id, treeRows[j].id)

TreeNext == RowInput \/ OtherChange \/ OtherSelection

TreeSpec == TreeInit /\ [][TreeNext]_treeVars

-----------------------------------------------------------------------------
TreeTypeOK == ValidTree(document)

\* The rows are those of the document and the session as they are, and a drop that
\* they allow, of the document they were built from, is allowed in the document
\* there is now and goes to the same index: no change of a document passes the tree
\* by that it, or what a user does on it, depends on.
TreeShowsDocument ==
  /\ treeRows = TreeItems(document, expanded)
  /\ marked = selection \cap ShownIds
  /\ \A source, target \in ShownIds :
       MayDrop(rowsDocument, source, target) <=>
         /\ MayDrop(document, source, target)
         /\ rowsDocument[target].index = document[target].index
===============================================================================
