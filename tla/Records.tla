------------------------------- MODULE Records -------------------------------
(***************************************************************************)
(* The authoritative records of one page document: the page record and the *)
(* node records (packages/core/src/document/schema.ts), the shape and tree *)
(* rules a store must satisfy (store/store.ts, store/validation.ts and     *)
(* validateRecords of kernel/transaction.ts), and the walks up the parent  *)
(* chain the builtin commands are written with.                            *)
(*                                                                         *)
(* A store gives every id its record, or NoRecord.  The document record is *)
(* left out: no command reaches it, and its only field that matters,       *)
(* rootPageId, is the constant PageId.  One coordinate and one extent      *)
(* stand for both axes.  Coord and Size are the finite numbers: a sum      *)
(* outside Coord is the code's Infinity.                                   *)
(***************************************************************************)
EXTENDS Integers, FiniteSets

CONSTANTS NodeId, PageId, Index, Coord, Size, Name, Overflow, NoRecord

Id == NodeId \cup {PageId}

NodeRecord ==
  [typeName: {"node"}, revision: Int, parentId: Id, index: Index, x: Int,
   width: Int, visible: BOOLEAN, locked: BOOLEAN, name: Name]

PageRecord == [typeName: {"page"}, revision: Int, overflow: Overflow]

Record == NodeRecord \cup PageRecord

ASSUME RecordsAssumption ==
  /\ PageId \notin NodeId
  /\ Index \subseteq Nat
  /\ Coord \subseteq Int
  /\ Size \subseteq Int
  /\ NoRecord \notin Record

\* A document has finitely many nodes, so the walks below come to an end.
ASSUME FiniteIdsAssumption == IsFiniteSet(NodeId)

\* Every collection of records a store can hold, valid or not.
Stores == [Id -> Record \cup {NoRecord}]

Present(s) == {id \in Id : s[id] # NoRecord}

Nodes(s) == {id \in Present(s) : s[id].typeName = "node"}

Siblings(s, parent) == {n \in Nodes(s) : s[n].parentId = parent}

-----------------------------------------------------------------------------
(* Validation of a whole store.                                            *)

\* A shape check that forgets the position.
ShapeValidUnchecked(r) == r.typeName = "node" => r.width \in Size

\* validateRecordShape: the numbers of a node's layout are finite.
ShapeValid(r) == r.typeName = "node" => r.x \in Coord /\ r.width \in Size

Pages(s) == {id \in Present(s) : s[id].typeName = "page"}

\* A parent is another node, or the root page.
ParentsResolve(s) ==
  \A n \in Nodes(s) :
    /\ s[n].parentId # n
    /\ s[n].parentId \in Nodes(s) \cup (Pages(s) \cap {PageId})

SiblingIndexesUnique(s) ==
  \A m, n \in Nodes(s) :
    m # n /\ s[m].parentId = s[n].parentId => s[m].index # s[n].index

\* Following parentId from some node never leaves a set of nodes.
HasParentCycle(s) ==
  \E C \in SUBSET Nodes(s) : C # {} /\ \A n \in C : s[n].parentId \in C

\* A validation that forgets the walk for cycles.
NodeTreeValidWithoutWalk(s) == ParentsResolve(s) /\ SiblingIndexesUnique(s)

\* validateNodeTree reports nothing (NodeTreeValidation checks its algorithm).
NodeTreeValid(s) ==
  ParentsResolve(s) /\ SiblingIndexesUnique(s) /\ ~HasParentCycle(s)

\* validateRecords: shapes, exactly one page and it is the root, a valid tree.
ValidRecords(s) ==
  /\ \A id \in Present(s) : ShapeValid(s[id])
  /\ Pages(s) = {PageId}
  /\ NodeTreeValid(s)

-----------------------------------------------------------------------------
(* Walks up the parent chain.                                              *)

\* The nodes met by following parentId from n until a record that is no node.
SelfAndAncestors(s, n) ==
  LET up[C \in SUBSET Nodes(s)] ==
        LET next == C \cup ({s[m].parentId : m \in C} \cap Nodes(s))
        IN IF next = C THEN C ELSE up[next]
  IN up[{n}]

Ancestors(s, n) == SelfAndAncestors(s, n) \ {n}

\* The nodes met by following children downwards from n.
Subtree(s, n) ==
  LET down[C \in SUBSET Nodes(s)] ==
        LET next == C \cup {d \in Nodes(s) : s[d].parentId \in C}
        IN IF next = C THEN C ELSE down[next]
  IN down[{n}]

\* A barrier that looks at the node alone.
TransformLockedSelfOnly(s, n) == s[n].locked

\* lockedTransformBarrier finds a locked node at n or above it.
TransformLocked(s, n) == \E a \in SelfAndAncestors(s, n) : s[a].locked

\* A filter that looks one level up only.
TopLevelParentOnly(s, ids) == {n \in ids : s[n].parentId \notin ids}

\* The selected nodes none of whose ancestors is selected too.
TopLevel(s, ids) == {n \in ids : Ancestors(s, n) \cap ids = {}}
=============================================================================
