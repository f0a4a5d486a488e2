--------------------------- MODULE EditorProperties ---------------------------
(***************************************************************************)
(* What the editor must get right, beyond the types: properties of Editor  *)
(* over several commands and history moves, and the refinement of          *)
(* DocumentTimeline.                                                       *)
(***************************************************************************)
EXTENDS Editor, FiniteSetsExt

\* The position of a node in the page (worldPosition): its own and all its
\* ancestors' offsets.
WorldX(s, n) == MapThenSumSet(LAMBDA a : s[a].x, SelfAndAncestors(s, n))

-----------------------------------------------------------------------------
(* Action properties.                                                      *)

Committed(type) ==
  operation'.type = type /\ transactionSequence' > transactionSequence

\* A node that is locked, or lies under a locked one, keeps its position and
\* extent through any command that keeps the node, and through any single undo
\* or redo (a jump may pass over the unlocking).
LockedGeometryFrozen ==
  [][jump = NoJump =>
       \A n \in Nodes(store) \cap Nodes(store') :
         (\E a \in SelfAndAncestors(store, n) : store[a].locked) =>
           store'[n].x = store[n].x /\ store'[n].width = store[n].width]_vars

\* node.move shifts the selected nodes and everything below them by the delta
\* once, however the selection nests, and shifts nothing else.
MoveShiftsOnce ==
  [][Committed("node.move") =>
       \A n \in Nodes(store) :
         WorldX(store', n) - WorldX(store, n) =
           IF SelfAndAncestors(store, n) \cap operation'.ids = {}
           THEN 0 ELSE operation'.delta]_vars

\* Any selection of nodes can be deleted: exactly the selected nodes and what
\* lies below them goes, each record once, and what stays is a valid document.
DeletesSubtrees ==
  jump = NoJump =>
    \A ids \in SUBSET Nodes(store) :
      /\ RemovedOnce(store, ids)
      /\ Doomed(store, ids) =
           {n \in Nodes(store) : SelfAndAncestors(store, n) \cap ids # {}}
      /\ ValidRecords(WithoutRecords(store, Doomed(store, ids)))

\* Any node can be moved to any sibling key under its own parent, taken or not:
\* the result is a valid document, and on a taken key the siblings use the same
\* keys as before.
ReorderSwapsKeys ==
  jump = NoJump =>
    \A n \in Nodes(store), index \in ReorderIndex :
      LET parent == store[n].parentId
          draft == Reordered(store, n, parent, index)
          keys(s) == {s[m].index : m \in Siblings(s, parent)}
      IN /\ ValidRecords(draft)
         /\ index \in keys(store) => keys(draft) = keys(store)

\* schema.ts calls revision the record's optimistic-concurrency version and
\* says it increases whenever a business field changes.
RevisionIncreasesOnChange ==
  [][\A id \in Present(store) \cap Present(store') :
       RecordsDiffer(store[id], store'[id]) =>
         store'[id].revision > store[id].revision]_vars

-----------------------------------------------------------------------------
(* The history implements DocumentTimeline.                                *)

\* The stores at the indexes up to k, replayed backwards from the one at k.
Rewound(from, k) ==
  LET back[i \in 1 .. k + 1] ==
        IF i = k + 1 THEN from ELSE Patched(back[i + 1], entries[i].inverse)
  IN back

\* The stores at the indexes from k on, replayed forwards from the one at k.
Replayed(from, k) ==
  LET ahead[i \in k + 1 .. Len(entries) + 1] ==
        IF i = k + 1 THEN from ELSE Patched(ahead[i - 1], entries[i - 1].forward)
  IN ahead

\* The store at every history index, replayed from the current one.
Timeline ==
  [i \in 1 .. Len(entries) + 1 |->
     IF i <= currentIndex THEN Rewound(store, currentIndex)[i]
     ELSE Replayed(store, currentIndex)[i]]

History ==
  INSTANCE DocumentTimeline
    WITH Limit <- HistoryLimit, timeline <- Timeline, cursor <- currentIndex + 1

\* Every behaviour of the editor, seen through Timeline, is one of the abstract
\* history: undo, redo and jump bring back exact earlier stores, an edit cuts
\* off the redo branch, a command without effect leaves no entry.
HistoryIsATimeline == History!Spec
=============================================================================
