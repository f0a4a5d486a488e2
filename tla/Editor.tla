-------------------------------- MODULE Editor --------------------------------
(***************************************************************************)
(* One editor: the store, the builtin commands and the undo history        *)
(* (createEditor of packages/core/src/kernel/commands/editor.ts, the       *)
(* prepare functions under commands/builtin, kernel/history.ts).           *)
(*                                                                         *)
(* dispatch, undo and redo run to completion inside one call and are one   *)
(* action each.  jumpToHistory is a loop over history entries with its own *)
(* locals (the variable jump): one action per iteration, and no other call *)
(* runs before it returns.  A call that is rejected returns a diagnostic   *)
(* and changes nothing here, so it is a guard that is false.               *)
(* Observers and listeners that call back into the editor are not part of  *)
(* this module.                                                            *)
(***************************************************************************)
EXTENDS Patches, Sequences

CONSTANTS
  LoadableDocuments,  \* documents the host may hand to createEditor
  HistoryLimit,       \* History's limit (100 in the code)
  MaxTransactions,    \* bound: transactions committed in a behaviour
  MoveDelta,          \* payloads: node.move deltas,
  InputCoord,         \*   positions,
  InputSize,          \*   extents, valid or not,
  ReorderIndex,       \*   sibling keys
  InputFlag,          \*   and flags
  NoJump

ASSUME EditorAssumption ==
  /\ LoadableDocuments \subseteq Stores
  /\ HistoryLimit \in Nat \ {0}
  /\ MaxTransactions \in Nat
  /\ MoveDelta \subseteq Int
  /\ InputCoord \subseteq Coord
  /\ InputSize \subseteq Size
  /\ ReorderIndex \subseteq Index
  /\ InputFlag \subseteq BOOLEAN
  /\ NoJump \notin [target: Int, index: Int, nextStore: Stores]

VARIABLES
  store,                \* the current RecordStore
  entries,              \* History.#entries
  currentIndex,         \* History.#currentIndex
  transactionSequence,  \* the last transaction number given out
  disposed,
  jump,                 \* NoJump, or the locals of a running jumpTo
  operation             \* the last operation observed as succeeded

vars == <<store, entries, currentIndex, transactionSequence, disposed, jump,
          operation>>

Entry == [transactionId: Nat, forward: Patch, inverse: Patch]

Jump == [target: Nat, index: Nat, nextStore: Stores]

\* The operation observer's last "succeeded", as far as the properties need it.
Operation ==
  [type: {"none", "history.undo", "history.redo", "history.jump", "node.create",
          "node.resize", "node.resizeMany", "node.delete", "node.reorder",
          "node.rename", "node.setVisible", "node.setLocked", "page.setOverflow"}]
    \cup [type: {"node.move"}, ids: SUBSET NodeId, delta: MoveDelta]

TypeOK ==
  /\ store \in Stores
  /\ entries \in Seq(Entry)
  /\ Len(entries) <= HistoryLimit
  /\ currentIndex \in 0 .. Len(entries)
  /\ transactionSequence \in Nat
  /\ disposed \in BOOLEAN
  /\ jump \in Jump \cup {NoJump}
  /\ operation \in Operation
  /\ jump # NoJump => jump.target <= Len(entries) /\ jump.index <= Len(entries)

\* RecordStore.fromDocument throws unless the records form a valid store.
Init ==
  /\ store \in {s \in LoadableDocuments : ValidRecords(s)}
  /\ entries = << >>
  /\ currentIndex = 0
  /\ transactionSequence = 0
  /\ disposed = FALSE
  /\ jump = NoJump
  /\ operation = [type |-> "none"]

-----------------------------------------------------------------------------
(* dispatch.                                                               *)

Ready == ~disposed /\ jump = NoJump

\* A record that keeps the entries after currentIndex.
PushWithoutTruncation(entry) == Append(entries, entry)

\* The future is dropped before the new entry goes in.
Push(entry) == Append(SubSeq(entries, 1, currentIndex), entry)

\* A history that never drops its oldest entry.
RecordEntryUnbounded(entry) ==
  IF EmptyPatch(entry.forward)
  THEN UNCHANGED <<entries, currentIndex>>
  ELSE /\ entries' = Push(entry)
       /\ currentIndex' = Len(entries')

\* History.record; an empty patch is not recorded.
RecordEntry(entry) ==
  IF EmptyPatch(entry.forward)
  THEN UNCHANGED <<entries, currentIndex>>
  ELSE /\ entries' = IF Len(Push(entry)) > HistoryLimit
                     THEN Tail(Push(entry)) ELSE Push(entry)
       /\ currentIndex' = Len(entries')

\* transact and the rest of dispatch, for the draft command produced.
Commit(command, draft) ==
  LET patch == BuildPatch(store, draft)
      id == transactionSequence + 1
  IN /\ transactionSequence < MaxTransactions
     /\ ValidRecords(draft)
     /\ PatchApplies(store, patch)
     /\ store' = Patched(store, patch)
     /\ transactionSequence' = id
     /\ RecordEntry([transactionId |-> id, forward |-> patch,
                     inverse |-> InversePatch(patch)])
     /\ operation' = command
     /\ UNCHANGED <<disposed, jump>>

ValidSize(width) == width >= 1

IsNextSiblingIndex(index, used) ==
  index \notin used /\ \A i \in Index : i < index => i \in used

NodeCreate(id, parent, x, width, name) ==
  /\ Ready
  /\ parent \in Present(store)
  /\ ValidSize(width)
  /\ id \notin Present(store)
  /\ \E index \in Index :
       /\ IsNextSiblingIndex(index, {store[n].index : n \in Siblings(store, parent)})
       /\ Commit([type |-> "node.create"], WithRecord(store, id,
            [typeName |-> "node", revision |-> 0, parentId |-> parent,
             index |-> index, x |-> x, width |-> width, visible |-> TRUE,
             locked |-> FALSE, name |-> name]))

NodeMove(ids, delta) ==
  /\ Ready
  /\ \A n \in ids : /\ n \in Nodes(store)
                    /\ ~TransformLocked(store, n)
                    /\ ValidSize(store[n].width)
  /\ LET moved == TopLevel(store, ids)
     IN Commit([type |-> "node.move", ids |-> ids, delta |-> delta], [id \in Id |->
          IF id \in moved
          THEN UpdatedRecord(store[id], [store[id] EXCEPT !.x = @ + delta])
          ELSE store[id]])

\* x is the payload's position, or the node's own when the payload has none.
NodeResize(n, x, width) ==
  /\ Ready
  /\ n \in Nodes(store)
  /\ ~TransformLocked(store, n)
  /\ ValidSize(width)
  /\ Commit([type |-> "node.resize"],
            WithUpdated(store, n, [store[n] EXCEPT !.x = x, !.width = width]))

\* box[n] is the item of n; at least two nodes, all under the same parent.
NodeResizeMany(ids, box) ==
  /\ Ready
  /\ \E m, n \in ids : m # n
  /\ \A n \in ids : /\ n \in Nodes(store)
                    /\ ~TransformLocked(store, n)
                    /\ ValidSize(box[n].width)
  /\ \A m, n \in ids : store[m].parentId = store[n].parentId
  /\ Commit([type |-> "node.resizeMany"], [id \in Id |->
       IF id \in ids
       THEN UpdatedRecord(store[id], [store[id] EXCEPT !.x = box[id].x,
                                                       !.width = box[id].width])
       ELSE store[id]])

\* A deletion of the selected nodes and their children only.
DoomedOneLevel(s, ids) ==
  ids \cup {n \in Nodes(s) : s[n].parentId \in ids}

\* The selected roots with everything below them.
Doomed(s, ids) == UNION {Subtree(s, n) : n \in TopLevel(s, ids)}

\* draft.remove meets no record twice.
RemovedOnce(s, ids) ==
  \A m, n \in TopLevel(s, ids) : m # n => Subtree(s, m) \cap Subtree(s, n) = {}

NodeDelete(ids) ==
  /\ Ready
  /\ ids \subseteq Nodes(store)
  /\ RemovedOnce(store, ids)
  /\ Commit([type |-> "node.delete"],
            WithoutRecords(store, Doomed(store, ids)))

Occupants(s, n, parent, index) ==
  {m \in Siblings(s, parent) \ {n} : s[m].index = index}

ReorderedWithoutSwap(s, n, parent, index) ==
  WithUpdated(s, n, [s[n] EXCEPT !.parentId = parent, !.index = index])

\* Under the same parent a sibling that has the index takes n's old one.
Reordered(s, n, parent, index) ==
  LET swapped == IF s[n].parentId = parent
                 THEN Occupants(s, n, parent, index) ELSE {}
      freed == [id \in Id |->
                  IF id \in swapped
                  THEN UpdatedRecord(s[id], [s[id] EXCEPT !.index = s[n].index])
                  ELSE s[id]]
  IN WithUpdated(freed, n, [s[n] EXCEPT !.parentId = parent, !.index = index])

NodeReorder(n, parent, index) ==
  /\ Ready
  /\ n \in Nodes(store)
  /\ parent \in Present(store)
  /\ Commit([type |-> "node.reorder"], Reordered(store, n, parent, index))

NodeRename(n, name) ==
  /\ Ready
  /\ n \in Nodes(store)
  /\ Commit([type |-> "node.rename"],
            WithUpdated(store, n, [store[n] EXCEPT !.name = name]))

NodeSetVisible(n, visible) ==
  /\ Ready
  /\ n \in Nodes(store)
  /\ Commit([type |-> "node.setVisible"],
            WithUpdated(store, n, [store[n] EXCEPT !.visible = visible]))

NodeSetLocked(n, locked) ==
  /\ Ready
  /\ n \in Nodes(store)
  /\ Commit([type |-> "node.setLocked"],
            WithUpdated(store, n, [store[n] EXCEPT !.locked = locked]))

PageSetOverflow(overflow) ==
  /\ Ready
  /\ Commit([type |-> "page.setOverflow"],
            WithUpdated(store, PageId, [store[PageId] EXCEPT !.overflow = overflow]))

Dispatch ==
  \/ \E id \in NodeId, parent \in Id, x \in InputCoord, width \in InputSize,
        name \in Name : NodeCreate(id, parent, x, width, name)
  \/ \E ids \in SUBSET NodeId, delta \in MoveDelta : NodeMove(ids, delta)
  \/ \E n \in Nodes(store), width \in InputSize :
       \E x \in InputCoord \cup {store[n].x} : NodeResize(n, x, width)
  \/ \E ids \in SUBSET NodeId : \E box \in [ids -> [x: InputCoord, width: InputSize]] :
       NodeResizeMany(ids, box)
  \/ \E ids \in SUBSET NodeId : NodeDelete(ids)
  \/ \E n \in NodeId, parent \in Id, index \in ReorderIndex :
       NodeReorder(n, parent, index)
  \/ \E n \in NodeId, name \in Name : NodeRename(n, name)
  \/ \E n \in NodeId, visible \in InputFlag : NodeSetVisible(n, visible)
  \/ \E n \in NodeId, locked \in InputFlag : NodeSetLocked(n, locked)
  \/ \E overflow \in Overflow : PageSetOverflow(overflow)

-----------------------------------------------------------------------------
(* undo, redo, jumpToHistory, dispose.                                     *)

\* An undo that gives the transaction number back.
UndoReusingNumber ==
  /\ Ready
  /\ currentIndex > 0
  /\ PatchApplies(store, entries[currentIndex].inverse)
  /\ store' = Patched(store, entries[currentIndex].inverse)
  /\ currentIndex' = currentIndex - 1
  /\ transactionSequence' = transactionSequence - 1
  /\ operation' = [type |-> "history.undo"]
  /\ UNCHANGED <<entries, disposed, jump>>

Undo ==
  /\ Ready
  /\ currentIndex > 0
  /\ PatchApplies(store, entries[currentIndex].inverse)
  /\ store' = Patched(store, entries[currentIndex].inverse)
  /\ currentIndex' = currentIndex - 1
  /\ operation' = [type |-> "history.undo"]
  /\ UNCHANGED <<entries, transactionSequence, disposed, jump>>

Redo ==
  /\ Ready
  /\ currentIndex < Len(entries)
  /\ PatchApplies(store, entries[currentIndex + 1].forward)
  /\ store' = Patched(store, entries[currentIndex + 1].forward)
  /\ currentIndex' = currentIndex + 1
  /\ operation' = [type |-> "history.redo"]
  /\ UNCHANGED <<entries, transactionSequence, disposed, jump>>

\* A jump to where the history already is succeeds and changes nothing.
JumpToCurrentIndex ==
  /\ Ready
  /\ operation' = [type |-> "history.jump"]
  /\ UNCHANGED <<store, entries, currentIndex, transactionSequence, disposed, jump>>

JumpToHistory(target) ==
  /\ Ready
  /\ target # currentIndex
  /\ jump' = [target |-> target, index |-> currentIndex, nextStore |-> store]
  /\ UNCHANGED <<store, entries, currentIndex, transactionSequence, disposed, operation>>

\* A loop that reads the history's index instead of its own.
JumpPatchAtCurrentIndex ==
  IF jump.target < jump.index
  THEN entries[currentIndex].inverse
  ELSE entries[currentIndex + 1].forward

\* The patch of the next iteration, and the index it leads to.
JumpPatch ==
  IF jump.target < jump.index
  THEN entries[jump.index].inverse
  ELSE entries[jump.index + 1].forward

JumpIndex == IF jump.target < jump.index THEN jump.index - 1 ELSE jump.index + 1

\* One iteration; when its patch does not apply the whole jump is given up.
JumpIteration ==
  /\ jump # NoJump
  /\ jump.index # jump.target
  /\ jump' = IF PatchApplies(jump.nextStore, JumpPatch)
             THEN [jump EXCEPT !.index = JumpIndex,
                               !.nextStore = Patched(@, JumpPatch)]
             ELSE NoJump
  /\ UNCHANGED <<store, entries, currentIndex, transactionSequence, disposed, operation>>

JumpReturn ==
  /\ jump # NoJump
  /\ jump.index = jump.target
  /\ store' = jump.nextStore
  /\ currentIndex' = jump.target
  /\ jump' = NoJump
  /\ operation' = [type |-> "history.jump"]
  /\ UNCHANGED <<entries, transactionSequence, disposed>>

Dispose ==
  /\ Ready
  /\ disposed' = TRUE
  /\ UNCHANGED <<store, entries, currentIndex, transactionSequence, jump, operation>>

Next ==
  \/ Dispatch
  \/ Undo
  \/ Redo
  \/ JumpToCurrentIndex
  \/ \E target \in 0 .. Len(entries) : JumpToHistory(target)
  \/ JumpIteration
  \/ JumpReturn
  \/ Dispose

Spec == Init /\ [][Next]_vars

-----------------------------------------------------------------------------
(* Invariants.                                                             *)

\* Whenever the editor offers undo or redo, the patch it would apply applies:
\* every record it touches is still what it was when the patch was made, and
\* the resulting store is valid.  History.undo and redo never fail.
HistoryApplies ==
  jump = NoJump =>
    /\ currentIndex > 0 => PatchApplies(store, entries[currentIndex].inverse)
    /\ currentIndex < Len(entries) =>
         PatchApplies(store, entries[currentIndex + 1].forward)

\* A jump over several entries never fails half-way: at every iteration of
\* jumpTo the next patch applies to the intermediate store.
JumpNeverFails ==
  jump # NoJump /\ jump.index # jump.target =>
    PatchApplies(jump.nextStore, JumpPatch)

\* Transactions in the history are in the order they were committed and none
\* appears twice, though undone ones are dropped and their numbers never reused.
TransactionIdsAscend ==
  /\ \A i, j \in 1 .. Len(entries) :
       i < j => entries[i].transactionId < entries[j].transactionId
  /\ \A i \in 1 .. Len(entries) : entries[i].transactionId <= transactionSequence
=============================================================================
