----------------------------- MODULE EditorProofs -----------------------------
(***************************************************************************)
(* Theorems about Editor, for every set of ids, every loaded document and  *)
(* every history limit.                                                    *)
(***************************************************************************)
EXTENDS Editor, SequenceTheorems, TLAPS

-----------------------------------------------------------------------------
(* Records, stores and patches.                                            *)

\* The record of a node is a node record.
LEMMA NodesHoldNodeRecords ==
  ASSUME NEW s \in Stores, NEW n \in Nodes(s)
  PROVE  n \in Id /\ s[n] \in NodeRecord
BY DEF Stores, Nodes, Present, Record, PageRecord

\* In a valid store the root page's record is a page record.
LEMMA RootPageHoldsPageRecord ==
  ASSUME NEW s \in Stores, ValidRecords(s)
  PROVE  s[PageId] \in PageRecord
BY DEF Stores, ValidRecords, Pages, Present, Record, NodeRecord

\* updateRecord keeps the kind of record.
LEMMA UpdatedRecordTyped ==
  /\ \A r, new \in NodeRecord : UpdatedRecord(r, new) \in NodeRecord
  /\ \A r, new \in PageRecord : UpdatedRecord(r, new) \in PageRecord
BY DEF UpdatedRecord, NodeRecord, PageRecord

\* A draft in which node records replace node records is a store.
LEMMA WithUpdatedTyped ==
  ASSUME NEW s \in Stores, NEW n \in Id, NEW new,
         \/ s[n] \in NodeRecord /\ new \in NodeRecord
         \/ s[n] \in PageRecord /\ new \in PageRecord
  PROVE  WithUpdated(s, n, new) \in Stores
<1>1. UpdatedRecord(s[n], new) \in Record
  BY UpdatedRecordTyped DEF Record
<1>2. QED
  BY <1>1 DEF WithUpdated, Stores

LEMMA PatchesTyped ==
  /\ \A s, d \in Stores : BuildPatch(s, d) \in Patch
  /\ \A p \in Patch : InversePatch(p) \in Patch
  /\ \A s \in Stores, p \in Patch : Patched(s, p) \in Stores
BY DEF BuildPatch, InversePatch, Patched, Patch, Stores, Untouched, Touched

\* Applying a patch that touches nothing changes nothing.
LEMMA EmptyPatchKeepsStore ==
  ASSUME NEW s \in Stores, NEW p, EmptyPatch(p)
  PROVE  Patched(s, p) = s
BY DEF EmptyPatch, Patched, Stores

\* A patch that applies leads from a valid store to a valid store.
LEMMA PatchedValid ==
  ASSUME NEW s \in Stores, ValidRecords(s), NEW p, PatchApplies(s, p)
  PROVE  ValidRecords(Patched(s, p))
BY EmptyPatchKeepsStore DEF PatchApplies

\* What a patch touches, read off its two sides.
LEMMA TouchedSides ==
  ASSUME NEW p \in Patch, NEW id \in Id
  PROVE  id \in Touched(p) <=> p[id].before # NoRecord \/ p[id].after # NoRecord
<1>1. p[id] \in [before: Record \cup {NoRecord}, after: Record \cup {NoRecord}]
  BY DEF Patch
<1>2. p[id] = [before |-> p[id].before, after |-> p[id].after]
  BY <1>1
<1>3. QED
  BY <1>2 DEF Touched, Untouched

LEMMA InverseSides ==
  ASSUME NEW p \in Patch, NEW id \in Id
  PROVE  /\ InversePatch(p)[id].before = p[id].after
         /\ InversePatch(p)[id].after = p[id].before
BY DEF InversePatch

LEMMA InverseTouches ==
  ASSUME NEW p \in Patch
  PROVE  Touched(InversePatch(p)) = Touched(p)
<1>1. InversePatch(p) \in Patch
  BY PatchesTyped
<1>2. \A id \in Id : id \in Touched(InversePatch(p)) <=> id \in Touched(p)
  BY <1>1, TouchedSides, InverseSides
<1>3. QED
  BY <1>2 DEF Touched

\* The inverse of a patch that applies undoes it exactly, and applies.
LEMMA InverseUndoes ==
  ASSUME NEW s \in Stores, ValidRecords(s), NEW p \in Patch, PatchApplies(s, p)
  PROVE  /\ PatchApplies(Patched(s, p), InversePatch(p))
         /\ Patched(Patched(s, p), InversePatch(p)) = s
<1>1. \A id \in Touched(p) : id \in Id
  BY DEF Touched
<1>2. CASE EmptyPatch(p)
  <2>1. EmptyPatch(InversePatch(p))
    BY <1>2, InverseTouches DEF EmptyPatch
  <2>2. QED
    BY <2>1, <1>2, EmptyPatchKeepsStore DEF PatchApplies
<1>3. CASE ~EmptyPatch(p)
  <2>1. PreconditionHolds(s, p) /\ IdentityKept(p)
    BY <1>3 DEF PatchApplies
  <2>2. PreconditionHolds(Patched(s, p), InversePatch(p))
    BY <1>1, InverseTouches, InverseSides DEF PreconditionHolds, Patched
  <2>3. \A id \in Id : Patched(Patched(s, p), InversePatch(p))[id] = s[id]
    BY <2>1, InverseTouches, InverseSides DEF PreconditionHolds, Patched
  <2>4. Patched(Patched(s, p), InversePatch(p)) = s
    BY <2>3 DEF Patched, Stores
  <2>5. IdentityKept(InversePatch(p))
    <3>1. \A id \in Touched(p) : {p[id].after, p[id].before} = {p[id].before, p[id].after}
      OBVIOUS
    <3>2. QED
      BY <1>1, <2>1, <3>1, InverseTouches, InverseSides DEF IdentityKept
  <2>6. QED
    BY <2>2, <2>4, <2>5 DEF PatchApplies
<1>4. QED
  BY <1>2, <1>3

-----------------------------------------------------------------------------
(* Commands.                                                               *)

\* Draft in which the chosen nodes get new node records.
LEMMA ManyUpdatedTyped ==
  ASSUME NEW s \in Stores, NEW ids \in SUBSET Nodes(s), NEW new,
         \A id \in ids : new[id] \in NodeRecord
  PROVE  [id \in Id |-> IF id \in ids THEN UpdatedRecord(s[id], new[id]) ELSE s[id]]
           \in Stores
<1>1. \A id \in ids : UpdatedRecord(s[id], new[id]) \in Record
  BY NodesHoldNodeRecords, UpdatedRecordTyped DEF Record
<1>2. QED
  BY <1>1 DEF Stores

\* A reorder, with or without a swap, gives a store.
LEMMA ReorderedTyped ==
  ASSUME NEW s \in Stores, NEW n \in Nodes(s), NEW parent \in Id, NEW index \in Index
  PROVE  Reordered(s, n, parent, index) \in Stores
<1> DEFINE swapped == IF s[n].parentId = parent
                      THEN Occupants(s, n, parent, index) ELSE {}
           new == [m \in Nodes(s) |-> [s[m] EXCEPT !.index = s[n].index]]
           freed == [id \in Id |-> IF id \in swapped
                                   THEN UpdatedRecord(s[id], new[id]) ELSE s[id]]
<1>1. n \in Id /\ s[n] \in NodeRecord
  BY NodesHoldNodeRecords
<1>2. swapped \in SUBSET Nodes(s) /\ n \notin swapped
  BY DEF Occupants, Siblings
<1>3. \A m \in swapped : new[m] \in NodeRecord
  BY <1>1, <1>2, NodesHoldNodeRecords DEF NodeRecord
<1>4. freed \in Stores
  <2> HIDE DEF new, swapped
  <2> QED
    BY <1>2, <1>3, ManyUpdatedTyped
<1>5. freed[n] = s[n]
  BY <1>1, <1>2
<1>6. [s[n] EXCEPT !.parentId = parent, !.index = index] \in NodeRecord
  BY <1>1 DEF NodeRecord
<1>7. freed = [id \in Id |->
                 IF id \in swapped
                 THEN UpdatedRecord(s[id], [s[id] EXCEPT !.index = s[n].index])
                 ELSE s[id]]
  BY <1>2
<1>8. WithUpdated(freed, n, [s[n] EXCEPT !.parentId = parent, !.index = index]) \in Stores
  <2> HIDE DEF freed
  <2> QED
    BY <1>1, <1>4, <1>5, <1>6, WithUpdatedTyped
<1>9. QED
  BY <1>7, <1>8 DEF Reordered

\* Whatever a command does, it does by committing a draft that is a store.
LEMMA DispatchCommits ==
  ASSUME TypeOK, ValidRecords(store), Dispatch
  PROVE  Ready /\ \E command \in Operation, draft \in Stores : Commit(command, draft)
<1> DEFINE Commits == Ready /\ \E command \in Operation, draft \in Stores :
                                  Commit(command, draft)
<1>0. store \in Stores
  BY DEF TypeOK
<1>1. ASSUME NEW id \in NodeId, NEW parent \in Id, NEW x \in InputCoord,
             NEW width \in InputSize, NEW name \in Name,
             NodeCreate(id, parent, x, width, name)
      PROVE  Commits
  <2>1. PICK index \in Index : Commit([type |-> "node.create"], WithRecord(store, id,
            [typeName |-> "node", revision |-> 0, parentId |-> parent,
             index |-> index, x |-> x, width |-> width, visible |-> TRUE,
             locked |-> FALSE, name |-> name]))
    BY <1>1 DEF NodeCreate
  <2>2. [typeName |-> "node", revision |-> 0, parentId |-> parent,
         index |-> index, x |-> x, width |-> width, visible |-> TRUE,
         locked |-> FALSE, name |-> name] \in Record
    BY RecordsAssumption, EditorAssumption DEF Record, NodeRecord
  <2>3. \A r \in Record : WithRecord(store, id, r) \in Stores
    BY <1>0 DEF WithRecord, Stores, Id
  <2>4. [type |-> "node.create"] \in Operation
    BY DEF Operation
  <2>5. QED
    BY <1>1, <2>1, <2>2, <2>3, <2>4 DEF NodeCreate
<1>2. ASSUME NEW ids \in SUBSET NodeId, NEW delta \in MoveDelta, NodeMove(ids, delta)
      PROVE  Commits
  <2> DEFINE new == [n \in Nodes(store) |-> [store[n] EXCEPT !.x = @ + delta]]
             moved == TopLevel(store, ids)
             draft == [id \in Id |-> IF id \in moved
                                     THEN UpdatedRecord(store[id], new[id])
                                     ELSE store[id]]
  <2>1. moved \in SUBSET Nodes(store)
    BY <1>2 DEF NodeMove, TopLevel
  <2>2. \A n \in moved : new[n] \in NodeRecord
    BY <1>0, <2>1, NodesHoldNodeRecords, EditorAssumption DEF NodeRecord
  <2>3. draft \in Stores
    <3> HIDE DEF new, moved
    <3> QED
      BY <1>0, <2>1, <2>2, ManyUpdatedTyped
  <2>4. draft = [id \in Id |->
          IF id \in moved
          THEN UpdatedRecord(store[id], [store[id] EXCEPT !.x = @ + delta])
          ELSE store[id]]
    BY <2>1
  <2>5. [type |-> "node.move", ids |-> ids, delta |-> delta] \in Operation
    BY DEF Operation
  <2>6. Commit([type |-> "node.move", ids |-> ids, delta |-> delta], draft)
    BY <1>2, <2>4 DEF NodeMove
  <2>7. QED
    BY <1>2, <2>3, <2>5, <2>6 DEF NodeMove
<1>3. ASSUME NEW n \in Nodes(store), NEW width \in InputSize,
             NEW x \in InputCoord \cup {store[n].x}, NodeResize(n, x, width)
      PROVE  Commits
  <2>1. n \in Id /\ store[n] \in NodeRecord
    BY <1>0, NodesHoldNodeRecords
  <2>2. [store[n] EXCEPT !.x = x, !.width = width] \in NodeRecord
    BY <2>1, RecordsAssumption, EditorAssumption DEF NodeRecord
  <2>3. [type |-> "node.resize"] \in Operation
    BY DEF Operation
  <2>4. QED
    BY <1>0, <1>3, <2>1, <2>2, <2>3, WithUpdatedTyped DEF NodeResize
<1>4. ASSUME NEW ids \in SUBSET NodeId, NEW box \in [ids -> [x: InputCoord, width: InputSize]],
             NodeResizeMany(ids, box)
      PROVE  Commits
  <2> DEFINE new == [n \in ids |-> [store[n] EXCEPT !.x = box[n].x,
                                                    !.width = box[n].width]]
             draft == [id \in Id |-> IF id \in ids
                                     THEN UpdatedRecord(store[id], new[id])
                                     ELSE store[id]]
  <2>1. ids \in SUBSET Nodes(store)
    BY <1>4 DEF NodeResizeMany
  <2>2. \A n \in ids : new[n] \in NodeRecord
    <3> SUFFICES ASSUME NEW n \in ids PROVE new[n] \in NodeRecord
      OBVIOUS
    <3>1. store[n] \in NodeRecord
      BY <1>0, <2>1, NodesHoldNodeRecords
    <3>2. box[n].x \in Int /\ box[n].width \in Int
      BY RecordsAssumption, EditorAssumption
    <3>3. [store[n] EXCEPT !.x = box[n].x, !.width = box[n].width] \in NodeRecord
      BY <3>1, <3>2 DEF NodeRecord
    <3>4. QED
      BY <3>3
  <2>3. draft \in Stores
    <3> HIDE DEF new
    <3> QED
      BY <1>0, <2>1, <2>2, ManyUpdatedTyped
  <2>4. draft = [id \in Id |->
          IF id \in ids
          THEN UpdatedRecord(store[id], [store[id] EXCEPT !.x = box[id].x,
                                                          !.width = box[id].width])
          ELSE store[id]]
    OBVIOUS
  <2>5. [type |-> "node.resizeMany"] \in Operation
    BY DEF Operation
  <2>6. Commit([type |-> "node.resizeMany"], draft)
    BY <1>4, <2>4 DEF NodeResizeMany
  <2>7. QED
    BY <1>4, <2>3, <2>5, <2>6 DEF NodeResizeMany
<1>5. ASSUME NEW ids \in SUBSET NodeId, NodeDelete(ids)
      PROVE  Commits
  <2>1. WithoutRecords(store, Doomed(store, ids)) \in Stores
    BY <1>0 DEF WithoutRecords, Stores
  <2>2. [type |-> "node.delete"] \in Operation
    BY DEF Operation
  <2>3. QED
    BY <1>5, <2>1, <2>2 DEF NodeDelete
<1>6. ASSUME NEW n \in NodeId, NEW parent \in Id, NEW index \in ReorderIndex,
             NodeReorder(n, parent, index)
      PROVE  Commits
  <2>1. n \in Nodes(store)
    BY <1>6 DEF NodeReorder
  <2>2. Reordered(store, n, parent, index) \in Stores
    BY <1>0, <2>1, ReorderedTyped, EditorAssumption
  <2>3. [type |-> "node.reorder"] \in Operation
    BY DEF Operation
  <2>4. QED
    BY <1>6, <2>2, <2>3 DEF NodeReorder
<1>7. ASSUME NEW n \in NodeId, NEW name \in Name, NodeRename(n, name)
      PROVE  Commits
  <2>1. n \in Id /\ store[n] \in NodeRecord
    BY <1>0, <1>7, NodesHoldNodeRecords DEF NodeRename
  <2>2. [store[n] EXCEPT !.name = name] \in NodeRecord
    BY <2>1 DEF NodeRecord
  <2>3. [type |-> "node.rename"] \in Operation
    BY DEF Operation
  <2>4. QED
    BY <1>0, <1>7, <2>1, <2>2, <2>3, WithUpdatedTyped DEF NodeRename
<1>8. ASSUME NEW n \in NodeId, NEW visible \in InputFlag, NodeSetVisible(n, visible)
      PROVE  Commits
  <2>1. n \in Id /\ store[n] \in NodeRecord
    BY <1>0, <1>8, NodesHoldNodeRecords DEF NodeSetVisible
  <2>2. [store[n] EXCEPT !.visible = visible] \in NodeRecord
    BY <2>1, EditorAssumption DEF NodeRecord
  <2>3. [type |-> "node.setVisible"] \in Operation
    BY DEF Operation
  <2>4. QED
    BY <1>0, <1>8, <2>1, <2>2, <2>3, WithUpdatedTyped DEF NodeSetVisible
<1>9. ASSUME NEW n \in NodeId, NEW locked \in InputFlag, NodeSetLocked(n, locked)
      PROVE  Commits
  <2>1. n \in Id /\ store[n] \in NodeRecord
    BY <1>0, <1>9, NodesHoldNodeRecords DEF NodeSetLocked
  <2>2. [store[n] EXCEPT !.locked = locked] \in NodeRecord
    BY <2>1, EditorAssumption DEF NodeRecord
  <2>3. [type |-> "node.setLocked"] \in Operation
    BY DEF Operation
  <2>4. QED
    BY <1>0, <1>9, <2>1, <2>2, <2>3, WithUpdatedTyped DEF NodeSetLocked
<1>10. ASSUME NEW overflow \in Overflow, PageSetOverflow(overflow)
       PROVE  Commits
  <2>1. PageId \in Id /\ store[PageId] \in PageRecord
    BY <1>0, RootPageHoldsPageRecord DEF Id
  <2>2. [store[PageId] EXCEPT !.overflow = overflow] \in PageRecord
    BY <2>1 DEF PageRecord
  <2>3. [type |-> "page.setOverflow"] \in Operation
    BY DEF Operation
  <2>4. QED
    BY <1>0, <1>10, <2>1, <2>2, <2>3, WithUpdatedTyped DEF PageSetOverflow
<1>11. QED
  <2> HIDE DEF Commits
  <2>1. Commits
    BY <1>1, <1>2, <1>3, <1>4, <1>5, <1>6, <1>7, <1>8, <1>9, <1>10 DEF Dispatch
  <2>2. QED
    BY <2>1 DEF Commits

-----------------------------------------------------------------------------
(* The line of stores behind the history.  TypeOK is not inductive: that   *)
(* page.setOverflow meets a page record needs a valid store, and that      *)
(* undo leads to one needs every entry to join two valid stores.           *)

\* An entry leads from one store to the next, and exactly back.
Joins(entry, before, after) ==
  /\ PatchApplies(before, entry.forward)
  /\ Patched(before, entry.forward) = after
  /\ PatchApplies(after, entry.inverse)
  /\ Patched(after, entry.inverse) = before

\* line[i + 1] is the store at history index i.
HistoryLine(line) ==
  /\ line \in Seq(Stores)
  /\ Len(line) = Len(entries) + 1
  /\ \A i \in 1 .. Len(line) : ValidRecords(line[i])
  /\ \A i \in 1 .. Len(entries) : Joins(entries[i], line[i], line[i + 1])
  /\ line[currentIndex + 1] = store
  /\ jump # NoJump => line[jump.index + 1] = jump.nextStore

IInv == TypeOK /\ \E line \in Seq(Stores) : HistoryLine(line)

\* What a transaction records joins the stores before and after it.
LEMMA TransactionJoins ==
  ASSUME NEW s \in Stores, ValidRecords(s), NEW p \in Patch, PatchApplies(s, p),
         NEW id
  PROVE  Joins([transactionId |-> id, forward |-> p, inverse |-> InversePatch(p)],
               s, Patched(s, p))
BY InverseUndoes DEF Joins

\* The first k elements of s, then e.
PushedAfter(s, k, e) == Append(SubSeq(s, 1, k), e)

\* pushed holds the first k elements of s and then e; without its oldest
\* element the others are one place further to the front.
IsPushed(pushed, S, s, k, e) ==
  /\ pushed \in Seq(S)
  /\ Len(pushed) = k + 1
  /\ \A i \in 1 .. k : pushed[i] = s[i]
  /\ pushed[k + 1] = e
  /\ Tail(pushed) \in Seq(S)
  /\ Len(Tail(pushed)) = k
  /\ \A i \in 1 .. k : Tail(pushed)[i] = pushed[i + 1]

\* PushedAfter is such a sequence.
LEMMA PushProperties ==
  ASSUME NEW S, NEW s \in Seq(S), NEW k \in 0 .. Len(s), NEW e \in S
  PROVE  IsPushed(PushedAfter(s, k, e), S, s, k, e)
<1> DEFINE kept == SubSeq(s, 1, k)
           pushed == Append(kept, e)
<1>1. \A i \in 1 .. k : s[i] \in S
  BY ElementOfSeq
<1>2. kept \in Seq(S) /\ Len(kept) = k /\ \A i \in 1 .. k : kept[i] = s[i]
  BY <1>1, SubSeqProperties
<1> HIDE DEF kept
<1>3. pushed \in Seq(S) /\ Len(pushed) = k + 1
  BY <1>2
<1>4. (\A i \in 1 .. k : pushed[i] = s[i]) /\ pushed[k + 1] = e
  BY <1>2
<1> HIDE DEF pushed
<1>5. /\ Tail(pushed) \in Seq(S)
      /\ Len(Tail(pushed)) = k
      /\ \A i \in 1 .. k : Tail(pushed)[i] = pushed[i + 1]
  BY <1>3, HeadTailProperties, EmptySeq
<1>6. QED
  BY <1>3, <1>4, <1>5 DEF IsPushed, PushedAfter, pushed, kept

LEMMA InitEstablishes == Init => IInv
<1> SUFFICES ASSUME Init PROVE IInv
  OBVIOUS
<1>1. store \in Stores /\ ValidRecords(store)
  BY EditorAssumption DEF Init
<1>2. TypeOK
  <2>1. entries \in Seq(Entry) /\ Len(entries) = 0
    BY EmptySeq DEF Init
  <2>2. operation \in Operation
    BY DEF Init, Operation
  <2>3. /\ currentIndex = 0 /\ transactionSequence = 0
        /\ disposed = FALSE /\ jump = NoJump
    BY DEF Init
  <2>4. HistoryLimit \in Nat
    BY EditorAssumption
  <2>5. /\ Len(entries) <= HistoryLimit
        /\ currentIndex \in 0 .. Len(entries)
        /\ transactionSequence \in Nat
    BY <2>1, <2>3, <2>4
  <2>6. disposed \in BOOLEAN
    BY <2>3
  <2>7. QED
    BY <1>1, <2>1, <2>2, <2>3, <2>5, <2>6 DEF TypeOK
<1>3. HistoryLine(<<store>>)
  BY <1>1 DEF Init, HistoryLine
<1>4. QED
  BY <1>2, <1>3 DEF IInv, HistoryLine

\* The current store is on the line, hence valid.
LEMMA CurrentStoreValid ==
  ASSUME TypeOK, NEW line \in Seq(Stores), HistoryLine(line)
  PROVE  /\ ValidRecords(store)
         /\ jump # NoJump => jump.nextStore \in Stores /\ ValidRecords(jump.nextStore)
<1>1. currentIndex + 1 \in 1 .. Len(line)
  BY DEF TypeOK, HistoryLine
<1>2. ASSUME jump # NoJump
      PROVE  jump.index + 1 \in 1 .. Len(line) /\ jump.nextStore \in Stores
  BY <1>2 DEF TypeOK, HistoryLine, Jump
<1>3. QED
  BY <1>1, <1>2 DEF HistoryLine

\* A line without its oldest store when the history's limit is exceeded.
Capped(line) == IF Len(line) > HistoryLimit + 1 THEN Tail(line) ELSE line

\* A step that leaves the line as it is, or cuts it behind the current store
\* and appends a different one.
CutsAndAppends(line, after) ==
  \/ after = line /\ currentIndex' = currentIndex
  \/ /\ store' # store
     /\ after = Capped(PushedAfter(line, currentIndex + 1, store'))
     /\ currentIndex' + 1 = Len(after)

\* A command whose patch touches something changes the store.
LEMMA TouchingChanges ==
  ASSUME NEW s \in Stores, NEW d \in Stores, ~EmptyPatch(BuildPatch(s, d))
  PROVE  Patched(s, BuildPatch(s, d)) # s
<1>1. PICK id \in Id : BuildPatch(s, d)[id] # Untouched
  BY DEF EmptyPatch, Touched
<1>2. /\ BuildPatch(s, d)[id] = [before |-> s[id], after |-> d[id]]
      /\ ~(s[id] # NoRecord /\ d[id] # NoRecord /\ ~RecordsDiffer(s[id], d[id]))
  BY <1>1 DEF BuildPatch
<1>3. s[id] # d[id]
  BY <1>1, <1>2 DEF RecordsDiffer, Untouched
<1>4. Patched(s, BuildPatch(s, d))[id] = d[id]
  BY <1>1, <1>2 DEF Patched, Touched
<1>5. QED
  BY <1>3, <1>4

\* The new line after a command: the future is dropped, the new store
\* appended, and the oldest store goes when the limit is exceeded.
LEMMA CommitMakesLine ==
  ASSUME TypeOK, NEW line \in Seq(Stores), HistoryLine(line), Ready,
         NEW command \in Operation, NEW draft \in Stores, Commit(command, draft)
  PROVE  /\ TypeOK'
         /\ \E after \in Seq(Stores) :
              HistoryLine(after)' /\ CutsAndAppends(line, after)
<1> DEFINE patch == BuildPatch(store, draft)
           id == transactionSequence + 1
           entry == [transactionId |-> id, forward |-> patch,
                     inverse |-> InversePatch(patch)]
<1>1. HistoryLine(line)
  OBVIOUS
<1>2. TypeOK
  OBVIOUS
<1>3. ValidRecords(store) /\ store \in Stores
  BY <1>1, <1>2, CurrentStoreValid DEF TypeOK
<1>4. patch \in Patch /\ InversePatch(patch) \in Patch
  BY <1>3, PatchesTyped
<1>5. /\ PatchApplies(store, patch)
      /\ store' = Patched(store, patch)
      /\ transactionSequence' = id
      /\ RecordEntry(entry)
      /\ operation' = command
      /\ disposed' = disposed /\ jump' = jump
  BY DEF Commit
<1> HIDE DEF patch
<1>6. entry \in Entry
  BY <1>2, <1>4 DEF Entry, TypeOK
<1>7. Joins(entry, store, store')
  BY <1>3, <1>4, <1>5, TransactionJoins
<1>8. store' \in Stores /\ ValidRecords(store')
  BY <1>3, <1>4, <1>5, PatchesTyped, PatchedValid
<1>9. jump = NoJump /\ jump' = NoJump
  BY <1>5 DEF Ready
<1>10. /\ transactionSequence' \in Nat
       /\ disposed' \in BOOLEAN
       /\ operation' \in Operation
  BY <1>2, <1>5 DEF TypeOK
<1>11. CASE EmptyPatch(patch)
  <2>1. entries' = entries /\ currentIndex' = currentIndex
    BY <1>5, <1>11 DEF RecordEntry
  <2>2. store' = store
    BY <1>3, <1>5, <1>11, EmptyPatchKeepsStore
  <2>3. TypeOK'
    BY <1>2, <1>8, <1>9, <1>10, <2>1 DEF TypeOK
  <2>4. HistoryLine(line)'
    BY <1>1, <1>9, <2>1, <2>2 DEF HistoryLine
  <2>5. QED
    BY <2>1, <2>3, <2>4 DEF CutsAndAppends
<1>12. CASE ~EmptyPatch(patch)
  <2> DEFINE k == currentIndex
             pushed == PushedAfter(entries, k, entry)
  <2>1. /\ entries \in Seq(Entry)
        /\ k \in 0 .. Len(entries)
        /\ Len(entries) \in Nat
    BY <1>2 DEF TypeOK
  <2>2. Len(line) = Len(entries) + 1 /\ k + 1 \in 0 .. Len(line)
    BY <1>1, <2>1 DEF HistoryLine
  <2>3. /\ pushed \in Seq(Entry)
        /\ Len(pushed) = k + 1
        /\ \A i \in 1 .. k : pushed[i] = entries[i]
        /\ pushed[k + 1] = entry
        /\ Tail(pushed) \in Seq(Entry)
        /\ Len(Tail(pushed)) = k
        /\ \A i \in 1 .. k : Tail(pushed)[i] = pushed[i + 1]
    <3> HIDE DEF entry
    <3>1. IsPushed(PushedAfter(entries, k, entry), Entry, entries, k, entry)
      BY <1>6, <2>1, PushProperties
    <3>2. QED
      BY <3>1 DEF IsPushed
  <2>4. /\ entries' = IF Len(pushed) > HistoryLimit THEN Tail(pushed) ELSE pushed
        /\ currentIndex' = Len(entries')
    BY <1>5, <1>12 DEF RecordEntry, Push, PushedAfter
  <2> HIDE DEF pushed, entry
  <2>5. PICK longer \in Seq(Stores) :
          /\ longer = PushedAfter(line, k + 1, store')
          /\ Len(longer) = k + 2
          /\ \A i \in 1 .. k + 1 : longer[i] = line[i]
          /\ longer[k + 2] = store'
          /\ Tail(longer) \in Seq(Stores)
          /\ Len(Tail(longer)) = k + 1
          /\ \A i \in 1 .. k + 1 : Tail(longer)[i] = longer[i + 1]
    <3>1. (k + 1) + 1 = k + 2
      BY <2>1
    <3>2. ASSUME NEW e \in Stores
          PROVE  LET l == PushedAfter(line, k + 1, e)
                 IN /\ l \in Seq(Stores)
                    /\ Len(l) = k + 2
                    /\ \A i \in 1 .. k + 1 : l[i] = line[i]
                    /\ l[k + 2] = e
                    /\ Tail(l) \in Seq(Stores)
                    /\ Len(Tail(l)) = k + 1
                    /\ \A i \in 1 .. k + 1 : Tail(l)[i] = l[i + 1]
      <4> DEFINE m == k + 1
      <4>1. m \in 0 .. Len(line)
        BY <2>2
      <4> HIDE DEF m
      <4>2. IsPushed(PushedAfter(line, m, e), Stores, line, m, e)
        BY <4>1, PushProperties
      <4>3. m + 1 = k + 2
        BY <3>1 DEF m
      <4>4. QED
        BY <4>2, <4>3 DEF IsPushed, m
    <3>3. QED
      BY <1>8, <3>2
  <2>6. HistoryLimit \in Nat /\ HistoryLimit >= 1
    BY EditorAssumption
  <2>7. /\ entries' \in Seq(Entry)
        /\ Len(entries') <= HistoryLimit
        /\ currentIndex' \in 0 .. Len(entries')
    <3>1. k + 1 <= HistoryLimit + 1
      BY <1>2, <2>1, <2>6 DEF TypeOK
    <3>2. CASE Len(pushed) > HistoryLimit
      BY <2>1, <2>3, <2>4, <2>6, <3>1, <3>2
    <3>3. CASE ~(Len(pushed) > HistoryLimit)
      BY <2>1, <2>3, <2>4, <2>6, <3>1, <3>3
    <3>4. QED
      BY <3>2, <3>3
  <2>8. TypeOK'
    BY <1>8, <1>9, <1>10, <2>7 DEF TypeOK
  <2>9. line[k + 1] = store
    BY <1>1 DEF HistoryLine
  <2>10. \A i \in 1 .. k + 2 : ValidRecords(longer[i])
    <3>1. \A i \in 1 .. k + 1 : ValidRecords(line[i])
      BY <1>1, <2>1, <2>2 DEF HistoryLine
    <3>2. QED
      BY <1>8, <2>1, <2>5, <3>1
  <2>11. \A i \in 1 .. k + 1 : Joins(pushed[i], longer[i], longer[i + 1])
    <3> SUFFICES ASSUME NEW i \in 1 .. k + 1
                 PROVE  Joins(pushed[i], longer[i], longer[i + 1])
      OBVIOUS
    <3>1. CASE i = k + 1
      <4>1. longer[i] = store /\ longer[i + 1] = store' /\ pushed[i] = entry
        BY <2>1, <2>3, <2>5, <2>9, <3>1
      <4>2. QED
        BY <1>7, <4>1 DEF entry
    <3>2. CASE i # k + 1
      <4>1. i \in 1 .. k /\ i \in 1 .. Len(entries) /\ i + 1 \in 1 .. k + 1
        BY <3>2, <2>1
      <4>2. Joins(entries[i], line[i], line[i + 1])
        BY <4>1, <1>1 DEF HistoryLine
      <4>3. QED
        BY <4>1, <4>2, <2>3, <2>5
    <3>3. QED
      BY <3>1, <3>2
  <2>12. store' # store
    BY <1>3, <1>5, <1>12, TouchingChanges DEF patch
  <2>13. CASE Len(pushed) > HistoryLimit
    <3>1. entries' = Tail(pushed) /\ Len(entries') = k /\ currentIndex' = k
      BY <2>3, <2>4, <2>13
    <3>2. \A i \in 1 .. k + 1 : ValidRecords(Tail(longer)[i])
      BY <2>1, <2>5, <2>10
    <3>3. \A i \in 1 .. k : Joins(Tail(pushed)[i], Tail(longer)[i], Tail(longer)[i + 1])
      <4> SUFFICES ASSUME NEW i \in 1 .. k
                   PROVE  Joins(Tail(pushed)[i], Tail(longer)[i], Tail(longer)[i + 1])
        OBVIOUS
      <4>1. i \in 1 .. k + 1 /\ i + 1 \in 1 .. k + 1
        BY <2>1
      <4>2. QED
        BY <4>1, <2>3, <2>5, <2>11
    <3>4. Tail(longer)[k + 1] = store'
      BY <2>1, <2>5
    <3>5. HistoryLine(Tail(longer))'
      BY <1>9, <2>5, <3>1, <3>2, <3>3, <3>4 DEF HistoryLine
    <3>6. Capped(longer) = Tail(longer)
      <4>1. Len(longer) > HistoryLimit + 1
        BY <2>1, <2>3, <2>5, <2>6, <2>13
      <4>2. QED
        BY <4>1 DEF Capped
    <3>7. CutsAndAppends(line, Tail(longer))
      BY <2>5, <2>12, <3>1, <3>6 DEF CutsAndAppends
    <3>8. QED
      BY <2>5, <2>8, <3>5, <3>7
  <2>14. CASE ~(Len(pushed) > HistoryLimit)
    <3>1. entries' = pushed /\ Len(entries') = k + 1 /\ currentIndex' = k + 1
      BY <2>3, <2>4, <2>14
    <3>2. currentIndex' + 1 = k + 2 /\ Len(entries') + 1 = k + 2
      BY <2>1, <3>1
    <3>3. HistoryLine(longer)'
      BY <1>9, <2>5, <2>10, <2>11, <3>1, <3>2 DEF HistoryLine
    <3>4. Capped(longer) = longer
      <4>1. ~(Len(longer) > HistoryLimit + 1)
        BY <2>1, <2>3, <2>5, <2>6, <2>14
      <4>2. QED
        BY <4>1 DEF Capped
    <3>5. CutsAndAppends(line, longer)
      BY <2>5, <2>12, <3>2, <3>4 DEF CutsAndAppends
    <3>6. QED
      BY <2>5, <2>8, <3>3, <3>5
  <2>15. QED
    BY <2>13, <2>14
<1>13. QED
  BY <1>11, <1>12

\* undo, redo, the jump's iterations and dispose leave the line as it is and
\* move along it.
LEMMA MoveKeepsLine ==
  ASSUME TypeOK, NEW line \in Seq(Stores), HistoryLine(line),
         \/ Undo \/ Redo \/ (\E target \in 0 .. Len(entries) : JumpToHistory(target))
         \/ JumpToCurrentIndex \/ JumpIteration \/ JumpReturn \/ Dispose
         \/ UNCHANGED vars
  PROVE  TypeOK' /\ HistoryLine(line)'
<1>1. HistoryLine(line)
  OBVIOUS
<1>2. /\ TypeOK
      /\ currentIndex \in Nat /\ currentIndex <= Len(entries) /\ Len(entries) \in Nat
      /\ entries \in Seq(Entry)
      /\ \A i \in 1 .. Len(entries) : entries[i] \in Entry
  BY ElementOfSeq DEF TypeOK
<1>3. /\ line \in Seq(Stores) /\ Len(line) = Len(entries) + 1
      /\ \A i \in 1 .. Len(line) : line[i] \in Stores
      /\ \A i \in 1 .. Len(entries) : Joins(entries[i], line[i], line[i + 1])
      /\ line[currentIndex + 1] = store
  BY <1>1, ElementOfSeq DEF HistoryLine
<1>4. /\ store \in Stores /\ disposed \in BOOLEAN
      /\ transactionSequence \in Nat /\ operation \in Operation
      /\ jump \in Jump \cup {NoJump}
      /\ Len(entries) <= HistoryLimit
  BY <1>2 DEF TypeOK
<1>5. jump # NoJump => /\ jump.target \in Nat /\ jump.target <= Len(entries)
                       /\ jump.index \in Nat /\ jump.index <= Len(entries)
                       /\ line[jump.index + 1] = jump.nextStore
  BY <1>1, <1>2 DEF TypeOK, HistoryLine, Jump
<1>6. CASE Undo
  <2>1. /\ currentIndex > 0
        /\ store' = Patched(store, entries[currentIndex].inverse)
        /\ currentIndex' = currentIndex - 1
        /\ operation' = [type |-> "history.undo"]
        /\ entries' = entries /\ transactionSequence' = transactionSequence
        /\ disposed' = disposed /\ jump' = jump /\ jump = NoJump
    BY <1>6 DEF Undo, Ready
  <2>2. currentIndex \in 1 .. Len(entries)
    BY <1>2, <2>1
  <2>3. line[currentIndex] = store' /\ line[currentIndex' + 1] = store'
    BY <1>2, <1>3, <2>1, <2>2 DEF Joins
  <2>4. store' \in Stores
    BY <1>3, <2>2, <2>3
  <2>5. operation' \in Operation
    BY <2>1 DEF Operation
  <2>6. currentIndex' \in 0 .. Len(entries')
    BY <1>2, <2>1
  <2>7. TypeOK'
    BY <1>2, <1>4, <2>1, <2>4, <2>5, <2>6 DEF TypeOK
  <2>8. HistoryLine(line)'
    BY <1>1, <2>1, <2>3 DEF HistoryLine
  <2>9. QED
    BY <2>7, <2>8
<1>7. CASE Redo
  <2>1. /\ currentIndex < Len(entries)
        /\ store' = Patched(store, entries[currentIndex + 1].forward)
        /\ currentIndex' = currentIndex + 1
        /\ operation' = [type |-> "history.redo"]
        /\ entries' = entries /\ transactionSequence' = transactionSequence
        /\ disposed' = disposed /\ jump' = jump /\ jump = NoJump
    BY <1>7 DEF Redo, Ready
  <2>2. currentIndex + 1 \in 1 .. Len(entries)
    BY <1>2, <2>1
  <2>3. line[(currentIndex + 1) + 1] = store' /\ line[currentIndex' + 1] = store'
    BY <1>2, <1>3, <2>1, <2>2 DEF Joins
  <2>4. store' \in Stores
    BY <1>2, <1>3, <2>2, <2>3
  <2>5. operation' \in Operation
    BY <2>1 DEF Operation
  <2>6. currentIndex' \in 0 .. Len(entries')
    BY <1>2, <2>1
  <2>7. TypeOK'
    BY <1>2, <1>4, <2>1, <2>4, <2>5, <2>6 DEF TypeOK
  <2>8. HistoryLine(line)'
    BY <1>1, <2>1, <2>3 DEF HistoryLine
  <2>9. QED
    BY <2>7, <2>8
<1>8. ASSUME NEW target \in 0 .. Len(entries), JumpToHistory(target)
      PROVE  TypeOK' /\ HistoryLine(line)'
  <2>1. /\ jump' = [target |-> target, index |-> currentIndex, nextStore |-> store]
        /\ UNCHANGED <<store, entries, currentIndex, transactionSequence, disposed,
                       operation>>
    BY <1>8 DEF JumpToHistory
  <2>2. /\ jump' \in Jump
        /\ jump'.target <= Len(entries) /\ jump'.index <= Len(entries)
        /\ line[jump'.index + 1] = jump'.nextStore
    BY <1>2, <1>3, <1>4, <2>1 DEF Jump
  <2>3. TypeOK'
    BY <1>2, <2>1, <2>2 DEF TypeOK
  <2>4. HistoryLine(line)'
    BY <1>1, <2>1, <2>2 DEF HistoryLine
  <2>5. QED
    BY <2>3, <2>4
<1>9. CASE JumpIteration
  <2>1. /\ jump # NoJump /\ jump.index # jump.target /\ jump \in Jump
        /\ UNCHANGED <<store, entries, currentIndex, transactionSequence, disposed,
                       operation>>
    BY <1>4, <1>9 DEF JumpIteration
  <2>2. /\ JumpIndex \in Nat /\ JumpIndex <= Len(entries)
        /\ line[JumpIndex + 1] = Patched(jump.nextStore, JumpPatch)
    <3>1. CASE jump.target < jump.index
      <4>1. jump.index \in 1 .. Len(entries)
        BY <1>2, <1>5, <2>1, <3>1
      <4>2. Joins(entries[jump.index], line[jump.index], line[jump.index + 1])
        BY <1>3, <4>1
      <4>3. (jump.index - 1) + 1 = jump.index
        BY <4>1
      <4>4. JumpIndex = jump.index - 1 /\ JumpPatch = entries[jump.index].inverse
        BY <3>1 DEF JumpIndex, JumpPatch
      <4>5. line[JumpIndex + 1] = Patched(jump.nextStore, JumpPatch)
        BY <1>5, <2>1, <4>2, <4>3, <4>4 DEF Joins
      <4>6. QED
        BY <1>2, <4>1, <4>4, <4>5
    <3>2. CASE ~(jump.target < jump.index)
      <4>1. jump.index + 1 \in 1 .. Len(entries)
        BY <1>2, <1>5, <2>1, <3>2
      <4>2. Joins(entries[jump.index + 1], line[jump.index + 1], line[(jump.index + 1) + 1])
        BY <1>3, <4>1
      <4>3. JumpIndex = jump.index + 1 /\ JumpPatch = entries[jump.index + 1].forward
        BY <3>2 DEF JumpIndex, JumpPatch
      <4>4. line[JumpIndex + 1] = Patched(jump.nextStore, JumpPatch)
        BY <1>5, <2>1, <4>2, <4>3 DEF Joins
      <4>5. QED
        BY <1>2, <1>5, <4>1, <4>3, <4>4
    <3>3. QED
      BY <3>1, <3>2
  <2>3. line[JumpIndex + 1] \in Stores
    BY <1>2, <1>3, <2>2
  <2>4. \/ jump' = NoJump
        \/ /\ jump' = [jump EXCEPT !.index = JumpIndex,
                                   !.nextStore = Patched(jump.nextStore, JumpPatch)]
    BY <1>9 DEF JumpIteration
  <2>5. CASE jump' = NoJump
    <3>1. TypeOK'
      BY <1>2, <2>1, <2>5 DEF TypeOK
    <3>2. HistoryLine(line)'
      BY <1>1, <2>1, <2>5 DEF HistoryLine
    <3>3. QED
      BY <3>1, <3>2
  <2>6. CASE jump' = [jump EXCEPT !.index = JumpIndex,
                                  !.nextStore = Patched(jump.nextStore, JumpPatch)]
    <3>1. /\ jump' \in Jump
          /\ jump'.target = jump.target
          /\ jump'.index = JumpIndex
          /\ line[jump'.index + 1] = jump'.nextStore
      BY <2>1, <2>2, <2>3, <2>6 DEF Jump
    <3>2. TypeOK'
      BY <1>2, <1>5, <2>1, <2>2, <3>1 DEF TypeOK
    <3>3. HistoryLine(line)'
      BY <1>1, <2>1, <3>1 DEF HistoryLine
    <3>4. QED
      BY <3>2, <3>3
  <2>7. QED
    BY <2>4, <2>5, <2>6
<1>10. CASE JumpReturn
  <2>1. /\ jump # NoJump /\ jump.index = jump.target
        /\ store' = jump.nextStore /\ currentIndex' = jump.target
        /\ jump' = NoJump /\ operation' = [type |-> "history.jump"]
        /\ UNCHANGED <<entries, transactionSequence, disposed>>
    BY <1>10 DEF JumpReturn
  <2>2. jump.nextStore \in Stores
    BY <1>4, <2>1 DEF Jump
  <2>3. operation' \in Operation
    BY <2>1 DEF Operation
  <2>4. currentIndex' \in 0 .. Len(entries')
    BY <1>2, <1>5, <2>1
  <2>5. TypeOK'
    BY <1>2, <1>4, <2>1, <2>2, <2>3, <2>4 DEF TypeOK
  <2>6. HistoryLine(line)'
    BY <1>1, <1>5, <2>1 DEF HistoryLine
  <2>7. QED
    BY <2>5, <2>6
<1>11. CASE Dispose
  <2>1. /\ disposed' = TRUE
        /\ UNCHANGED <<store, entries, currentIndex, transactionSequence, jump, operation>>
    BY <1>11 DEF Dispose
  <2>2. disposed' \in BOOLEAN
    BY <2>1
  <2>3. TypeOK'
    BY <1>2, <2>1, <2>2 DEF TypeOK
  <2>4. HistoryLine(line)'
    BY <1>1, <2>1 DEF HistoryLine
  <2>5. QED
    BY <2>3, <2>4
<1>12. CASE JumpToCurrentIndex
  <2>1. /\ operation' = [type |-> "history.jump"]
        /\ UNCHANGED <<store, entries, currentIndex, transactionSequence, disposed, jump>>
    BY <1>12 DEF JumpToCurrentIndex
  <2>2. operation' \in Operation
    BY <2>1 DEF Operation
  <2>3. TypeOK'
    BY <1>2, <2>1, <2>2 DEF TypeOK
  <2>4. HistoryLine(line)'
    BY <1>1, <2>1 DEF HistoryLine
  <2>5. QED
    BY <2>3, <2>4
<1>13. CASE UNCHANGED vars
  <2>1. TypeOK' /\ HistoryLine(line)'
    BY <1>1, <1>2, <1>13 DEF TypeOK, HistoryLine, vars
  <2>2. QED
    BY <2>1
<1>14. QED
  BY <1>6, <1>7, <1>8, <1>9, <1>10, <1>11, <1>12, <1>13

LEMMA StepPreserves == IInv /\ [Next]_vars => IInv'
<1> SUFFICES ASSUME IInv, [Next]_vars PROVE IInv'
  OBVIOUS
<1>1. CASE Dispatch
  <2>1. TypeOK /\ ValidRecords(store)
    BY CurrentStoreValid DEF IInv
  <2>2. Ready /\ \E command \in Operation, draft \in Stores : Commit(command, draft)
    BY <1>1, <2>1, DispatchCommits
  <2>3. QED
    BY <2>2, CommitMakesLine DEF IInv
<1>2. CASE ~Dispatch
  BY <1>2, MoveKeepsLine DEF Next, IInv
<1>3. QED
  BY <1>1, <1>2

-----------------------------------------------------------------------------
(* Theorems.                                                               *)

\* The inductive invariant holds throughout.
THEOREM LineInvariant == Spec => []IInv
BY InitEstablishes, StepPreserves, PTL DEF Spec

\* Stores, history and jump locals always have their types; the history never
\* exceeds its limit and its index stays within it.
THEOREM TypeCorrect == Spec => []TypeOK
<1>1. IInv => TypeOK
  BY DEF IInv
<1>2. QED
  BY <1>1, LineInvariant, PTL

\* Undo and redo never fail, whatever commands, undos, redos and jumps led
\* here, and however long the history or large the document.
THEOREM UndoRedoNeverFail == Spec => []HistoryApplies
<1>1. IInv => HistoryApplies
  <2> SUFFICES ASSUME IInv PROVE HistoryApplies
    OBVIOUS
  <2>1. PICK line \in Seq(Stores) : HistoryLine(line)
    BY DEF IInv
  <2>2. currentIndex \in Nat /\ currentIndex <= Len(entries) /\ Len(entries) \in Nat
    BY DEF IInv, TypeOK
  <2>3. ASSUME currentIndex > 0
        PROVE  PatchApplies(store, entries[currentIndex].inverse)
    <3>1. currentIndex \in 1 .. Len(entries)
      BY <2>2, <2>3
    <3>2. QED
      BY <2>1, <3>1 DEF HistoryLine, Joins
  <2>4. ASSUME currentIndex < Len(entries)
        PROVE  PatchApplies(store, entries[currentIndex + 1].forward)
    <3>1. currentIndex + 1 \in 1 .. Len(entries)
      BY <2>2, <2>4
    <3>2. QED
      BY <2>1, <3>1 DEF HistoryLine, Joins
  <2>5. QED
    BY <2>3, <2>4 DEF HistoryApplies
<1>2. QED
  BY <1>1, LineInvariant, PTL

\* No jump is ever given up half-way.
THEOREM JumpsNeverFail == Spec => []JumpNeverFails
<1>1. IInv => JumpNeverFails
  <2> SUFFICES ASSUME IInv, jump # NoJump, jump.index # jump.target
               PROVE  PatchApplies(jump.nextStore, JumpPatch)
    BY DEF JumpNeverFails
  <2>1. PICK line \in Seq(Stores) : HistoryLine(line)
    BY DEF IInv
  <2>2. /\ jump.index \in Nat /\ jump.index <= Len(entries)
        /\ jump.target \in Nat /\ jump.target <= Len(entries)
        /\ Len(entries) \in Nat
    BY DEF IInv, TypeOK, Jump
  <2>3. CASE jump.target < jump.index
    <3>1. jump.index \in 1 .. Len(entries)
      BY <2>2, <2>3
    <3>2. QED
      BY <2>1, <2>3, <3>1 DEF HistoryLine, Joins, JumpPatch
  <2>4. CASE ~(jump.target < jump.index)
    <3>1. jump.index + 1 \in 1 .. Len(entries)
      BY <2>2, <2>4
    <3>2. QED
      BY <2>1, <2>4, <3>1 DEF HistoryLine, Joins, JumpPatch
  <2>5. QED
    BY <2>3, <2>4
<1>2. QED
  BY <1>1, LineInvariant, PTL

\* Transaction numbers ascend along the history and are never reused, though
\* undone transactions are dropped from it.
THEOREM TransactionsAscend == Spec => []TransactionIdsAscend
<1>1. Init => TransactionIdsAscend
  <2> SUFFICES ASSUME Init PROVE TransactionIdsAscend
    OBVIOUS
  <2>1. Len(entries) = 0
    BY EmptySeq DEF Init
  <2>2. 1 .. Len(entries) = {}
    BY <2>1
  <2>3. QED
    BY <2>2 DEF TransactionIdsAscend
<1>2. ASSUME IInv, TransactionIdsAscend, [Next]_vars
      PROVE  TransactionIdsAscend'
  <2>0. TypeOK /\ ValidRecords(store)
    BY <1>2, CurrentStoreValid DEF IInv
  <2>1. /\ store \in Stores
        /\ entries \in Seq(Entry) /\ Len(entries) \in Nat
        /\ currentIndex \in 0 .. Len(entries)
        /\ transactionSequence \in Nat
    BY <2>0 DEF TypeOK
  <2>2. CASE Dispatch
    <3>1. PICK command \in Operation, draft \in Stores : Commit(command, draft)
      BY <2>0, <2>2, DispatchCommits
    <3> DEFINE k == currentIndex
               patch == BuildPatch(store, draft)
               id == transactionSequence + 1
               entry == [transactionId |-> id, forward |-> patch,
                         inverse |-> InversePatch(patch)]
               pushed == PushedAfter(entries, k, entry)
    <3>2. transactionSequence' = id
      BY <3>1 DEF Commit
    <3>3. entry \in Entry /\ entry.transactionId = id
      BY <2>1, PatchesTyped DEF Entry
    <3>4. \/ entries' = entries \/ entries' = pushed \/ entries' = Tail(pushed)
      BY <3>1 DEF Commit, RecordEntry, Push, PushedAfter
    <3> HIDE DEF entry
    <3>5. /\ pushed \in Seq(Entry)
          /\ Len(pushed) = k + 1
          /\ \A i \in 1 .. k : pushed[i] = entries[i]
          /\ pushed[k + 1] = entry
          /\ Tail(pushed) \in Seq(Entry)
          /\ Len(Tail(pushed)) = k
          /\ \A i \in 1 .. k : Tail(pushed)[i] = pushed[i + 1]
      <4>1. IsPushed(PushedAfter(entries, k, entry), Entry, entries, k, entry)
        BY <2>1, <3>3, PushProperties
      <4>2. QED
        BY <4>1 DEF IsPushed
    <3> HIDE DEF pushed
    <3>6. \A i \in 1 .. Len(entries) : /\ entries[i].transactionId \in Nat
                                       /\ entries[i].transactionId < id
      <4> SUFFICES ASSUME NEW i \in 1 .. Len(entries)
                   PROVE  entries[i].transactionId \in Nat /\ entries[i].transactionId < id
        OBVIOUS
      <4>1. entries[i] \in Entry
        BY <2>1, ElementOfSeq
      <4>2. entries[i].transactionId \in Nat
        BY <4>1 DEF Entry
      <4>3. entries[i].transactionId <= transactionSequence
        BY <1>2 DEF TransactionIdsAscend
      <4>4. QED
        BY <2>1, <4>2, <4>3
    <3> HIDE DEF id
    <3>7. id \in Nat
      BY <2>1 DEF id
    <3>8. \A i \in 1 .. k + 1 : i # k + 1 => i \in 1 .. k /\ i \in 1 .. Len(entries)
      BY <2>1
    <3>9. \A i \in 1 .. k + 1 : pushed[i].transactionId <= id
      BY <3>3, <3>5, <3>6, <3>7, <3>8
    <3>10. \A i, j \in 1 .. k + 1 :
             i < j => pushed[i].transactionId < pushed[j].transactionId
      <4> SUFFICES ASSUME NEW i \in 1 .. k + 1, NEW j \in 1 .. k + 1, i < j
                   PROVE  pushed[i].transactionId < pushed[j].transactionId
        OBVIOUS
      <4>1. i \in 1 .. k /\ i \in 1 .. Len(entries)
        BY <2>1
      <4>2. CASE j = k + 1
        BY <3>3, <3>5, <3>6, <4>1, <4>2
      <4>3. CASE j # k + 1
        <5>1. j \in 1 .. k /\ j \in 1 .. Len(entries)
          BY <3>8, <4>3
        <5>2. entries[i].transactionId < entries[j].transactionId
          BY <1>2, <4>1, <5>1 DEF TransactionIdsAscend
        <5>3. QED
          BY <3>5, <4>1, <5>1, <5>2
      <4>4. QED
        BY <4>2, <4>3
    <3>11. CASE entries' = entries
      <4>1. \A i \in 1 .. Len(entries) : entries[i].transactionId <= id
        BY <3>6, <3>7
      <4>2. QED
        BY <1>2, <3>2, <3>11, <4>1 DEF TransactionIdsAscend
    <3>12. CASE entries' = pushed
      BY <3>2, <3>5, <3>9, <3>10, <3>12 DEF TransactionIdsAscend
    <3>13. CASE entries' = Tail(pushed)
      <4>1. /\ \A i \in 1 .. k : i + 1 \in 1 .. k + 1
            /\ \A i, j \in 1 .. k : i < j => i + 1 < j + 1
        BY <2>1
      <4>2. /\ \A i, j \in 1 .. k :
                 i < j => Tail(pushed)[i].transactionId < Tail(pushed)[j].transactionId
            /\ \A i \in 1 .. k : Tail(pushed)[i].transactionId <= id
        BY <3>5, <3>9, <3>10, <4>1
      <4>3. QED
        BY <3>2, <3>5, <3>13, <4>2 DEF TransactionIdsAscend
    <3>14. QED
      BY <3>4, <3>11, <3>12, <3>13
  <2>3. CASE ~Dispatch
    <3>1. entries' = entries /\ transactionSequence' = transactionSequence
      BY <1>2, <2>3 DEF Next, Undo, Redo, JumpToCurrentIndex, JumpToHistory,
                        JumpIteration, JumpReturn, Dispose, vars
    <3>2. QED
      BY <1>2, <3>1 DEF TransactionIdsAscend
  <2>4. QED
    BY <2>2, <2>3
<1>3. QED
  BY <1>1, <1>2, LineInvariant, PTL DEF Spec
=============================================================================
