------------------------------- MODULE Patches -------------------------------
(***************************************************************************)
(* Patches between two stores: how a transaction computes one, inverts it  *)
(* and applies it (packages/core/src/kernel/transaction.ts), and how one   *)
(* record is updated (updateRecord of store/store.ts).                     *)
(*                                                                         *)
(* A patch gives every id it touches the record before and after it.  The  *)
(* code lists the same facts in three arrays: created has no record before,*)
(* removed none after, updated both; one id is in one array at most.       *)
(***************************************************************************)
EXTENDS Records

Patch == [Id -> [before: Record \cup {NoRecord}, after: Record \cup {NoRecord}]]

Untouched == [before |-> NoRecord, after |-> NoRecord]

Touched(p) == {id \in Id : p[id] # Untouched}

EmptyPatch(p) == Touched(p) = {}

\* An update that bumps the revision even when nothing changed.
UpdatedRecordAlwaysBumps(r, new) == [new EXCEPT !.revision = r.revision + 1]

\* updateRecord: new is r with business fields replaced; the revision moves
\* only when one of them changed.
UpdatedRecord(r, new) ==
  IF new = r THEN r ELSE [new EXCEPT !.revision = r.revision + 1]

\* recordsDiffer: a business field differs; id, typeName, revision are ignored.
RecordsDiffer(before, after) ==
  [before EXCEPT !.revision = 0] # [after EXCEPT !.revision = 0]

\* draft.update, draft.remove and draft.create.
WithUpdated(s, id, new) == [s EXCEPT ![id] = UpdatedRecord(s[id], new)]

WithoutRecords(s, ids) == [id \in Id |-> IF id \in ids THEN NoRecord ELSE s[id]]

WithRecord(s, id, r) == [s EXCEPT ![id] = r]

BuildPatch(before, after) ==
  [id \in Id |->
     IF /\ before[id] # NoRecord
        /\ after[id] # NoRecord
        /\ ~RecordsDiffer(before[id], after[id])
     THEN Untouched
     ELSE [before |-> before[id], after |-> after[id]]]

\* An inversion that leaves each update as it is.
InverseOfExistenceOnly(p) ==
  [id \in Id |-> IF NoRecord \in {p[id].before, p[id].after}
                 THEN [before |-> p[id].after, after |-> p[id].before]
                 ELSE p[id]]

\* The inverse transact returns: created and removed change places, and so do
\* the two sides of every update.
InversePatch(p) == [id \in Id |-> [before |-> p[id].after, after |-> p[id].before]]

\* withAppliedChanges.
Patched(s, p) == [id \in Id |-> IF id \in Touched(p) THEN p[id].after ELSE s[id]]

\* Every record the patch touches is exactly, revision included, what the patch
\* was computed from; created records are not there yet.
PreconditionHolds(s, p) == \A id \in Touched(p) : s[id] = p[id].before

\* No page is created or removed, and no update changes a record's type.
IdentityKept(p) ==
  \A id \in Touched(p) :
    IF NoRecord \in {p[id].before, p[id].after}
    THEN \A r \in {p[id].before, p[id].after} \ {NoRecord} : r.typeName # "page"
    ELSE p[id].after.typeName = p[id].before.typeName

\* applyTransactionPatch succeeds; its result is then Patched(s, p).
PatchApplies(s, p) ==
  \/ EmptyPatch(p)
  \/ PreconditionHolds(s, p) /\ IdentityKept(p) /\ ValidRecords(Patched(s, p))
=============================================================================
