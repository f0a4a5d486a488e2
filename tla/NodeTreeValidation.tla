-------------------------- MODULE NodeTreeValidation --------------------------
(***************************************************************************)
(* The algorithm of validateNodeTree (packages/core/src/store/             *)
(* validation.ts), loop by loop: one pass over the nodes in the order the  *)
(* record map lists them, then a coloured walk up the parent chain from    *)
(* every node the first pass accepted.  It must agree with NodeTreeValid,  *)
(* the definition the transactions of Editor are guarded by, on every      *)
(* collection of records, well formed or not.                              *)
(***************************************************************************)
EXTENDS Records, Sequences, FiniteSets

VARIABLES
  records,      \* the collection under validation
  order,        \* its nodes, in the order of the record map
  pc,           \* "check", "walk" or "done": the loop that is running
  next,         \* position of the loop in order
  current,      \* node the walk stands on, NoRecord between walks
  path,         \* ids walked since the walk began
  colors,       \* 0 unvisited, 1 on the path, 2 finished
  siblingIndexes,
  diagnostics   \* [code, recordId] pairs reported so far

vars == <<records, order, pc, next, current, path, colors, siblingIndexes, diagnostics>>

\* The fields of a record the algorithm reads.
Abridged ==
  [typeName: {"page"}]
    \cup [typeName: {"node"}, parentId: Id, index: Index]
    \cup {NoRecord}

\* No record is told from every record and every id.
ASSUME NoRecordAssumption ==
  /\ NoRecord \notin [typeName: {"page"}] \cup [typeName: {"node"}, parentId: Id, index: Index]
  /\ NoRecord \notin Id

Orders(s) ==
  {o \in [1 .. Cardinality(Nodes(s)) -> Nodes(s)] :
     \A i, j \in DOMAIN o : i # j => o[i] # o[j]}

Codes == {"NODE_SELF_PARENT", "NODE_PARENT_NOT_FOUND", "PARENT_NOT_ROOT_PAGE",
          "SIBLING_INDEX_CONFLICT", "NODE_PARENT_CYCLE"}

TypeOK ==
  /\ records \in [Id -> Abridged]
  /\ order \in Orders(records)
  /\ pc \in {"check", "walk", "done"}
  /\ next \in 1 .. Len(order) + 1
  /\ current \in Nodes(records) \cup {NoRecord}
  /\ path \in Seq(Nodes(records))
  /\ colors \in [Nodes(records) -> 0 .. 2]
  /\ siblingIndexes \in [Id -> SUBSET Index]
  /\ diagnostics \subseteq [code: Codes, recordId: Nodes(records)]

Init ==
  /\ records \in {r \in [Id -> Abridged] : r[PageId] = [typeName |-> "page"]}
  /\ order \in Orders(records)
  /\ pc = "check"
  /\ next = 1
  /\ current = NoRecord
  /\ path = << >>
  /\ colors = [n \in Nodes(records) |-> 0]
  /\ siblingIndexes = [id \in Id |-> {}]
  /\ diagnostics = {}

Report(code, id) == diagnostics' = diagnostics \cup {[code |-> code, recordId |-> id]}

-----------------------------------------------------------------------------
(* The first loop.                                                         *)

Subject == order[next]

ParentId == records[Subject].parentId

Checking == pc = "check" /\ next <= Len(order)

\* A node whose parent is unusable is never walked.
Reject(code) ==
  /\ Report(code, Subject)
  /\ colors' = [colors EXCEPT ![Subject] = 2]
  /\ next' = next + 1
  /\ UNCHANGED <<records, order, pc, current, path, siblingIndexes>>

CheckSelfParent == Checking /\ ParentId = Subject /\ Reject("NODE_SELF_PARENT")

CheckParentMissing ==
  /\ Checking
  /\ ParentId # Subject
  /\ ParentId \notin Present(records)
  /\ Reject("NODE_PARENT_NOT_FOUND")

CheckParentPage ==
  /\ Checking
  /\ ParentId # Subject
  /\ ParentId \in Pages(records) \ {PageId}
  /\ Reject("PARENT_NOT_ROOT_PAGE")

CheckSibling ==
  /\ Checking
  /\ ParentId # Subject
  /\ ParentId \in Nodes(records) \cup {PageId}
  /\ IF records[Subject].index \in siblingIndexes[ParentId]
     THEN Report("SIBLING_INDEX_CONFLICT", Subject)
     ELSE UNCHANGED diagnostics
  /\ siblingIndexes' = [siblingIndexes EXCEPT ![ParentId] = @ \cup {records[Subject].index}]
  /\ next' = next + 1
  /\ UNCHANGED <<records, order, pc, current, path, colors>>

CheckEnd ==
  /\ pc = "check"
  /\ next = Len(order) + 1
  /\ pc' = "walk"
  /\ next' = 1
  /\ UNCHANGED <<records, order, current, path, colors, siblingIndexes, diagnostics>>

-----------------------------------------------------------------------------
(* The second loop.                                                        *)

Walking == pc = "walk" /\ next <= Len(order)

WalkSkip ==
  /\ Walking
  /\ path = << >>
  /\ colors[Subject] = 2
  /\ next' = next + 1
  /\ UNCHANGED <<records, order, pc, current, path, colors, siblingIndexes, diagnostics>>

\* A step up that does not ask whether the parent is a node.
AnyParent(n) == records[n].parentId

ParentNode(n) == IF records[n].parentId \in Nodes(records)
                 THEN records[n].parentId ELSE NoRecord

\* A walk that takes one step only.
VisitOneLevel(n) ==
  /\ colors' = [colors EXCEPT ![n] = 1]
  /\ path' = Append(path, n)
  /\ current' = NoRecord
  /\ UNCHANGED <<records, order, pc, next, siblingIndexes, diagnostics>>

Visit(n) ==
  /\ colors' = [colors EXCEPT ![n] = 1]
  /\ path' = Append(path, n)
  /\ current' = ParentNode(n)
  /\ UNCHANGED <<records, order, pc, next, siblingIndexes, diagnostics>>

WalkStart ==
  /\ Walking
  /\ path = << >>
  /\ colors[Subject] # 2
  /\ Visit(Subject)

WalkUp ==
  /\ Walking
  /\ path # << >>
  /\ current # NoRecord
  /\ colors[current] = 0
  /\ Visit(current)

\* A walk that leaves its path marked as being walked.
FinishPathUncoloured ==
  /\ path' = << >>
  /\ current' = NoRecord
  /\ next' = next + 1
  /\ UNCHANGED <<records, order, pc, colors, siblingIndexes>>

\* Everything on the path is finished when a walk ends.
FinishPath ==
  /\ colors' = [n \in DOMAIN colors |->
                  IF \E i \in DOMAIN path : path[i] = n THEN 2 ELSE colors[n]]
  /\ path' = << >>
  /\ current' = NoRecord
  /\ next' = next + 1
  /\ UNCHANGED <<records, order, pc, siblingIndexes>>

WalkEnd ==
  /\ Walking
  /\ path # << >>
  /\ current # NoRecord => colors[current] = 2
  /\ FinishPath
  /\ UNCHANGED diagnostics

\* A report that does not break off the walk.
WalkCycleWithoutBreak ==
  /\ Walking
  /\ path # << >>
  /\ current # NoRecord
  /\ colors[current] = 1
  /\ Report("NODE_PARENT_CYCLE", current)
  /\ current' = ParentNode(current)
  /\ UNCHANGED <<records, order, pc, next, path, colors, siblingIndexes>>

\* The walk is back on its own path.
WalkCycle ==
  /\ Walking
  /\ path # << >>
  /\ current # NoRecord
  /\ colors[current] = 1
  /\ Report("NODE_PARENT_CYCLE", current)
  /\ FinishPath

Return ==
  /\ pc = "walk"
  /\ next = Len(order) + 1
  /\ pc' = "done"
  /\ UNCHANGED <<records, order, next, current, path, colors, siblingIndexes, diagnostics>>

Next ==
  \/ CheckSelfParent
  \/ CheckParentMissing
  \/ CheckParentPage
  \/ CheckSibling
  \/ CheckEnd
  \/ WalkSkip
  \/ WalkStart
  \/ WalkUp
  \/ WalkEnd
  \/ WalkCycle
  \/ Return

\* The function runs to its end.
Spec == Init /\ [][Next]_vars /\ WF_vars(Next)

-----------------------------------------------------------------------------
(* Properties.                                                             *)

\* validateNodeTree reports nothing exactly for the collections that are valid
\* trees by definition, whatever order the record map lists the nodes in.
VerdictIsDefinition == pc = "done" => (diagnostics = {} <=> NodeTreeValid(records))

Cycles ==
  {C \in SUBSET Nodes(records) :
     /\ Cardinality(C) > 1
     /\ \A n \in C : records[n].parentId \in C
     /\ \A D \in SUBSET C : D # {} /\ (\A n \in D : records[n].parentId \in D) => D = C}

\* Each cycle of two nodes or more is reported once, on one of its own nodes,
\* even when several walks run into it.
EachCycleReportedOnce ==
  LET reported == {d.recordId : d \in {e \in diagnostics : e.code = "NODE_PARENT_CYCLE"}}
  IN pc = "done" =>
       /\ \A C \in Cycles : Cardinality(reported \cap C) = 1
       /\ reported \subseteq UNION Cycles

\* The walk ends on every input, cyclic parents included.
Terminates == <>(pc = "done")
=============================================================================
