------------------------ MODULE NodeTreeValidationProofs ------------------------
(***************************************************************************)
(* Theorems about the algorithm of validateNodeTree: for any finite set of *)
(* ids, any records and any order of them, its verdict is NodeTreeValid,   *)
(* and it reports each cycle of parents once.                              *)
(***************************************************************************)
EXTENDS NodeTreeValidation, FiniteSetTheorems, TLAPS

Parent(n) == records[n].parentId

\* The first loop has no objection to the node's parent.
Accepted(n) == Parent(n) # n /\ Parent(n) \in Nodes(records) \cup {PageId}

\* The nodes the first loop has been at.
Seen == IF pc = "check" THEN {order[i] : i \in 1 .. (next - 1)} ELSE Nodes(records)

Finished == {n \in Nodes(records) : colors[n] = 2}

OnPath == {n \in Nodes(records) : \E i \in 1 .. Len(path) : path[i] = n}

Faulty == \E d \in diagnostics : d.code # "NODE_PARENT_CYCLE"

Reported == {d.recordId : d \in {e \in diagnostics : e.code = "NODE_PARENT_CYCLE"}}

Clean(S) ==
  /\ \A n \in S : Accepted(n)
  /\ \A m, n \in S : m # n /\ Parent(m) = Parent(n) => records[m].index # records[n].index

\* No parent leads out of C.
Closed(C) == \A n \in C : Parent(n) \in C

\* The cycles of two nodes or more: the least closed sets without a self-parent.
Loop(C) ==
  /\ C \in SUBSET Nodes(records) /\ C # {} /\ Closed(C)
  /\ \A n \in C : Parent(n) # n
  /\ \A D \in SUBSET C : D # {} /\ Closed(D) => D = C

-----------------------------------------------------------------------------
(* The invariant.                                                          *)

\* The records are given, and the page is there.
Typed == TypeOK /\ records[PageId] = [typeName |-> "page"]

\* What the first loop has found out about the nodes it has been at.
CheckInv ==
  /\ \A p \in Id, k \in Index :
       k \in siblingIndexes[p] <=>
         \E m \in Seen : Accepted(m) /\ Parent(m) = p /\ records[m].index = k
  /\ Faulty <=> ~Clean(Seen)
  /\ \A n \in Seen : ~Accepted(n) => colors[n] = 2
  /\ pc = "check" =>
       /\ path = << >> /\ Reported = {}
       /\ \A n \in Nodes(records) : colors[n] = 2 => ~Accepted(n)

\* The path leads up from the node the second loop is at to the one the walk
\* stands on, and its nodes are those with the colour 1.
PathInv ==
  /\ \A n \in Nodes(records) : colors[n] = 1 <=> \E i \in 1 .. Len(path) : path[i] = n
  /\ \A i \in 1 .. Len(path) - 1 : Parent(path[i]) = path[i + 1]
  /\ path # << >> =>
       /\ pc = "walk" /\ next <= Len(order) /\ path[1] = order[next]
       /\ current = ParentNode(path[Len(path)])
  /\ pc = "walk" => \A i \in 1 .. (next - 1) : colors[order[i]] = 2
  /\ pc = "done" => \A n \in Nodes(records) : colors[n] = 2

\* A cycle is finished altogether or not at all, and reported once when it is.
LoopInv ==
  /\ \A C : Loop(C) =>
       \/ C \cap Finished = {} /\ C \cap Reported = {}
       \/ C \subseteq Finished /\ \E r : C \cap Reported = {r}
  /\ \A r \in Reported : \E C : Loop(C) /\ r \in C

ValidationInv == Typed /\ CheckInv /\ PathInv /\ LoopInv

-----------------------------------------------------------------------------
(* What the state is made of.                                              *)

LEMMA NodesAreFinite == IsFiniteSet(Nodes(records))
<1>1. IsFiniteSet(NodeId \cup {PageId})
  BY FiniteIdsAssumption, FS_AddElement
<1>2. Nodes(records) \subseteq NodeId \cup {PageId}
  BY DEF Nodes, Present, Id
<1> QED
  BY <1>1, <1>2, FS_Subset

LEMMA NodeFields ==
  ASSUME Typed, NEW n \in Nodes(records)
  PROVE  /\ n \in Id /\ n # NoRecord
         /\ Parent(n) \in Id /\ records[n].index \in Index
<1>1. n \in Id /\ records[n] # NoRecord /\ records[n].typeName = "node"
  BY DEF Nodes, Present
<1>2. records[n] \in Abridged
  BY <1>1 DEF Typed, TypeOK
<1>3. records[n] \in [typeName: {"node"}, parentId: Id, index: Index]
  BY <1>1, <1>2 DEF Abridged
<1> QED
  BY <1>1, <1>3, NoRecordAssumption DEF Parent

\* The order lists every node once.
LEMMA OrderLists ==
  ASSUME Typed
  PROVE  /\ order \in Seq(Nodes(records)) /\ Len(order) \in Nat
         /\ \A i \in 1 .. Len(order) : order[i] \in Nodes(records)
         /\ \A i, j \in 1 .. Len(order) : order[i] = order[j] => i = j
         /\ \A n \in Nodes(records) : \E i \in 1 .. Len(order) : order[i] = n
<1> DEFINE N == Nodes(records)
           k == Cardinality(N)
<1>1. IsFiniteSet(N) /\ k \in Nat
  BY NodesAreFinite, FS_CardinalityType
<1>2. /\ order \in [1 .. k -> N]
      /\ \A i, j \in 1 .. k : order[i] = order[j] => i = j
  BY DEF Typed, TypeOK, Orders
<1> HIDE DEF N, k
<1>3. order \in Seq(N) /\ Len(order) = k
  BY <1>1, <1>2
<1>4. order \in Injection(1 .. k, N)
  BY <1>2 DEF Injection, IsInjective
<1>5. Cardinality(1 .. k) = k
  BY <1>1, FS_Interval
<1>6. order \in Surjection(1 .. k, N)
  BY <1>1, <1>4, <1>5, FS_Injection DEF k
<1>7. \A n \in N : \E i \in 1 .. k : order[i] = n
  BY <1>6 DEF Surjection
<1> QED
  BY <1>1, <1>2, <1>3, <1>7 DEF N

\* Records and their order stay as they were given.
LEMMA InputsStay ==
  ASSUME [Next]_vars
  PROVE  records' = records /\ order' = order
BY DEF Next, CheckSelfParent, CheckParentMissing, CheckParentPage, Reject, CheckSibling, CheckEnd,
       WalkSkip, WalkStart, WalkUp, Visit, WalkEnd, WalkCycle, FinishPath, Return, vars

\* What is defined over the records alone stays too.
LEMMA DefinedByRecords ==
  ASSUME records' = records
  PROVE  /\ Nodes(records)' = Nodes(records)
         /\ \A n : Parent(n)' = Parent(n) /\ Accepted(n)' = Accepted(n)
         /\ \A n : ParentNode(n)' = ParentNode(n)
         /\ \A C : Loop(C)' = Loop(C) /\ Closed(C)' = Closed(C) /\ Clean(C)' = Clean(C)
BY DEF Parent, Accepted, ParentNode, Loop, Closed, Clean

-----------------------------------------------------------------------------
(* Types.                                                                  *)

LEMMA InitTyped == Init => Typed
<1> SUFFICES ASSUME Init PROVE Typed
  OBVIOUS
<1>1. records[PageId] = [typeName |-> "page"] /\ records \in [Id -> Abridged] /\ order \in Orders(records)
  BY DEF Init
<1>2. Len(order) \in Nat
  <2>1. Cardinality(Nodes(records)) \in Nat
    BY NodesAreFinite, FS_CardinalityType
  <2>2. order \in [1 .. Cardinality(Nodes(records)) -> Nodes(records)]
    BY <1>1 DEF Orders
  <2> QED
    BY <2>1, <2>2
<1>3. TypeOK
  BY <1>1, <1>2 DEF Init, TypeOK
<1> QED
  BY <1>1, <1>3 DEF Typed

LEMMA ReportTyped ==
  ASSUME Typed, NEW code \in Codes, NEW n \in Nodes(records), Report(code, n)
  PROVE  diagnostics' \subseteq [code: Codes, recordId: Nodes(records)]
BY DEF Typed, TypeOK, Report

LEMMA CheckTyped ==
  ASSUME Typed, CheckSelfParent \/ CheckParentMissing \/ CheckParentPage \/ CheckSibling
  PROVE  Typed'
<1>1. /\ Checking /\ next' = next + 1
      /\ UNCHANGED <<records, order, pc, current, path>>
  BY DEF CheckSelfParent, CheckParentMissing, CheckParentPage, CheckSibling, Reject
<1>2. next \in 1 .. Len(order) /\ next' \in 1 .. Len(order) + 1 /\ Subject \in Nodes(records)
  BY <1>1, OrderLists DEF Typed, TypeOK, Checking, Subject
<1>3. Subject \in Nodes(records) /\ ParentId \in Id /\ records[Subject].index \in Index
  BY <1>2, NodeFields DEF ParentId, Parent
<1>4. colors' \in [Nodes(records) -> 0 .. 2]
  BY <1>3 DEF Typed, TypeOK, CheckSelfParent, CheckParentMissing, CheckParentPage, CheckSibling, Reject
<1>5. siblingIndexes' \in [Id -> SUBSET Index]
  BY <1>3 DEF Typed, TypeOK, CheckSelfParent, CheckParentMissing, CheckParentPage, CheckSibling, Reject
<1>6. diagnostics' \subseteq [code: Codes, recordId: Nodes(records)]
  <2>1. CASE diagnostics' = diagnostics
    BY <2>1 DEF Typed, TypeOK
  <2>2. ASSUME NEW code \in Codes, Report(code, Subject)
        PROVE  diagnostics' \subseteq [code: Codes, recordId: Nodes(records)]
    BY <1>3, <2>2, ReportTyped
  <2>3. \A code : code \in {"NODE_SELF_PARENT", "NODE_PARENT_NOT_FOUND", "PARENT_NOT_ROOT_PAGE",
                            "SIBLING_INDEX_CONFLICT"} => code \in Codes
    BY DEF Codes
  <2> QED
    BY <2>1, <2>2, <2>3 DEF CheckSelfParent, CheckParentMissing, CheckParentPage, CheckSibling, Reject
<1> QED
  BY <1>1, <1>2, <1>4, <1>5, <1>6 DEF Typed, TypeOK

LEMMA VisitTyped ==
  ASSUME Typed, NEW n \in Nodes(records), Visit(n)
  PROVE  Typed'
<1>1. colors' \in [Nodes(records) -> 0 .. 2] /\ path' \in Seq(Nodes(records))
  BY DEF Visit, Typed, TypeOK
<1>2. current' \in Nodes(records) \cup {NoRecord}
  BY DEF Visit, ParentNode
<1> QED
  BY <1>1, <1>2 DEF Visit, Typed, TypeOK

LEMMA FinishPathTyped ==
  ASSUME Typed, Walking, FinishPath,
         diagnostics' \subseteq [code: Codes, recordId: Nodes(records)]
  PROVE  Typed'
<1>1. colors' \in [Nodes(records) -> 0 .. 2]
  BY DEF FinishPath, Typed, TypeOK
<1>2. next' \in 1 .. Len(order) + 1 /\ path' \in Seq(Nodes(records))
  BY OrderLists DEF FinishPath, Walking, Typed, TypeOK
<1> QED
  BY <1>1, <1>2 DEF FinishPath, Typed, TypeOK

LEMMA SubjectIsNode ==
  ASSUME Typed, Checking \/ Walking
  PROVE  next \in 1 .. Len(order) /\ Subject \in Nodes(records) /\ Subject = order[next]
BY OrderLists DEF Typed, TypeOK, Checking, Walking, Subject

LEMMA StepTyped == Typed /\ [Next]_vars => Typed'
<1> SUFFICES ASSUME Typed, [Next]_vars PROVE Typed'
  OBVIOUS
<1>1. CASE CheckSelfParent \/ CheckParentMissing \/ CheckParentPage \/ CheckSibling
  BY <1>1, CheckTyped
<1>2. CASE CheckEnd
  BY <1>2, OrderLists DEF CheckEnd, Typed, TypeOK
<1>3. CASE WalkSkip
  <2>1. next \in 1 .. Len(order) /\ Len(order) \in Nat /\ next' = next + 1
    BY <1>3, SubjectIsNode, OrderLists DEF WalkSkip
  <2>2. next' \in 1 .. Len(order) + 1
    BY <2>1
  <2> QED
    BY <1>3, <2>2 DEF WalkSkip, Typed, TypeOK
<1>4. CASE WalkStart
  BY <1>4, SubjectIsNode, VisitTyped DEF WalkStart
<1>5. CASE WalkUp
  <2>1. current \in Nodes(records)
    BY <1>5 DEF WalkUp, Typed, TypeOK
  <2> QED
    BY <1>5, <2>1, VisitTyped DEF WalkUp
<1>6. CASE WalkEnd
  BY <1>6, FinishPathTyped DEF WalkEnd, Typed, TypeOK
<1>7. CASE WalkCycle
  <2>1. current \in Nodes(records) /\ "NODE_PARENT_CYCLE" \in Codes
    BY <1>7 DEF WalkCycle, Typed, TypeOK, Codes
  <2> QED
    BY <1>7, <2>1, ReportTyped, FinishPathTyped DEF WalkCycle
<1>8. CASE Return
  BY <1>8, OrderLists DEF Return, Typed, TypeOK
<1>9. CASE UNCHANGED vars
  BY <1>9 DEF vars, Typed, TypeOK
<1> QED
  BY <1>1, <1>2, <1>3, <1>4, <1>5, <1>6, <1>7, <1>8, <1>9 DEF Next

-----------------------------------------------------------------------------
(* The first loop.                                                         *)

LEMMA SeenGrows ==
  ASSUME Typed, Checking, UNCHANGED <<records, order, pc>>, next' = next + 1
  PROVE  /\ Seen \subseteq Nodes(records) /\ Subject \notin Seen
         /\ Seen' = Seen \cup {Subject}
<1>1. /\ next \in 1 .. Len(order) /\ Len(order) \in Nat /\ Subject = order[next]
      /\ \A i, j \in 1 .. Len(order) : order[i] = order[j] => i = j
      /\ \A i \in 1 .. Len(order) : order[i] \in Nodes(records)
  BY SubjectIsNode, OrderLists
<1>2. Seen = {order[i] : i \in 1 .. (next - 1)} /\ Seen' = {order[i] : i \in 1 .. next}
  <2>1. next \in Nat /\ next' = next + 1
    BY <1>1
  <2>2. next' - 1 = next
    BY <2>1
  <2> QED
    BY <2>2 DEF Seen, Checking
<1>3. /\ \A i \in 1 .. next : i \in 1 .. (next - 1) \/ i = next
      /\ \A i \in 1 .. (next - 1) : i \in 1 .. Len(order) /\ i # next /\ i \in 1 .. next
      /\ next \in 1 .. next
  BY <1>1
<1> QED
  BY <1>1, <1>2, <1>3

\* A node that is rejected is reported, and not walked.
LEMMA RejectKeeps ==
  ASSUME Typed, CheckInv, Checking, NEW code, code # "NODE_PARENT_CYCLE", Reject(code),
         ~Accepted(Subject)
  PROVE  CheckInv'
<1>1. /\ UNCHANGED <<records, order, pc, path, siblingIndexes>> /\ next' = next + 1
      /\ colors' = [colors EXCEPT ![Subject] = 2]
      /\ diagnostics' = diagnostics \cup {[code |-> code, recordId |-> Subject]}
  BY DEF Reject, Report
<1>2. /\ Seen \subseteq Nodes(records) /\ Seen' = Seen \cup {Subject}
      /\ Subject \in Nodes(records)
  BY <1>1, SeenGrows, SubjectIsNode
<1>3. /\ \A n : Parent(n)' = Parent(n) /\ Accepted(n)' = Accepted(n)
      /\ Nodes(records)' = Nodes(records)
  BY <1>1, DefinedByRecords
<1>4. \A p \in Id, k \in Index :
        k \in siblingIndexes[p] <=>
          \E m \in Seen' : Accepted(m) /\ Parent(m) = p /\ records[m].index = k
  BY <1>2 DEF CheckInv
<1>5. Faulty' /\ ~Clean(Seen')
  <2>1. /\ [code |-> code, recordId |-> Subject] \in diagnostics'
        /\ [code |-> code, recordId |-> Subject].code # "NODE_PARENT_CYCLE"
    BY <1>1
  <2>2. Faulty'
    BY <2>1 DEF Faulty
  <2> QED
    BY <1>2, <2>2 DEF Clean
<1>6. Faulty' <=> ~Clean(Seen)'
  BY <1>1, <1>2, <1>3, <1>5 DEF Faulty, Clean
<1>7. /\ \A n \in Seen' : ~Accepted(n) => colors'[n] = 2
      /\ \A n \in Nodes(records) : colors'[n] = 2 => ~Accepted(n)
  BY <1>1, <1>2 DEF CheckInv, Typed, TypeOK, Checking
<1>8. path' = << >> /\ Reported' = {}
  BY <1>1 DEF CheckInv, Checking, Reported
<1> QED
  BY <1>1, <1>3, <1>4, <1>6, <1>7, <1>8 DEF CheckInv

\* A node under a usable parent is reported when a sibling before it has its key.
LEMMA SiblingKeeps ==
  ASSUME Typed, CheckInv, CheckSibling
  PROVE  CheckInv'
<1> DEFINE k == records[Subject].index
           report == [code |-> "SIBLING_INDEX_CONFLICT", recordId |-> Subject]
<1>1. /\ UNCHANGED <<records, order, pc, path, colors>> /\ next' = next + 1 /\ Checking
      /\ siblingIndexes' = [siblingIndexes EXCEPT ![Parent(Subject)] = @ \cup {k}]
      /\ diagnostics' = IF k \in siblingIndexes[Parent(Subject)]
                        THEN diagnostics \cup {report} ELSE diagnostics
      /\ Accepted(Subject)
  BY DEF CheckSibling, Report, ParentId, Parent, Accepted
<1>2. /\ Seen \subseteq Nodes(records) /\ Subject \notin Seen /\ Seen' = Seen \cup {Subject}
      /\ Subject \in Nodes(records) /\ Parent(Subject) \in Id /\ k \in Index
  BY <1>1, SeenGrows, SubjectIsNode, NodeFields
<1>3. /\ \A n : Parent(n)' = Parent(n) /\ Accepted(n)' = Accepted(n)
      /\ Nodes(records)' = Nodes(records)
  BY <1>1, DefinedByRecords
<1>4. report.code # "NODE_PARENT_CYCLE"
  OBVIOUS
<1> HIDE DEF k, report
<1>5. ASSUME NEW p \in Id, NEW j \in Index
      PROVE  j \in siblingIndexes'[p] <=>
               \E m \in Seen' : Accepted(m) /\ Parent(m) = p /\ records[m].index = j
  <2>1. siblingIndexes \in [Id -> SUBSET Index]
    BY DEF Typed, TypeOK
  <2>2. j \in siblingIndexes'[p] <=> j \in siblingIndexes[p] \/ (p = Parent(Subject) /\ j = k)
    BY <1>1, <1>2, <2>1
  <2>3. j \in siblingIndexes[p] <=>
          \E m \in Seen : Accepted(m) /\ Parent(m) = p /\ records[m].index = j
    BY DEF CheckInv
  <2> QED
    BY <1>1, <1>2, <2>2, <2>3 DEF k
<1>6. k \in siblingIndexes[Parent(Subject)] <=>
        \E m \in Seen : Accepted(m) /\ Parent(m) = Parent(Subject) /\ records[m].index = k
  BY <1>2 DEF CheckInv
<1>7. Faulty' <=> Faulty \/ k \in siblingIndexes[Parent(Subject)]
  BY <1>1, <1>4 DEF Faulty
<1>8. Clean(Seen') <=> Clean(Seen) /\ k \notin siblingIndexes[Parent(Subject)]
  BY <1>1, <1>2, <1>6 DEF Clean, k
<1>9. Faulty' <=> ~Clean(Seen)'
  <2>1. Clean(Seen)' = Clean(Seen')
    BY <1>1, <1>3 DEF Clean
  <2> QED
    BY <1>7, <1>8, <2>1 DEF CheckInv
<1>10. /\ \A n \in Seen' : ~Accepted(n) => colors'[n] = 2
       /\ \A n \in Nodes(records) : colors'[n] = 2 => ~Accepted(n)
  BY <1>1, <1>2 DEF CheckInv, Checking
<1>11. path' = << >> /\ Reported' = {}
  BY <1>1 DEF CheckInv, Checking, Reported, report
<1> QED
  BY <1>1, <1>3, <1>5, <1>9, <1>10, <1>11 DEF CheckInv

\* The parent of a node is itself, or nothing, or another page, or usable.
LEMMA CheckKeeps ==
  ASSUME Typed, CheckInv,
         CheckSelfParent \/ CheckParentMissing \/ CheckParentPage \/ CheckSibling
  PROVE  CheckInv'
<1>1. ASSUME Checking PROVE ParentId = Parent(Subject) /\ Subject \in Nodes(records)
  BY <1>1, SubjectIsNode DEF ParentId, Parent
<1>2. CASE CheckSelfParent
  BY <1>1, <1>2, RejectKeeps DEF CheckSelfParent, Accepted
<1>3. CASE CheckParentMissing
  <2>1. PageId \in Present(records) /\ Nodes(records) \subseteq Present(records)
    BY NoRecordAssumption DEF Typed, Nodes, Present, Id
  <2>2. ~Accepted(Subject)
    BY <1>1, <1>3, <2>1 DEF CheckParentMissing, Accepted
  <2> QED
    BY <1>3, <2>2, RejectKeeps DEF CheckParentMissing
<1>4. CASE CheckParentPage
  <2>1. Pages(records) \cap Nodes(records) = {}
    BY DEF Pages, Nodes
  <2>2. ~Accepted(Subject)
    BY <1>1, <1>4, <2>1 DEF CheckParentPage, Accepted
  <2> QED
    BY <1>4, <2>2, RejectKeeps DEF CheckParentPage
<1>5. CASE CheckSibling
  BY <1>5, SiblingKeeps
<1> QED
  BY <1>2, <1>3, <1>4, <1>5

\* After the first loop every node has been seen, and what it found stays.
LEMMA CheckOver ==
  ASSUME Typed, CheckInv, CheckEnd
  PROVE  CheckInv'
<1>1. Seen' = Seen /\ Nodes(records)' = Nodes(records)
  <2>1. Seen = {order[i] : i \in 1 .. Len(order)} /\ Seen' = Nodes(records)
    <3>1. next - 1 = Len(order)
      BY OrderLists DEF CheckEnd
    <3> QED
      BY <3>1 DEF CheckEnd, Seen
  <2>2. Seen = Nodes(records)
    BY <2>1, OrderLists
  <2> QED
    BY <2>1, <2>2 DEF CheckEnd
<1>2. UNCHANGED <<records, colors, siblingIndexes, diagnostics>> /\ pc' # "check"
  BY DEF CheckEnd
<1>3. \A n : Parent(n)' = Parent(n) /\ Accepted(n)' = Accepted(n)
  BY <1>2, DefinedByRecords
<1>4. Clean(Seen)' = Clean(Seen) /\ Faulty' = Faulty
  BY <1>1, <1>2, <1>3 DEF Clean, Faulty
<1> QED
  BY <1>1, <1>2, <1>3, <1>4 DEF CheckInv

\* While the first loop runs no node of a cycle is finished.
LEMMA NoLoopYet == Typed /\ CheckInv /\ pc = "check" => LoopInv
<1> SUFFICES ASSUME Typed, CheckInv, pc = "check" PROVE LoopInv
  OBVIOUS
<1>1. Reported = {} /\ \A n \in Nodes(records) : colors[n] = 2 => ~Accepted(n)
  BY DEF CheckInv
<1>2. ASSUME NEW C, Loop(C), NEW n \in C PROVE Accepted(n)
  BY <1>2 DEF Loop, Closed, Accepted
<1> QED
  BY <1>1, <1>2 DEF LoopInv, Finished

-----------------------------------------------------------------------------
(* The second loop: what does not touch cycles.                            *)

\* What the first loop found stays when only colours are added, or cycles reported.
LEMMA CheckStays ==
  ASSUME CheckInv, pc # "check", pc' # "check", UNCHANGED <<records, siblingIndexes>>,
         Faulty' = Faulty, \A n \in Nodes(records) : colors[n] = 2 => colors'[n] = 2
  PROVE  CheckInv'
<1>1. /\ Seen = Nodes(records) /\ Seen' = Nodes(records) /\ Nodes(records)' = Nodes(records)
      /\ \A n : Parent(n)' = Parent(n) /\ Accepted(n)' = Accepted(n)
  BY DefinedByRecords DEF Seen
<1>2. Clean(Seen)' = Clean(Seen)
  BY <1>1 DEF Clean
<1> QED
  BY <1>1, <1>2 DEF CheckInv

\* And so does what is known of the cycles when no node is finished.
LEMMA LoopsStay ==
  ASSUME LoopInv, UNCHANGED <<records, diagnostics>>,
         \A n \in Nodes(records) : colors'[n] = 2 <=> colors[n] = 2
  PROVE  LoopInv'
<1>1. /\ Finished' = Finished /\ Reported' = Reported
      /\ \A C : Loop(C)' = Loop(C)
  BY DefinedByRecords DEF Finished, Reported
<1> QED
  BY <1>1 DEF LoopInv

\* The path is a sequence of nodes.
LEMMA PathTypes ==
  ASSUME Typed
  PROVE  /\ path \in Seq(Nodes(records)) /\ Len(path) \in Nat
         /\ path # << >> <=> Len(path) > 0
         /\ \A i \in 1 .. Len(path) : path[i] \in Nodes(records)
         /\ DOMAIN path = 1 .. Len(path)
<1> DEFINE N == Nodes(records)
<1>1. path \in Seq(N)
  BY DEF Typed, TypeOK
<1> HIDE DEF N
<1>2. /\ Len(path) \in Nat /\ path # << >> <=> Len(path) > 0
      /\ \A i \in 1 .. Len(path) : path[i] \in N
      /\ DOMAIN path = 1 .. Len(path)
  BY <1>1
<1> QED
  BY <1>1, <1>2 DEF N

\* A node whose parent is a node leads there.
LEMMA StepUp ==
  ASSUME Typed, NEW n \in Nodes(records)
  PROVE  ParentNode(n) # NoRecord <=> Parent(n) \in Nodes(records) /\ ParentNode(n) = Parent(n)
<1>1. NoRecord \notin Nodes(records)
  BY NodeFields
<1> QED
  BY <1>1 DEF ParentNode, Parent

LEMMA VisitKeepsPath ==
  ASSUME Typed, PathInv, Walking, NEW n \in Nodes(records), colors[n] # 2, Visit(n),
         path = << >> => n = Subject,
         path # << >> => n = current /\ current # NoRecord
  PROVE  PathInv'
<1>1. /\ UNCHANGED <<records, order, pc, next>> /\ path' = Append(path, n)
      /\ colors' = [colors EXCEPT ![n] = 1] /\ current' = ParentNode(n)
      /\ colors \in [Nodes(records) -> 0 .. 2]
  BY DEF Visit, Typed, TypeOK
<1>2. /\ Nodes(records)' = Nodes(records)
      /\ \A m : Parent(m)' = Parent(m) /\ ParentNode(m)' = ParentNode(m)
  BY <1>1, DefinedByRecords
<1>3. path \in Seq(Nodes(records)) /\ Len(path) \in Nat /\ (path # << >> <=> Len(path) > 0)
  BY PathTypes
<1>4. /\ Len(path') = Len(path) + 1 /\ path' # << >> /\ path'[Len(path')] = n
      /\ \A i \in 1 .. Len(path) : path'[i] = path[i]
  BY <1>1, <1>3
<1>5. \A i \in 1 .. Len(path') : i \in 1 .. Len(path) \/ i = Len(path')
  BY <1>3, <1>4
<1>6. \A i \in 1 .. Len(path) : i \in 1 .. Len(path')
  BY <1>3, <1>4
<1>7. Len(path') \in 1 .. Len(path')
  BY <1>3, <1>4
<1>8. \A m \in Nodes(records) : colors'[m] = 1 <=> \E i \in 1 .. Len(path') : path'[i] = m
  BY <1>1, <1>4, <1>5, <1>6, <1>7 DEF PathInv
<1>9. ASSUME NEW i \in 1 .. Len(path') - 1 PROVE Parent(path'[i]) = path'[i + 1]
  <2>1. i \in 1 .. Len(path)
    BY <1>3, <1>4
  <2>2. CASE i \in 1 .. Len(path) - 1
    <3>1. i + 1 \in 1 .. Len(path)
      BY <1>3, <2>2
    <3> QED
      BY <1>4, <2>1, <2>2, <3>1 DEF PathInv
  <2>3. CASE i = Len(path)
    <3>1. path # << >> /\ path[i] \in Nodes(records)
      BY <1>3, <2>1, PathTypes
    <3>2. n = ParentNode(path[i]) /\ n # NoRecord
      BY <2>3, <3>1 DEF PathInv
    <3>3. Parent(path[i]) = n
      BY <3>1, <3>2, StepUp
    <3>4. i + 1 = Len(path')
      BY <1>4, <2>3
    <3> QED
      BY <1>4, <2>1, <3>3, <3>4
  <2> QED
    BY <1>3, <2>1, <2>2, <2>3
<1>10. path'[1] = order[next]
  <2>1. CASE path = << >>
    BY <1>3, <1>4, <2>1 DEF Subject
  <2>2. CASE path # << >>
    <3>1. 1 \in 1 .. Len(path)
      BY <1>3, <2>2
    <3> QED
      BY <1>4, <2>2, <3>1 DEF PathInv
  <2> QED
    BY <2>1, <2>2
<1>11. \A i \in 1 .. (next - 1) : colors'[order[i]] = 2
  <2>1. \A i \in 1 .. (next - 1) : colors[order[i]] = 2
    BY DEF PathInv, Walking
  <2>2. \A i \in 1 .. (next - 1) : order[i] \in Nodes(records)
    BY OrderLists DEF Typed, TypeOK
  <2> QED
    BY <1>1, <2>1, <2>2
<1> QED
  BY <1>1, <1>2, <1>4, <1>8, <1>9, <1>10, <1>11 DEF PathInv, Walking

\* When a walk is over its path is finished.
LEMMA FinishPathColours ==
  ASSUME Typed, FinishPath
  PROVE  \A n \in Nodes(records) : colors'[n] = IF n \in OnPath THEN 2 ELSE colors[n]
<1>1. DOMAIN path = 1 .. Len(path) /\ colors \in [Nodes(records) -> 0 .. 2]
  BY PathTypes DEF Typed, TypeOK
<1> QED
  BY <1>1 DEF FinishPath, OnPath

\* The node the loop is at was on it.
LEMMA FinishPathKeepsPath ==
  ASSUME Typed, PathInv, Walking, path # << >>, FinishPath
  PROVE  PathInv'
<1>1. /\ UNCHANGED <<records, order, pc>> /\ path' = << >> /\ next' = next + 1
  BY DEF FinishPath
<1>2. Len(path) \in Nat /\ 1 \in 1 .. Len(path)
  BY PathTypes
<1>3. \A n \in Nodes(records) : colors'[n] = IF n \in OnPath THEN 2 ELSE colors[n]
  BY FinishPathColours
<1>4. \A n \in Nodes(records) : colors[n] = 1 <=> n \in OnPath
  BY DEF PathInv, OnPath
<1>5. Nodes(records)' = Nodes(records)
  BY <1>1, DefinedByRecords
<1>6. Len(path') = 0
  BY <1>1
<1>7. next \in 1 .. Len(order) /\ Len(order) \in Nat
  BY SubjectIsNode, OrderLists
<1>8. \A i \in 1 .. (next' - 1) : colors'[order[i]] = 2
  <2>1. order[next] \in OnPath /\ order[next] \in Nodes(records)
    BY <1>2, <1>7, OrderLists DEF PathInv, OnPath
  <2>2. \A i \in 1 .. (next - 1) : colors[order[i]] = 2 /\ order[i] \in Nodes(records)
    <3>1. \A i \in 1 .. (next - 1) : colors[order[i]] = 2
      BY DEF PathInv, Walking
    <3>2. \A i \in 1 .. Len(order) : order[i] \in Nodes(records)
      BY OrderLists
    <3>3. \A i \in 1 .. (next - 1) : i \in 1 .. Len(order)
      BY ONLY <1>7
    <3> QED
      BY ONLY <3>1, <3>2, <3>3
  <2>3. \A i \in 1 .. (next' - 1) : i \in 1 .. (next - 1) \/ i = next
    BY <1>1, <1>7
  <2> QED
    BY <1>3, <2>1, <2>2, <2>3
<1>9. \A n \in Nodes(records) : colors'[n] # 1
  BY <1>3, <1>4
<1> QED
  BY <1>1, <1>5, <1>6, <1>8, <1>9 DEF PathInv, Walking

-----------------------------------------------------------------------------
(* Walks and cycles.                                                       *)

\* A set of natural numbers that is not empty has a least element.
LEMMA LeastNatural ==
  ASSUME NEW T \in SUBSET Nat, T # {}
  PROVE  \E m \in T : \A k \in T : m <= k
<1>1. PICK m \in T : \A k \in T : ~(<<k, m>> \in OpToRel(<, Nat))
  BY NatLessThanWellFounded, WFMin
<1>2. \A k \in T : ~(k < m)
  BY <1>1 DEF OpToRel
<1> QED
  BY ONLY <1>2, T \in SUBSET Nat, m \in T

\* A path that comes into a closed set stays in it.
LEMMA PathStays ==
  ASSUME Typed, PathInv, NEW C, Closed(C), NEW i \in 1 .. Len(path), path[i] \in C,
         NEW j \in i .. Len(path)
  PROVE  path[j] \in C
<1> DEFINE left == {k \in i .. Len(path) : path[k] \notin C}
<1> SUFFICES ASSUME left # {} PROVE FALSE
  OBVIOUS
<1>1. Len(path) \in Nat
  BY PathTypes
<1>2. left \in SUBSET Nat
  BY <1>1
<1>3. PICK k \in left : \A m \in left : k <= m
  BY <1>2, LeastNatural
<1>4. k \in i .. Len(path) /\ path[k] \notin C /\ k # i
  BY <1>3
<1>5. k - 1 \in i .. Len(path) /\ k - 1 \in 1 .. Len(path) - 1 /\ ~(k <= k - 1) /\ (k - 1) + 1 = k
  BY <1>1, <1>4
<1>6. path[k - 1] \in C
  BY <1>3, <1>5
<1>7. Parent(path[k - 1]) = path[k]
  BY <1>5 DEF PathInv
<1> QED
  BY <1>4, <1>6, <1>7 DEF Closed

\* So does the walk.
LEMMA WalkStays ==
  ASSUME Typed, PathInv, NEW C \in SUBSET Nodes(records), Closed(C), C \cap OnPath # {}
  PROVE  current \in C /\ current # NoRecord
<1>1. PICK i \in 1 .. Len(path) : path[i] \in C
  BY DEF OnPath
<1>2. Len(path) \in Nat /\ path # << >> /\ Len(path) \in i .. Len(path)
  BY <1>1, PathTypes
<1>3. path[Len(path)] \in C
  BY <1>1, <1>2, PathStays
<1>4. Parent(path[Len(path)]) \in C
  BY <1>3 DEF Closed
<1>5. current = Parent(path[Len(path)])
  BY <1>2, <1>4 DEF PathInv, ParentNode, Parent
<1> QED
  BY <1>4, <1>5, NodeFields

\* A walk that ends above its path, or on a node finished before, has met no cycle.
LEMMA WalkEndKeepsLoops ==
  ASSUME Typed, CheckInv, PathInv, LoopInv, WalkEnd
  PROVE  LoopInv'
<1>1. /\ Walking /\ FinishPath
      /\ current # NoRecord => colors[current] = 2
      /\ UNCHANGED <<records, diagnostics>>
  BY DEF WalkEnd, FinishPath
<1>2. \A n \in Nodes(records) : colors'[n] = IF n \in OnPath THEN 2 ELSE colors[n]
  BY <1>1, FinishPathColours
<1>3. /\ Reported' = Reported /\ Nodes(records)' = Nodes(records)
      /\ \A C : Loop(C)' = Loop(C)
  BY <1>1, DefinedByRecords DEF Reported
<1>4. Finished' = Finished \cup OnPath
  BY <1>2, <1>3 DEF Finished, OnPath
<1>5. ASSUME NEW C, Loop(C) PROVE C \cap OnPath = {}
  <2> SUFFICES ASSUME C \cap OnPath # {} PROVE FALSE
    OBVIOUS
  <2>1. C \in SUBSET Nodes(records) /\ Closed(C)
    BY <1>5 DEF Loop
  <2>2. current \in C /\ colors[current] = 2
    BY <1>1, <2>1, WalkStays
  <2>3. C \subseteq Finished
    BY <1>5, <2>1, <2>2 DEF LoopInv, Finished
  <2>4. \A n \in OnPath : colors[n] = 1
    BY DEF PathInv, OnPath
  <2> QED
    BY <2>3, <2>4 DEF Finished
<1> QED
  BY <1>3, <1>4, <1>5 DEF LoopInv

\* The nodes from where the walk stands to the end of its path are a cycle, and
\* the only one it has met.
LEMMA CycleOnPath ==
  ASSUME Typed, CheckInv, PathInv, WalkCycle
  PROVE  \E L : /\ Loop(L) /\ L \subseteq OnPath /\ current \in L
                /\ \A C : Loop(C) /\ C \cap OnPath # {} => C = L
<1>1. /\ Walking /\ path # << >> /\ current \in Nodes(records) /\ colors[current] = 1
  BY DEF WalkCycle, Typed, TypeOK
<1>2. PICK j \in 1 .. Len(path) : path[j] = current
  BY <1>1 DEF PathInv
<1> DEFINE L == {path[i] : i \in j .. Len(path)}
<1>3. /\ Len(path) \in Nat /\ j \in Nat
      /\ \A i \in j .. Len(path) : i \in 1 .. Len(path) /\ path[i] \in Nodes(records)
      /\ j \in j .. Len(path)
  BY <1>2, PathTypes
<1>4. L \subseteq OnPath /\ current \in L
  BY <1>2, <1>3 DEF OnPath
<1>5. \A n \in OnPath : n \in Nodes(records) /\ Parent(n) # n
  <2>1. \A n \in OnPath : n \in Nodes(records) /\ colors[n] = 1
    BY DEF PathInv, OnPath
  <2>2. Seen = Nodes(records)
    BY <1>1 DEF Seen, Walking
  <2>3. \A n \in OnPath : Accepted(n)
    BY <2>1, <2>2 DEF CheckInv
  <2> QED
    BY <2>1, <2>3 DEF Accepted
<1>6. Closed(L)
  <2>1. SUFFICES ASSUME NEW i \in j .. Len(path) PROVE Parent(path[i]) \in L
    BY DEF Closed
  <2>2. CASE i = Len(path)
    <3>1. path[i] \in Nodes(records) /\ current = ParentNode(path[i]) /\ current # NoRecord
      BY <1>1, <1>3, <2>2, NodeFields DEF PathInv, WalkCycle
    <3>2. Parent(path[i]) = current
      BY <3>1, StepUp
    <3> QED
      BY <1>4, <3>2
  <2>3. CASE i # Len(path)
    <3>1. i \in 1 .. Len(path) - 1 /\ i + 1 \in j .. Len(path)
      BY <1>3, <2>3
    <3> QED
      BY <3>1 DEF PathInv
  <2> QED
    BY <2>2, <2>3
<1>7. ASSUME NEW C \in SUBSET Nodes(records), Closed(C), C \cap OnPath # {} PROVE L \subseteq C
  <2>1. path[j] \in C
    BY <1>2, <1>7, WalkStays
  <2> HIDE DEF L
  <2>2. \A i \in j .. Len(path) : path[i] \in C
    BY <1>7, <2>1, PathStays
  <2> QED
    BY <2>2 DEF L
<1> HIDE DEF L
<1>8. Loop(L)
  BY <1>4, <1>5, <1>6, <1>7 DEF Loop
<1>9. ASSUME NEW C, Loop(C), C \cap OnPath # {} PROVE C = L
  <2>1. C \in SUBSET Nodes(records) /\ Closed(C)
    BY <1>9 DEF Loop
  <2>2. L \subseteq C
    BY <1>7, <1>9, <2>1
  <2> QED
    BY <1>4, <1>6, <1>9, <2>2 DEF Loop
<1> QED
  BY <1>4, <1>8, <1>9

\* That one is reported and finished, and the others are left alone.
LEMMA WalkCycleKeepsLoops ==
  ASSUME Typed, CheckInv, PathInv, LoopInv, WalkCycle
  PROVE  LoopInv'
<1>1. /\ FinishPath /\ UNCHANGED records
      /\ diagnostics' = diagnostics \cup {[code |-> "NODE_PARENT_CYCLE", recordId |-> current]}
  BY DEF WalkCycle, FinishPath, Report
<1>2. \A n \in Nodes(records) : colors'[n] = IF n \in OnPath THEN 2 ELSE colors[n]
  BY <1>1, FinishPathColours
<1>3. Nodes(records)' = Nodes(records) /\ \A C : Loop(C)' = Loop(C)
  BY <1>1, DefinedByRecords
<1>4. Finished' = Finished \cup OnPath
  BY <1>2, <1>3 DEF Finished, OnPath
<1>5. Reported' = Reported \cup {current}
  <2> DEFINE report == [code |-> "NODE_PARENT_CYCLE", recordId |-> current]
  <2>1. report.code = "NODE_PARENT_CYCLE" /\ report.recordId = current
    OBVIOUS
  <2>2. diagnostics' = diagnostics \cup {report}
    BY <1>1
  <2> HIDE DEF report
  <2>3. \A d : d \in diagnostics' <=> d \in diagnostics \/ d = report
    BY <2>2
  <2>4. \A r : r \in Reported' <=> r \in Reported \/ r = current
    BY <2>1, <2>3 DEF Reported
  <2> QED
    BY <2>4
<1>6. PICK L : /\ Loop(L) /\ L \subseteq OnPath /\ current \in L
              /\ \A C : Loop(C) /\ C \cap OnPath # {} => C = L
  BY CycleOnPath
<1>7. \A n \in OnPath : n \notin Finished
  BY DEF PathInv, OnPath, Finished
<1>8. L \cap Reported = {}
  BY <1>6, <1>7 DEF LoopInv
<1>9. ASSUME NEW C, Loop(C)
      PROVE  \/ C \cap Finished' = {} /\ C \cap Reported' = {}
             \/ C \subseteq Finished' /\ \E r : C \cap Reported' = {r}
  <2>1. CASE C = L
    <3>1. C \subseteq Finished' /\ C \cap Reported' = {current}
      BY <1>4, <1>5, <1>6, <1>8, <2>1
    <3> QED
      BY <3>1
  <2>2. CASE C # L
    <3>1. C \cap OnPath = {} /\ current \notin C
      BY <1>6, <1>9, <2>2
    <3>2. C \cap Finished' = C \cap Finished /\ C \cap Reported' = C \cap Reported
      BY <1>4, <1>5, <3>1
    <3>3. C \subseteq Finished => C \subseteq Finished'
      BY <1>4
    <3> QED
      BY <1>9, <3>2, <3>3 DEF LoopInv
  <2> QED
    BY <2>1, <2>2
<1>10. \A r \in Reported' : \E C : Loop(C) /\ r \in C
  BY <1>5, <1>6 DEF LoopInv
<1> QED
  BY <1>3, <1>9, <1>10 DEF LoopInv

-----------------------------------------------------------------------------
(* The invariant holds.                                                    *)

LEMMA InitInv == Init => ValidationInv
<1> SUFFICES ASSUME Init PROVE ValidationInv
  OBVIOUS
<1>1. Typed
  BY InitTyped
<1>2. Seen = {}
  BY DEF Init, Seen
<1>3. Reported = {} /\ ~Faulty /\ Clean(Seen)
  BY <1>2 DEF Init, Reported, Faulty, Clean
<1>4. \A n \in Nodes(records) : colors[n] = 0
  BY DEF Init
<1>5. CheckInv
  BY <1>2, <1>3, <1>4 DEF Init, CheckInv
<1>6. path = << >> /\ Len(path) = 0 /\ pc = "check"
  BY DEF Init
<1>7. PathInv
  BY <1>4, <1>6 DEF PathInv
<1>8. LoopInv
  BY <1>1, <1>5, <1>6, NoLoopYet
<1> QED
  BY <1>1, <1>5, <1>7, <1>8 DEF ValidationInv

\* The steps of the first loop, its end included, begin no path.
LEMMA CheckKeepsPath ==
  ASSUME Typed, CheckInv, PathInv,
         CheckSelfParent \/ CheckParentMissing \/ CheckParentPage \/ CheckSibling \/ CheckEnd
  PROVE  PathInv'
<1>1. /\ UNCHANGED <<records, path>> /\ path = << >> /\ pc = "check"
      /\ pc' = "check" \/ (pc' = "walk" /\ next' = 1)
  BY DEF CheckInv, CheckSelfParent, CheckParentMissing, CheckParentPage, CheckSibling, CheckEnd,
         Reject, Checking
<1>2. Nodes(records)' = Nodes(records)
  BY <1>1, DefinedByRecords
<1>3. \A n \in Nodes(records) : colors[n] # 1
  BY <1>1 DEF PathInv
<1>4. \A n \in Nodes(records) : colors'[n] # 1
  <2>1. colors \in [Nodes(records) -> 0 .. 2]
    BY DEF Typed, TypeOK
  <2>2. colors' = colors \/ colors' = [colors EXCEPT ![Subject] = 2]
    BY DEF CheckSelfParent, CheckParentMissing, CheckParentPage, CheckSibling, CheckEnd, Reject
  <2> QED
    BY <1>3, <2>1, <2>2
<1>5. path' = << >> /\ Len(path') = 0
  BY <1>1
<1> QED
  BY <1>1, <1>2, <1>4, <1>5 DEF PathInv

LEMMA StepInv == ValidationInv /\ [Next]_vars => ValidationInv'
<1> SUFFICES ASSUME Typed, CheckInv, PathInv, LoopInv, [Next]_vars PROVE ValidationInv'
  BY DEF ValidationInv
<1>1. Typed'
  BY StepTyped
<1>2. (Typed /\ CheckInv /\ pc = "check" => LoopInv)'
  BY NoLoopYet, PTL
<1>3. CASE CheckSelfParent \/ CheckParentMissing \/ CheckParentPage \/ CheckSibling
  <2>1. CheckInv'
    BY <1>3, CheckKeeps
  <2>2. PathInv'
    BY <1>3, CheckKeepsPath
  <2>3. pc' = "check"
    BY <1>3 DEF CheckSelfParent, CheckParentMissing, CheckParentPage, CheckSibling, Reject, Checking
  <2> QED
    BY <1>1, <1>2, <2>1, <2>2, <2>3 DEF ValidationInv
<1>4. CASE CheckEnd
  <2>1. CheckInv'
    BY <1>4, CheckOver
  <2>2. PathInv'
    BY <1>4, CheckKeepsPath
  <2>3. LoopInv'
    BY <1>4, LoopsStay DEF CheckEnd
  <2> QED
    BY <1>1, <2>1, <2>2, <2>3 DEF ValidationInv
<1>5. CASE WalkSkip
  <2>1. /\ UNCHANGED <<records, order, pc, current, path, colors, siblingIndexes, diagnostics>>
        /\ Walking /\ path = << >> /\ colors[Subject] = 2 /\ next' = next + 1 /\ pc = "walk"
    BY <1>5 DEF WalkSkip, Walking
  <2>2. CheckInv'
    BY <2>1, CheckStays DEF Faulty
  <2>3. LoopInv'
    BY <2>1, LoopsStay
  <2>4. next \in 1 .. Len(order) /\ Len(order) \in Nat /\ Subject = order[next]
    BY <2>1, SubjectIsNode, OrderLists
  <2>5. \A i \in 1 .. (next' - 1) : i \in 1 .. (next - 1) \/ i = next
    BY <2>1, <2>4
  <2>6. \A i \in 1 .. (next' - 1) : colors[order[i]] = 2
    BY <2>1, <2>4, <2>5 DEF PathInv
  <2>7. Nodes(records)' = Nodes(records) /\ \A n : Parent(n)' = Parent(n)
    BY <2>1, DefinedByRecords
  <2>8. PathInv'
    BY <2>1, <2>6, <2>7 DEF PathInv
  <2> QED
    BY <1>1, <2>2, <2>3, <2>8 DEF ValidationInv
<1>6. ASSUME NEW n \in Nodes(records), colors[n] # 2, Visit(n), Walking,
             path = << >> => n = Subject,
             path # << >> => n = current /\ current # NoRecord
      PROVE  ValidationInv'
  <2>1. /\ UNCHANGED <<records, pc, siblingIndexes, diagnostics>> /\ pc = "walk"
        /\ colors' = [colors EXCEPT ![n] = 1] /\ colors \in [Nodes(records) -> 0 .. 2]
    BY <1>6 DEF Visit, Walking, Typed, TypeOK
  <2>2. \A m \in Nodes(records) : colors'[m] = 2 <=> colors[m] = 2
    BY <1>6, <2>1
  <2>3. CheckInv'
    BY <2>1, <2>2, CheckStays DEF Faulty
  <2>4. LoopInv'
    BY <2>1, <2>2, LoopsStay
  <2>5. PathInv'
    BY <1>6, VisitKeepsPath
  <2> QED
    BY <1>1, <2>3, <2>4, <2>5 DEF ValidationInv
<1>7. CASE WalkStart
  <2>1. Walking /\ path = << >> /\ colors[Subject] # 2 /\ Visit(Subject)
    BY <1>7 DEF WalkStart
  <2>2. Subject \in Nodes(records)
    BY <2>1, SubjectIsNode
  <2> QED
    BY <1>6, <2>1, <2>2
<1>8. CASE WalkUp
  <2>1. /\ Walking /\ path # << >> /\ current \in Nodes(records) /\ current # NoRecord
        /\ colors[current] # 2 /\ Visit(current)
    BY <1>8 DEF WalkUp, Typed, TypeOK
  <2> QED
    BY <1>6, <2>1
<1>9. CASE WalkEnd \/ WalkCycle
  <2>1. /\ Walking /\ path # << >> /\ FinishPath /\ pc = "walk" /\ pc' = "walk"
        /\ UNCHANGED <<records, siblingIndexes>>
    BY <1>9 DEF WalkEnd, WalkCycle, FinishPath, Walking
  <2>2. PathInv'
    BY <2>1, FinishPathKeepsPath
  <2>3. \A n \in Nodes(records) : colors[n] = 2 => colors'[n] = 2
    BY <2>1, FinishPathColours
  <2>4. Faulty' = Faulty
    <3>1. \A d : d.code # "NODE_PARENT_CYCLE" => (d \in diagnostics' <=> d \in diagnostics)
      BY <1>9 DEF WalkEnd, WalkCycle, Report
    <3> QED
      BY <3>1 DEF Faulty
  <2>5. CheckInv'
    BY <2>1, <2>3, <2>4, CheckStays
  <2>6. LoopInv'
    BY <1>9, WalkEndKeepsLoops, WalkCycleKeepsLoops
  <2> QED
    BY <1>1, <2>2, <2>5, <2>6 DEF ValidationInv
<1>10. CASE Return
  <2>1. /\ UNCHANGED <<records, order, next, current, path, colors, siblingIndexes, diagnostics>>
        /\ pc = "walk" /\ pc' = "done" /\ next = Len(order) + 1
    BY <1>10 DEF Return
  <2>2. CheckInv'
    BY <2>1, CheckStays DEF Faulty
  <2>3. LoopInv'
    BY <2>1, LoopsStay
  <2>4. path = << >>
    BY <2>1, OrderLists DEF PathInv
  <2>5. \A n \in Nodes(records) : colors[n] = 2
    <3>1. next - 1 = Len(order)
      BY <2>1, OrderLists
    <3> QED
      BY <2>1, <3>1, OrderLists DEF PathInv
  <2>6. Nodes(records)' = Nodes(records) /\ \A n : Parent(n)' = Parent(n)
    BY <2>1, DefinedByRecords
  <2>7. PathInv'
    BY <2>1, <2>4, <2>5, <2>6 DEF PathInv
  <2> QED
    BY <1>1, <2>2, <2>3, <2>7 DEF ValidationInv
<1>11. CASE UNCHANGED vars
  <2>1. UNCHANGED <<records, order, pc, next, current, path, colors, siblingIndexes, diagnostics>>
    BY <1>11 DEF vars
  <2>2. /\ Nodes(records)' = Nodes(records)
        /\ \A n : Parent(n)' = Parent(n) /\ Accepted(n)' = Accepted(n)
        /\ \A n : ParentNode(n)' = ParentNode(n)
    BY <2>1, DefinedByRecords
  <2>3. Seen' = Seen /\ Faulty' = Faulty /\ Reported' = Reported
    BY <2>1 DEF Seen, Faulty, Reported
  <2>4. Clean(Seen)' = Clean(Seen)
    BY <2>1, <2>2, <2>3 DEF Clean
  <2>5. CheckInv'
    BY <2>1, <2>2, <2>3, <2>4 DEF CheckInv
  <2>6. PathInv'
    BY <2>1, <2>2 DEF PathInv
  <2>7. LoopInv'
    BY <2>1, LoopsStay
  <2> QED
    BY <1>1, <2>5, <2>6, <2>7 DEF ValidationInv
<1> QED
  BY <1>3, <1>4, <1>5, <1>7, <1>8, <1>9, <1>10, <1>11 DEF Next

\* In every state of a validation the records are well typed, the first loop has
\* judged the nodes it has been at, the path is the walk so far, and every cycle
\* is untouched or finished and reported once.
THEOREM ValidationInvariant == Spec => []ValidationInv
BY InitInv, StepInv, PTL DEF Spec

\* TypeOK: every variable of the validation has its type.
THEOREM ValidationTypes == Spec => []TypeOK
<1>1. ValidationInv => TypeOK
  BY DEF ValidationInv, Typed
<1> QED
  BY <1>1, ValidationInvariant, PTL

-----------------------------------------------------------------------------
(* The verdict.                                                            *)

\* Closed sets of nodes, if there are any, include a least one.
LEMMA LeastClosed ==
  ASSUME NEW C \in SUBSET Nodes(records), C # {}, Closed(C)
  PROVE  \E L \in SUBSET C :
           L # {} /\ Closed(L) /\ \A D \in SUBSET L : D # {} /\ Closed(D) => D = L
<1> DEFINE N == Nodes(records)
           T == {D \in SUBSET C : D # {} /\ Closed(D)}
<1>1. IsFiniteSet(C)
  BY NodesAreFinite, FS_Subset
<1>2. T # {} /\ T \subseteq FiniteSubsetsOf(C)
  <2>1. \A D \in SUBSET C : D \in FiniteSubsetsOf(C)
    BY <1>1, FS_FiniteSubsetsOfFinite
  <2> QED
    BY <2>1
<1>3. PICK L \in T : \A D \in T : ~(<<D, L>> \in StrictSubsetOrdering(C))
  <2> HIDE DEF T
  <2> QED
    BY <1>2, FS_StrictSubsetOrderingWellFounded, WFMin
<1>4. \A D \in T : D \subseteq L => D = L
  BY <1>2, <1>3 DEF StrictSubsetOrdering
<1> QED
  BY <1>4

\* Parents lead round exactly when a node is its own parent or there is a cycle.
LEMMA ParentCycles ==
  HasParentCycle(records) <=>
    \/ \E n \in Nodes(records) : Parent(n) = n
    \/ \E C : Loop(C)
<1>1. ASSUME HasParentCycle(records), \A n \in Nodes(records) : Parent(n) # n
      PROVE  \E C : Loop(C)
  <2>1. PICK C \in SUBSET Nodes(records) : C # {} /\ Closed(C)
    BY <1>1 DEF HasParentCycle, Closed, Parent
  <2>2. PICK L \in SUBSET C :
          L # {} /\ Closed(L) /\ \A D \in SUBSET L : D # {} /\ Closed(D) => D = L
    BY <2>1, LeastClosed
  <2>3. Loop(L)
    BY <1>1, <2>1, <2>2 DEF Loop
  <2> QED
    BY <2>3
<1>2. ASSUME NEW n \in Nodes(records), Parent(n) = n PROVE HasParentCycle(records)
  <2>1. {n} \in SUBSET Nodes(records) /\ {n} # {} /\ \A m \in {n} : records[m].parentId \in {n}
    BY <1>2 DEF Parent
  <2> QED
    BY <2>1 DEF HasParentCycle
<1>3. ASSUME NEW C, Loop(C) PROVE HasParentCycle(records)
  BY <1>3 DEF Loop, Closed, Parent, HasParentCycle
<1> QED
  BY <1>1, <1>2, <1>3

\* What the first loop checks is that parents resolve and siblings differ.
LEMMA CleanIsDefinition ==
  ASSUME Typed
  PROVE  Clean(Nodes(records)) <=> ParentsResolve(records) /\ SiblingIndexesUnique(records)
<1>1. Pages(records) \cap {PageId} = {PageId}
  <2>1. records[PageId] # NoRecord /\ records[PageId].typeName = "page"
    BY NoRecordAssumption DEF Typed
  <2> QED
    BY <2>1 DEF Pages, Present, Id
<1> QED
  BY <1>1 DEF Clean, Accepted, Parent, ParentsResolve, SiblingIndexesUnique

LEMMA Verdict == ValidationInv => VerdictIsDefinition
<1> SUFFICES ASSUME ValidationInv, pc = "done" PROVE diagnostics = {} <=> NodeTreeValid(records)
  BY DEF VerdictIsDefinition
<1>1. Typed /\ (Faulty <=> ~Clean(Nodes(records)))
  BY DEF ValidationInv, CheckInv, Seen
<1>2. diagnostics = {} <=> ~Faulty /\ Reported = {}
  BY DEF Faulty, Reported
<1>3. Reported = {} <=> \A C : ~Loop(C)
  <2>1. \A n \in Nodes(records) : n \in Finished
    BY DEF ValidationInv, PathInv, Finished
  <2>2. \A C : Loop(C) => \E n \in C : n \in Nodes(records)
    BY DEF Loop
  <2> QED
    BY <2>1, <2>2 DEF ValidationInv, LoopInv
<1>4. Clean(Nodes(records)) => \A n \in Nodes(records) : Parent(n) # n
  BY DEF Clean, Accepted
<1>5. Clean(Nodes(records)) /\ Reported = {} <=> NodeTreeValid(records)
  BY <1>1, <1>3, <1>4, ParentCycles, CleanIsDefinition DEF NodeTreeValid
<1> QED
  BY <1>1, <1>2, <1>5

\* VerdictIsDefinition: a validation that is over has reported nothing exactly when
\* parents resolve, sibling keys differ and no chain of parents leads round.
THEOREM VerdictIsRight == Spec => []VerdictIsDefinition
BY ValidationInvariant, Verdict, PTL

-----------------------------------------------------------------------------
(* The reports of cycles.                                                  *)

\* A least closed set of more than one node has no self-parent, and one without a
\* self-parent has more than one node.
LEMMA CyclesAreLoops ==
  ASSUME Typed, NEW C
  PROVE  C \in Cycles <=> Loop(C)
<1>1. ASSUME C \in SUBSET Nodes(records) PROVE IsFiniteSet(C) /\ Cardinality(C) \in Nat
  BY <1>1, NodesAreFinite, FS_Subset, FS_CardinalityType
<1>2. ASSUME C \in Cycles PROVE Loop(C)
  <2>1. /\ C \in SUBSET Nodes(records) /\ Cardinality(C) > 1 /\ Closed(C)
        /\ \A D \in SUBSET C : D # {} /\ Closed(D) => D = C
    BY <1>2 DEF Cycles, Closed, Parent
  <2>2. C # {}
    <3>1. Cardinality({}) = 0 /\ ~(0 > 1)
      BY FS_EmptySet
    <3> QED
      BY <2>1, <3>1
  <2>3. ASSUME NEW n \in C, Parent(n) = n PROVE FALSE
    <3>1. {n} \in SUBSET C /\ {n} # {} /\ Closed({n})
      BY <2>3 DEF Closed
    <3>2. C = {n}
      BY <2>1, <3>1
    <3>3. Cardinality({n}) = 1
      BY FS_Singleton
    <3> QED
      BY <2>1, <3>2, <3>3
  <2> QED
    BY <2>1, <2>2, <2>3 DEF Loop
<1>3. ASSUME Loop(C) PROVE C \in Cycles
  <2>1. /\ C \in SUBSET Nodes(records) /\ C # {} /\ \A n \in C : Parent(n) \in C /\ Parent(n) # n
        /\ \A D \in SUBSET C : D # {} /\ Closed(D) => D = C
    BY <1>3 DEF Loop, Closed
  <2>2. Cardinality(C) # 0
    BY <1>1, <2>1, FS_EmptySet
  <2>3. Cardinality(C) # 1
    <3>1. SUFFICES ASSUME Cardinality(C) = 1 PROVE FALSE
      OBVIOUS
    <3>2. PICK x : C = {x}
      BY <1>1, <2>1, <3>1, FS_Singleton
    <3> QED
      BY <2>1, <3>2
  <2>4. Cardinality(C) > 1
    BY <1>1, <2>1, <2>2, <2>3
  <2> QED
    BY <2>1, <2>4 DEF Cycles, Closed, Parent
<1> QED
  BY <1>2, <1>3

LEMMA OneReport == ValidationInv => EachCycleReportedOnce
<1> SUFFICES ASSUME ValidationInv, pc = "done"
             PROVE  /\ \A C \in Cycles : Cardinality(Reported \cap C) = 1
                    /\ Reported \subseteq UNION Cycles
  BY DEF EachCycleReportedOnce, Reported
<1>1. Typed /\ \A n \in Nodes(records) : n \in Finished
  BY DEF ValidationInv, PathInv, Finished
<1>2. ASSUME NEW C \in Cycles PROVE Cardinality(Reported \cap C) = 1
  <2>1. Loop(C) /\ \E n \in C : n \in Nodes(records)
    BY <1>1, CyclesAreLoops DEF Loop
  <2>2. \E r : C \cap Reported = {r}
    BY <1>1, <2>1 DEF ValidationInv, LoopInv
  <2>3. PICK r : Reported \cap C = {r}
    BY <2>2
  <2> QED
    BY <2>3, FS_Singleton
<1>3. Reported \subseteq UNION Cycles
  BY <1>1, CyclesAreLoops DEF ValidationInv, LoopInv
<1> QED
  BY <1>2, <1>3

\* EachCycleReportedOnce: each cycle of parents of two nodes or more is reported on
\* exactly one of its nodes, and no other node is reported for a cycle.
THEOREM CyclesAreReportedOnce == Spec => []EachCycleReportedOnce
BY ValidationInvariant, OneReport, PTL
=============================================================================
