------------------------------ MODULE PartsProofs ------------------------------
(***************************************************************************)
(* Theorems about five parts around the document: EditorSession, for any   *)
(* fields and listeners; Canvas, for any nodes, pointers, places, zooms,   *)
(* pixel and grid; ComponentTree, for any nodes and any first document;    *)
(* Retention, for any sessions, runs and limits; and CommandPlugins, for   *)
(* any plugins and commands.  With those of WorkspaceProofs they give the  *)
(* types of MCEditorParts.                                                 *)
(***************************************************************************)
EXTENDS MCEditorParts, WorkspaceProofs, SequenceTheorems, WellFoundedInduction, TLAPS

(***************************************************************************)
(* The session.                                                            *)
(***************************************************************************)

\* A set of natural numbers that is not empty has a least element, and a largest if
\* it is bounded.
LEMMA LeastNumber ==
  ASSUME NEW T \in SUBSET Nat, T # {}
  PROVE  Min(T) \in T /\ \A k \in T : Min(T) <= k
<1>1. PICK m \in T : \A k \in T : ~(<<k, m>> \in OpToRel(<, Nat))
  BY NatLessThanWellFounded, WFMin
<1>2. \A k \in T : ~(k < m)
  BY <1>1 DEF OpToRel
<1>3. \A k \in T : m <= k
  BY ONLY <1>2, T \in SUBSET Nat, m \in T
<1> QED
  BY <1>3 DEF Min

LEMMA LargestNumber ==
  ASSUME NEW n \in Nat, NEW T \in SUBSET (0 .. n), T # {}
  PROVE  Max(T) \in T /\ \A e \in T : e <= Max(T)
<1> DEFINE left == {n - e : e \in T}
<1>1. left \in SUBSET Nat /\ left # {}
  <2>1. \A e \in 0 .. n : n - e \in Nat
    OBVIOUS
  <2> QED
    BY <2>1
<1> HIDE DEF left
<1>2. Min(left) \in left /\ \A k \in left : Min(left) <= k
  BY <1>1, LeastNumber
<1>3. PICK e \in T : Min(left) = n - e
  BY <1>2 DEF left
<1>4. \A d \in T : d <= e
  <2> TAKE d \in T
  <2>1. n - d \in left /\ d \in Int /\ e \in Int
    BY DEF left
  <2>2. n - e <= n - d
    BY <1>2, <1>3, <2>1
  <2> QED
    BY <2>1, <2>2
<1>5. \A d \in T : e >= d
  BY <1>4
<1> QED
  BY <1>4, <1>5 DEF Max

LEMMA RemovedIsPart ==
  ASSUME NEW S, NEW s \in Seq(S), NEW e, Contains(s, e)
  PROVE  /\ RemoveFirst(s, e) \in Seq(S)
         /\ \A i \in 1 .. Len(RemoveFirst(s, e)) : \E j \in 1 .. Len(s) : s[j] = RemoveFirst(s, e)[i]
<1>1. PICK k \in 1 .. Len(s) : RemoveFirst(s, e) = RemoveAt(s, k)
  <2> DEFINE at == {i \in 1 .. Len(s) : s[i] = e}
  <2>1. at # {} /\ at \in SUBSET Nat
    BY DEF Contains
  <2>2. SelectInSeq(s, LAMBDA v : v = e) = Min(at)
    BY <2>1 DEF SelectInSeq
  <2>3. Min(at) \in at
    <3> HIDE DEF at
    <3> QED
      BY <2>1, LeastNumber
  <2>4. RemoveFirst(s, e) = RemoveAt(s, SelectInSeq(s, LAMBDA v : v = e))
    BY DEF RemoveFirst, Contains
  <2> QED
    BY <2>2, <2>3, <2>4
<1> DEFINE before == SubSeq(s, 1, k - 1)
           after == SubSeq(s, k + 1, Len(s))
<1>2. RemoveAt(s, k) = before \o after
  BY DEF RemoveAt
<1>3. /\ before \in Seq(S) /\ Len(before) = k - 1 /\ \A i \in 1 .. Len(before) : before[i] = s[i]
  OBVIOUS
<1>4. /\ after \in Seq(S) /\ Len(after) = Len(s) - k /\ \A i \in 1 .. Len(after) : after[i] = s[k + i]
  OBVIOUS
<1> HIDE DEF before, after
<1>5. /\ before \o after \in Seq(S) /\ Len(before \o after) = Len(before) + Len(after)
      /\ \A i \in 1 .. Len(before) + Len(after) :
           (before \o after)[i] = IF i <= Len(before) THEN before[i] ELSE after[i - Len(before)]
  BY <1>3, <1>4, ConcatProperties
<1>6. ASSUME NEW i \in 1 .. Len(before \o after) PROVE \E j \in 1 .. Len(s) : s[j] = (before \o after)[i]
  <2>1. i \in 1 .. Len(before) + Len(after) /\ k \in 1 .. Len(s) /\ Len(s) \in Nat
    BY <1>5
  <2>2. CASE i <= Len(before)
    <3>1. i \in 1 .. Len(before) /\ i \in 1 .. Len(s)
      BY <1>3, <2>1, <2>2
    <3> QED
      BY <1>3, <1>5, <2>1, <2>2, <3>1
  <2>3. CASE ~(i <= Len(before))
    <3>1. i - Len(before) \in 1 .. Len(after) /\ k + (i - Len(before)) \in 1 .. Len(s)
      BY <1>3, <1>4, <2>1, <2>3
    <3> QED
      BY <1>4, <1>5, <2>1, <2>3, <3>1
  <2> QED
    BY <2>2, <2>3
<1> QED
  BY <1>1, <1>2, <1>5, <1>6
-----------------------------------------------------------------------------
(* What the listeners heard.                                               *)

\* The states that wait are those after the one that is delivered, in order; who is
\* subscribed is still to be called, or heard this one, or joined since.
HearInv ==
  /\ sets \in Nat /\ delivered \in 0 .. sets
  /\ pendingStates \in Seq(Nat) /\ Len(pendingStates) = sets - delivered
  /\ \A i \in 1 .. Len(pendingStates) : pendingStates[i] = delivered + i
  /\ toCall \in Seq(Listeners) /\ listeners \in Seq(Listeners)
  /\ heard \in [Listeners -> 0 .. sets] /\ joined \in [Listeners -> 0 .. sets]
  /\ \A i \in 1 .. Len(listeners) :
       \/ \E j \in 1 .. Len(toCall) : toCall[j] = listeners[i]
       \/ heard[listeners[i]] = delivered
       \/ joined[listeners[i]] >= delivered

LEMMA HearInit == SessionInit => HearInv
BY DEF SessionInit, HearInv

LEMMA HearSet ==
  ASSUME HearInv, NEW field, NEW value, Set(field, value)
  PROVE  HearInv'
<1>1. /\ sets' = sets + 1 /\ pendingStates' = Append(pendingStates, sets + 1)
      /\ UNCHANGED <<delivered, toCall, listeners, heard, joined>>
  BY DEF Set, Emit
<1>2. sets \in Nat /\ delivered \in 0 .. sets /\ pendingStates \in Seq(Nat)
  BY DEF HearInv
<1>3. /\ pendingStates' \in Seq(Nat) /\ Len(pendingStates') = Len(pendingStates) + 1
      /\ \A i \in 1 .. Len(pendingStates) : pendingStates'[i] = pendingStates[i]
      /\ pendingStates'[Len(pendingStates) + 1] = sets + 1
  BY <1>1, <1>2
<1>4. /\ Len(pendingStates') = sets' - delivered
      /\ \A i \in 1 .. Len(pendingStates') : pendingStates'[i] = delivered + i
  <2>1. \A i \in 1 .. Len(pendingStates') : i \in 1 .. Len(pendingStates) \/ i = Len(pendingStates) + 1
    BY <1>2, <1>3
  <2>2. Len(pendingStates) = sets - delivered
    BY DEF HearInv
  <2>3. sets + 1 = delivered + (Len(pendingStates) + 1)
    BY <1>2, <2>2
  <2>4. Len(pendingStates') = sets' - delivered
    BY <1>1, <1>2, <1>3, <2>2
  <2> QED
    BY <1>3, <2>1, <2>3, <2>4 DEF HearInv
<1>5. delivered \in 0 .. sets' /\ 0 .. sets \subseteq 0 .. sets' /\ sets' \in Nat
  BY <1>1, <1>2
<1>6. heard \in [Listeners -> 0 .. sets'] /\ joined \in [Listeners -> 0 .. sets']
  BY <1>5 DEF HearInv
<1> QED
  BY <1>1, <1>3, <1>4, <1>5, <1>6 DEF HearInv

LEMMA HearTake ==
  ASSUME HearInv, TakeState
  PROVE  HearInv'
<1>1. /\ pendingStates # << >> /\ pendingStates \in Seq(Nat)
      /\ delivered' = Head(pendingStates) /\ pendingStates' = Tail(pendingStates)
      /\ toCall' = listeners /\ UNCHANGED <<sets, listeners, heard, joined>>
      /\ sets \in Nat /\ delivered \in 0 .. sets /\ Len(pendingStates) = sets - delivered
  BY DEF TakeState, HearInv
<1>2. /\ Len(pendingStates) \in Nat /\ Len(pendingStates) > 0 /\ Head(pendingStates) = pendingStates[1]
      /\ Tail(pendingStates) \in Seq(Nat) /\ Len(Tail(pendingStates)) = Len(pendingStates) - 1
      /\ \A i \in 1 .. Len(Tail(pendingStates)) : Tail(pendingStates)[i] = pendingStates[i + 1]
  BY <1>1
<1>3. delivered' = delivered + 1 /\ delivered \in Nat
  <2>1. \A i \in 1 .. Len(pendingStates) : pendingStates[i] = delivered + i
    BY DEF HearInv
  <2>2. pendingStates[1] = delivered + 1
    BY ONLY <1>2, <2>1
  <2> QED
    BY ONLY <1>1, <1>2, <2>2
<1>4. delivered' \in 0 .. sets /\ Len(pendingStates') = sets - delivered'
  <2>1. pendingStates' = Tail(pendingStates)
    BY ONLY <1>1
  <2>2. Len(pendingStates') = Len(pendingStates) - 1 /\ Len(pendingStates) \in Nat /\ Len(pendingStates) > 0
    BY ONLY <1>2, <2>1
  <2>3. PICK n \in Nat : n = Len(pendingStates)
    BY ONLY <2>2
  <2>4. n > 0 /\ n = sets - delivered /\ Len(pendingStates') = n - 1 /\ sets \in Nat
    BY ONLY <1>1, <2>2, <2>3
  <2> QED
    BY ONLY <1>3, <2>4
<1>5. \A i \in 1 .. Len(pendingStates') : pendingStates'[i] = delivered' + i
  <2> TAKE i \in 1 .. Len(pendingStates')
  <2>1. i + 1 \in 1 .. Len(pendingStates) /\ pendingStates'[i] = pendingStates[i + 1] /\ i \in Nat
    BY <1>1, <1>2
  <2>2. pendingStates[i + 1] = delivered + (i + 1)
    BY <2>1 DEF HearInv
  <2>3. delivered + (i + 1) = delivered' + i
    BY ONLY <1>3, <2>1
  <2> QED
    BY <2>1, <2>2, <2>3
<1> QED
  BY <1>1, <1>2, <1>4, <1>5 DEF HearInv

LEMMA HearCall ==
  ASSUME HearInv, CallListener
  PROVE  HearInv'
<1>1. /\ toCall # << >> /\ toCall \in Seq(Listeners) /\ listeners \in Seq(Listeners)
      /\ heard' = [heard EXCEPT ![Head(toCall)] = delivered] /\ toCall' = Tail(toCall)
      /\ UNCHANGED <<sets, delivered, pendingStates, listeners, joined>>
      /\ heard \in [Listeners -> 0 .. sets] /\ delivered \in 0 .. sets
  BY DEF CallListener, HearInv
<1>2. /\ Head(toCall) \in Listeners /\ Head(toCall) = toCall[1] /\ Tail(toCall) \in Seq(Listeners)
      /\ Len(toCall) \in Nat /\ Len(Tail(toCall)) = Len(toCall) - 1
      /\ \A i \in 1 .. Len(Tail(toCall)) : Tail(toCall)[i] = toCall[i + 1]
  BY <1>1
<1>3. heard' \in [Listeners -> 0 .. sets]
  BY <1>1, <1>2
<1>4. ASSUME NEW i \in 1 .. Len(listeners)
      PROVE  \/ \E j \in 1 .. Len(toCall') : toCall'[j] = listeners[i]
             \/ heard'[listeners[i]] = delivered
             \/ joined[listeners[i]] >= delivered
  <2>1. listeners[i] \in Listeners
    BY <1>1
  <2>2. CASE listeners[i] = Head(toCall)
    BY <1>1, <2>1, <2>2
  <2>3. CASE listeners[i] # Head(toCall)
    <3>1. heard'[listeners[i]] = heard[listeners[i]]
      BY <1>1, <2>1, <2>3
    <3>2. ASSUME NEW j \in 1 .. Len(toCall), toCall[j] = listeners[i]
          PROVE  \E m \in 1 .. Len(toCall') : toCall'[m] = listeners[i]
      <4>1. j # 1
        BY <1>2, <2>3, <3>2
      <4>2. j - 1 \in 1 .. Len(Tail(toCall)) /\ (j - 1) + 1 = j
        BY <1>2, <4>1
      <4>3. Tail(toCall)[j - 1] = toCall[j]
        BY <1>2, <4>2
      <4> QED
        BY <1>1, <3>2, <4>2, <4>3
    <3> QED
      BY <3>1, <3>2 DEF HearInv
  <2> QED
    BY <2>2, <2>3
<1> QED
  BY <1>1, <1>2, <1>3, <1>4 DEF HearInv

LEMMA HearSubscribe ==
  ASSUME HearInv, NEW listener \in Listeners, Subscribe(listener)
  PROVE  HearInv'
<1>1. /\ listeners' = Append(listeners, listener) /\ joined' = [joined EXCEPT ![listener] = sets]
      /\ UNCHANGED <<sets, pendingStates, delivered, toCall, heard>>
      /\ listeners \in Seq(Listeners) /\ joined \in [Listeners -> 0 .. sets]
      /\ sets \in Nat /\ delivered \in 0 .. sets
  BY DEF Subscribe, HearInv
<1>2. /\ listeners' \in Seq(Listeners) /\ Len(listeners') = Len(listeners) + 1 /\ Len(listeners) \in Nat
      /\ \A i \in 1 .. Len(listeners) : listeners'[i] = listeners[i] /\ listeners[i] \in Listeners
      /\ listeners'[Len(listeners) + 1] = listener
  BY <1>1
<1>3. /\ joined' \in [Listeners -> 0 .. sets] /\ joined'[listener] = sets /\ sets >= delivered
      /\ \A l \in Listeners : l # listener => joined'[l] = joined[l]
  BY <1>1
<1>4. ASSUME NEW i \in 1 .. Len(listeners')
      PROVE  \/ \E j \in 1 .. Len(toCall) : toCall[j] = listeners'[i]
             \/ heard[listeners'[i]] = delivered
             \/ joined'[listeners'[i]] >= delivered
  <2>1. i \in 1 .. Len(listeners) \/ i = Len(listeners) + 1
    BY <1>2
  <2>2. CASE listeners'[i] = listener
    BY <1>3, <2>2
  <2>3. CASE listeners'[i] # listener
    BY <1>2, <1>3, <2>1, <2>3 DEF HearInv
  <2> QED
    BY <2>2, <2>3
<1> QED
  BY <1>1, <1>2, <1>3, <1>4 DEF HearInv

LEMMA HearUnsubscribe ==
  ASSUME HearInv, NEW listener \in Listeners, Unsubscribe(listener)
  PROVE  HearInv'
<1>1. /\ Contains(listeners, listener) /\ listeners' = RemoveFirst(listeners, listener)
      /\ UNCHANGED <<sets, pendingStates, delivered, toCall, heard, joined>>
      /\ listeners \in Seq(Listeners)
  BY DEF Unsubscribe, HearInv
<1>2. /\ listeners' \in Seq(Listeners)
      /\ \A i \in 1 .. Len(listeners') : \E j \in 1 .. Len(listeners) : listeners[j] = listeners'[i]
  BY <1>1, RemovedIsPart
<1>3. ASSUME NEW i \in 1 .. Len(listeners')
      PROVE  \/ \E j \in 1 .. Len(toCall) : toCall[j] = listeners'[i]
             \/ heard[listeners'[i]] = delivered
             \/ joined[listeners'[i]] >= delivered
  BY <1>2 DEF HearInv
<1> QED
  BY <1>1, <1>2, <1>3 DEF HearInv

LEMMA HearRecord ==
  ASSUME HearInv, RecordDeferred \/ UNCHANGED sessionVars
  PROVE  HearInv'
BY DEF RecordDeferred, sessionVars, emitter, HearInv

-----------------------------------------------------------------------------
(* What operations make of a session.                                      *)

Operation == [field: Fields, value: 0 .. 1]

\* v is the value that the last operation on the field gives it.
LastIs(operations, field, v) ==
  \/ v = 0 /\ \A i \in 1 .. Len(operations) : operations[i].field # field
  \/ \E i \in 1 .. Len(operations) :
       /\ operations[i].field = field /\ operations[i].value = v
       /\ \A j \in 1 .. Len(operations) : operations[j].field = field => j <= i

\* The places, of some, at which the field is set.
SetAt(operations, places, field) == {i \in places : operations[i].field = field}

\* The values the operations at these places leave.
Latest(operations, places) ==
  [field \in Fields |-> IF SetAt(operations, places, field) = {} THEN 0
                        ELSE operations[Max(SetAt(operations, places, field))].value]

LEMMA LatestStep ==
  ASSUME NEW operations \in Seq(Operation), NEW places \in SUBSET (1 .. Len(operations)), places # {}
  PROVE  /\ Max(places) \in places /\ \A i \in places : i <= Max(places)
         /\ Latest(operations, places) =
              [Latest(operations, places \ {Max(places)}) EXCEPT
                 ![operations[Max(places)].field] = operations[Max(places)].value]
<1> DEFINE m == Max(places)
           rest == places \ {m}
<1>1. /\ Len(operations) \in Nat /\ places \in SUBSET (0 .. Len(operations))
  OBVIOUS
<1>2. m \in places /\ \A i \in places : i <= m
  BY <1>1, LargestNumber
<1>3. operations[m] \in Operation /\ operations[m].field \in Fields
  <2>1. operations[m] \in Operation
    <3>1. m \in 1 .. Len(operations)
      BY <1>2
    <3> QED
      BY <3>1
  <2>2. \A o \in Operation : o.field \in Fields
    BY DEF Operation
  <2> QED
    BY <2>1, <2>2
<1> HIDE DEF m
<1>4. ASSUME NEW field \in Fields, field # operations[m].field
      PROVE  SetAt(operations, places, field) = SetAt(operations, rest, field)
  BY <1>4 DEF SetAt
<1>5. SetAt(operations, places, operations[m].field) # {}
      /\ Max(SetAt(operations, places, operations[m].field)) = m
  <2> DEFINE at == SetAt(operations, places, operations[m].field)
  <2>1. m \in at /\ at \in SUBSET (0 .. Len(operations)) /\ \A i \in at : i <= m
    BY <1>1, <1>2 DEF SetAt
  <2> HIDE DEF at
  <2>2. Max(at) \in at /\ m <= Max(at) /\ Max(at) <= m
    BY <1>1, <2>1, LargestNumber
  <2>3. Max(at) = m
    <3>1. \A x, y \in 0 .. Len(operations) : x <= y /\ y <= x => x = y
      BY <1>1
    <3>2. Max(at) \in 0 .. Len(operations) /\ m \in 0 .. Len(operations)
      BY <1>1, <2>1, <2>2
    <3> QED
      BY <2>2, <3>1, <3>2
  <2> QED
    BY <2>1, <2>3 DEF at
<1> HIDE DEF rest
<1>6. Latest(operations, places) =
        [Latest(operations, rest) EXCEPT ![operations[m].field] = operations[m].value]
  BY <1>3, <1>4, <1>5 DEF Latest
<1> QED
  BY <1>2, <1>6 DEF m, rest

\* The fold over the operations, from the last down to the first.
Unfolds(g, operations) ==
  g = [places \in SUBSET (DOMAIN operations) |->
         IF places = {} THEN [field \in Fields |-> 0]
         ELSE [g[places \ {Max(places)}] EXCEPT
                 ![operations[Max(places)].field] = operations[Max(places)].value]]

LEMMA ReplayedIsLatest ==
  ASSUME NEW operations \in Seq(Operation)
  PROVE  Replayed(operations) = Latest(operations, 1 .. Len(operations))
<1>1. Replayed(operations) = (CHOOSE g : Unfolds(g, operations))[DOMAIN operations]
  BY DEF Replayed, FoldLeft, MapThenFoldSet, Unfolds
<1>2. DOMAIN operations = 1 .. Len(operations) /\ Len(operations) \in Nat
  OBVIOUS
<1> DEFINE D == 1 .. Len(operations)
           h == [places \in SUBSET D |-> Latest(operations, places)]
<1>3. Unfolds(h, operations)
  <2>1. Latest(operations, {}) = [field \in Fields |-> 0]
    BY DEF Latest, SetAt
  <2>2. ASSUME NEW places \in SUBSET D, places # {}
        PROVE  h[places] = [h[places \ {Max(places)}] EXCEPT
                              ![operations[Max(places)].field] = operations[Max(places)].value]
    BY <2>2, LatestStep
  <2>3. h = [places \in SUBSET D |->
               IF places = {} THEN [field \in Fields |-> 0]
               ELSE [h[places \ {Max(places)}] EXCEPT
                       ![operations[Max(places)].field] = operations[Max(places)].value]]
    <3>1. \A places \in SUBSET D :
            h[places] = IF places = {} THEN [field \in Fields |-> 0]
                        ELSE [h[places \ {Max(places)}] EXCEPT
                                ![operations[Max(places)].field] = operations[Max(places)].value]
      BY <2>1, <2>2
    <3> QED
      BY <3>1
  <2> HIDE DEF h
  <2> QED
    BY <1>2, <2>3 DEF Unfolds
<1> DEFINE g == CHOOSE x : Unfolds(x, operations)
<1>4. Unfolds(g, operations)
  <2>1. \E x : Unfolds(x, operations)
    BY <1>3
  <2> QED
    BY <2>1
<1> HIDE DEF g, h
<1>5. /\ g[{}] = [field \in Fields |-> 0]
      /\ \A places \in SUBSET D : places # {} =>
           g[places] = [g[places \ {Max(places)}] EXCEPT
                          ![operations[Max(places)].field] = operations[Max(places)].value]
  BY <1>2, <1>4 DEF Unfolds
<1> DEFINE wrong == {n \in 0 .. Len(operations) : g[1 .. n] # Latest(operations, 1 .. n)}
<1>6. wrong = {}
  <2> SUFFICES ASSUME wrong # {} PROVE FALSE
    OBVIOUS
  <2>1. wrong \in SUBSET Nat
    BY <1>2
  <2> DEFINE n == Min(wrong)
  <2>2. n \in wrong /\ \A k \in wrong : n <= k
    <3> HIDE DEF wrong
    <3> QED
      BY <2>1, LeastNumber
  <2> HIDE DEF n
  <2>3. n \in 0 .. Len(operations) /\ g[1 .. n] # Latest(operations, 1 .. n)
    BY <2>2
  <2>4. n # 0
    <3>1. 1 .. 0 = {}
      OBVIOUS
    <3>2. Latest(operations, {}) = [field \in Fields |-> 0]
      BY DEF Latest, SetAt
    <3> QED
      BY <1>5, <2>3, <3>1, <3>2
  <2>5. n - 1 \in 0 .. Len(operations) /\ ~(n <= n - 1) /\ n \in 1 .. n
    BY <1>2, <2>3, <2>4
  <2>6. g[1 .. (n - 1)] = Latest(operations, 1 .. (n - 1))
    BY <2>2, <2>5
  <2>7. 1 .. n \in SUBSET D /\ 1 .. n # {}
    <3>1. 1 .. n \subseteq 1 .. Len(operations)
      BY <1>2, <2>3
    <3> QED
      BY <2>5, <3>1
  <2>8. Max(1 .. n) = n
    <3>1. Max(1 .. n) \in 1 .. n /\ \A i \in 1 .. n : i <= Max(1 .. n)
      BY <2>7, LatestStep
    <3>2. n <= Max(1 .. n) /\ Max(1 .. n) <= n
      BY <2>5, <3>1
    <3> QED
      BY <2>3, <3>1, <3>2
  <2>9. (1 .. n) \ {n} = 1 .. (n - 1)
    BY <1>2, <2>3
  <2>10. g[1 .. n] = [g[1 .. (n - 1)] EXCEPT ![operations[n].field] = operations[n].value]
    BY <1>5, <2>7, <2>8, <2>9
  <2>11. Latest(operations, 1 .. n) =
           [Latest(operations, 1 .. (n - 1)) EXCEPT ![operations[n].field] = operations[n].value]
    BY <2>7, <2>8, <2>9, LatestStep
  <2> QED
    BY <2>3, <2>6, <2>10, <2>11
<1>7. g[D] = Latest(operations, D)
  <2>1. Len(operations) \in 0 .. Len(operations)
    BY <1>2
  <2> QED
    BY <1>6, <2>1
<1> QED
  BY <1>1, <1>2, <1>7 DEF g

\* What operations make of a session is what the last one on each field makes of it.
LEMMA ReplayedIsLast ==
  ASSUME NEW operations \in Seq(Operation), NEW state \in [Fields -> 0 .. 1],
         \A field \in Fields : LastIs(operations, field, state[field])
  PROVE  Replayed(operations) = state
<1> DEFINE D == 1 .. Len(operations)
<1>1. ASSUME NEW field \in Fields PROVE Latest(operations, D)[field] = state[field]
  <2> DEFINE at == SetAt(operations, D, field)
             m == Max(at)
  <2>1. Len(operations) \in Nat /\ at \in SUBSET (0 .. Len(operations))
    BY DEF SetAt
  <2>2. at # {} => m \in at /\ \A i \in at : i <= m
    <3> HIDE DEF at
    <3> QED
      BY <2>1, LargestNumber
  <2> HIDE DEF m
  <2>3. Latest(operations, D)[field] = IF at = {} THEN 0 ELSE operations[m].value
    BY DEF Latest, m
  <2>4. CASE \A i \in D : operations[i].field # field
    <3>1. at = {}
      BY <2>4 DEF SetAt
    <3>2. state[field] = 0
      BY <2>4 DEF LastIs
    <3> QED
      BY <2>3, <3>1, <3>2
  <2>5. CASE \E i \in D : operations[i].field = field
    <3>1. PICK i \in D : /\ operations[i].field = field /\ operations[i].value = state[field]
                         /\ \A j \in D : operations[j].field = field => j <= i
      BY <2>5 DEF LastIs
    <3>2. i \in at /\ at # {} /\ m \in at /\ i <= m /\ m <= i
      BY <2>2, <3>1 DEF SetAt
    <3>3. i = m
      BY <2>1, <3>2
    <3> QED
      BY <2>3, <3>1, <3>2, <3>3
  <2> QED
    BY <2>4, <2>5
<1>2. Latest(operations, D) = [field \in Fields |-> Latest(operations, D)[field]]
  BY DEF Latest
<1> QED
  BY <1>1, <1>2, ReplayedIsLatest

\* One more operation decides about its own field.
LEMMA LastAppended ==
  ASSUME NEW operations \in Seq(Operation), NEW operation \in Operation,
         NEW field \in Fields, NEW v, LastIs(operations, field, v)
  PROVE  LastIs(Append(operations, operation), field, IF operation.field = field THEN operation.value ELSE v)
<1> DEFINE more == Append(operations, operation)
           n == Len(operations)
<1>1. /\ n \in Nat /\ Len(more) = n + 1 /\ more[n + 1] = operation
      /\ \A i \in 1 .. n : more[i] = operations[i]
  OBVIOUS
<1>2. \A i \in 1 .. Len(more) : i \in 1 .. n \/ i = n + 1
  BY <1>1
<1>3. \A i \in 1 .. n : i \in 1 .. Len(more) /\ i <= n + 1
  BY <1>1
<1>4. n + 1 \in 1 .. Len(more) /\ n + 1 <= n + 1
  BY <1>1
<1> HIDE DEF more, n
<1>5. CASE operation.field = field
  BY <1>1, <1>2, <1>3, <1>4, <1>5 DEF LastIs, more
<1>6. CASE operation.field # field
  <2>1. CASE v = 0 /\ \A i \in 1 .. n : operations[i].field # field
    BY <1>1, <1>2, <1>6, <2>1 DEF LastIs, more
  <2>2. CASE \E i \in 1 .. n : /\ operations[i].field = field /\ operations[i].value = v
                               /\ \A j \in 1 .. n : operations[j].field = field => j <= i
    <3>1. PICK i \in 1 .. n : /\ operations[i].field = field /\ operations[i].value = v
                              /\ \A j \in 1 .. n : operations[j].field = field => j <= i
      BY <2>2
    <3>2. \A j \in 1 .. Len(more) : more[j].field = field => j <= i
      BY <1>1, <1>2, <1>6, <3>1
    <3> QED
      BY <1>1, <1>3, <1>6, <3>1, <3>2 DEF LastIs, more
  <2> QED
    BY <2>1, <2>2 DEF LastIs, n
<1> QED
  BY <1>5, <1>6

\* The operations that wait, the viewport with the value it has then.
Queued ==
  [i \in DOMAIN deferred |->
     IF deferred[i].field = "viewport"
     THEN [field |-> "viewport", value |-> pendingViewport] ELSE deferred[i]]

Waiting == [field: {"viewport"}] \cup [field: Fields \ {"viewport"}, value: 0 .. 1]

\* The viewport waits exactly when it has a value to be recorded, and once; and what
\* was recorded and what waits leave each field as it is.
RecordInv ==
  /\ fields \in [Fields -> 0 .. 1]
  /\ sessionLog \in Seq(Operation) /\ deferred \in Seq(Waiting)
  /\ pendingViewport \in {NoViewport, 0, 1} /\ viewportScheduled \in BOOLEAN
  /\ viewportScheduled <=> pendingViewport # NoViewport
  /\ viewportScheduled <=> \E i \in 1 .. Len(deferred) : deferred[i].field = "viewport"
  /\ \A i, j \in 1 .. Len(deferred) : deferred[i].field = "viewport" /\ deferred[j].field = "viewport" => i = j
  /\ \A field \in Fields : LastIs(sessionLog \o Queued, field, fields[field])

LEMMA WaitingIs ==
  ASSUME NEW w \in Waiting
  PROVE  /\ w.field \in Fields
         /\ w.field # "viewport" => w \in Operation
BY EditorSessionAssumption DEF Waiting, Operation

LEMMA QueuedIs ==
  /\ deferred \in Seq(Waiting) /\ pendingViewport \in {NoViewport, 0, 1}
  /\ (\E i \in 1 .. Len(deferred) : deferred[i].field = "viewport") => pendingViewport # NoViewport
  =>
  /\ Queued \in Seq(Operation) /\ Len(Queued) = Len(deferred)
  /\ \A i \in 1 .. Len(deferred) : Queued[i].field = deferred[i].field
<1> SUFFICES ASSUME deferred \in Seq(Waiting), pendingViewport \in {NoViewport, 0, 1},
                    (\E i \in 1 .. Len(deferred) : deferred[i].field = "viewport") => pendingViewport # NoViewport
             PROVE  /\ Queued \in Seq(Operation) /\ Len(Queued) = Len(deferred)
                    /\ \A i \in 1 .. Len(deferred) : Queued[i].field = deferred[i].field
  OBVIOUS
<1>1. DOMAIN deferred = 1 .. Len(deferred) /\ Len(deferred) \in Nat
  OBVIOUS
<1>2. ASSUME NEW i \in 1 .. Len(deferred) PROVE Queued[i] \in Operation /\ Queued[i].field = deferred[i].field
  <2>1. deferred[i] \in Waiting
    OBVIOUS
  <2>2. CASE deferred[i].field = "viewport"
    <3>1. Queued[i] = [field |-> "viewport", value |-> pendingViewport] /\ pendingViewport \in 0 .. 1
      BY <1>1, <2>2 DEF Queued
    <3> QED
      BY <2>2, <3>1, EditorSessionAssumption DEF Operation
  <2>3. CASE deferred[i].field # "viewport"
    <3>1. Queued[i] = deferred[i]
      BY <1>1, <2>3 DEF Queued
    <3> QED
      BY <2>1, <2>3, <3>1, WaitingIs
  <2> QED
    BY <2>2, <2>3
<1>3. Queued = [i \in 1 .. Len(deferred) |-> Queued[i]]
  BY <1>1 DEF Queued
<1>4. Queued \in [1 .. Len(deferred) -> Operation]
  BY <1>2, <1>3
<1>5. Queued \in Seq(Operation) /\ Len(Queued) = Len(deferred)
  BY <1>1, <1>4
<1> QED
  BY <1>2, <1>5

\* The same after a step.
LEMMA QueuedIsThen ==
  ASSUME deferred' \in Seq(Waiting), pendingViewport' \in {NoViewport, 0, 1},
         (\E i \in 1 .. Len(deferred') : deferred'[i].field = "viewport") => pendingViewport' # NoViewport
  PROVE  /\ Queued' \in Seq(Operation) /\ Len(Queued') = Len(deferred')
         /\ \A i \in 1 .. Len(deferred') : Queued'[i].field = deferred'[i].field
<1>1. (/\ deferred \in Seq(Waiting) /\ pendingViewport \in {NoViewport, 0, 1}
       /\ (\E i \in 1 .. Len(deferred) : deferred[i].field = "viewport") => pendingViewport # NoViewport
       =>
       /\ Queued \in Seq(Operation) /\ Len(Queued) = Len(deferred)
       /\ \A i \in 1 .. Len(deferred) : Queued[i].field = deferred[i].field)'
  BY QueuedIs, PTL
<1> QED
  BY <1>1

LEMMA Joined ==
  ASSUME NEW s \in Seq(Operation), NEW q \in Seq(Operation), NEW n, Len(q) = n
  PROVE  /\ s \o q \in Seq(Operation) /\ Len(s \o q) = Len(s) + n
         /\ \A i \in 1 .. Len(s) + n : (s \o q)[i] = IF i <= Len(s) THEN s[i] ELSE q[i - Len(s)]
BY ConcatProperties

LEMMA RecordInit == SessionInit => RecordInv
<1> SUFFICES ASSUME SessionInit PROVE RecordInv
  OBVIOUS
<1>1. /\ fields = [field \in Fields |-> 0] /\ pendingViewport = NoViewport /\ viewportScheduled = FALSE
      /\ deferred = << >> /\ sessionLog = << >>
  BY DEF SessionInit
<1>2. sessionLog \in Seq(Operation) /\ deferred \in Seq(Waiting) /\ Len(deferred) = 0
  BY <1>1
<1>3. sessionLog \o Queued = << >>
  <2>1. Queued \in Seq(Operation) /\ Len(Queued) = 0
    BY <1>1, <1>2, QueuedIs
  <2> QED
    BY <1>1, <2>1
<1>4. \A field \in Fields : LastIs(sessionLog \o Queued, field, fields[field])
  BY <1>1, <1>3 DEF LastIs
<1>5. fields \in [Fields -> 0 .. 1] /\ \A i \in 1 .. Len(deferred) : FALSE
  BY <1>1, <1>2
<1> QED
  BY <1>1, <1>2, <1>4, <1>5 DEF RecordInv

\* A list that differs from another in the operations on one field leaves the
\* others as they were.
LEMMA OthersStay ==
  ASSUME NEW old \in Seq(Operation), NEW new \in Seq(Operation), NEW n \in Nat, Len(old) = n, Len(new) = n,
         NEW changed, NEW field, field # changed, NEW v,
         \A i \in 1 .. n : new[i].field = old[i].field /\ (old[i].field # changed => new[i] = old[i]),
         LastIs(old, field, v)
  PROVE  LastIs(new, field, v)
<1>1. \A i \in 1 .. n : /\ (new[i].field = field <=> old[i].field = field)
                        /\ (old[i].field = field => new[i].value = old[i].value)
  OBVIOUS
<1> QED
  BY <1>1 DEF LastIs

LEMMA RecordSet ==
  ASSUME RecordInv, NEW field \in Fields, NEW value \in 0 .. 1, Set(field, value)
  PROVE  RecordInv'
<1> DEFINE n == Len(deferred)
           all == sessionLog \o Queued
           operation == [field |-> field, value |-> value]
<1>1. /\ fields \in [Fields -> 0 .. 1] /\ sessionLog \in Seq(Operation) /\ deferred \in Seq(Waiting)
      /\ pendingViewport \in {NoViewport, 0, 1} /\ viewportScheduled \in BOOLEAN
      /\ n \in Nat /\ Len(sessionLog) \in Nat
  BY DEF RecordInv
<1>2. /\ viewportScheduled <=> pendingViewport # NoViewport
      /\ viewportScheduled <=> \E i \in 1 .. n : deferred[i].field = "viewport"
      /\ \A i, j \in 1 .. n : deferred[i].field = "viewport" /\ deferred[j].field = "viewport" => i = j
  BY DEF RecordInv
<1>3. /\ fields' = [fields EXCEPT ![field] = value] /\ UNCHANGED sessionLog
      /\ IF field = "viewport"
         THEN /\ pendingViewport' = value
              /\ viewportScheduled' = TRUE
              /\ deferred' = IF viewportScheduled THEN deferred ELSE Append(deferred, [field |-> field])
         ELSE /\ deferred' = Append(deferred, operation)
              /\ UNCHANGED <<pendingViewport, viewportScheduled>>
  BY DEF Set, Observe
<1>4. /\ Queued \in Seq(Operation) /\ Len(Queued) = n /\ \A i \in 1 .. n : Queued[i].field = deferred[i].field
  BY <1>1, <1>2, QueuedIs
<1>5. /\ all \in Seq(Operation) /\ Len(all) = Len(sessionLog) + n
      /\ \A i \in 1 .. Len(sessionLog) + n : all[i] =
           IF i <= Len(sessionLog) THEN sessionLog[i] ELSE Queued[i - Len(sessionLog)]
  BY <1>1, <1>4, Joined
<1>6. operation \in Operation /\ value # NoViewport /\ operation.field = field /\ operation.value = value
  BY EditorSessionAssumption DEF Operation
<1>7. fields' \in [Fields -> 0 .. 1] /\ fields'[field] = value /\ \A f \in Fields : f # field => fields'[f] = fields[f]
  BY <1>1, <1>3
<1>8. \A f \in Fields : LastIs(all, f, fields[f])
  BY DEF RecordInv
<1>9. CASE ~(field = "viewport" /\ viewportScheduled)
  <2> DEFINE entry == IF field = "viewport" THEN [field |-> field] ELSE operation
  <2>1. entry \in Waiting /\ entry.field = field
    BY <1>6 DEF Waiting
  <2>2. deferred' = Append(deferred, entry)
    BY <1>3, <1>9
  <2> HIDE DEF entry
  <2>3. /\ deferred' \in Seq(Waiting) /\ Len(deferred') = n + 1 /\ deferred'[n + 1] = entry
        /\ \A i \in 1 .. n : deferred'[i] = deferred[i]
    BY <1>1, <2>1, <2>2
  <2>4. /\ \A i \in 1 .. n + 1 : i \in 1 .. n \/ i = n + 1
        /\ \A i \in 1 .. n : i \in 1 .. n + 1
        /\ n + 1 \in 1 .. n + 1
    BY <1>1
  <2>5. /\ pendingViewport' \in {NoViewport, 0, 1} /\ viewportScheduled' \in BOOLEAN
        /\ viewportScheduled' <=> pendingViewport' # NoViewport
        /\ viewportScheduled' <=> (field = "viewport" \/ viewportScheduled)
    <3>1. viewportScheduled <=> pendingViewport # NoViewport
      BY <1>2
    <3>2. CASE field = "viewport"
      BY <1>3, <1>6, <3>2
    <3>3. CASE field # "viewport"
      BY <1>1, <1>3, <3>1, <3>3
    <3> QED
      BY <3>2, <3>3
  <2> HIDE DEF n
  <2>6. viewportScheduled' <=> \E i \in 1 .. Len(deferred') : deferred'[i].field = "viewport"
    BY <1>2, <2>1, <2>3, <2>4, <2>5
  <2>7. \A i, j \in 1 .. Len(deferred') : deferred'[i].field = "viewport" /\ deferred'[j].field = "viewport" => i = j
    BY <1>2, <1>9, <2>1, <2>3, <2>4
  <2>8. /\ Queued' \in Seq(Operation) /\ Len(Queued') = n + 1
    BY <2>3, <2>5, <2>6, QueuedIsThen
  <2>9. Queued' = Append(Queued, operation)
    <3>1. \A i \in 1 .. n : Queued'[i] = Queued[i]
      <4> TAKE i \in 1 .. n
      <4>1. i \in DOMAIN deferred /\ i \in DOMAIN deferred'
        BY <1>1, <2>3, <2>4 DEF n
      <4>2. deferred[i].field = "viewport" => pendingViewport' = pendingViewport
        BY <1>2, <1>3, <1>9
      <4> QED
        BY <2>3, <4>1, <4>2 DEF Queued
    <3>2. Queued'[n + 1] = operation
      <4>1. n + 1 \in DOMAIN deferred'
        BY <2>3, <2>4
      <4>2. CASE field = "viewport"
        BY <1>3, <2>1, <2>3, <4>1, <4>2 DEF Queued
      <4>3. CASE field # "viewport"
        BY <2>1, <2>3, <4>1, <4>3 DEF Queued, entry
      <4> QED
        BY <4>2, <4>3
    <3> DEFINE more == Append(Queued, operation)
    <3>3. /\ more \in Seq(Operation) /\ Len(more) = n + 1 /\ more[n + 1] = operation
          /\ \A i \in 1 .. n : more[i] = Queued[i]
      BY <1>4, <1>6, AppendProperties
    <3> HIDE DEF more
    <3>4. \A i \in 1 .. n + 1 : Queued'[i] = more[i]
      BY <2>4, <3>1, <3>2, <3>3
    <3>5. Queued' = more
      BY <2>8, <3>3, <3>4, SeqEqual
    <3> QED
      BY <3>5 DEF more
  <2>10. (sessionLog \o Queued)' = Append(all, operation)
    <3>1. \A s, q \in Seq(Operation) : s \o Append(q, operation) = Append(s \o q, operation)
      BY <1>6
    <3> QED
      BY <1>1, <1>3, <1>4, <2>9, <3>1
  <2> HIDE DEF all, operation
  <2>11. ASSUME NEW f \in Fields
         PROVE  LastIs(Append(all, operation), f, fields'[f])
    <3>1. LastIs(Append(all, operation), f, IF operation.field = f THEN operation.value ELSE fields[f])
      BY <1>5, <1>6, <1>8, LastAppended
    <3> QED
      BY <1>6, <1>7, <3>1
  <2>12. \A f \in Fields : LastIs((sessionLog \o Queued)', f, fields'[f])
    BY <2>10, <2>11
  <2> QED
    BY <1>1, <1>3, <1>7, <2>3, <2>5, <2>6, <2>7, <2>12 DEF RecordInv
<1>10. CASE field = "viewport" /\ viewportScheduled
  <2>1. UNCHANGED deferred /\ pendingViewport' = value /\ viewportScheduled' = TRUE
    BY <1>3, <1>10
  <2>2. PICK k \in 1 .. n : deferred[k].field = "viewport"
    BY <1>2, <1>10
  <2>3. Queued' \in Seq(Operation) /\ Len(Queued') = n /\ \A i \in 1 .. n : Queued'[i].field = deferred[i].field
    <3>1. pendingViewport' \in {NoViewport, 0, 1} /\ pendingViewport' # NoViewport /\ deferred' \in Seq(Waiting)
      BY <1>1, <1>6, <2>1
    <3> QED
      BY <2>1, <3>1, QueuedIsThen
  <2>4. /\ Queued'[k] = [field |-> "viewport", value |-> value]
        /\ \A i \in 1 .. n : deferred[i].field # "viewport" => Queued'[i] = Queued[i]
    BY <1>1, <2>1, <2>2 DEF Queued
  <2> DEFINE new == sessionLog \o Queued'
  <2>5. /\ new \in Seq(Operation) /\ Len(new) = Len(sessionLog) + n
        /\ \A i \in 1 .. Len(sessionLog) + n : new[i] =
             IF i <= Len(sessionLog) THEN sessionLog[i] ELSE Queued'[i - Len(sessionLog)]
    <3>1. PICK q \in Seq(Operation) : q = Queued' /\ Len(q) = n
      BY <2>3
    <3>2. sessionLog \in Seq(Operation)
      BY <1>1
    <3> HIDE DEF n
    <3>3. /\ sessionLog \o q \in Seq(Operation) /\ Len(sessionLog \o q) = Len(sessionLog) + n
          /\ \A i \in 1 .. Len(sessionLog) + n : (sessionLog \o q)[i] =
               IF i <= Len(sessionLog) THEN sessionLog[i] ELSE q[i - Len(sessionLog)]
      BY <3>1, <3>2, Joined
    <3> QED
      BY <3>1, <3>3
  <2>6. (sessionLog \o Queued)' = new
    BY <1>3
  <2> HIDE DEF new, all, n
  <2> DEFINE l == Len(sessionLog)
  <2>7. \A i \in 1 .. l + n : i <= l \/ i - l \in 1 .. n
    BY <1>1
  <2>8. \A i \in 1 .. l + n : new[i].field = all[i].field /\ (all[i].field # "viewport" => new[i] = all[i])
    <3> TAKE i \in 1 .. l + n
    <3>1. CASE i <= l
      BY <1>5, <2>5, <3>1
    <3>2. CASE ~(i <= l)
      <4>1. i - l \in 1 .. n /\ all[i] = Queued[i - l] /\ new[i] = Queued'[i - l]
        BY <1>5, <2>5, <2>7, <3>2
      <4> QED
        BY <1>4, <2>3, <2>4, <4>1
    <3> QED
      BY <3>1, <3>2
  <2>9. ASSUME NEW f \in Fields, f # "viewport" PROVE LastIs(new, f, fields'[f])
    <3>1. l + n \in Nat
      BY <1>1
    <3>2. LastIs(all, f, fields[f]) /\ all \in Seq(Operation) /\ new \in Seq(Operation)
          /\ Len(all) = l + n /\ Len(new) = l + n
      BY <1>5, <1>8, <2>5
    <3> HIDE DEF l
    <3>3. LastIs(new, f, fields[f])
      <4> DEFINE count == l + n
                 v == fields[f]
      <4>1. /\ count \in Nat /\ all \in Seq(Operation) /\ new \in Seq(Operation) /\ LastIs(all, f, v)
            /\ Len(all) = count /\ Len(new) = count /\ f # "viewport"
            /\ \A i \in 1 .. count : new[i].field = all[i].field /\ (all[i].field # "viewport" => new[i] = all[i])
        BY <2>8, <2>9, <3>1, <3>2
      <4> HIDE DEF count, v
      <4>2. LastIs(new, f, v)
        BY <4>1, OthersStay
      <4> QED
        BY <4>2 DEF v
    <3> QED
      BY <1>7, <1>10, <2>9, <3>3
  <2>10. LastIs(new, "viewport", value)
    <3>1. l + k \in 1 .. l + n /\ ~(l + k <= l) /\ (l + k) - l = k
      BY <1>1
    <3>2. new[l + k] = [field |-> "viewport", value |-> value]
      BY <2>4, <2>5, <3>1
    <3>3. ASSUME NEW i \in 1 .. l + n, new[i].field = "viewport" PROVE i <= l + k
      <4>1. CASE i <= l
        BY <1>1, <4>1
      <4>2. CASE ~(i <= l)
        <5>1. i - l \in 1 .. n /\ deferred[i - l].field = "viewport"
          BY <2>3, <2>5, <2>7, <3>3, <4>2
        <5>2. i - l = k
          BY <1>2, <2>2, <5>1
        <5> QED
          BY <1>1, <5>2
      <4> QED
        BY <4>1, <4>2
    <3> QED
      BY <2>5, <3>1, <3>2, <3>3 DEF LastIs
  <2>11. \A f \in Fields : LastIs((sessionLog \o Queued)', f, fields'[f])
    BY <1>7, <1>10, <2>6, <2>9, <2>10
  <2>12. /\ viewportScheduled' <=> pendingViewport' # NoViewport
         /\ viewportScheduled' <=> \E i \in 1 .. Len(deferred') : deferred'[i].field = "viewport"
         /\ \A i, j \in 1 .. Len(deferred') : deferred'[i].field = "viewport" /\ deferred'[j].field = "viewport" => i = j
    BY <1>2, <1>6, <1>10, <2>1 DEF n
  <2>13. pendingViewport' \in {NoViewport, 0, 1} /\ viewportScheduled' \in BOOLEAN
    BY <2>1
  <2> QED
    BY <1>1, <1>3, <1>7, <2>1, <2>11, <2>12, <2>13 DEF RecordInv
<1> QED
  BY <1>9, <1>10

\* Taking the next operation from the queue to the log leaves the two together.
LEMMA NextIsNext ==
  ASSUME NEW s \in Seq(Operation), NEW q \in Seq(Operation), q # << >>
  PROVE  Append(s, Head(q)) \o Tail(q) = s \o q
<1> DEFINE one == Append(s, Head(q))
           left == one \o Tail(q)
           right == s \o q
<1>1. /\ Len(s) \in Nat /\ Len(q) \in Nat /\ Len(q) > 0 /\ Head(q) = q[1] /\ Head(q) \in Operation
      /\ Tail(q) \in Seq(Operation) /\ Len(Tail(q)) = Len(q) - 1
      /\ \A i \in 1 .. Len(q) - 1 : Tail(q)[i] = q[i + 1]
  OBVIOUS
<1>2. /\ one \in Seq(Operation) /\ Len(one) = Len(s) + 1 /\ one[Len(s) + 1] = q[1]
      /\ \A i \in 1 .. Len(s) : one[i] = s[i]
  BY <1>1
<1> HIDE DEF one
<1>3. /\ left \in Seq(Operation) /\ Len(left) = Len(one) + (Len(q) - 1)
      /\ \A i \in 1 .. Len(one) + (Len(q) - 1) : left[i] =
           IF i <= Len(one) THEN one[i] ELSE Tail(q)[i - Len(one)]
  BY <1>1, <1>2, Joined
<1>4. /\ right \in Seq(Operation) /\ Len(right) = Len(s) + Len(q)
      /\ \A i \in 1 .. Len(s) + Len(q) : right[i] = IF i <= Len(s) THEN s[i] ELSE q[i - Len(s)]
  BY Joined
<1> HIDE DEF left, right
<1>5. Len(left) = Len(right)
  BY <1>1, <1>2, <1>3, <1>4
<1>6. ASSUME NEW i \in 1 .. Len(left) PROVE left[i] = right[i]
  <2>1. i \in 1 .. Len(s) + Len(q) /\ i \in 1 .. Len(one) + (Len(q) - 1)
    BY <1>1, <1>2, <1>3
  <2>2. CASE i <= Len(s)
    <3>1. i <= Len(one) /\ i \in 1 .. Len(s)
      BY <1>1, <1>2, <2>1, <2>2
    <3> QED
      BY <1>2, <1>3, <1>4, <2>1, <2>2, <3>1
  <2>3. CASE i = Len(s) + 1
    <3>1. i <= Len(one) /\ ~(i <= Len(s)) /\ i - Len(s) = 1
      BY <1>1, <1>2, <2>3
    <3> QED
      BY <1>2, <1>3, <1>4, <2>1, <2>3, <3>1
  <2>4. CASE i > Len(s) + 1
    <3>1. /\ ~(i <= Len(one)) /\ ~(i <= Len(s)) /\ i - Len(one) \in 1 .. Len(q) - 1
          /\ (i - Len(one)) + 1 = i - Len(s)
      BY <1>1, <1>2, <2>1, <2>4
    <3> QED
      BY <1>1, <1>3, <1>4, <2>1, <3>1
  <2> QED
    BY <1>1, <2>1, <2>2, <2>3, <2>4
<1> QED
  <2>1. left = right
    BY <1>3, <1>4, <1>5, <1>6, SeqEqual
  <2> QED
    BY <2>1 DEF left, right, one

LEMMA RecordNextStep ==
  ASSUME RecordInv, RecordDeferred
  PROVE  RecordInv'
<1> DEFINE n == Len(deferred)
<1>1. /\ fields \in [Fields -> 0 .. 1] /\ sessionLog \in Seq(Operation) /\ deferred \in Seq(Waiting)
      /\ pendingViewport \in {NoViewport, 0, 1} /\ viewportScheduled \in BOOLEAN
      /\ n \in Nat /\ Len(sessionLog) \in Nat
  BY DEF RecordInv
<1>2. viewportScheduled <=> pendingViewport # NoViewport
  BY DEF RecordInv
<1>3. viewportScheduled <=> \E i \in 1 .. n : deferred[i].field = "viewport"
  BY DEF RecordInv
<1>4. \A i, j \in 1 .. n : deferred[i].field = "viewport" /\ deferred[j].field = "viewport" => i = j
  BY DEF RecordInv
<1>5. /\ Queued \in Seq(Operation) /\ Len(Queued) = n /\ \A i \in 1 .. n : Queued[i].field = deferred[i].field
  BY <1>1, <1>2, <1>3, QueuedIs
<1>6. deferred # << >> /\ deferred' = Tail(deferred) /\ UNCHANGED fields
  BY DEF RecordDeferred
<1>7. IF Head(deferred).field = "viewport"
      THEN /\ sessionLog' = IF pendingViewport = NoViewport THEN sessionLog
                            ELSE Append(sessionLog, [field |-> "viewport", value |-> pendingViewport])
           /\ pendingViewport' = NoViewport /\ viewportScheduled' = FALSE
      ELSE /\ sessionLog' = Append(sessionLog, Head(deferred))
           /\ UNCHANGED <<pendingViewport, viewportScheduled>>
  BY DEF RecordDeferred, FlushViewport
<1>8. /\ n > 0 /\ Head(deferred) = deferred[1] /\ deferred' \in Seq(Waiting) /\ Len(deferred') = n - 1
      /\ \A i \in 1 .. n - 1 : deferred'[i] = deferred[i + 1]
  BY <1>1, <1>6
<1>9. /\ Queued # << >> /\ Head(Queued) = Queued[1] /\ Head(Queued) \in Operation
      /\ Tail(Queued) \in Seq(Operation) /\ Len(Tail(Queued)) = n - 1
      /\ \A i \in 1 .. n - 1 : Tail(Queued)[i] = Queued[i + 1]
  <2>1. Queued # << >>
    BY <1>1, <1>5, <1>8
  <2> QED
    BY <1>1, <1>5, <1>8, <2>1
<1>10. /\ 1 \in 1 .. n /\ \A i \in 1 .. n - 1 : i + 1 \in 1 .. n /\ i + 1 # 1
       /\ \A i \in 1 .. n : i = 1 \/ (i - 1 \in 1 .. n - 1 /\ (i - 1) + 1 = i)
       /\ \A i, j \in 1 .. n - 1 : i + 1 = j + 1 => i = j
  BY <1>1, <1>8
<1> HIDE DEF n
<1>11. \A i, j \in 1 .. Len(deferred') : deferred'[i].field = "viewport" /\ deferred'[j].field = "viewport" => i = j
  BY <1>4, <1>8, <1>10
<1>12. DOMAIN deferred = 1 .. n /\ DOMAIN deferred' = 1 .. n - 1
  BY <1>1, <1>8 DEF n
<1>13. CASE deferred[1].field = "viewport"
  <2>1. /\ pendingViewport # NoViewport
    BY <1>2, <1>3, <1>10, <1>13
  <2>2. /\ pendingViewport' = NoViewport /\ viewportScheduled' = FALSE
        /\ sessionLog' = Append(sessionLog, [field |-> "viewport", value |-> pendingViewport])
    BY <1>7, <1>8, <1>13, <2>1
  <2>3. \A i \in 1 .. n - 1 : deferred'[i].field # "viewport"
    BY <1>4, <1>8, <1>10, <1>13
  <2>4. Head(Queued) = [field |-> "viewport", value |-> pendingViewport]
    BY <1>9, <1>10, <1>12, <1>13 DEF Queued
  <2>5. Queued' \in Seq(Operation) /\ Len(Queued') = n - 1
    <3>1. pendingViewport' \in {NoViewport, 0, 1} /\ ~\E i \in 1 .. Len(deferred') : deferred'[i].field = "viewport"
      BY <1>8, <2>2, <2>3
    <3> QED
      BY <1>8, <3>1, QueuedIsThen
  <2>6. \A i \in 1 .. n - 1 : Queued'[i] = Tail(Queued)[i]
    <3> TAKE i \in 1 .. n - 1
    <3>1. Queued'[i] = deferred'[i]
      BY <1>12, <2>3 DEF Queued
    <3>2. Queued[i + 1] = deferred[i + 1]
      BY <1>8, <1>10, <1>12, <2>3 DEF Queued
    <3> QED
      BY <1>8, <1>9, <3>1, <3>2
  <2>7. Queued' = Tail(Queued)
    BY <1>9, <2>5, <2>6, SeqEqual
  <2>8. sessionLog' = Append(sessionLog, Head(Queued))
    BY <2>2, <2>4
  <2>9. (sessionLog \o Queued)' = sessionLog \o Queued
    BY <1>1, <1>5, <1>9, <2>7, <2>8, NextIsNext
  <2>10. \A f \in Fields : LastIs((sessionLog \o Queued)', f, fields'[f])
    BY <1>6, <2>9 DEF RecordInv
  <2>11. sessionLog' \in Seq(Operation)
    BY <1>1, <1>9, <2>8
  <2>12. /\ pendingViewport' \in {NoViewport, 0, 1} /\ viewportScheduled' \in BOOLEAN
         /\ viewportScheduled' <=> pendingViewport' # NoViewport
    BY <2>2
  <2>13. viewportScheduled' <=> \E i \in 1 .. Len(deferred') : deferred'[i].field = "viewport"
    BY <1>8, <2>2, <2>3
  <2> QED
    BY <1>1, <1>6, <1>8, <1>11, <2>10, <2>11, <2>12, <2>13 DEF RecordInv
<1>14. CASE deferred[1].field # "viewport"
  <2>1. sessionLog' = Append(sessionLog, deferred[1]) /\ UNCHANGED <<pendingViewport, viewportScheduled>>
    BY <1>7, <1>8, <1>14
  <2>2. Head(Queued) = deferred[1]
    BY <1>9, <1>10, <1>12, <1>14 DEF Queued
  <2>3. viewportScheduled' <=> \E i \in 1 .. Len(deferred') : deferred'[i].field = "viewport"
    <3>1. ASSUME NEW i \in 1 .. n, deferred[i].field = "viewport"
          PROVE  i - 1 \in 1 .. n - 1 /\ deferred'[i - 1].field = "viewport"
      <4>1. i - 1 \in 1 .. n - 1 /\ (i - 1) + 1 = i
        BY <1>10, <1>14, <3>1
      <4>2. deferred'[i - 1] = deferred[i]
        BY <1>8, <4>1
      <4> QED
        BY <3>1, <4>1, <4>2
    <3>2. ASSUME NEW i \in 1 .. n - 1, deferred'[i].field = "viewport"
          PROVE  i + 1 \in 1 .. n /\ deferred[i + 1].field = "viewport"
      BY <1>8, <1>10, <3>2
    <3> QED
      BY <1>3, <1>8, <2>1, <3>1, <3>2
  <2>4. Queued' \in Seq(Operation) /\ Len(Queued') = n - 1
    <3>1. /\ pendingViewport' \in {NoViewport, 0, 1}
          /\ (\E i \in 1 .. Len(deferred') : deferred'[i].field = "viewport") => pendingViewport' # NoViewport
      BY <1>1, <1>2, <2>1, <2>3
    <3> QED
      BY <1>8, <3>1, QueuedIsThen
  <2>5. \A i \in 1 .. n - 1 : Queued'[i] = Tail(Queued)[i]
    <3> TAKE i \in 1 .. n - 1
    <3>1. Queued'[i] = Queued[i + 1]
      <4>1. i \in DOMAIN deferred' /\ i + 1 \in DOMAIN deferred /\ deferred'[i] = deferred[i + 1]
        BY <1>8, <1>10, <1>12
      <4> QED
        BY <2>1, <4>1 DEF Queued
    <3> QED
      BY <1>9, <3>1
  <2>6. Queued' = Tail(Queued)
    BY <1>9, <2>4, <2>5, SeqEqual
  <2>7. sessionLog' = Append(sessionLog, Head(Queued))
    BY <2>1, <2>2
  <2>8. (sessionLog \o Queued)' = sessionLog \o Queued
    BY <1>1, <1>5, <1>9, <2>6, <2>7, NextIsNext
  <2>9. \A f \in Fields : LastIs((sessionLog \o Queued)', f, fields'[f])
    BY <1>6, <2>8 DEF RecordInv
  <2>10. sessionLog' \in Seq(Operation)
    BY <1>1, <1>9, <2>7
  <2>11. /\ pendingViewport' \in {NoViewport, 0, 1} /\ viewportScheduled' \in BOOLEAN
         /\ viewportScheduled' <=> pendingViewport' # NoViewport
    BY <1>1, <1>2, <2>1
  <2> QED
    BY <1>1, <1>6, <1>8, <1>11, <2>3, <2>9, <2>10, <2>11 DEF RecordInv
<1> QED
  BY <1>13, <1>14

LEMMA RecordFrame ==
  ASSUME RecordInv, UNCHANGED <<fields, observer>>
  PROVE  RecordInv'
BY DEF RecordInv, observer, Queued

-----------------------------------------------------------------------------
\* The session has its types, who is subscribed hears it, and what is recorded or
\* waits to be recorded is what was set.
SessionInv == HearInv /\ RecordInv

LEMMA SessionInvStep ==
  ASSUME SessionInv, [SessionNext]_sessionVars
  PROVE  SessionInv'
<1> USE DEF SessionInv
<1>1. ASSUME NEW field \in Fields, NEW value \in 0 .. 1, Set(field, value) PROVE SessionInv'
  BY <1>1, HearSet, RecordSet
<1>2. CASE RecordDeferred
  BY <1>2, HearRecord, RecordNextStep
<1>3. CASE TakeState
  <2>1. UNCHANGED <<fields, observer>>
    BY <1>3 DEF TakeState
  <2> QED
    BY <1>3, <2>1, HearTake, RecordFrame
<1>4. CASE CallListener
  <2>1. UNCHANGED <<fields, observer>>
    BY <1>4 DEF CallListener
  <2> QED
    BY <1>4, <2>1, HearCall, RecordFrame
<1>5. ASSUME NEW listener \in Listeners, Subscribe(listener) PROVE SessionInv'
  <2>1. UNCHANGED <<fields, observer>>
    BY <1>5 DEF Subscribe
  <2> QED
    BY <1>5, <2>1, HearSubscribe, RecordFrame
<1>6. ASSUME NEW listener \in Listeners, Unsubscribe(listener) PROVE SessionInv'
  <2>1. UNCHANGED <<fields, observer>>
    BY <1>6 DEF Unsubscribe
  <2> QED
    BY <1>6, <2>1, HearUnsubscribe, RecordFrame
<1>7. CASE UNCHANGED sessionVars
  <2>1. UNCHANGED <<fields, observer>>
    BY <1>7 DEF sessionVars
  <2> QED
    BY <1>7, <2>1, HearRecord, RecordFrame
<1> QED
  BY <1>1, <1>2, <1>3, <1>4, <1>5, <1>6, <1>7 DEF SessionNext

\* The session's emitter and the recorder's observer keep SessionInv, whatever the
\* fields and the listeners are and however setters, listeners and the recorder
\* interleave.
THEOREM SessionInvariant == SessionSpec => []SessionInv
<1>1. SessionInit => SessionInv
  BY HearInit, RecordInit DEF SessionInv
<1>2. SessionInv /\ [SessionNext]_sessionVars => SessionInv'
  BY SessionInvStep
<1> QED
  BY <1>1, <1>2, PTL DEF SessionSpec

\* Every variable of the session has its type, and a viewport is scheduled exactly
\* while one is noted.
THEOREM SessionTypes == SessionSpec => []SessionTypeOK
<1>1. SessionInv => SessionTypeOK
  <2> SUFFICES ASSUME SessionInv PROVE SessionTypeOK
    OBVIOUS
  <2> USE DEF SessionInv
  <2>1. Range(pendingStates) \subseteq 1 .. sets
    <3>1. /\ sets \in Nat /\ delivered \in 0 .. sets /\ pendingStates \in Seq(Nat)
          /\ Len(pendingStates) = sets - delivered
      BY DEF HearInv
    <3>2. \A i \in 1 .. Len(pendingStates) : pendingStates[i] = delivered + i
      BY DEF HearInv
    <3>3. \A d \in 0 .. sets : \A i \in 1 .. sets - d : d + i \in 1 .. sets
      BY <3>1
    <3>4. \A i \in 1 .. Len(pendingStates) : pendingStates[i] \in 1 .. sets
      BY <3>1, <3>2, <3>3
    <3>5. DOMAIN pendingStates = 1 .. Len(pendingStates)
      BY <3>1
    <3> QED
      BY <3>4, <3>5 DEF Range
  <2>2. Range(toCall) \cup Range(listeners) \subseteq Listeners
    <3>1. toCall \in Seq(Listeners) /\ listeners \in Seq(Listeners)
      BY DEF HearInv
    <3>2. /\ \A i \in DOMAIN toCall : toCall[i] \in Listeners
          /\ \A i \in DOMAIN listeners : listeners[i] \in Listeners
      BY <3>1
    <3> QED
      BY <3>2 DEF Range
  <2>3. heard \in [Listeners -> 0 .. sets]
    BY DEF HearInv
  <2>4. /\ fields \in [Fields -> 0 .. 1] /\ pendingViewport \in {NoViewport, 0, 1}
        /\ viewportScheduled <=> pendingViewport # NoViewport
    BY DEF RecordInv
  <2> QED
    BY <2>1, <2>2, <2>3, <2>4 DEF SessionTypeOK
<1> QED
  BY <1>1, SessionInvariant, PTL

\* The session, #emit: a listener that is subscribed when nothing is being delivered
\* last heard the state there is, unless it joined at that state, also when
\* listeners set, subscribe or unsubscribe while they are called.
THEOREM ListenersAreCurrent == SessionSpec => []ListenersHearLast
<1>1. SessionInv => ListenersHearLast
  <2> SUFFICES ASSUME SessionInv, Quiet, NEW i \in DOMAIN listeners
               PROVE  heard[listeners[i]] = sets \/ joined[listeners[i]] = sets
    BY DEF ListenersHearLast
  <2> USE DEF SessionInv
  <2>1. i \in 1 .. Len(listeners) /\ listeners[i] \in Listeners
    BY DEF HearInv
  <2>2. /\ sets \in Nat /\ delivered \in 0 .. sets /\ joined \in [Listeners -> 0 .. sets]
        /\ Len(pendingStates) = sets - delivered
    BY DEF HearInv
  <2>3. Len(pendingStates) = 0 /\ Len(toCall) = 0
    BY DEF Quiet
  <2>4. delivered = sets
    BY <2>2, <2>3
  <2>5. heard[listeners[i]] = delivered \/ joined[listeners[i]] >= delivered
    BY <2>1, <2>3 DEF HearInv
  <2>6. joined[listeners[i]] \in 0 .. sets
    BY <2>1, <2>2
  <2>7. \A x \in 0 .. sets : x >= sets => x = sets
    BY <2>2
  <2> QED
    BY <2>4, <2>5, <2>6, <2>7
<1> QED
  BY <1>1, SessionInvariant, PTL

\* The session's observer (operation-log/adapter.ts): what was recorded and what waits
\* make up the session, however many viewports were merged into one entry.
THEOREM SessionLogMakesSession == SessionSpec => []SessionLogComplete
<1>1. SessionInv => SessionLogComplete
  <2> SUFFICES ASSUME SessionInv PROVE SessionLogComplete
    OBVIOUS
  <2> USE DEF SessionInv
  <2>1. /\ deferred \in Seq(Waiting) /\ pendingViewport \in {NoViewport, 0, 1}
        /\ (\E i \in 1 .. Len(deferred) : deferred[i].field = "viewport") => pendingViewport # NoViewport
    BY DEF RecordInv
  <2>2. Queued \in Seq(Operation)
    BY <2>1, QueuedIs
  <2>3. sessionLog \o Queued \in Seq(Operation)
    BY <2>2 DEF RecordInv
  <2>4. Replayed(sessionLog \o Queued) = fields
    BY <2>3, ReplayedIsLast DEF RecordInv
  <2> QED
    BY <2>4 DEF SessionLogComplete, Queued
<1> QED
  BY <1>1, SessionInvariant, PTL

-----------------------------------------------------------------------------
(***************************************************************************)
(* The canvas.                                                             *)
(***************************************************************************)

\* What the canvas noted of the document and the session is what they are.
SourceInv == sourceStore = core /\ sourceSession = live

\* The fields a gesture has that a pointer event changes, and those it keeps.
GestureHas ==
  gesture # NoGesture =>
    /\ "kind" \in DOMAIN gesture
    /\ gesture.kind = "move" => {"version", "ids", "delta"} \subseteq DOMAIN gesture
    /\ gesture.kind = "groupResize" => {"version", "last"} \subseteq DOMAIN gesture

CanvasInv == SourceInv /\ GestureHas /\ GestureIsLive /\ CanvasShowsSource

LEMMA CanvasInitInv == CanvasInit => CanvasInv
BY DEF CanvasInit, CanvasInv, SourceInv, GestureHas, GestureIsLive, CanvasShowsSource, Inactive

\* What is left of a gesture after a step that leaves the document.
LEMMA GestureStays ==
  ASSUME GestureHas, GestureIsLive, UNCHANGED core, gesture' \in {gesture, NoGesture},
         gesture' = NoGesture \/ preview' = preview
  PROVE  GestureHas' /\ GestureIsLive'
BY DEF GestureHas, GestureIsLive, Edits

LEMMA GestureOver ==
  ASSUME gesture' = NoGesture
  PROVE  GestureHas' /\ GestureIsLive'
BY DEF GestureHas, GestureIsLive

LEMMA ChangeDocumentKeeps ==
  ASSUME CanvasInv, NEW changed, ChangeDocument(changed),
         UNCHANGED <<live, sourceSession, shownSession, preview>>
  PROVE  CanvasInv'
<1>1. SourceInv' /\ CanvasShowsSource'
  BY DEF CanvasInv, SourceInv, CanvasShowsSource, ChangeDocument
<1>2. gesture' = NoGesture
  BY DEF CanvasInv, GestureIsLive, ChangeDocument, Cancel
<1> QED
  BY <1>1, <1>2, GestureOver DEF CanvasInv

LEMMA ChangeSessionKeeps ==
  ASSUME CanvasInv, NEW session, ChangeSession(session),
         UNCHANGED <<core, sourceStore, shownStore, preview>>
  PROVE  CanvasInv'
<1>1. SourceInv' /\ CanvasShowsSource'
  BY DEF CanvasInv, SourceInv, CanvasShowsSource, ChangeSession
<1>2. gesture' \in {gesture, NoGesture}
  BY DEF ChangeSession, Cancel
<1> QED
  BY <1>1, <1>2, GestureStays DEF CanvasInv

\* A step that changes what is shown neither of the document nor of the session.
LEMMA ShownKeeps ==
  ASSUME CanvasInv, UNCHANGED <<core, live, shown, preview>>
  PROVE  SourceInv' /\ CanvasShowsSource'
BY DEF CanvasInv, SourceInv, CanvasShowsSource, shown

LEMMA PointerDownKeeps ==
  ASSUME CanvasInv, PointerDown
  PROVE  CanvasInv'
<1>1. ASSUME NEW spot \in Places, BeginPan(spot)
      PROVE  CanvasInv'
  <2>1. GestureHas' /\ GestureIsLive'
    BY <1>1 DEF BeginPan, Begin, Takes, GestureHas, GestureIsLive, Edits
  <2> QED
    BY <1>1, <2>1, ShownKeeps DEF CanvasInv, BeginPan
<1>2. ASSUME NEW spot \in Places, NEW additive \in BOOLEAN, BeginMarquee(spot, additive)
      PROVE  CanvasInv'
  <2>1. GestureHas' /\ GestureIsLive'
    BY <1>2 DEF BeginMarquee, Begin, Takes, GestureHas, GestureIsLive, Edits
  <2> QED
    BY <1>2, <2>1, ShownKeeps DEF CanvasInv, BeginMarquee
<1>3. ASSUME NEW spot \in Places, NEW pointer \in Pointers, NEW handle, BeginGroupResize(handle, pointer, spot)
      PROVE  CanvasInv'
  <2>1. GestureHas' /\ GestureIsLive'
    BY <1>3 DEF BeginGroupResize, Begin, Takes, GestureHas, GestureIsLive, Edits
  <2> QED
    BY <1>3, <2>1, ShownKeeps DEF CanvasInv, BeginGroupResize
<1>4. ASSUME NEW spot \in Places, NEW pointer \in Pointers, NEW node \in CanvasNodes,
             NEW modifier \in BOOLEAN, BeginMove(node, pointer, spot, modifier)
      PROVE  CanvasInv'
  <2>1. /\ ~preview.active /\ UNCHANGED <<core, sourceStore, shownStore, preview>>
        /\ live' = sourceSession' /\ live' = shownSession'
    BY <1>4 DEF BeginMove, Takes
  <2>2. SourceInv' /\ CanvasShowsSource'
    BY <2>1 DEF CanvasInv, SourceInv, CanvasShowsSource
  <2>3. shownStore = core
    BY <2>1 DEF CanvasInv, CanvasShowsSource
  <2>4. CASE modifier
    BY <1>4, <2>2, <2>4, GestureOver DEF CanvasInv, BeginMove, Begin
  <2>5. CASE ~modifier
    <3>1. PICK next, session :
            gesture' = [kind |-> "move", pointer |-> pointer, version |-> core.version, node |-> node,
                        ids |-> {id \in next : Exists(shownStore, id) /\ ~TransformLocked(shownStore, id)},
                        start |-> spot, zoom |-> session.viewport.zoom, delta |-> 0]
      BY <1>4, <2>5, Zenon DEF BeginMove, Begin
    <3>2. GestureHas' /\ GestureIsLive'
      BY <2>1, <2>3, <3>1 DEF GestureHas, GestureIsLive, Edits, Exists, TransformLocked
    <3> QED
      BY <2>2, <3>2 DEF CanvasInv
  <2> QED
    BY <2>4, <2>5
<1> QED
  BY <1>1, <1>2, <1>3, <1>4 DEF PointerDown

LEMMA PointerMoveKeeps ==
  ASSUME CanvasInv, NEW pointer, NEW spot, NEW alt, PointerMove(pointer, spot, alt)
  PROVE  CanvasInv'
<1>1. CASE gesture.kind = "pan"
  <2>1. ChangeSession(Panned(spot)) /\ UNCHANGED <<core, sourceStore, shownStore, preview>>
    BY <1>1 DEF PointerMove
  <2> QED
    BY <2>1, ChangeSessionKeeps
<1>2. CASE gesture.kind # "pan"
  <2>1. gesture' = Updated(spot, alt) /\ gesture # NoGesture /\ UNCHANGED <<core, live, shown, preview>>
    BY <1>2 DEF PointerMove, Follows, shown
  <2>2. CASE gesture.kind = "move"
    <3>1. gesture' = [gesture EXCEPT !.delta = MoveDelta(spot, alt)]
      BY <2>1, <2>2 DEF Updated
    <3>2. /\ DOMAIN gesture' = DOMAIN gesture /\ gesture'.kind = gesture.kind
          /\ gesture'.version = gesture.version /\ gesture'.ids = gesture.ids
      BY <2>1, <2>2, <3>1 DEF CanvasInv, GestureHas
    <3> QED
      BY <2>1, <2>2, <3>2, ShownKeeps DEF CanvasInv, GestureHas, GestureIsLive, Edits
  <2>3. CASE gesture.kind = "groupResize"
    <3>1. gesture' = [gesture EXCEPT !.last = Resized(spot, alt)]
      BY <2>1, <2>3 DEF Updated
    <3>2. /\ DOMAIN gesture' = DOMAIN gesture /\ gesture'.kind = gesture.kind
          /\ gesture'.version = gesture.version
      BY <2>1, <2>3, <3>1 DEF CanvasInv, GestureHas
    <3> QED
      BY <2>1, <2>3, <3>2, ShownKeeps DEF CanvasInv, GestureHas, GestureIsLive, Edits
  <2>4. CASE gesture.kind \notin {"move", "groupResize"}
    <3>1. gesture' = gesture
      BY <2>1, <2>4 DEF Updated
    <3> QED
      BY <2>1, <3>1, ShownKeeps, GestureStays DEF CanvasInv
  <2> QED
    BY <2>2, <2>3, <2>4
<1> QED
  BY <1>1, <1>2

\* No gesture is there during a replay, so what ends one is not in it.
LEMMA ReleaseKeeps ==
  ASSUME CanvasInv, gesture # NoGesture, UNCHANGED preview,
         (\E session : Released(session)) \/ (\E done : Commit(done))
  PROVE  CanvasInv'
<1>1. ~preview.active
  BY DEF CanvasInv, GestureIsLive
<1>2. shownStore = core /\ shownSession = live /\ sourceStore = core /\ sourceSession = live
  BY <1>1 DEF CanvasInv, CanvasShowsSource, SourceInv
<1>3. gesture' = NoGesture
  BY DEF Released, Commit, Cancel
<1>4. SourceInv' /\ CanvasShowsSource'
  BY <1>1, <1>2 DEF SourceInv, CanvasShowsSource, Released, Commit
<1> QED
  BY <1>3, <1>4, GestureOver DEF CanvasInv

LEMMA GestureEndKeeps ==
  ASSUME CanvasInv, NEW pointer, NEW spot, NEW alt,
         \/ PointerUp(pointer, spot, alt) \/ PointerCancel(pointer, spot)
         \/ LostPointerCapture(pointer) \/ Escape \/ Blur
  PROVE  CanvasInv'
<1>1. CASE PointerUp(pointer, spot, alt)
  <2>1. (\E session : Released(session)) \/ (\E done : Commit(done))
    BY <1>1, Zenon DEF PointerUp
  <2> QED
    BY <1>1, <2>1, ReleaseKeeps DEF PointerUp, Follows
<1>2. CASE PointerCancel(pointer, spot)
  <2>1. CASE gesture.kind = "pan"
    BY <1>2, <2>1, ReleaseKeeps DEF PointerCancel, Follows
  <2>2. CASE gesture.kind # "pan"
    BY <1>2, <2>2, ShownKeeps, GestureOver DEF PointerCancel, Cancel, CanvasInv
  <2> QED
    BY <2>1, <2>2
<1>3. CASE LostPointerCapture(pointer)
  BY <1>3, ReleaseKeeps DEF LostPointerCapture, Follows
<1>4. CASE Escape
  BY <1>4, ShownKeeps, GestureOver DEF Escape, Cancel, CanvasInv
<1>5. CASE Blur
  <2>1. gesture' \in {gesture, NoGesture} /\ UNCHANGED <<core, live, shown, preview>>
    BY <1>5 DEF Blur, Cancel
  <2> QED
    BY <2>1, ShownKeeps, GestureStays DEF CanvasInv
<1> QED
  BY <1>1, <1>2, <1>3, <1>4, <1>5

LEMMA OtherKeeps ==
  ASSUME CanvasInv,
         \/ Space \/ SpaceReleased \/ OtherCommand \/ OtherSetting
         \/ \E spot \in Places, zoom \in Zooms : Wheel(spot, zoom)
  PROVE  CanvasInv'
<1>1. CASE Space \/ SpaceReleased
  <2>1. gesture' = gesture /\ UNCHANGED <<core, live, shown, preview>>
    BY <1>1 DEF Space, SpaceReleased
  <2> QED
    BY <2>1, ShownKeeps, GestureStays DEF CanvasInv
<1>2. CASE OtherCommand
  BY <1>2, ChangeDocumentKeeps DEF OtherCommand
<1>3. CASE OtherSetting
  BY <1>3, ChangeSessionKeeps DEF OtherSetting
<1>4. CASE \E spot \in Places, zoom \in Zooms : Wheel(spot, zoom)
  BY <1>4, ChangeSessionKeeps DEF Wheel
<1> QED
  BY <1>1, <1>2, <1>3, <1>4

LEMMA ShowFrameKeeps ==
  ASSUME CanvasInv, NEW frame \in Frames, ShowFrame(frame)
  PROVE  CanvasInv'
<1>1. gesture' = NoGesture
  BY DEF ShowFrame, Cancel
<1>2. frame.active \/ (frame.document = NoFrame /\ frame.session = NoFrame)
  BY DEF Frames, Inactive
<1>3. SourceInv' /\ CanvasShowsSource'
  BY <1>2 DEF CanvasInv, SourceInv, CanvasShowsSource, ShowFrame
<1> QED
  BY <1>1, <1>3, GestureOver DEF CanvasInv

LEMMA CanvasNextInv == CanvasInv /\ [CanvasNext]_canvasVars => CanvasInv'
<1> SUFFICES ASSUME CanvasInv, [CanvasNext]_canvasVars
             PROVE  CanvasInv'
  OBVIOUS
<1>1. CASE UNCHANGED canvasVars
  BY <1>1, ShownKeeps, GestureStays DEF canvasVars, CanvasInv
<1>2. CASE Drag
  BY <1>2, PointerMoveKeeps, GestureEndKeeps DEF Drag
<1>3. CASE Escape \/ Blur
  BY <1>3, GestureEndKeeps
<1>4. CASE CanvasNext /\ ~Drag /\ ~(Escape \/ Blur)
  BY <1>4, PointerDownKeeps, OtherKeeps, ShowFrameKeeps DEF CanvasNext
<1> QED
  BY <1>1, <1>2, <1>3, <1>4

\* No gesture is committed on a document that changed since it began, nor on a node
\* that was locked or deleted, nor during a replay.
THEOREM GesturesAreLive == CanvasSpec => []GestureIsLive
<1>1. CanvasInv => GestureIsLive
  BY DEF CanvasInv
<1> QED
  BY <1>1, CanvasInitInv, CanvasNextInv, PTL DEF CanvasSpec

\* The canvas shows the frame of the replay while there is one, and else the document
\* and the session as they are.
THEOREM CanvasIsCurrent == CanvasSpec => []CanvasShowsSource
<1>1. CanvasInv => CanvasShowsSource
  BY DEF CanvasInv
<1> QED
  BY <1>1, CanvasInitInv, CanvasNextInv, PTL DEF CanvasSpec

-----------------------------------------------------------------------------
(***************************************************************************)
(* What a resize computes.                                                 *)
(***************************************************************************)

\* A function with integer values on a finite set has a least value.
LEMMA LeastAt ==
  ASSUME NEW D, IsFiniteSet(D), D # {}, NEW f \in [D -> Int]
  PROVE  \E m \in D : \A n \in D : f[m] <= f[n]
<1> DEFINE Lacks(A) == ~\E m \in A : \A n \in A : f[m] <= f[n]
           sizes == {k \in Nat : \E A \in SUBSET D : A # {} /\ Cardinality(A) = k /\ Lacks(A)}
<1> SUFFICES ASSUME Lacks(D) PROVE FALSE
  OBVIOUS
<1>1. Cardinality(D) \in sizes
  BY FS_CardinalityType
<1>2. PICK k \in sizes : \A j \in sizes : k <= j
  <2>1. sizes \in SUBSET Nat /\ sizes # {}
    BY <1>1
  <2> HIDE DEF sizes
  <2> QED
    BY <2>1, LeastNumber
<1>3. PICK A \in SUBSET D : A # {} /\ Cardinality(A) = k /\ Lacks(A)
  BY <1>2
<1>4. PICK x \in A : TRUE
  BY <1>3
<1>5. IsFiniteSet(A)
  BY <1>3, FS_Subset
<1>6. Cardinality(A \ {x}) = k - 1 /\ Cardinality(A \ {x}) \in Nat /\ k \in Nat
  BY <1>3, <1>4, <1>5, FS_RemoveElement, FS_CardinalityType
<1>7. A \ {x} # {}
  <2> SUFFICES ASSUME A \ {x} = {} PROVE FALSE
    OBVIOUS
  <2>1. A = {x} /\ f[x] \in Int
    BY <1>4
  <2> QED
    BY <1>3, <2>1
<1>8. ~Lacks(A \ {x})
  <2>1. k - 1 \notin sizes
    BY <1>2, <1>6
  <2> QED
    BY <1>3, <1>6, <1>7, <2>1
<1>9. PICK m \in A \ {x} : \A n \in A \ {x} : f[m] <= f[n]
  BY <1>8
<1>10. f[m] \in Int /\ f[x] \in Int /\ \A n \in A : f[n] \in Int
  BY <1>3, <1>4, <1>9
<1>11. CASE f[m] <= f[x]
  <2>1. \A n \in A : f[m] <= f[n]
    BY <1>9, <1>11
  <2> QED
    BY <1>3, <1>9, <2>1
<1>12. CASE ~(f[m] <= f[x])
  <2>1. \A n \in A : f[x] <= f[n]
    BY <1>9, <1>10, <1>12
  <2> QED
    BY <1>3, <1>4, <2>1
<1> QED
  BY <1>11, <1>12

\* An element that is not larger than another is the least, and the other way round.
LEMMA LeastIs ==
  ASSUME NEW S \in SUBSET Int, NEW m \in S, \A k \in S : m <= k
  PROVE  Min(S) = m
<1>1. Min(S) \in S /\ \A k \in S : Min(S) <= k
  BY DEF Min
<1>2. Min(S) <= m /\ m <= Min(S) /\ Min(S) \in Int /\ m \in Int
  BY <1>1
<1> QED
  BY ONLY <1>2

LEMMA LargestIs ==
  ASSUME NEW S \in SUBSET Int, NEW m \in S, \A k \in S : k <= m
  PROVE  Max(S) = m
<1>1. \A k \in S : m >= k
  OBVIOUS
<1>2. Max(S) \in S /\ \A k \in S : Max(S) >= k
  BY <1>1 DEF Max
<1>3. Max(S) <= m /\ m <= Max(S) /\ Max(S) \in Int /\ m \in Int
  BY <1>2
<1> QED
  BY ONLY <1>3

LEMMA OfTwo ==
  ASSUME NEW one \in Int, NEW other \in Int
  PROVE  /\ Smaller(one, other) = IF one <= other THEN one ELSE other
         /\ Larger(one, other) = IF one >= other THEN one ELSE other
<1>1. {one, other} \in SUBSET Int
  OBVIOUS
<1>2. CASE one <= other
  <2>1. Min({one, other}) = one /\ Max({one, other}) = other
    BY <1>1, <1>2, LeastIs, LargestIs
  <2> QED
    BY <1>2, <2>1 DEF Smaller, Larger
<1>3. CASE ~(one <= other)
  <2>1. Min({one, other}) = other /\ Max({one, other}) = one
    BY <1>1, <1>3, LeastIs, LargestIs
  <2> QED
    BY <1>3, <2>1 DEF Smaller, Larger
<1> QED
  BY <1>2, <1>3

\* What divides exactly can be cancelled.
LEMMA Cancelled ==
  ASSUME NEW w \in Nat, w > 0, NEW p \in Int, NEW q \in Int
  PROVE  /\ p * w = q * w => p = q
         /\ p * w <= q * w => p <= q
OBVIOUS

LEMMA ExactDivision ==
  ASSUME NEW w \in Nat, w > 0, NEW v \in Int
  PROVE  /\ v \div w \in Int
         /\ v % w = 0 => (v \div w) * w = v
OBVIOUS

LEMMA ProductDivided ==
  ASSUME NEW w \in Nat, w > 0, NEW q \in Int
  PROVE  (w * q) \div w = q
OBVIOUS


\* The bounds of boxes are those of some of them, and no box reaches beyond.
LEMMA BoundsAre ==
  ASSUME NEW D, IsFiniteSet(D), D # {}, NEW boxes \in [D -> Box]
  PROVE  LET bounds == SelectionBounds(boxes)
         IN  /\ bounds \in [low : Int, high : Int]
             /\ \A n \in D : bounds.low <= boxes[n].x /\ boxes[n].x + boxes[n].width <= bounds.high
             /\ \E n \in D : boxes[n].x = bounds.low
             /\ \E n \in D : boxes[n].x + boxes[n].width = bounds.high
             /\ bounds.high - bounds.low >= Pixel
<1>1. /\ Pixel \in Nat /\ Pixel > 0 /\ DOMAIN boxes = D
      /\ \A n \in D : boxes[n].x \in Int /\ boxes[n].width \in Int /\ boxes[n].width >= Pixel
  BY CanvasGeometryAssumption DEF Box
<1>2. PICK m \in D : \A n \in D : boxes[m].x <= boxes[n].x
  <2> DEFINE f == [n \in D |-> boxes[n].x]
  <2>1. f \in [D -> Int]
    BY <1>1
  <2>2. \E m \in D : \A n \in D : f[m] <= f[n]
    <3> HIDE DEF f
    <3> QED
      BY <2>1, LeastAt
  <2> QED
    BY <2>2
<1>3. PICK k \in D : \A n \in D : boxes[n].x + boxes[n].width <= boxes[k].x + boxes[k].width
  <2> DEFINE f == [n \in D |-> 0 - (boxes[n].x + boxes[n].width)]
  <2>1. f \in [D -> Int]
    BY <1>1
  <2>2. PICK k \in D : \A n \in D : f[k] <= f[n]
    <3> HIDE DEF f
    <3> QED
      BY <2>1, LeastAt
  <2>3. \A n \in D : boxes[n].x + boxes[n].width <= boxes[k].x + boxes[k].width
    BY <1>1, <2>2
  <2> QED
    BY <2>3
<1>4. SelectionBounds(boxes).low = boxes[m].x
  <2> DEFINE S == {boxes[n].x : n \in D}
  <2>1. S \in SUBSET Int /\ boxes[m].x \in S /\ \A e \in S : boxes[m].x <= e
    BY <1>1, <1>2
  <2>2. Min(S) = boxes[m].x
    BY ONLY <2>1, LeastIs
  <2> QED
    BY <1>1, <2>2 DEF SelectionBounds
<1>5. SelectionBounds(boxes).high = boxes[k].x + boxes[k].width
  <2> DEFINE S == {boxes[n].x + boxes[n].width : n \in D}
             top == boxes[k].x + boxes[k].width
  <2>1. S \in SUBSET Int /\ top \in S /\ \A e \in S : e <= top
    BY <1>1, <1>3
  <2>2. Max(S) = top
    BY ONLY <2>1, LargestIs
  <2> QED
    BY <1>1, <2>2 DEF SelectionBounds
<1>6. SelectionBounds(boxes) = [low |-> boxes[m].x, high |-> boxes[k].x + boxes[k].width]
  BY <1>4, <1>5 DEF SelectionBounds
<1>7. boxes[k].x + boxes[k].width - boxes[m].x >= Pixel
  <2>1. boxes[m].x + boxes[m].width <= boxes[k].x + boxes[k].width
    BY <1>3
  <2> QED
    BY ONLY <1>1, <2>1, m \in D, k \in D
<1> QED
  BY <1>1, <1>2, <1>3, <1>6, <1>7

\* What has the elements of bounds at its ends and nothing beyond has these bounds.
LEMMA BoundsFit ==
  ASSUME NEW D, IsFiniteSet(D), D # {}, NEW boxes \in [D -> Box],
         NEW bounds \in [low : Int, high : Int],
         \A n \in D : bounds.low <= boxes[n].x /\ boxes[n].x + boxes[n].width <= bounds.high,
         \E n \in D : boxes[n].x = bounds.low,
         \E n \in D : boxes[n].x + boxes[n].width = bounds.high
  PROVE  SelectionBounds(boxes) = bounds
<1> DEFINE found == SelectionBounds(boxes)
<1>1. /\ found \in [low : Int, high : Int]
      /\ \A n \in D : found.low <= boxes[n].x /\ boxes[n].x + boxes[n].width <= found.high
      /\ \E n \in D : boxes[n].x = found.low
      /\ \E n \in D : boxes[n].x + boxes[n].width = found.high
  BY BoundsAre
<1> HIDE DEF found
<1>2. found.low <= bounds.low /\ bounds.low <= found.low
  BY <1>1
<1>3. found.high <= bounds.high /\ bounds.high <= found.high
  BY <1>1
<1>4. found.low = bounds.low /\ found.high = bounds.high
  BY <1>1, <1>2, <1>3
<1>5. found = bounds
  BY <1>1, <1>4
<1> QED
  BY <1>5 DEF found


-----------------------------------------------------------------------------
(* The resize.                                                             *)

Bounds == [low : Int, high : Int]

Exact(boxes, initial, bounds) ==
  \A n \in DOMAIN boxes :
    /\ ((boxes[n].x - initial.low) * (bounds.high - bounds.low)) % (initial.high - initial.low) = 0
    /\ (boxes[n].width * (bounds.high - bounds.low)) % (initial.high - initial.low) = 0

Thin(boxes) == \E n \in DOMAIN boxes : boxes[n].width = Pixel

\* Boxes mapped to new bounds are boxes, and fill these if none gets too thin.
LEMMA MappedFills ==
  ASSUME NEW D, IsFiniteSet(D), D # {}, NEW boxes \in [D -> Box],
         NEW initial, initial = SelectionBounds(boxes),
         NEW bounds \in Bounds, bounds.high - bounds.low >= Pixel
  PROVE  /\ Mapped(boxes, initial, bounds) \in [D -> Box]
         /\ (~Thin(Mapped(boxes, initial, bounds)) /\ Exact(boxes, initial, bounds))
              => SelectionBounds(Mapped(boxes, initial, bounds)) = bounds
<1> DEFINE w == initial.high - initial.low
           v == bounds.high - bounds.low
           S(length) == (length * v) \div w
           mapped == Mapped(boxes, initial, bounds)
<1>1. /\ initial \in Bounds
      /\ \A n \in D : initial.low <= boxes[n].x /\ boxes[n].x + boxes[n].width <= initial.high
      /\ \E n \in D : boxes[n].x = initial.low
      /\ \E n \in D : boxes[n].x + boxes[n].width = initial.high
      /\ initial.high - initial.low >= Pixel
  BY BoundsAre DEF Bounds
<1>2. Pixel \in Nat /\ Pixel > 0
  BY CanvasGeometryAssumption
<1>3. w \in Nat /\ w > 0 /\ v \in Nat /\ v > 0 /\ bounds.low \in Int /\ bounds.high \in Int
      /\ initial.low \in Int /\ initial.high \in Int
  BY <1>1, <1>2 DEF Bounds
<1>4. \A n \in D : boxes[n].x \in Int /\ boxes[n].width \in Int /\ boxes[n].width >= Pixel
  BY <1>2 DEF Box
<1>5. mapped = [n \in D |-> [x |-> bounds.low + S(boxes[n].x - initial.low),
                             width |-> Larger(Pixel, S(boxes[n].width))]]
  BY DEF Mapped
<1> HIDE DEF w, v, mapped
<1>6. \A length \in Int : S(length) \in Int
  BY <1>3, ExactDivision
<1>7. ASSUME NEW n \in D
      PROVE  /\ mapped[n] \in Box /\ mapped[n].x = bounds.low + S(boxes[n].x - initial.low)
             /\ mapped[n].width = Pixel \/ mapped[n].width = S(boxes[n].width)
  <2>1. S(boxes[n].x - initial.low) \in Int /\ S(boxes[n].width) \in Int
    BY <1>3, <1>4, <1>6
  <2> HIDE DEF S
  <2>2. Larger(Pixel, S(boxes[n].width)) \in {k \in Nat : k >= Pixel}
        /\ Larger(Pixel, S(boxes[n].width)) \in {Pixel, S(boxes[n].width)}
    BY <1>2, <2>1, OfTwo
  <2> QED
    BY <1>3, <1>5, <2>1, <2>2 DEF Box
<1>8. mapped \in [D -> Box]
  BY <1>5, <1>7
<1>9. ASSUME ~Thin(mapped), Exact(boxes, initial, bounds)
      PROVE  SelectionBounds(mapped) = bounds
  <2>1. \A n \in D : mapped[n].x = bounds.low + S(boxes[n].x - initial.low)
                     /\ mapped[n].width = S(boxes[n].width)
    BY <1>7, <1>8, <1>9 DEF Thin
  <2>2. \A n \in D : ((boxes[n].x - initial.low) * v) % w = 0 /\ (boxes[n].width * v) % w = 0
    BY <1>9 DEF Exact, v, w
  <2>3. ASSUME NEW n \in D
        PROVE  /\ S(boxes[n].x - initial.low) * w = (boxes[n].x - initial.low) * v
               /\ S(boxes[n].width) * w = boxes[n].width * v
               /\ S(boxes[n].x - initial.low) \in Int /\ S(boxes[n].width) \in Int
    <3>1. PICK a \in Int, b \in Int : a = boxes[n].x - initial.low /\ b = boxes[n].width
      BY <1>3, <1>4
    <3>2. a * v \in Int /\ b * v \in Int /\ (a * v) % w = 0 /\ (b * v) % w = 0
      BY <1>3, <2>2, <3>1
    <3>3. /\ (a * v) \div w \in Int /\ ((a * v) \div w) * w = a * v
          /\ (b * v) \div w \in Int /\ ((b * v) \div w) * w = b * v
      BY ONLY <1>3, <3>2, ExactDivision
    <3> QED
      BY <3>1, <3>3
  <2>4. ASSUME NEW n \in D
        PROVE  /\ bounds.low <= mapped[n].x /\ mapped[n].x + mapped[n].width <= bounds.high
               /\ boxes[n].x = initial.low => mapped[n].x = bounds.low
               /\ boxes[n].x + boxes[n].width = initial.high
                    => mapped[n].x + mapped[n].width = bounds.high
    <3>1. PICK a \in Int, b \in Int : a = boxes[n].x - initial.low /\ b = boxes[n].width
      BY <1>3, <1>4
    <3>2. PICK p \in Int, q \in Int : p = S(boxes[n].x - initial.low) /\ q = S(boxes[n].width)
      BY <2>3
    <3>3. p * w = a * v /\ q * w = b * v
      BY <2>3, <3>1, <3>2
    <3>4. 0 <= a /\ a + b <= w /\ (boxes[n].x = initial.low <=> a = 0)
          /\ (boxes[n].x + boxes[n].width = initial.high <=> a + b = w)
      <4>1. /\ initial.low <= boxes[n].x /\ boxes[n].x + boxes[n].width <= initial.high
            /\ boxes[n].x \in Int /\ boxes[n].width \in Int /\ w = initial.high - initial.low
        BY <1>1, <1>4 DEF w
      <4> QED
        BY ONLY <1>3, <3>1, <4>1
    <3>5. 0 <= p /\ (a = 0 => p = 0)
      <4>1. 0 * w <= p * w /\ (a = 0 => p * w = 0 * w)
        BY ONLY <1>3, <3>1, <3>2, <3>3, <3>4
      <4> QED
        BY ONLY <1>3, <3>2, <4>1, Cancelled
    <3>6. p + q <= v /\ (a + b = w => p + q = v)
      <4>1. (p + q) * w = (a + b) * v
        <5>1. (p + q) * w = p * w + q * w /\ (a + b) * v = a * v + b * v
          BY ONLY <1>3, <3>1, <3>2
        <5> QED
          BY ONLY <3>3, <5>1
      <4>2. (p + q) * w <= v * w /\ (a + b = w => (p + q) * w = v * w)
        BY ONLY <1>3, <3>1, <3>4, <4>1
      <4> QED
        BY ONLY <1>3, <3>2, <4>2, Cancelled
    <3>7. mapped[n].x = bounds.low + p /\ mapped[n].width = q /\ bounds.high = bounds.low + v
      BY <1>3, <2>1, <3>2 DEF v
    <3> QED
      BY ONLY <1>3, <3>2, <3>4, <3>5, <3>6, <3>7
  <2>5. /\ \A n \in D : bounds.low <= mapped[n].x /\ mapped[n].x + mapped[n].width <= bounds.high
        /\ \E n \in D : mapped[n].x = bounds.low
        /\ \E n \in D : mapped[n].x + mapped[n].width = bounds.high
    BY <1>1, <2>4
  <2> QED
    BY <1>8, <2>5, BoundsFit DEF Bounds
<1> QED
  BY <1>8, <1>9 DEF mapped


\* What ResizeIsAnchored says of a resize of boxes in initial bounds.
Anchored(boxes, initial, handle, last) ==
  /\ last \in [bounds : Bounds, boxes : [DOMAIN boxes -> Box]]
  /\ last.bounds.high - last.bounds.low # Pixel =>
       IF handle = "w" THEN last.bounds.high = initial.high ELSE last.bounds.low = initial.low
  /\ (~Thin(last.boxes) /\ Exact(boxes, initial, last.bounds)) =>
       SelectionBounds(last.boxes) = last.bounds

\* The grid is of whole numbers.
LEMMA SnapsToInt ==
  ASSUME NEW v \in Int
  PROVE  SnapScalar(v) \in Int
<1>1. GridSize \in Nat /\ GridSize > 0
  BY CanvasGeometryAssumption
<1>2. 2 * v + GridSize \in Int /\ 2 * GridSize \in Nat /\ 2 * GridSize > 0
  BY <1>1
<1>3. (2 * v + GridSize) \div (2 * GridSize) \in Int
  BY <1>2, ExactDivision
<1> QED
  BY <1>1, <1>3 DEF SnapScalar

\* A box that is snapped at one end stays where it is at the other.
LEMMA SnappedStays ==
  ASSUME NEW handle \in {"w", "e"}, NEW box \in Box
  PROVE  LET next == SnapRect(box, EdgesForHandle(handle))
         IN  /\ next \in Box
             /\ next.width # Pixel => IF handle = "w" THEN next.x + next.width = box.x + box.width
                                      ELSE next.x = box.x
<1>1. Pixel \in Nat /\ Pixel > 0 /\ GridSize \in Nat /\ GridSize > 0
  BY CanvasGeometryAssumption
<1>2. box.x \in Int /\ box.width \in Int /\ box.width >= Pixel
  BY <1>1 DEF Box
<1>3. \A v \in Int : SnapScalar(v) \in Int
  BY SnapsToInt
<1>4. CASE handle = "w"
  <2>1. PICK low \in Int, high \in Int : low = SnapScalar(box.x) /\ high = box.x + box.width
    BY <1>2, <1>3
  <2>2. SnapRect(box, EdgesForHandle(handle)) = [x |-> low, width |-> Larger(Pixel, high - low)]
    BY <1>4, <2>1 DEF SnapRect, EdgesForHandle
  <2>3. Larger(Pixel, high - low) = IF Pixel >= high - low THEN Pixel ELSE high - low
    BY <1>1, OfTwo
  <2>4. /\ Larger(Pixel, high - low) \in {k \in Nat : k >= Pixel}
        /\ Larger(Pixel, high - low) # Pixel => low + Larger(Pixel, high - low) = high
    BY <1>1, <2>3
  <2> QED
    BY <1>4, <2>1, <2>2, <2>4 DEF Box
<1>5. CASE handle = "e"
  <2>1. PICK low \in Int, high \in Int : low = box.x /\ high = SnapScalar(box.x + box.width)
    BY <1>2, <1>3
  <2>2. PICK k \in Int : k = Larger(Pixel, high - low) /\ k = IF Pixel >= high - low THEN Pixel ELSE high - low
    BY <1>1, OfTwo
  <2>3. SnapRect(box, EdgesForHandle(handle)) = [x |-> high - k, width |-> k]
    BY <1>5, <2>1, <2>2 DEF SnapRect, EdgesForHandle
  <2>4. k \in Nat /\ k >= Pixel /\ (k # Pixel => high - k = low)
    BY <1>1, <2>2
  <2> QED
    BY <1>5, <2>1, <2>3, <2>4 DEF Box
<1> QED
  BY <1>4, <1>5

\* The resize before the snapping.
LEMMA ResizedGroup ==
  ASSUME NEW D, IsFiniteSet(D), D # {}, NEW boxes \in [D -> Box],
         NEW initial, initial = SelectionBounds(boxes),
         NEW handle \in {"w", "e"}, NEW pointer \in Int
  PROVE  LET resized == ResizeGroup(boxes, initial, handle, pointer)
         IN  /\ Anchored(boxes, initial, handle, resized)
             /\ resized.bounds.high - resized.bounds.low >= Pixel
             /\ IF handle = "w" THEN resized.bounds.high = initial.high
                ELSE resized.bounds.low = initial.low
             /\ \A n : D = {n} => resized.boxes[n] = [x |-> resized.bounds.low,
                                                       width |-> resized.bounds.high - resized.bounds.low]
<1> DEFINE bounds == IF handle = "w"
                     THEN [initial EXCEPT !.low = Smaller(pointer, initial.high - Pixel)]
                     ELSE [initial EXCEPT !.high = Larger(pointer, initial.low + Pixel)]
<1>1. Pixel \in Nat /\ Pixel > 0
  BY CanvasGeometryAssumption
<1>2. /\ initial \in Bounds
      /\ \A n \in D : initial.low <= boxes[n].x /\ boxes[n].x + boxes[n].width <= initial.high
      /\ \E n \in D : boxes[n].x = initial.low
      /\ \E n \in D : boxes[n].x + boxes[n].width = initial.high
      /\ initial.high - initial.low >= Pixel
  BY BoundsAre DEF Bounds
<1>3. initial.low \in Int /\ initial.high \in Int /\ initial = [low |-> initial.low, high |-> initial.high]
  BY <1>2 DEF Bounds
<1>4. /\ bounds \in Bounds /\ bounds.high - bounds.low >= Pixel
      /\ IF handle = "w" THEN bounds.high = initial.high ELSE bounds.low = initial.low
  <2>1. CASE handle = "w"
    <3>1. PICK k \in Int : k = Smaller(pointer, initial.high - Pixel) /\ k <= initial.high - Pixel
      BY <1>1, <1>3, OfTwo
    <3>2. bounds = [low |-> k, high |-> initial.high]
      BY <1>3, <2>1, <3>1
    <3> QED
      BY <1>1, <1>3, <2>1, <3>1, <3>2 DEF Bounds
  <2>2. CASE handle = "e"
    <3>1. PICK k \in Int : k = Larger(pointer, initial.low + Pixel) /\ k >= initial.low + Pixel
      BY <1>1, <1>3, OfTwo
    <3>2. bounds = [low |-> initial.low, high |-> k]
      BY <1>3, <2>2, <3>1
    <3> QED
      BY <1>1, <1>3, <2>2, <3>1, <3>2 DEF Bounds
  <2> QED
    BY <2>1, <2>2
<1>5. ResizeGroup(boxes, initial, handle, pointer)
        = [bounds |-> bounds, boxes |-> Mapped(boxes, initial, bounds)]
  BY DEF ResizeGroup
<1> HIDE DEF bounds
<1>6. /\ Mapped(boxes, initial, bounds) \in [D -> Box]
      /\ (~Thin(Mapped(boxes, initial, bounds)) /\ Exact(boxes, initial, bounds))
           => SelectionBounds(Mapped(boxes, initial, bounds)) = bounds
  BY <1>4, MappedFills
<1>7. Anchored(boxes, initial, handle, ResizeGroup(boxes, initial, handle, pointer))
  BY <1>4, <1>5, <1>6 DEF Anchored
<1>8. ASSUME NEW n, D = {n}
      PROVE  Mapped(boxes, initial, bounds)[n] = [x |-> bounds.low, width |-> bounds.high - bounds.low]
  <2>1. PICK w \in Nat, v \in Nat : w = initial.high - initial.low /\ v = bounds.high - bounds.low
    BY <1>1, <1>2, <1>3, <1>4 DEF Bounds
  <2>2. w > 0 /\ v >= Pixel
    BY <1>1, <1>2, <1>3, <1>4, <2>1
  <2>3. boxes[n].x \in Int /\ boxes[n].width \in Int
    BY <1>1, <1>8 DEF Box
  <2>4. boxes[n].x = initial.low /\ boxes[n].width = w
    BY <1>2, <1>3, <1>8, <2>1, <2>3
  <2>5. Mapped(boxes, initial, bounds)[n]
          = [x |-> bounds.low + ((boxes[n].x - initial.low) * v) \div w,
             width |-> Larger(Pixel, (boxes[n].width * v) \div w)]
    BY <1>8, <2>1 DEF Mapped
  <2>6. ((boxes[n].x - initial.low) * v) \div w = 0
    <3>1. (boxes[n].x - initial.low) * v = w * 0
      BY <1>3, <2>1, <2>4
    <3> QED
      BY <2>2, <3>1, ProductDivided
  <2>7. (boxes[n].width * v) \div w = v
    BY <2>2, <2>4, ProductDivided
  <2>8. Larger(Pixel, v) = v
    BY <1>1, <2>2, OfTwo
  <2> QED
    BY <1>4, <2>1, <2>5, <2>6, <2>7, <2>8 DEF Bounds
<1> QED
  BY <1>4, <1>5, <1>7, <1>8

\* And with the snapping.
LEMMA SnappedGroup ==
  ASSUME NEW D, IsFiniteSet(D), D # {}, NEW boxes \in [D -> Box],
         NEW initial, initial = SelectionBounds(boxes),
         NEW handle \in {"w", "e"}, NEW pointer \in Int
  PROVE  Anchored(boxes, initial, handle,
                  SnapGroupResizeResult(ResizeGroup(boxes, initial, handle, pointer), handle, initial, boxes))
<1>1. PICK resized : resized = ResizeGroup(boxes, initial, handle, pointer)
  OBVIOUS
<1>2. /\ Anchored(boxes, initial, handle, resized)
      /\ resized.bounds.high - resized.bounds.low >= Pixel
      /\ IF handle = "w" THEN resized.bounds.high = initial.high ELSE resized.bounds.low = initial.low
      /\ \A n : D = {n} => resized.boxes[n] = [x |-> resized.bounds.low,
                                                width |-> resized.bounds.high - resized.bounds.low]
  BY <1>1, ResizedGroup
<1>3. Pixel \in Nat /\ Pixel > 0
  BY CanvasGeometryAssumption
<1>4. resized.bounds.low \in Int /\ resized.bounds.high \in Int
  BY <1>2 DEF Anchored, Bounds
<1>5. PICK box : box = [x |-> resized.bounds.low, width |-> resized.bounds.high - resized.bounds.low]
  OBVIOUS
<1>6. box \in Box /\ box.x = resized.bounds.low /\ box.x + box.width = resized.bounds.high
  BY <1>2, <1>3, <1>4, <1>5 DEF Box
<1>7. PICK next : next = SnapRect(box, EdgesForHandle(handle))
  OBVIOUS
<1>8. /\ next \in Box
      /\ next.width # Pixel => IF handle = "w" THEN next.x + next.width = box.x + box.width
                               ELSE next.x = box.x
  BY <1>6, <1>7, SnappedStays
<1>9. next.x \in Int /\ next.width \in Int /\ next.width >= Pixel
  BY <1>3, <1>8 DEF Box
<1>10. /\ BoundsOf(next) \in Bounds /\ BoundsOf(next).high - BoundsOf(next).low = next.width
       /\ next.width # Pixel => IF handle = "w" THEN BoundsOf(next).high = initial.high
                                ELSE BoundsOf(next).low = initial.low
  BY <1>2, <1>6, <1>8, <1>9 DEF BoundsOf, Bounds
<1>11. PICK result : result = SnapGroupResizeResult(resized, handle, initial, boxes)
  OBVIOUS
<1>12. DOMAIN boxes = D
  OBVIOUS
<1>13. CASE \E n \in D : D = {n}
  <2>1. PICK n \in D : D = {n}
    BY <1>13
  <2>2. PICK single : single = [k \in D |-> SnapRect(resized.boxes[k], EdgesForHandle(handle))]
    OBVIOUS
  <2>3. result = [bounds |-> SelectionBounds(single), boxes |-> single]
    BY <1>11, <1>12, <1>13, <2>2 DEF SnapGroupResizeResult
  <2>4. single \in [D -> Box] /\ single[n] = next
    BY <1>2, <1>5, <1>7, <1>8, <2>1, <2>2
  <2>5. SelectionBounds(single) = BoundsOf(next)
    <3>1. /\ BoundsOf(next).low = next.x /\ BoundsOf(next).high = next.x + next.width
          /\ BoundsOf(next) \in [low : Int, high : Int]
      BY <1>10 DEF BoundsOf, Bounds
    <3>2. \A k \in D : single[k] = next
      BY <2>1, <2>4
    <3>3. \A k \in D : BoundsOf(next).low <= single[k].x /\ single[k].x + single[k].width <= BoundsOf(next).high
      BY <1>9, <3>1, <3>2
    <3> QED
      BY <2>1, <2>4, <3>1, <3>2, <3>3, BoundsFit
  <2> QED
    BY <1>1, <1>10, <1>11, <1>12, <2>3, <2>4, <2>5 DEF Anchored
<1>14. CASE ~\E n \in D : D = {n}
  <2>1. result = [bounds |-> BoundsOf(next), boxes |-> Mapped(boxes, initial, BoundsOf(next))]
    BY <1>5, <1>7, <1>11, <1>12, <1>14 DEF SnapGroupResizeResult
  <2>2. /\ Mapped(boxes, initial, BoundsOf(next)) \in [D -> Box]
        /\ (~Thin(Mapped(boxes, initial, BoundsOf(next))) /\ Exact(boxes, initial, BoundsOf(next)))
             => SelectionBounds(Mapped(boxes, initial, BoundsOf(next))) = BoundsOf(next)
    BY <1>9, <1>10, MappedFills
  <2> QED
    BY <1>1, <1>10, <1>11, <1>12, <2>1, <2>2 DEF Anchored
<1> QED
  BY <1>13, <1>14


-----------------------------------------------------------------------------
(* The shape of the canvas's state.                                        *)

CanvasDocument == [version : Nat, boxes : BoxMaps, locked : SUBSET CanvasNodes]

CanvasView == [x : Int, zoom : Zooms]

CanvasSession ==
  [selection : SUBSET CanvasNodes, viewport : CanvasView, mode : {"select", "pan"}, snap : BOOLEAN]

Moves ==
  [kind : {"move"}, pointer : Pointers, version : Nat, node : CanvasNodes, ids : SUBSET CanvasNodes,
   start : Places, zoom : Zooms, delta : Int]

Pans == [kind : {"pan"}, start : Places, viewport : CanvasView]

Marquees == [kind : {"marquee"}, start : Places, initial : SUBSET CanvasNodes]

\* A resize is of some boxes and their bounds, and what it made of them is anchored.
ResizeOK(g) ==
  /\ g \in Resizes
  /\ DOMAIN g.boxes # {}
  /\ g.bounds = SelectionBounds(g.boxes)
  /\ Anchored(g.boxes, g.bounds, g.handle, g.last)

\* A move grabbed a node that is shown.
GestureOK(g) ==
  g \in Pans \cup Marquees \/ ResizeOK(g) \/ (g \in Moves /\ g.node \in DOMAIN shownStore.boxes)

CanvasShape ==
  /\ core \in CanvasDocument /\ shownStore \in CanvasDocument
  /\ live \in CanvasSession /\ shownSession \in CanvasSession
  /\ gesture # NoGesture => GestureOK(gesture)
  /\ groupResizeActive <=> gesture # NoGesture /\ gesture.kind = "groupResize"
  /\ spacePressed \in BOOLEAN

LEMMA ShapeAtFirst ==
  /\ InitialCore \in CanvasDocument /\ InitialLive \in CanvasSession
  /\ [InitialCore EXCEPT !.locked = CanvasNodes] \in CanvasDocument
  /\ [InitialLive EXCEPT !.selection = CanvasNodes] \in CanvasSession
<1>1. InitialBoxes \in BoxMaps
  BY CanvasAssumption DEF BoxMaps
<1>2. InitialCore \in CanvasDocument
  BY <1>1 DEF InitialCore, CanvasDocument
<1>3. InitialLive \in CanvasSession
  BY CanvasAssumption DEF InitialLive, CanvasSession, CanvasView
<1> QED
  BY <1>2, <1>3 DEF CanvasDocument, CanvasSession

LEMMA ShapeInit == CanvasInit => CanvasShape
BY ShapeAtFirst DEF CanvasInit, CanvasShape

\* What is left of a gesture after a step: the same, or nothing.
LEMMA ShapeKept ==
  ASSUME CanvasShape, core' \in CanvasDocument, shownStore' \in CanvasDocument,
         live' \in CanvasSession, shownSession' \in CanvasSession, spacePressed' \in BOOLEAN,
         \/ UNCHANGED <<gesture, groupResizeActive, shownStore>>
         \/ gesture = NoGesture /\ UNCHANGED <<gesture, groupResizeActive>>
         \/ Cancel
  PROVE  CanvasShape'
<1>1. CASE Cancel
  BY <1>1 DEF CanvasShape, Cancel
<1>2. CASE UNCHANGED <<gesture, groupResizeActive, shownStore>>
  BY <1>2 DEF CanvasShape, GestureOK
<1>3. CASE gesture = NoGesture /\ UNCHANGED <<gesture, groupResizeActive>>
  BY <1>3 DEF CanvasShape
<1> QED
  BY <1>1, <1>2, <1>3

\* A gesture that begins, or goes on as another.
LEMMA ShapeGesture ==
  ASSUME CanvasShape, UNCHANGED <<core, shownStore, spacePressed>>,
         live' \in CanvasSession, shownSession' \in CanvasSession,
         gesture' # NoGesture => GestureOK(gesture'),
         groupResizeActive' <=> gesture' # NoGesture /\ gesture'.kind = "groupResize"
  PROVE  CanvasShape'
BY DEF CanvasShape, GestureOK

LEMMA ChangedDocumentShape ==
  ASSUME CanvasInv, CanvasShape, NEW changed \in CanvasDocument, ChangeDocument(changed),
         UNCHANGED <<live, shownSession, spacePressed>>
  PROVE  CanvasShape'
<1>1. core' \in CanvasDocument /\ shownStore' \in CanvasDocument
  BY DEF ChangeDocument, CanvasShape
<1>2. CASE preview.active
  <2>1. UNCHANGED <<gesture, groupResizeActive, shownStore>>
    BY <1>2 DEF ChangeDocument
  <2> QED
    BY <1>1, <2>1, ShapeKept DEF CanvasShape
<1>3. CASE ~preview.active
  <2>1. Cancel
    BY <1>3 DEF ChangeDocument
  <2> QED
    BY <1>1, <2>1, ShapeKept DEF CanvasShape
<1> QED
  BY <1>2, <1>3

LEMMA ChangedSessionShape ==
  ASSUME CanvasShape, NEW session \in CanvasSession, ChangeSession(session),
         UNCHANGED <<core, shownStore, spacePressed>>
  PROVE  CanvasShape'
<1>1. live' \in CanvasSession /\ shownSession' \in CanvasSession
  BY DEF ChangeSession, CanvasShape
<1>2. Cancel \/ UNCHANGED <<gesture, groupResizeActive, shownStore>>
  BY DEF ChangeSession
<1> QED
  BY <1>1, <1>2, ShapeKept DEF CanvasShape

LEMMA PointerDownShape ==
  ASSUME CanvasShape, PointerDown
  PROVE  CanvasShape'
<1>1. ASSUME NEW spot \in Places, BeginPan(spot)
      PROVE  CanvasShape'
  <2>1. [kind |-> "pan", start |-> spot, viewport |-> shownSession.viewport] \in Pans
    BY DEF CanvasShape, CanvasSession, Pans
  <2> QED
    BY <1>1, <2>1, ShapeGesture DEF BeginPan, Begin, CanvasShape, GestureOK, shown
<1>2. ASSUME NEW spot \in Places, NEW additive \in BOOLEAN, BeginMarquee(spot, additive)
      PROVE  CanvasShape'
  <2>1. [kind |-> "marquee", start |-> spot,
         initial |-> IF additive THEN shownSession.selection ELSE {}] \in Marquees
    BY DEF CanvasShape, CanvasSession, Marquees
  <2> QED
    BY <1>2, <2>1, ShapeGesture DEF BeginMarquee, Begin, CanvasShape, GestureOK, shown
<1>3. ASSUME NEW spot \in Places, NEW pointer \in Pointers, NEW handle \in {"w", "e"},
             BeginGroupResize(handle, pointer, spot)
      PROVE  CanvasShape'
  <2>1. PICK D : D = shownSession.selection
    OBVIOUS
  <2>2. PICK boxes : boxes = [n \in D |-> shownStore.boxes[n]]
    OBVIOUS
  <2>3. PICK bounds : bounds = SelectionBounds(boxes)
    OBVIOUS
  <2>4. D \in SUBSET CanvasNodes /\ D # {} /\ \A n \in D : n \in DOMAIN shownStore.boxes
    BY <1>3, <2>1 DEF BeginGroupResize, CanvasShape, CanvasSession, Exists
  <2>5. boxes \in [D -> Box] /\ boxes \in BoxMaps
    <3>1. \A n \in DOMAIN shownStore.boxes : shownStore.boxes[n] \in Box
      BY DEF CanvasShape, CanvasDocument, BoxMaps
    <3>2. boxes \in [D -> Box]
      BY <2>2, <2>4, <3>1
    <3> QED
      BY <2>4, <3>2 DEF BoxMaps
  <2>6. IsFiniteSet(D)
    BY <2>4, CanvasAssumption, FS_Subset
  <2>7. bounds \in Bounds
    BY <2>3, <2>4, <2>5, <2>6, BoundsAre DEF Bounds
  <2>8. PICK zoom \in Zooms, local \in Int :
          zoom = shownSession.viewport.zoom /\ local = ScreenToWorld(spot, shownSession.viewport)
    <3>1. shownSession.viewport.x \in Int /\ shownSession.viewport.zoom \in Zooms
      BY DEF CanvasShape, CanvasSession, CanvasView
    <3>2. spot - shownSession.viewport.x \in Int /\ shownSession.viewport.zoom \in Nat
          /\ shownSession.viewport.zoom > 0
      <4>1. spot \in Int /\ shownSession.viewport.zoom \in Nat \ {0}
        BY <3>1, CanvasAssumption
      <4> QED
        BY ONLY <3>1, <4>1
    <3>3. ScreenToWorld(spot, shownSession.viewport) \in Int
      BY <3>2, ExactDivision DEF ScreenToWorld
    <3> QED
      BY <3>1, <3>3
  <2>9. PICK next : next = [kind |-> "groupResize", pointer |-> pointer, version |-> core.version,
                            handle |-> handle, boxes |-> boxes, bounds |-> bounds, start |-> spot,
                            local |-> local, zoom |-> zoom, last |-> [bounds |-> bounds, boxes |-> boxes]]
    OBVIOUS
  <2>10. gesture' = next /\ (groupResizeActive' <=> next # NoGesture /\ next.kind = "groupResize")
    BY <1>3, <2>1, <2>2, <2>3, <2>8, <2>9 DEF BeginGroupResize, Begin
  <2>11. ResizeOK(next)
    <3>1. core.version \in Nat
      BY DEF CanvasShape, CanvasDocument
    <3>2. next \in Resizes
      BY <2>5, <2>7, <2>8, <2>9, <3>1 DEF Resizes, Bounds
    <3>3. Anchored(boxes, bounds, handle, [bounds |-> bounds, boxes |-> boxes])
      BY <2>3, <2>5, <2>7 DEF Anchored
    <3> QED
      BY <2>3, <2>4, <2>5, <2>9, <3>2, <3>3 DEF ResizeOK
  <2> QED
    BY <1>3, <2>10, <2>11, ShapeGesture DEF BeginGroupResize, CanvasShape, GestureOK, shown
<1>4. ASSUME NEW spot \in Places, NEW pointer \in Pointers, NEW node \in CanvasNodes,
             NEW modifier \in BOOLEAN, BeginMove(node, pointer, spot, modifier)
      PROVE  CanvasShape'
  <2>1. PICK chosen : chosen = CASE modifier -> SymDiff(shownSession.selection, {node})
                                 [] ~modifier /\ node \in shownSession.selection -> shownSession.selection
                                 [] OTHER -> {node}
    OBVIOUS
  <2>2. chosen \in SUBSET CanvasNodes
    <3>1. shownSession.selection \in SUBSET CanvasNodes
      BY DEF CanvasShape, CanvasSession
    <3>2. SymDiff(shownSession.selection, {node}) \in SUBSET CanvasNodes
      BY <3>1 DEF SymDiff
    <3> QED
      BY <2>1, <3>1, <3>2
  <2>3. PICK session : session = [live EXCEPT !.selection = chosen]
    OBVIOUS
  <2>4. session \in CanvasSession
    BY <2>2, <2>3 DEF CanvasShape, CanvasSession
  <2>5. PICK next : next = [kind |-> "move", pointer |-> pointer, version |-> core.version, node |-> node,
                            ids |-> {id \in chosen : Exists(shownStore, id)
                                                     /\ ~TransformLocked(shownStore, id)},
                            start |-> spot, zoom |-> session.viewport.zoom, delta |-> 0]
    OBVIOUS
  <2>6. /\ live' = session /\ shownSession' = session /\ UNCHANGED <<core, shownStore, spacePressed>>
        /\ Begin(IF modifier THEN NoGesture ELSE next) /\ Exists(shownStore, node)
    BY <1>4, <2>1, <2>3, <2>5, Zenon DEF BeginMove
  <2>7. next \in Moves /\ node \in DOMAIN shownStore.boxes /\ next.node = node
    <3>1. core.version \in Nat /\ session.viewport.zoom \in Zooms
      BY <2>4 DEF CanvasShape, CanvasDocument, CanvasSession, CanvasView
    <3> QED
      BY <2>2, <2>5, <2>6, <3>1 DEF Moves, Exists
  <2> QED
    BY <2>4, <2>6, <2>7, ShapeGesture DEF Begin, GestureOK
<1> QED
  BY <1>1, <1>2, <1>3, <1>4 DEF PointerDown


\* What a pointer event makes of a gesture.
LEMMA UpdatedShape ==
  ASSUME CanvasShape, gesture # NoGesture, NEW spot \in Places, NEW alt \in BOOLEAN
  PROVE  GestureOK(Updated(spot, alt)) /\ Updated(spot, alt).kind = gesture.kind
<1>1. GestureOK(gesture)
  BY DEF CanvasShape
<1>2. \A v \in Int, start \in Places, zoom \in Zooms : LocalAt(v, start, spot, zoom) \in Int
  <2> TAKE v \in Int, start \in Places, zoom \in Zooms
  <2>1. spot \in Int /\ start \in Int /\ zoom \in Nat \ {0}
    BY CanvasAssumption
  <2>2. spot - start \in Int /\ zoom \in Nat /\ zoom > 0
    BY ONLY <2>1
  <2>3. (spot - start) \div zoom \in Int
    BY <2>2, ExactDivision
  <2> QED
    BY <2>3 DEF LocalAt
<1>3. CASE gesture \in Pans \cup Marquees
  <2>1. Updated(spot, alt) = gesture
    BY <1>3 DEF Updated, Pans, Marquees
  <2> QED
    BY <1>1, <2>1
<1>4. CASE gesture \in Moves /\ gesture.node \in DOMAIN shownStore.boxes
  <2>1. gesture.kind = "move" /\ gesture.start \in Places /\ gesture.zoom \in Zooms
    BY <1>4 DEF Moves
  <2>2. Updated(spot, alt) = [gesture EXCEPT !.delta = MoveDelta(spot, alt)]
    BY <2>1 DEF Updated
  <2>3. PICK from \in Int : from = shownStore.boxes[gesture.node].x
    <3>1. shownStore.boxes[gesture.node] \in Box
      BY <1>4 DEF CanvasShape, CanvasDocument, BoxMaps
    <3> QED
      BY <3>1 DEF Box
  <2>4. PICK to \in Int : to = LocalAt(from, gesture.start, spot, gesture.zoom)
    BY <1>2, <2>1
  <2>5. SnapScalar(to) \in Int
    BY <2>4, SnapsToInt
  <2>6. MoveDelta(spot, alt) \in Int
    BY <2>3, <2>4, <2>5 DEF MoveDelta
  <2>7. Updated(spot, alt) \in Moves /\ Updated(spot, alt).node = gesture.node
        /\ Updated(spot, alt).kind = gesture.kind
    BY <1>4, <2>2, <2>6 DEF Moves
  <2> QED
    BY <1>4, <2>7 DEF GestureOK
<1>5. CASE ResizeOK(gesture)
  <2>1. PICK D : D = DOMAIN gesture.boxes
    OBVIOUS
  <2>2. /\ gesture \in Resizes /\ D # {} /\ gesture.bounds = SelectionBounds(gesture.boxes)
        /\ gesture.kind = "groupResize" /\ gesture.start \in Places /\ gesture.zoom \in Zooms
        /\ gesture.handle \in {"w", "e"} /\ gesture.local \in Int /\ gesture.boxes \in BoxMaps
    BY <1>5, <2>1 DEF ResizeOK, Resizes
  <2>3. gesture.boxes \in [D -> Box] /\ D \in SUBSET CanvasNodes
    BY <2>1, <2>2 DEF BoxMaps
  <2>4. IsFiniteSet(D)
    BY <2>3, CanvasAssumption, FS_Subset
  <2>5. PICK pointer \in Int : pointer = LocalAt(gesture.local, gesture.start, spot, gesture.zoom)
    BY <1>2, <2>2
  <2>6. PICK last : last = Resized(spot, alt)
    OBVIOUS
  <2>7. Anchored(gesture.boxes, gesture.bounds, gesture.handle, last)
    <3>1. /\ Anchored(gesture.boxes, gesture.bounds, gesture.handle,
                      ResizeGroup(gesture.boxes, gesture.bounds, gesture.handle, pointer))
          /\ Anchored(gesture.boxes, gesture.bounds, gesture.handle,
                      SnapGroupResizeResult(
                        ResizeGroup(gesture.boxes, gesture.bounds, gesture.handle, pointer),
                        gesture.handle, gesture.bounds, gesture.boxes))
      <4>1. PICK boxes, initial, handle :
              boxes = gesture.boxes /\ initial = gesture.bounds /\ handle = gesture.handle
        OBVIOUS
      <4>2. /\ boxes \in [D -> Box] /\ initial = SelectionBounds(boxes) /\ handle \in {"w", "e"}
            /\ IsFiniteSet(D) /\ D # {} /\ pointer \in Int
        BY <2>2, <2>3, <2>4, <4>1
      <4>3. /\ Anchored(boxes, initial, handle, ResizeGroup(boxes, initial, handle, pointer))
            /\ Anchored(boxes, initial, handle,
                        SnapGroupResizeResult(ResizeGroup(boxes, initial, handle, pointer),
                                              handle, initial, boxes))
        BY ONLY <4>2, ResizedGroup, SnappedGroup
      <4> QED
        BY ONLY <4>1, <4>3
    <3> QED
      BY <2>5, <2>6, <3>1 DEF Resized
  <2>8. Updated(spot, alt) = [gesture EXCEPT !.last = last]
    BY <2>2, <2>6 DEF Updated
  <2>9. last \in [bounds : [low : Int, high : Int], boxes : BoxMaps]
    <3>1. last \in [bounds : Bounds, boxes : [D -> Box]]
      BY <2>1, <2>7 DEF Anchored
    <3> QED
      BY <2>3, <3>1 DEF BoxMaps, Bounds
  <2>10. PICK next : next = Updated(spot, alt)
    OBVIOUS
  <2>11. /\ next \in Resizes /\ next.boxes = gesture.boxes /\ next.bounds = gesture.bounds
         /\ next.handle = gesture.handle /\ next.last = last /\ next.kind = gesture.kind
    BY <2>2, <2>8, <2>9, <2>10 DEF Resizes
  <2>12. ResizeOK(next)
    BY <2>1, <2>2, <2>7, <2>11 DEF ResizeOK
  <2> QED
    BY <2>10, <2>11, <2>12 DEF GestureOK
<1> QED
  BY <1>1, <1>3, <1>4, <1>5 DEF GestureOK

LEMMA PannedShape ==
  ASSUME CanvasShape, gesture # NoGesture, gesture.kind = "pan", NEW spot \in Places
  PROVE  Panned(spot) \in CanvasSession
<1>1. gesture \in Pans
  BY DEF CanvasShape, GestureOK, ResizeOK, Pans, Marquees, Moves, Resizes
<1>2. spot \in Int /\ gesture.start \in Int /\ gesture.viewport \in CanvasView
  BY <1>1, CanvasAssumption DEF Pans
<1>3. [x |-> gesture.viewport.x + spot - gesture.start, zoom |-> gesture.viewport.zoom] \in CanvasView
  BY <1>2 DEF CanvasView
<1> QED
  BY <1>3 DEF Panned, CanvasShape, CanvasSession

\* The boxes a command of a gesture leaves are boxes.
LEMMA CommittedShape ==
  ASSUME CanvasShape, NEW done, GestureOK(done), done.kind \in {"move", "groupResize"}
  PROVE  Committed(done) \in CanvasDocument
<1>1. core \in CanvasDocument /\ core.boxes \in BoxMaps /\ core.version \in Nat
  BY DEF CanvasShape, CanvasDocument
<1>2. \A n \in DOMAIN core.boxes : core.boxes[n] \in Box /\ n \in CanvasNodes
  BY <1>1 DEF BoxMaps
<1>3. PICK boxes : boxes = IF done.kind = "move"
                           THEN [n \in DOMAIN core.boxes |->
                                  IF n \in done.ids THEN [core.boxes[n] EXCEPT !.x = @ + done.delta]
                                  ELSE core.boxes[n]]
                           ELSE [n \in DOMAIN core.boxes |->
                                  IF n \in DOMAIN done.boxes THEN done.last.boxes[n] ELSE core.boxes[n]]
  OBVIOUS
<1>4. boxes \in [DOMAIN core.boxes -> Box]
  <2>1. CASE done.kind = "move"
    <3>1. done.delta \in Int
      BY <2>1 DEF GestureOK, ResizeOK, Pans, Marquees, Moves, Resizes
    <3>2. \A n \in DOMAIN core.boxes : [core.boxes[n] EXCEPT !.x = @ + done.delta] \in Box
      BY <1>2, <3>1 DEF Box
    <3> QED
      BY <1>2, <1>3, <2>1, <3>2
  <2>2. CASE done.kind = "groupResize"
    <3>1. ResizeOK(done)
      BY <2>2 DEF GestureOK, Pans, Marquees, Moves
    <3>2. done.last.boxes \in [DOMAIN done.boxes -> Box]
      BY <3>1 DEF ResizeOK, Anchored
    <3> QED
      BY <1>2, <1>3, <2>2, <3>2
  <2> QED
    BY <2>1, <2>2
<1>5. boxes \in BoxMaps
  BY <1>2, <1>4 DEF BoxMaps
<1>6. [core EXCEPT !.boxes = boxes, !.version = @ + 1] \in CanvasDocument
  <2>1. PICK next \in Nat : next = core.version + 1
    BY <1>1
  <2>2. [core EXCEPT !.boxes = boxes, !.version = next] \in CanvasDocument
    BY <1>1, <1>5 DEF CanvasDocument
  <2> QED
    BY <2>1, <2>2
<1>7. Committed(done) = IF boxes = core.boxes THEN core
                        ELSE [core EXCEPT !.boxes = boxes, !.version = @ + 1]
  BY <1>3, Zenon DEF Committed
<1> QED
  BY <1>1, <1>6, <1>7

LEMMA PointerMoveShape ==
  ASSUME CanvasShape, NEW pointer, NEW spot \in Places, NEW alt \in BOOLEAN,
         PointerMove(pointer, spot, alt)
  PROVE  CanvasShape'
<1>1. gesture # NoGesture /\ UNCHANGED <<core, shownStore, spacePressed>>
  BY DEF PointerMove, Follows
<1>2. CASE gesture.kind = "pan"
  <2>1. ChangeSession(Panned(spot))
    BY <1>2 DEF PointerMove
  <2> QED
    BY <1>1, <1>2, <2>1, PannedShape, ChangedSessionShape
<1>3. CASE gesture.kind # "pan"
  <2>1. gesture' = Updated(spot, alt) /\ UNCHANGED <<groupResizeActive, live, shownSession>>
    BY <1>3 DEF PointerMove
  <2>2. GestureOK(gesture') /\ gesture'.kind = gesture.kind
    BY <1>1, <2>1, UpdatedShape
  <2>3. gesture' # NoGesture \/ gesture.kind # "groupResize"
    <3>1. gesture.kind = "groupResize" => gesture' \in Resizes
      BY <2>2 DEF GestureOK, ResizeOK, Pans, Marquees, Moves
    <3> QED
      BY <3>1, CanvasAssumption
  <2> QED
    BY <1>1, <2>1, <2>2, <2>3, ShapeGesture DEF CanvasShape
<1> QED
  BY <1>2, <1>3

LEMMA CommitShape ==
  ASSUME CanvasShape, NEW done, GestureOK(done), done.kind \in {"move", "groupResize"},
         Commit(done), UNCHANGED spacePressed
  PROVE  CanvasShape'
<1>1. core' \in CanvasDocument /\ shownStore' \in CanvasDocument
      /\ UNCHANGED <<live, shownSession>> /\ Cancel
  BY CommittedShape DEF Commit
<1> QED
  BY <1>1, ShapeKept DEF CanvasShape

LEMMA ReleasedShape ==
  ASSUME CanvasShape, NEW session \in CanvasSession, Released(session), UNCHANGED spacePressed
  PROVE  CanvasShape'
<1>1. live' \in CanvasSession /\ shownSession' \in CanvasSession /\ UNCHANGED <<core, shownStore>> /\ Cancel
  BY DEF Released
<1> QED
  BY <1>1, ShapeKept DEF CanvasShape

LEMMA PointerUpShape ==
  ASSUME CanvasShape, NEW pointer, NEW spot \in Places, NEW alt \in BOOLEAN,
         PointerUp(pointer, spot, alt)
  PROVE  CanvasShape'
<1>1. gesture # NoGesture /\ UNCHANGED spacePressed /\ GestureOK(gesture)
  BY DEF PointerUp, Follows, CanvasShape
<1>2. CASE gesture.kind = "pan"
  <2>1. Released(Panned(spot))
    BY <1>2 DEF PointerUp
  <2> QED
    BY <1>1, <1>2, <2>1, PannedShape, ReleasedShape
<1>3. CASE gesture.kind = "marquee"
  <2>1. Released([live EXCEPT !.selection = gesture.initial \cup Touched(spot)])
    BY <1>3 DEF PointerUp
  <2>2. gesture.initial \in SUBSET CanvasNodes
    BY <1>1, <1>3 DEF GestureOK, ResizeOK, Pans, Marquees, Moves, Resizes
  <2>3. Touched(spot) \in SUBSET CanvasNodes
    <3>1. Touched(spot) \subseteq DOMAIN shownStore.boxes
      BY DEF Touched
    <3>2. DOMAIN shownStore.boxes \subseteq CanvasNodes
      BY DEF CanvasShape, CanvasDocument, BoxMaps
    <3> QED
      BY <3>1, <3>2
  <2>4. [live EXCEPT !.selection = gesture.initial \cup Touched(spot)] \in CanvasSession
    BY <2>2, <2>3 DEF CanvasShape, CanvasSession
  <2> QED
    BY <1>1, <2>1, <2>4, ReleasedShape
<1>4. CASE gesture.kind \notin {"pan", "marquee"}
  <2>1. Commit(Updated(spot, alt))
    BY <1>4 DEF PointerUp
  <2>2. gesture.kind \in {"move", "groupResize"}
    BY <1>1, <1>4 DEF GestureOK, ResizeOK, Pans, Marquees, Moves, Resizes
  <2>3. GestureOK(Updated(spot, alt)) /\ Updated(spot, alt).kind = gesture.kind
    BY <1>1, UpdatedShape
  <2> QED
    BY <1>1, <2>1, <2>2, <2>3, CommitShape
<1> QED
  BY <1>2, <1>3, <1>4

LEMMA PointerCancelShape ==
  ASSUME CanvasShape, NEW pointer, NEW spot \in Places, PointerCancel(pointer, spot)
  PROVE  CanvasShape'
<1>1. CASE gesture.kind = "pan"
  BY <1>1, PannedShape, ReleasedShape DEF PointerCancel, Follows
<1>2. CASE gesture.kind # "pan"
  BY <1>2, ShapeKept DEF PointerCancel, CanvasShape, shown
<1> QED
  BY <1>1, <1>2

LEMMA GestureEndShape ==
  ASSUME CanvasShape, (\E pointer : LostPointerCapture(pointer)) \/ Escape \/ Blur
  PROVE  CanvasShape'
<1>1. CASE \E pointer : LostPointerCapture(pointer)
  <2>1. Commit(gesture) /\ gesture # NoGesture /\ gesture.kind \in {"move", "groupResize"}
        /\ UNCHANGED spacePressed
    BY <1>1 DEF LostPointerCapture, Edits
  <2> QED
    BY <2>1, CommitShape DEF CanvasShape
<1>2. CASE Escape
  BY <1>2, ShapeKept DEF Escape, CanvasShape, shown
<1>3. CASE Blur
  BY <1>3, ShapeKept DEF Blur, CanvasShape, shown
<1> QED
  BY <1>1, <1>2, <1>3

LEMMA OtherShape ==
  ASSUME CanvasInv, CanvasShape,
         \/ Space \/ SpaceReleased \/ OtherCommand \/ OtherSetting
         \/ \E spot \in Places, zoom \in Zooms : Wheel(spot, zoom)
  PROVE  CanvasShape'
<1>1. CASE Space \/ SpaceReleased
  BY <1>1, ShapeKept DEF Space, SpaceReleased, CanvasShape, shown
<1>2. CASE OtherCommand
  <2>1. PICK node \in DOMAIN core.boxes :
       \/ ChangeDocument([core EXCEPT !.version = @ + 1, !.locked = SymDiff(@, {node})])
       \/ ChangeDocument([core EXCEPT !.version = @ + 1, !.locked = @ \ {node},
                                      !.boxes = [n \in DOMAIN @ \ {node} |-> @[n]]])
    BY <1>2 DEF OtherCommand
  <2>2. /\ core \in CanvasDocument /\ core.boxes \in BoxMaps /\ core.version \in Nat
        /\ core.locked \in SUBSET CanvasNodes
    BY DEF CanvasShape, CanvasDocument
  <2>3. node \in CanvasNodes /\ [n \in DOMAIN core.boxes \ {node} |-> core.boxes[n]] \in BoxMaps
    <3>1. PICK D \in SUBSET CanvasNodes : core.boxes \in [D -> Box]
      BY <2>2 DEF BoxMaps
    <3>2. DOMAIN core.boxes = D /\ node \in D
      BY <3>1
    <3>3. [n \in D \ {node} |-> core.boxes[n]] \in [D \ {node} -> Box] /\ D \ {node} \in SUBSET CanvasNodes
      BY <3>1
    <3>4. [n \in D \ {node} |-> core.boxes[n]] \in BoxMaps
      BY ONLY <3>3 DEF BoxMaps
    <3> QED
      BY <3>1, <3>2, <3>4
  <2>4. SymDiff(core.locked, {node}) \in SUBSET CanvasNodes
    BY <2>2, <2>3 DEF SymDiff
  <2>5. [core EXCEPT !.version = @ + 1, !.locked = SymDiff(@, {node})] \in CanvasDocument
    <3>1. PICK next \in Nat : next = core.version + 1
      BY <2>2
    <3>2. PICK locked \in SUBSET CanvasNodes : locked = SymDiff(core.locked, {node})
      BY <2>4
    <3>3. [core EXCEPT !.version = next, !.locked = locked] \in CanvasDocument
      BY <2>2 DEF CanvasDocument
    <3> QED
      BY <3>1, <3>2, <3>3
  <2>6. [core EXCEPT !.version = @ + 1, !.locked = @ \ {node},
                     !.boxes = [n \in DOMAIN @ \ {node} |-> @[n]]] \in CanvasDocument
    <3>1. PICK next \in Nat : next = core.version + 1
      BY <2>2
    <3>2. PICK locked \in SUBSET CanvasNodes : locked = core.locked \ {node}
      BY <2>2
    <3>3. PICK boxes \in BoxMaps : boxes = [n \in DOMAIN core.boxes \ {node} |-> core.boxes[n]]
      BY <2>3
    <3>4. [core EXCEPT !.version = next, !.locked = locked, !.boxes = boxes] \in CanvasDocument
      BY <2>2 DEF CanvasDocument
    <3> QED
      BY <3>1, <3>2, <3>3, <3>4
  <2> QED
    BY <1>2, <2>1, <2>5, <2>6, ChangedDocumentShape DEF OtherCommand
<1>3. CASE OtherSetting
  <2>1. /\ \A chosen \in SUBSET CanvasNodes : [live EXCEPT !.selection = chosen] \in CanvasSession
        /\ \A mode \in {"select", "pan"} : [live EXCEPT !.mode = mode] \in CanvasSession
        /\ [live EXCEPT !.snap = ~@] \in CanvasSession
    BY DEF CanvasShape, CanvasSession
  <2> QED
    BY <1>3, <2>1, ChangedSessionShape DEF OtherSetting
<1>4. CASE \E spot \in Places, zoom \in Zooms : Wheel(spot, zoom)
  <2>1. PICK spot \in Places, zoom \in Zooms : Wheel(spot, zoom)
    BY <1>4
  <2>2. spot \in Int /\ zoom \in Nat /\ zoom > 0
    BY CanvasAssumption
  <2>3. PICK x \in Int, now \in Nat : x = shownSession.viewport.x /\ now = shownSession.viewport.zoom /\ now > 0
    <3>1. shownSession.viewport.x \in Int /\ shownSession.viewport.zoom \in Zooms
      BY DEF CanvasShape, CanvasSession, CanvasView
    <3>2. shownSession.viewport.zoom \in Nat \ {0}
      BY <3>1, CanvasAssumption
    <3>3. shownSession.viewport.zoom \in Nat /\ shownSession.viewport.zoom > 0
      BY ONLY <3>2
    <3> QED
      BY <3>1, <3>3
  <2>4. PICK world \in Int : world = ScreenToWorld(spot, shownSession.viewport)
    <3>1. spot - x \in Int
      BY <2>2
    <3>2. (spot - x) \div now \in Int
      BY <2>3, <3>1, ExactDivision
    <3> QED
      BY <2>3, <3>2 DEF ScreenToWorld
  <2>5. ZoomAt(shownSession.viewport, spot, zoom) \in CanvasView
    <3>1. spot - world * zoom \in Int
      BY <2>2
    <3> QED
      BY <2>4, <3>1 DEF ZoomAt, CanvasView
  <2>6. [live EXCEPT !.viewport = ZoomAt(shownSession.viewport, spot, zoom)] \in CanvasSession
    BY <2>5 DEF CanvasShape, CanvasSession
  <2> QED
    BY <2>1, <2>6, ChangedSessionShape DEF Wheel
<1> QED
  BY <1>1, <1>2, <1>3, <1>4

LEMMA ShowFrameShape ==
  ASSUME CanvasInv, CanvasShape, NEW frame \in Frames, ShowFrame(frame)
  PROVE  CanvasShape'
<1>1. /\ frame.document # NoFrame => frame.document \in CanvasDocument
      /\ frame.session # NoFrame => frame.session \in CanvasSession
  BY ShapeAtFirst DEF Frames, Inactive
<1>2. core' \in CanvasDocument /\ shownStore' \in CanvasDocument /\ live' \in CanvasSession
      /\ shownSession' \in CanvasSession /\ spacePressed' \in BOOLEAN /\ Cancel
  BY <1>1 DEF ShowFrame, CanvasShape, CanvasInv, SourceInv
<1> QED
  BY <1>2, ShapeKept

LEMMA CanvasShapeStep == CanvasInv /\ CanvasShape /\ [CanvasNext]_canvasVars => CanvasShape'
<1> SUFFICES ASSUME CanvasInv, CanvasShape, [CanvasNext]_canvasVars
             PROVE  CanvasShape'
  OBVIOUS
<1>1. CASE UNCHANGED canvasVars
  BY <1>1, ShapeKept DEF canvasVars, CanvasShape, shown
<1>2. CASE Drag
  <2>1. CASE \E pointer \in Pointers, spot \in Places, alt \in BOOLEAN :
                PointerMove(pointer, spot, alt) \/ PointerUp(pointer, spot, alt)
    BY <2>1, PointerMoveShape, PointerUpShape
  <2>2. CASE \E pointer \in Pointers, spot \in Places : PointerCancel(pointer, spot)
    BY <2>2, PointerCancelShape
  <2>3. CASE \E pointer : LostPointerCapture(pointer)
    BY <2>3, GestureEndShape
  <2> QED
    BY <1>2, <2>1, <2>2, <2>3 DEF Drag
<1>3. CASE Escape \/ Blur
  BY <1>3, GestureEndShape
<1>4. CASE CanvasNext /\ ~Drag /\ ~(Escape \/ Blur)
  BY <1>4, PointerDownShape, OtherShape, ShowFrameShape DEF CanvasNext
<1> QED
  BY <1>1, <1>2, <1>3, <1>4

LEMMA CanvasShapes == CanvasSpec => [](CanvasInv /\ CanvasShape)
<1>1. CanvasInit => CanvasInv /\ CanvasShape
  BY CanvasInitInv, ShapeInit
<1>2. CanvasInv /\ CanvasShape /\ [CanvasNext]_canvasVars => CanvasInv' /\ CanvasShape'
  BY CanvasNextInv, CanvasShapeStep
<1> QED
  BY <1>1, <1>2, PTL DEF CanvasSpec

\* Nodes are no thinner than a pixel, the selection is of nodes, and the flag of a
\* group resize says whether one is under way.
THEOREM CanvasTypes == CanvasSpec => []CanvasTypeOK
<1>1. CanvasShape => CanvasTypeOK
  <2> SUFFICES ASSUME CanvasShape PROVE CanvasTypeOK
    OBVIOUS
  <2>1. DOMAIN core.boxes \subseteq CanvasNodes /\ \A n \in DOMAIN core.boxes : core.boxes[n].width >= Pixel
    BY DEF CanvasShape, CanvasDocument, BoxMaps, Box
  <2> QED
    BY <2>1 DEF CanvasShape, CanvasSession, CanvasView, CanvasTypeOK
<1> QED
  BY <1>1, CanvasShapes, PTL

\* A resize moves the dragged end of the selection only, and its boxes fill what
\* is left between the ends.
THEOREM ResizesAreAnchored == CanvasSpec => []ResizeIsAnchored
<1>1. CanvasShape => ResizeIsAnchored
  <2> SUFFICES ASSUME CanvasShape, gesture # NoGesture, gesture.kind = "groupResize"
               PROVE  ResizeIsAnchored
    BY DEF ResizeIsAnchored
  <2>1. Anchored(gesture.boxes, gesture.bounds, gesture.handle, gesture.last)
    BY DEF CanvasShape, GestureOK, ResizeOK, Pans, Marquees, Moves
  <2> QED
    BY <2>1 DEF ResizeIsAnchored, Anchored, Thin, Exact
<1> QED
  BY <1>1, CanvasShapes, PTL

-----------------------------------------------------------------------------
(***************************************************************************)
(* The tree of the scene panel.                                            *)
(***************************************************************************)

\* A record with the fields of a node and no other.
HasFields(r) ==
  r = [parent |-> r.parent, index |-> r.index, name |-> r.name,
       visible |-> r.visible, locked |-> r.locked, place |-> r.place]

NodesHaveFields(nodes) == \A n \in DOMAIN nodes : HasFields(nodes[n])

\* Two documents that the tree does not tell apart: they differ in layout only.
Alike(one, other) ==
  /\ DOMAIN one = DOMAIN other
  /\ \A n \in DOMAIN one :
       /\ one[n].parent = other[n].parent /\ one[n].index = other[n].index
       /\ one[n].name = other[n].name
       /\ one[n].visible = other[n].visible /\ one[n].locked = other[n].locked

ButPlace(r) == [r EXCEPT !.place = 0]

LEMMA SameButPlace ==
  ASSUME NEW r, NEW q, HasFields(r), HasFields(q), ButPlace(r) = ButPlace(q)
  PROVE  /\ r.parent = q.parent /\ r.index = q.index /\ r.name = q.name
         /\ r.visible = q.visible /\ r.locked = q.locked
<1>1. ASSUME NEW o, HasFields(o)
      PROVE  /\ ButPlace(o).parent = o.parent /\ ButPlace(o).index = o.index /\ ButPlace(o).name = o.name
             /\ ButPlace(o).visible = o.visible /\ ButPlace(o).locked = o.locked
  BY <1>1 DEF HasFields, ButPlace
<1> QED
  BY <1>1

LEMMA AlikeWithoutUpdate ==
  ASSUME NEW one, NEW other, NodesHaveFields(one), NodesHaveFields(other), ~TreeNeedsUpdate(one, other)
  PROVE  Alike(one, other)
<1>1. DOMAIN one = DOMAIN other /\ \A n \in DOMAIN one : ButPlace(one[n]) = ButPlace(other[n])
  BY DEF TreeNeedsUpdate, ButPlace
<1> QED
  BY <1>1, SameButPlace DEF Alike, NodesHaveFields

LEMMA AlikeTransitive ==
  ASSUME NEW one, NEW two, NEW three, Alike(one, two), Alike(two, three)
  PROVE  Alike(one, three)
BY DEF Alike

LEMMA ChildrenAlike ==
  ASSUME NEW one, NEW other, Alike(one, other), NEW parent
  PROVE  Children(one, parent) = Children(other, parent)
<1> DEFINE S == {n \in DOMAIN one : one[n].parent = parent}
           Sorted(nodes, s) == \A i, j \in DOMAIN s : i < j => nodes[s[i]].index <= nodes[s[j]].index
<1>1. {n \in DOMAIN other : other[n].parent = parent} = S
  BY DEF Alike
<1>2. ASSUME NEW s \in SetToSeqs(S) PROVE Sorted(one, s) <=> Sorted(other, s)
  <2>1. s \in [1 .. Cardinality(S) -> S]
    BY DEF SetToSeqs
  <2>2. \A i \in DOMAIN s : one[s[i]].index = other[s[i]].index
    BY <2>1 DEF Alike
  <2> QED
    BY <2>2
<1>3. /\ Children(one, parent) = CHOOSE s \in SetToSeqs(S) : Sorted(one, s)
      /\ Children(other, parent) = CHOOSE s \in SetToSeqs(S) : Sorted(other, s)
  BY <1>1 DEF Children
<1> HIDE DEF S, Sorted
<1> QED
  BY <1>2, <1>3

\* What the walk shows of a node.
ItemOf(nodes, id, depth) ==
  [id |-> id, depth |-> depth,
   name |-> IF id = TreePage THEN "page" ELSE nodes[id].name,
   visible |-> id = TreePage \/ nodes[id].visible,
   locked |-> id # TreePage /\ nodes[id].locked,
   hasChildren |-> \E n \in DOMAIN nodes : nodes[n].parent = id]

RowsOf(nodes, open, walk, at) ==
  <<ItemOf(nodes, at[1], at[2])>> \o
    (IF at[1] \notin open THEN << >>
     ELSE FlattenSeq([i \in DOMAIN Children(nodes, at[1]) |->
                        walk[<<Children(nodes, at[1])[i], at[2] + 1>>]]))

Walks(nodes, open, walk) ==
  walk = [at \in (DOMAIN nodes \cup {TreePage}) \X (0 .. Cardinality(TreeNodes)) |->
            RowsOf(nodes, open, walk, at)]

LEMMA ItemsAreWalked ==
  ASSUME NEW nodes, NEW open
  PROVE  TreeItems(nodes, open) = (CHOOSE walk : Walks(nodes, open, walk))[<<TreePage, 0>>]
BY DEF TreeItems, Walks, RowsOf, ItemOf

LEMMA ItemsAlike ==
  ASSUME NEW one, NEW other, Alike(one, other), NEW open
  PROVE  TreeItems(one, open) = TreeItems(other, open)
<1>1. ASSUME NEW id \in DOMAIN one \cup {TreePage}, NEW depth
      PROVE  ItemOf(one, id, depth) = ItemOf(other, id, depth)
  <2>1. (\E n \in DOMAIN one : one[n].parent = id) <=> (\E n \in DOMAIN other : other[n].parent = id)
    BY DEF Alike
  <2>2. id # TreePage => /\ one[id].name = other[id].name /\ one[id].visible = other[id].visible
                         /\ one[id].locked = other[id].locked
    BY DEF Alike
  <2> QED
    BY <2>1, <2>2 DEF ItemOf
<1>2. ASSUME NEW at, at[1] \in DOMAIN one \cup {TreePage}, NEW walk
      PROVE  RowsOf(one, open, walk, at) = RowsOf(other, open, walk, at)
  <2>1. ItemOf(one, at[1], at[2]) = ItemOf(other, at[1], at[2])
    BY <1>1, <1>2
  <2>2. Children(one, at[1]) = Children(other, at[1])
    BY ChildrenAlike
  <2> QED
    BY <2>1, <2>2 DEF RowsOf
<1>3. DOMAIN one = DOMAIN other
  BY DEF Alike
<1> DEFINE places == (DOMAIN one \cup {TreePage}) \X (0 .. Cardinality(TreeNodes))
<1>4. ASSUME NEW walk PROVE Walks(one, open, walk) <=> Walks(other, open, walk)
  <2>1. \A at \in places : at[1] \in DOMAIN one \cup {TreePage}
    OBVIOUS
  <2> HIDE DEF places
  <2>2. [at \in places |-> RowsOf(one, open, walk, at)] = [at \in places |-> RowsOf(other, open, walk, at)]
    BY <1>2, <2>1
  <2>3. /\ Walks(one, open, walk) <=> walk = [at \in places |-> RowsOf(one, open, walk, at)]
        /\ Walks(other, open, walk) <=> walk = [at \in places |-> RowsOf(other, open, walk, at)]
    BY <1>3 DEF Walks, places
  <2> QED
    BY <2>2, <2>3
<1>5. (CHOOSE walk : Walks(one, open, walk)) = (CHOOSE walk : Walks(other, open, walk))
  BY <1>4
<1> QED
  BY <1>5, ItemsAreWalked

\* The nodes below one depend on the parents only.
Descends(nodes, id, below) ==
  below = [depth \in 0 .. Cardinality(TreeNodes) |->
             IF depth = 0 THEN {id}
             ELSE below[depth - 1] \cup {n \in DOMAIN nodes : nodes[n].parent \in below[depth - 1]}]

LEMMA BelowDescends ==
  ASSUME NEW nodes, NEW id
  PROVE  Below(nodes, id) = (CHOOSE below : Descends(nodes, id, below))[Cardinality(TreeNodes)]
BY DEF Below, Descends

LEMMA BelowAlike ==
  ASSUME NEW one, NEW other, Alike(one, other), NEW id
  PROVE  Below(one, id) = Below(other, id)
<1>1. ASSUME NEW set PROVE {n \in DOMAIN one : one[n].parent \in set} = {n \in DOMAIN other : other[n].parent \in set}
  BY DEF Alike
<1>2. ASSUME NEW below PROVE Descends(one, id, below) <=> Descends(other, id, below)
  BY <1>1 DEF Descends
<1>3. (CHOOSE below : Descends(one, id, below)) = (CHOOSE below : Descends(other, id, below))
  BY <1>2
<1> QED
  BY <1>3, BelowDescends

LEMMA DropsAlike ==
  ASSUME NEW one, NEW other, Alike(one, other), NEW source, NEW target
  PROVE  /\ MayDrop(one, source, target) <=> MayDrop(other, source, target)
         /\ MayDrop(one, source, target) => one[target].index = other[target].index
<1>1. ASSUME NEW id PROVE LockedTreeRecord(one, id) <=> LockedTreeRecord(other, id)
  BY BelowAlike DEF LockedTreeRecord, Alike
<1> QED
  BY <1>1 DEF MayDrop, Alike

-----------------------------------------------------------------------------
\* The rows are those of the document they were built from, which differs from the
\* one there is in layout only.
TreeInv ==
  /\ NodesHaveFields(document) /\ NodesHaveFields(rowsDocument)
  /\ Alike(rowsDocument, document)
  /\ treeRows = TreeItems(rowsDocument, expanded)
  /\ marked = selection \cap ShownIds

LEMMA InitialNodesHaveFields == NodesHaveFields(InitialTree)
<1>1. PICK ids \in SUBSET TreeNodes : InitialTree \in [ids -> TreeRecord]
  BY InitialTreeAssumption
<1>2. \A r \in TreeRecord : HasFields(r)
  BY DEF TreeRecord, HasFields
<1> QED
  BY <1>1, <1>2 DEF NodesHaveFields

LEMMA AlikeItself == ASSUME NEW one PROVE Alike(one, one)
BY DEF Alike

LEMMA BuildKeeps ==
  ASSUME NodesHaveFields(document'), BuildTree
  PROVE  TreeInv'
<1>1. rowsDocument' = document' /\ treeRows' = TreeItems(document', expanded')
      /\ marked' = selection' \cap {treeRows'[i].id : i \in DOMAIN treeRows'}
  BY DEF BuildTree
<1> QED
  BY <1>1, AlikeItself DEF TreeInv, ShownIds

LEMMA SessionKeeps ==
  ASSUME TreeInv, UNCHANGED document, OnSessionChange
  PROVE  TreeInv'
<1>1. CASE expanded' # expanded
  <2>1. BuildTree /\ NodesHaveFields(document')
    BY <1>1 DEF OnSessionChange, TreeInv
  <2> QED
    BY <2>1, BuildKeeps
<1>2. CASE expanded' = expanded
  <2>1. marked' = selection' \cap ShownIds /\ UNCHANGED <<treeRows, rowsDocument>>
    BY <1>2 DEF OnSessionChange
  <2> QED
    BY <1>2, <2>1 DEF TreeInv, ShownIds
<1> QED
  BY <1>1, <1>2

LEMMA CoreKeeps ==
  ASSUME TreeInv, NodesHaveFields(document'), UNCHANGED <<expanded, selection>>, OnCoreChange
  PROVE  TreeInv'
<1>1. CASE TreeNeedsUpdate(document, document')
  BY <1>1, BuildKeeps DEF OnCoreChange
<1>2. CASE ~TreeNeedsUpdate(document, document')
  <2>1. UNCHANGED <<treeRows, rowsDocument, marked>>
    BY <1>2 DEF OnCoreChange
  <2>2. Alike(document, document')
    BY <1>2, AlikeWithoutUpdate DEF TreeInv
  <2>3. Alike(rowsDocument, document')
    BY <2>2, AlikeTransitive DEF TreeInv
  <2> QED
    BY <2>1, <2>3 DEF TreeInv, ShownIds
<1> QED
  BY <1>1, <1>2

LEMMA FieldsChanged ==
  ASSUME NEW r, HasFields(r), NEW v
  PROVE  /\ HasFields([r EXCEPT !.visible = v]) /\ HasFields([r EXCEPT !.locked = v])
         /\ HasFields([r EXCEPT !.name = v]) /\ HasFields([r EXCEPT !.index = v])
         /\ HasFields([r EXCEPT !.place = v])
BY DEF HasFields

LEMMA EditKeeps ==
  ASSUME TreeInv, NEW item, NEW name, EditRow(item, name)
  PROVE  TreeInv'
<1> DEFINE id == item.id
<1>1. /\ id \in DOMAIN document
      /\ \/ document' = [document EXCEPT ![id].visible = ~item.visible]
         \/ document' = [document EXCEPT ![id].locked = ~item.locked]
         \/ document' = [document EXCEPT ![id].name = name]
  BY DEF EditRow
<1>2. NodesHaveFields(document)
  BY DEF TreeInv
<1>3. PICK changed : HasFields(changed) /\ document' = [document EXCEPT ![id] = changed]
  <2> DEFINE visible == ~item.visible
             locked == ~item.locked
             r == document[id]
  <2>1. HasFields(r)
    BY <1>1, <1>2 DEF NodesHaveFields
  <2>2. \/ document' = [document EXCEPT ![id] = [r EXCEPT !.visible = visible]]
        \/ document' = [document EXCEPT ![id] = [r EXCEPT !.locked = locked]]
        \/ document' = [document EXCEPT ![id] = [r EXCEPT !.name = name]]
    BY <1>1
  <2> HIDE DEF visible, locked, r
  <2>3. /\ HasFields([r EXCEPT !.visible = visible]) /\ HasFields([r EXCEPT !.locked = locked])
        /\ HasFields([r EXCEPT !.name = name])
    BY <2>1, FieldsChanged
  <2> QED
    BY <2>2, <2>3
<1>4. NodesHaveFields(document')
  BY <1>2, <1>3 DEF NodesHaveFields
<1> QED
  BY <1>4, CoreKeeps DEF EditRow

LEMMA DeleteKeeps ==
  ASSUME TreeInv, NEW item, DeleteRow(item)
  PROVE  TreeInv'
<1>1. NodesHaveFields(document')
  BY DEF DeleteRow, NodesHaveFields, TreeInv
<1> QED
  BY <1>1, BuildKeeps DEF DeleteRow

LEMMA DropKeeps ==
  ASSUME TreeInv, NEW source, NEW target, DropRow(source, target)
  PROVE  TreeInv'
<1> DEFINE targetIndex == rowsDocument[target].index
           sourceIndex == document[source].index
<1>1. document' = [n \in DOMAIN document |->
       CASE n = source -> [document[n] EXCEPT !.index = targetIndex]
         [] n # source /\ document[n].parent = document[source].parent
              /\ document[n].index = targetIndex ->
              [document[n] EXCEPT !.index = sourceIndex]
         [] OTHER -> document[n]]
  BY DEF DropRow
<1> HIDE DEF targetIndex, sourceIndex
<1>2. ASSUME NEW n \in DOMAIN document PROVE HasFields(document'[n])
  <2> DEFINE r == document[n]
             up == [r EXCEPT !.index = targetIndex]
             down == [r EXCEPT !.index = sourceIndex]
  <2>1. HasFields(r)
    BY DEF TreeInv, NodesHaveFields
  <2>2. document'[n] \in {up, down, r}
    BY <1>1
  <2> HIDE DEF r
  <2>3. HasFields(up) /\ HasFields(down)
    BY <2>1, FieldsChanged
  <2> QED
    BY <2>1, <2>2, <2>3
<1>3. NodesHaveFields(document')
  BY <1>1, <1>2 DEF NodesHaveFields
<1> QED
  BY <1>3, CoreKeeps DEF DropRow

LEMMA OtherChangeKeeps ==
  ASSUME TreeInv, OtherChange
  PROVE  TreeInv'
<1>1. NodesHaveFields(document)
  BY DEF TreeInv
<1>2. ASSUME NEW n \in DOMAIN document, document' = [document EXCEPT ![n].place = 1 - @]
      PROVE  NodesHaveFields(document')
  <2> DEFINE r == document[n]
             v == 1 - r.place
  <2>1. document' = [document EXCEPT ![n] = [r EXCEPT !.place = v]] /\ HasFields(r)
    BY <1>1, <1>2 DEF NodesHaveFields
  <2> HIDE DEF r, v
  <2>2. HasFields([r EXCEPT !.place = v])
    BY <2>1, FieldsChanged
  <2> DEFINE changed == [r EXCEPT !.place = v]
  <2> HIDE DEF changed
  <2>3. document' = [document EXCEPT ![n] = changed] /\ HasFields(changed)
    BY <2>1, <2>2 DEF changed
  <2> QED
    BY <1>1, <2>3 DEF NodesHaveFields
<1>3. ASSUME NEW n \in TreeNodes \ DOMAIN document,
             document' = [m \in DOMAIN document \cup {n} |->
               IF m = n THEN [parent |-> TreePage, name |-> CHOOSE name \in Names : TRUE, visible |-> TRUE,
                              locked |-> FALSE, place |-> 0,
                              index |-> 1 + Max({document[o].index : o \in DOMAIN document} \cup {0})]
               ELSE document[m]]
      PROVE  NodesHaveFields(document')
  <2> DEFINE name == CHOOSE name \in Names : TRUE
             index == 1 + Max({document[o].index : o \in DOMAIN document} \cup {0})
             new == [parent |-> TreePage, name |-> name, visible |-> TRUE,
                     locked |-> FALSE, place |-> 0, index |-> index]
  <2>1. document' = [m \in DOMAIN document \cup {n} |-> IF m = n THEN new ELSE document[m]]
    BY <1>3
  <2> HIDE DEF name, index
  <2>2. HasFields(new)
    BY DEF HasFields
  <2> HIDE DEF new
  <2> QED
    BY <1>1, <2>1, <2>2 DEF NodesHaveFields
<1>4. NodesHaveFields(document')
  BY <1>2, <1>3, InitialNodesHaveFields DEF OtherChange
<1> QED
  BY <1>4, CoreKeeps DEF OtherChange

LEMMA TreeInvStep ==
  ASSUME TreeInv, [TreeNext]_treeVars
  PROVE  TreeInv'
<1>1. ASSUME NEW item, NEW modifier, ClickRow(item, modifier) PROVE TreeInv'
  BY <1>1, SessionKeeps DEF ClickRow
<1>2. ASSUME NEW item, KeyOnRow(item) PROVE TreeInv'
  BY <1>2, SessionKeeps DEF KeyOnRow
<1>3. CASE OtherSelection
  BY <1>3, SessionKeeps DEF OtherSelection
<1>4. CASE UNCHANGED treeVars
  BY <1>4 DEF treeVars, TreeInv, ShownIds
<1> QED
  BY <1>1, <1>2, <1>3, <1>4, EditKeeps, DeleteKeeps, DropKeeps, OtherChangeKeeps DEF TreeNext, RowInput

\* The scene panel's tree: no change of a document passes the tree by that its rows,
\* what is selected in them, or a drop that they allow, depends on, for any nodes
\* and any document there is at first.
THEOREM TreeIsCurrent == TreeSpec => []TreeShowsDocument
<1>1. TreeInit => TreeInv
  BY InitialNodesHaveFields, AlikeItself DEF TreeInit, TreeInv, ShownIds
<1>2. TreeInv /\ [TreeNext]_treeVars => TreeInv'
  BY TreeInvStep
<1>3. TreeInv => TreeShowsDocument
  <2> SUFFICES ASSUME TreeInv PROVE TreeShowsDocument
    OBVIOUS
  <2>1. Alike(rowsDocument, document)
    BY DEF TreeInv
  <2>2. treeRows = TreeItems(document, expanded)
    BY <2>1, ItemsAlike DEF TreeInv
  <2> QED
    BY <2>1, <2>2, DropsAlike DEF TreeInv, TreeShowsDocument
<1> QED
  BY <1>1, <1>2, <1>3, PTL DEF TreeSpec

-----------------------------------------------------------------------------
(* The document stays a tree.                                              *)

Under(nodes, set) == {n \in DOMAIN nodes : nodes[n].parent \in set}

\* The steps down from a node, as many as asked.
StepsTo(nodes, id, k, below) ==
  below = [depth \in 0 .. k |->
             IF depth = 0 THEN {id} ELSE below[depth - 1] \cup Under(nodes, below[depth - 1])]

LEMMA StepsAre ==
  ASSUME NEW nodes, NEW id, NEW k \in Nat, NEW below, StepsTo(nodes, id, k, below)
  PROVE  /\ DOMAIN below = 0 .. k /\ below[0] = {id}
         /\ \A d \in 1 .. k : below[d] = below[d - 1] \cup Under(nodes, below[d - 1])
<1> DEFINE Step(d) == IF d = 0 THEN {id} ELSE below[d - 1] \cup Under(nodes, below[d - 1])
<1>1. below = [d \in 0 .. k |-> Step(d)]
  BY DEF StepsTo
<1> HIDE DEF Step
<1>2. DOMAIN below = 0 .. k /\ \A d \in 0 .. k : below[d] = Step(d)
  BY <1>1
<1> USE DEF Step
<1>3. below[0] = {id}
  BY <1>2
<1>4. ASSUME NEW d \in 1 .. k PROVE below[d] = below[d - 1] \cup Under(nodes, below[d - 1])
  <2>1. d \in 0 .. k /\ d # 0
    OBVIOUS
  <2> QED
    BY <1>2, <2>1
<1> QED
  BY <1>2, <1>3, <1>4

LEMMA StepsExist ==
  ASSUME NEW nodes, NEW id, NEW k \in Nat
  PROVE  \E below : StepsTo(nodes, id, k, below)
<1> DEFINE T == {j \in Nat : ~\E below : StepsTo(nodes, id, j, below)}
<1> SUFFICES ASSUME k \in T PROVE FALSE
  OBVIOUS
<1>1. PICK j \in T : \A i \in T : j <= i
  <2>1. T \in SUBSET Nat /\ T # {}
    OBVIOUS
  <2> HIDE DEF T
  <2> QED
    BY <2>1, LeastNumber
<1>2. j # 0
  <2> DEFINE below == [depth \in 0 .. 0 |-> {id}]
  <2>1. StepsTo(nodes, id, 0, below)
    BY DEF StepsTo
  <2> HIDE DEF below
  <2> QED
    BY <1>1, <2>1
<1>3. j - 1 \in Nat /\ j - 1 \notin T /\ j \in Nat
  BY <1>1, <1>2
<1>4. PICK before : StepsTo(nodes, id, j - 1, before)
  BY <1>3
<1>5. PICK last : last = before[j - 1] \cup Under(nodes, before[j - 1])
  OBVIOUS
<1> DEFINE below == [depth \in 0 .. j |-> IF depth = j THEN last ELSE before[depth]]
<1>6. /\ before[0] = {id}
      /\ \A d \in 1 .. j - 1 : before[d] = before[d - 1] \cup Under(nodes, before[d - 1])
  BY <1>3, <1>4, StepsAre
<1>7. ASSUME NEW d \in 0 .. j
      PROVE  below[d] = IF d = 0 THEN {id} ELSE below[d - 1] \cup Under(nodes, below[d - 1])
  <2>1. CASE d = 0
    BY <1>2, <1>3, <1>6, <2>1
  <2>2. CASE d \in 1 .. j - 1
    <3>1. below[d] = before[d] /\ below[d - 1] = before[d - 1] /\ d # 0
      BY <1>3, <2>2
    <3> HIDE DEF below
    <3> QED
      BY <1>6, <2>2, <3>1
  <2>3. CASE d = j
    <3>1. below[d] = last /\ below[d - 1] = before[j - 1] /\ d # 0
      BY <1>2, <1>3, <2>3
    <3> HIDE DEF below
    <3> QED
      BY <1>5, <3>1
  <2> QED
    BY <1>3, <2>1, <2>2, <2>3
<1>8. DOMAIN below = 0 .. j
  OBVIOUS
<1>9. below = [depth \in 0 .. j |-> below[depth]]
  OBVIOUS
<1> HIDE DEF below, T
<1>10. StepsTo(nodes, id, j, below)
  BY <1>7, <1>9 DEF StepsTo
<1> QED
  BY <1>1, <1>10 DEF T

LEMMA BelowIsReached ==
  ASSUME NEW nodes, NEW id
  PROVE  /\ Cardinality(TreeNodes) \in Nat
         /\ \E below : /\ StepsTo(nodes, id, Cardinality(TreeNodes), below)
                       /\ Below(nodes, id) = below[Cardinality(TreeNodes)]
<1>1. Cardinality(TreeNodes) \in Nat
  BY InitialTreeAssumption, FS_CardinalityType
<1>2. ASSUME NEW below
      PROVE  Descends(nodes, id, below) <=> StepsTo(nodes, id, Cardinality(TreeNodes), below)
  BY DEF Descends, StepsTo, Under
<1>3. PICK below : Descends(nodes, id, below) /\ below = CHOOSE g : Descends(nodes, id, g)
  BY <1>1, <1>2, StepsExist
<1> QED
  BY <1>1, <1>2, <1>3, BelowDescends

\* What is below a node has its children in it.
LEMMA BelowIsClosed ==
  ASSUME NEW nodes, DOMAIN nodes \subseteq TreeNodes, NEW id \in DOMAIN nodes
  PROVE  Under(nodes, Below(nodes, id)) \subseteq Below(nodes, id)
<1>1. PICK N \in Nat : N = Cardinality(TreeNodes)
  BY BelowIsReached
<1>2. PICK below : StepsTo(nodes, id, N, below) /\ Below(nodes, id) = below[N]
  BY <1>1, BelowIsReached
<1>3. /\ below[0] = {id}
      /\ \A d \in 1 .. N : below[d] = below[d - 1] \cup Under(nodes, below[d - 1])
  BY <1>2, StepsAre
<1>4. /\ IsFiniteSet(DOMAIN nodes)
      /\ \A S \in SUBSET (DOMAIN nodes) : IsFiniteSet(S) /\ Cardinality(S) \in Nat /\ Cardinality(S) <= N
  <2>1. IsFiniteSet(TreeNodes)
    BY InitialTreeAssumption
  <2>2. \A S \in SUBSET TreeNodes : IsFiniteSet(S) /\ Cardinality(S) <= N
    BY <1>1, <2>1, FS_Subset
  <2>3. \A S \in SUBSET TreeNodes : Cardinality(S) \in Nat
    BY <2>2, FS_CardinalityType
  <2> QED
    BY <2>2, <2>3
<1> SUFFICES ASSUME ~(Under(nodes, below[N]) \subseteq below[N]) PROVE FALSE
  BY <1>2
<1> DEFINE Grows(d) == below[d] \subseteq DOMAIN nodes /\ d + 1 <= Cardinality(below[d])
           T == {d \in 0 .. N : ~Grows(d)}
<1>5. CASE T = {}
  <2>1. Grows(N)
    BY <1>5
  <2> QED
    BY <1>4, <2>1
<1>6. CASE T # {}
  <2>1. PICK d \in T : \A e \in T : d <= e
    <3>1. T \in SUBSET Nat
      OBVIOUS
    <3> HIDE DEF T
    <3> QED
      BY <1>6, <3>1, LeastNumber
  <2>2. d # 0
    <3>1. Cardinality({id}) = 1
      BY FS_Singleton
    <3>2. Grows(0)
      BY <1>3, <3>1
    <3> QED
      BY <2>1, <3>2
  <2>3. d \in 1 .. N /\ d - 1 \in 0 .. N /\ d - 1 \notin T
    BY <2>1, <2>2
  <2>4. /\ below[d] = below[d - 1] \cup Under(nodes, below[d - 1])
        /\ below[d - 1] \subseteq DOMAIN nodes /\ d <= Cardinality(below[d - 1])
    <3>1. Grows(d - 1)
      BY <2>3
    <3> QED
      BY <1>3, <2>3, <3>1
  <2>5. below[d] \subseteq DOMAIN nodes /\ below[d - 1] \subseteq below[d]
    BY <2>4 DEF Under
  <2>6. Cardinality(below[d]) <= d
    <3>1. ~Grows(d)
      BY <2>1
    <3>2. Cardinality(below[d]) \in Nat
      BY <1>4, <2>5
    <3> QED
      BY <2>3, <2>5, <3>1, <3>2
  <2>7. below[d] = below[d - 1]
    <3>1. IsFiniteSet(below[d]) /\ Cardinality(below[d]) \in Nat /\ Cardinality(below[d - 1]) \in Nat
      BY <1>4, <2>4, <2>5
    <3>2. Cardinality(below[d - 1]) <= Cardinality(below[d])
          /\ (Cardinality(below[d]) = Cardinality(below[d - 1]) => below[d] = below[d - 1])
      BY <2>5, <3>1, FS_Subset
    <3> QED
      BY <2>3, <2>4, <2>6, <3>1, <3>2
  <2>8. PICK S : S = below[d] /\ Under(nodes, S) \subseteq S
    BY <2>4, <2>7
  <2> DEFINE U == {e \in d .. N : below[e] # S}
  <2>9. CASE U = {}
    <3>1. below[N] = S
      BY <2>3, <2>9
    <3> QED
      BY <2>8, <3>1
  <2>10. CASE U # {}
    <3>1. PICK e \in U : \A f \in U : e <= f
      <4>1. U \in SUBSET Nat
        BY <2>3
      <4> HIDE DEF U
      <4> QED
        BY <2>10, <4>1, LeastNumber
    <3>2. e # d /\ e \in d .. N
      BY <2>8, <3>1
    <3>3. e \in 1 .. N /\ e - 1 \in d .. N /\ e - 1 \notin U
      BY <2>3, <3>1, <3>2
    <3>4. below[e - 1] = S
      BY <3>3
    <3>5. below[e] = S
      BY <1>3, <2>8, <3>3, <3>4
    <3> QED
      BY <3>1, <3>5
  <2> QED
    BY <2>9, <2>10
<1> QED
  BY <1>5, <1>6


\* The document is a tree and its indexes are numbers.
TreeShape ==
  /\ ValidTree(document)
  /\ \A n \in DOMAIN document : document[n].index \in Int

\* What has the parents and the indexes of a tree is one.
LEMMA ShapeSame ==
  ASSUME TreeShape, DOMAIN document' = DOMAIN document,
         \A n \in DOMAIN document : /\ document'[n].parent = document[n].parent
                                    /\ document'[n].index = document[n].index
  PROVE  TreeShape'
<1>1. ASSUME NEW some \in SUBSET DOMAIN document', some # {}
      PROVE  \E n \in some : document'[n].parent \notin some
  <2>1. PICK n \in some : document[n].parent \notin some
    BY <1>1 DEF TreeShape, ValidTree
  <2> QED
    BY <2>1
<1> QED
  BY <1>1 DEF TreeShape, ValidTree

LEMMA EditShape ==
  ASSUME TreeInv, TreeShape, NEW item, NEW name, EditRow(item, name)
  PROVE  TreeShape'
<1> DEFINE id == item.id
<1>1. /\ id \in DOMAIN document
      /\ \/ document' = [document EXCEPT ![id].visible = ~item.visible]
         \/ document' = [document EXCEPT ![id].locked = ~item.locked]
         \/ document' = [document EXCEPT ![id].name = name]
  BY DEF EditRow
<1>2. HasFields(document[id])
  BY <1>1 DEF TreeInv, NodesHaveFields
<1>3. PICK changed : /\ changed.parent = document[id].parent /\ changed.index = document[id].index
                     /\ document' = [document EXCEPT ![id] = changed]
  <2> DEFINE visible == ~item.visible
             locked == ~item.locked
             r == document[id]
  <2>1. \/ document' = [document EXCEPT ![id] = [r EXCEPT !.visible = visible]]
        \/ document' = [document EXCEPT ![id] = [r EXCEPT !.locked = locked]]
        \/ document' = [document EXCEPT ![id] = [r EXCEPT !.name = name]]
    BY <1>1
  <2>2. HasFields(r)
    BY <1>2
  <2> HIDE DEF visible, locked, r
  <2>3. /\ [r EXCEPT !.visible = visible].parent = r.parent /\ [r EXCEPT !.visible = visible].index = r.index
        /\ [r EXCEPT !.locked = locked].parent = r.parent /\ [r EXCEPT !.locked = locked].index = r.index
        /\ [r EXCEPT !.name = name].parent = r.parent /\ [r EXCEPT !.name = name].index = r.index
    BY <2>2 DEF HasFields
  <2>4. PICK changed : /\ changed.parent = r.parent /\ changed.index = r.index
                       /\ document' = [document EXCEPT ![id] = changed]
    BY <2>1, <2>3
  <2> QED
    BY <2>4 DEF r
<1>4. /\ DOMAIN document' = DOMAIN document
      /\ \A n \in DOMAIN document : /\ document'[n].parent = document[n].parent
                                    /\ document'[n].index = document[n].index
  BY <1>1, <1>3
<1> QED
  BY <1>4, ShapeSame

\* A node goes with everything below it, so no node is left without its parent.
LEMMA DeleteShape ==
  ASSUME TreeShape, NEW item, DeleteRow(item)
  PROVE  TreeShape'
<1>1. PICK gone : gone = Below(document, item.id)
  OBVIOUS
<1>2. /\ item.id \in DOMAIN document
      /\ document' = [n \in DOMAIN document \ gone |-> document[n]]
  BY <1>1 DEF DeleteRow
<1>3. DOMAIN document \subseteq TreeNodes
  BY DEF TreeShape, ValidTree
<1>4. \A n \in DOMAIN document : document[n].parent \in gone => n \in gone
  BY <1>1, <1>2, <1>3, BelowIsClosed DEF Under
<1>5. DOMAIN document' = DOMAIN document \ gone /\ \A n \in DOMAIN document' : document'[n] = document[n]
  BY <1>2
<1>6. ASSUME NEW some \in SUBSET DOMAIN document', some # {}
      PROVE  \E n \in some : document'[n].parent \notin some
  <2>1. some \in SUBSET DOMAIN document
    BY <1>5
  <2>2. PICK n \in some : document[n].parent \notin some
    BY <1>6, <2>1 DEF TreeShape, ValidTree
  <2> QED
    BY <1>5, <2>2
<1> QED
  BY <1>4, <1>5, <1>6 DEF TreeShape, ValidTree

\* The dropped row and the one it is dropped on swap their indexes.
LEMMA DropShape ==
  ASSUME TreeInv, TreeShape, NEW source, NEW target, DropRow(source, target)
  PROVE  TreeShape'
<1>1. MayDrop(document, source, target) /\ rowsDocument[target].index = document[target].index
  BY DropsAlike DEF TreeInv, DropRow
<1>2. PICK from, to : from = document[source].index /\ to = document[target].index
  OBVIOUS
<1>3. /\ source \in DOMAIN document /\ target \in DOMAIN document /\ source # target
      /\ document[source].parent = document[target].parent
      /\ from \in Int /\ to \in Int
  BY <1>1, <1>2 DEF MayDrop, TreeShape
<1>4. document' = [n \in DOMAIN document |->
       CASE n = source -> [document[n] EXCEPT !.index = to]
         [] n # source /\ document[n].parent = document[source].parent /\ document[n].index = to ->
              [document[n] EXCEPT !.index = from]
         [] OTHER -> document[n]]
  BY <1>1, <1>2, Zenon DEF DropRow
<1>5. \A n \in DOMAIN document :
        (n # source /\ document[n].parent = document[source].parent /\ document[n].index = to) <=> n = target
  BY <1>2, <1>3 DEF TreeShape, ValidTree
<1>6. ASSUME NEW n \in DOMAIN document
      PROVE  /\ document'[n].parent = document[n].parent
             /\ document'[n].index = IF n = source THEN to ELSE IF n = target THEN from ELSE document[n].index
  <2>1. HasFields(document[n])
    BY DEF TreeInv, NodesHaveFields
  <2>2. /\ [document[n] EXCEPT !.index = to].parent = document[n].parent
        /\ [document[n] EXCEPT !.index = to].index = to
        /\ [document[n] EXCEPT !.index = from].parent = document[n].parent
        /\ [document[n] EXCEPT !.index = from].index = from
    BY <2>1 DEF HasFields
  <2>3. CASE n = source
    BY <1>4, <2>2, <2>3
  <2>4. CASE n = target
    BY <1>3, <1>4, <1>5, <2>2, <2>4
  <2>5. CASE n # source /\ n # target
    BY <1>4, <1>5, <2>5
  <2> QED
    BY <1>3, <2>3, <2>4, <2>5
<1>7. DOMAIN document' = DOMAIN document
  BY <1>4
<1>8. \A n \in DOMAIN document' : document'[n].index \in Int
  BY <1>3, <1>6, <1>7 DEF TreeShape
<1>9. ASSUME NEW m \in DOMAIN document, NEW n \in DOMAIN document,
             document'[m].parent = document'[n].parent, document'[m].index = document'[n].index
      PROVE  m = n
  <2>1. document[m].parent = document[n].parent
    BY <1>6, <1>9
  <2>2. \A k, l \in DOMAIN document : document[k].parent = document[l].parent
                                      /\ document[k].index = document[l].index => k = l
    BY DEF TreeShape, ValidTree
  <2> QED
    BY <1>2, <1>3, <1>6, <1>9, <2>1, <2>2
<1>10. ASSUME NEW some \in SUBSET DOMAIN document', some # {}
       PROVE  \E n \in some : document'[n].parent \notin some
  <2>1. PICK n \in some : document[n].parent \notin some
    BY <1>7, <1>10 DEF TreeShape, ValidTree
  <2> QED
    BY <1>6, <1>7, <2>1
<1>11. ValidTree(document)'
  BY <1>6, <1>7, <1>9, <1>10 DEF TreeShape, ValidTree
<1> QED
  BY <1>8, <1>11 DEF TreeShape

\* A new node has an index beyond those of all nodes.
LEMMA NewIndex ==
  ASSUME TreeShape
  PROVE  LET index == 1 + Max({document[o].index : o \in DOMAIN document} \cup {0})
         IN  index \in Int /\ \A n \in DOMAIN document : document[n].index < index
<1> DEFINE D == DOMAIN document
           S == {document[o].index : o \in D} \cup {0}
<1>1. IsFiniteSet(D)
  BY InitialTreeAssumption, FS_Subset DEF TreeShape, ValidTree
<1>2. \A n \in D : document[n].index \in Int
  BY DEF TreeShape
<1>3. PICK m \in Int : m \in S /\ \A e \in S : e <= m
  <2>1. CASE D = {}
    <3>1. S = {0}
      BY <2>1
    <3> QED
      BY <3>1
  <2>2. CASE D # {}
    <3> DEFINE f == [n \in D |-> 0 - document[n].index]
    <3>1. f \in [D -> Int]
      BY <1>2
    <3>2. PICK k \in D : \A n \in D : f[k] <= f[n]
      <4> HIDE DEF f, D
      <4> QED
        BY <1>1, <2>2, <3>1, LeastAt
    <3>3. \A n \in D : document[n].index <= document[k].index
      BY <1>2, <3>2
    <3>4. CASE document[k].index >= 0
      BY <1>2, <3>3, <3>4
    <3>5. CASE ~(document[k].index >= 0)
      BY <1>2, <3>3, <3>5
    <3> QED
      BY <3>4, <3>5
  <2> QED
    BY <2>1, <2>2
<1>4. S \in SUBSET Int
  BY <1>2
<1>5. Max(S) = m
  BY ONLY <1>3, <1>4, LargestIs
<1>6. \A n \in D : document[n].index \in S
  OBVIOUS
<1> HIDE DEF S
<1>7. 1 + Max(S) \in Int /\ \A n \in D : document[n].index < 1 + Max(S)
  BY <1>2, <1>3, <1>5, <1>6
<1> QED
  BY <1>7 DEF S

LEMMA OtherChangeShape ==
  ASSUME TreeInv, TreeShape, OtherChange
  PROVE  TreeShape'
<1>1. ASSUME NEW n \in DOMAIN document, document' = [document EXCEPT ![n].place = 1 - @]
      PROVE  TreeShape'
  <2>1. PICK r, v : r = document[n] /\ v = 1 - r.place
    OBVIOUS
  <2>2. document' = [document EXCEPT ![n] = [r EXCEPT !.place = v]] /\ HasFields(r)
    BY <1>1, <2>1 DEF TreeInv, NodesHaveFields
  <2>3. PICK changed : changed = [r EXCEPT !.place = v]
    OBVIOUS
  <2>4. changed.parent = r.parent /\ changed.index = r.index
    BY <2>2, <2>3 DEF HasFields
  <2>5. document' = [document EXCEPT ![n] = changed]
    BY <2>2, <2>3
  <2>6. /\ DOMAIN document' = DOMAIN document
        /\ \A m \in DOMAIN document : /\ document'[m].parent = document[m].parent
                                      /\ document'[m].index = document[m].index
    BY <2>1, <2>4, <2>5
  <2> QED
    BY <2>6, ShapeSame
<1>2. CASE document' = InitialTree
  <2>1. PICK ids \in SUBSET TreeNodes : InitialTree \in [ids -> TreeRecord]
    BY InitialTreeAssumption
  <2>2. \A n \in DOMAIN InitialTree : InitialTree[n].index \in Int
    BY <2>1 DEF TreeRecord
  <2> QED
    BY <1>2, <2>2, InitialTreeAssumption DEF TreeShape, ValidTree
<1>3. ASSUME NEW n \in TreeNodes \ DOMAIN document,
             document' = [m \in DOMAIN document \cup {n} |->
               IF m = n THEN [parent |-> TreePage, name |-> CHOOSE name \in Names : TRUE, visible |-> TRUE,
                              locked |-> FALSE, place |-> 0,
                              index |-> 1 + Max({document[o].index : o \in DOMAIN document} \cup {0})]
               ELSE document[m]]
      PROVE  TreeShape'
  <2>1. PICK index \in Int : /\ index = 1 + Max({document[o].index : o \in DOMAIN document} \cup {0})
                             /\ \A m \in DOMAIN document : document[m].index < index
    BY NewIndex
  <2>2. PICK new : new = [parent |-> TreePage, name |-> CHOOSE name \in Names : TRUE, visible |-> TRUE,
                          locked |-> FALSE, place |-> 0, index |-> index]
    OBVIOUS
  <2>3. document' = [m \in DOMAIN document \cup {n} |-> IF m = n THEN new ELSE document[m]]
    BY <1>3, <2>1, <2>2
  <2>4. new.parent = TreePage /\ new.index = index
    BY <2>2
  <2>5. /\ DOMAIN document' = DOMAIN document \cup {n} /\ document'[n] = new
        /\ \A m \in DOMAIN document : document'[m] = document[m] /\ m # n /\ document'[m].index < index
    BY <2>1, <2>3
  <2>6. \A m \in DOMAIN document : document[m].index \in Int
    BY DEF TreeShape
  <2>7. ASSUME NEW m \in DOMAIN document', NEW k \in DOMAIN document',
               document'[m].parent = document'[k].parent, document'[m].index = document'[k].index
        PROVE  m = k
    <3>1. CASE m \in DOMAIN document /\ k \in DOMAIN document
      BY <2>5, <2>7, <3>1 DEF TreeShape, ValidTree
    <3>2. CASE m = n /\ k \in DOMAIN document
      BY <2>1, <2>4, <2>5, <2>6, <2>7, <3>2
    <3>3. CASE m \in DOMAIN document /\ k = n
      BY <2>1, <2>4, <2>5, <2>6, <2>7, <3>3
    <3> QED
      BY <2>5, <3>1, <3>2, <3>3
  <2>8. ASSUME NEW some \in SUBSET DOMAIN document', some # {}
        PROVE  \E m \in some : document'[m].parent \notin some
    <3>1. CASE n \in some
      <4>1. document'[n].parent = TreePage /\ TreePage \notin some
        BY <2>4, <2>5, InitialTreeAssumption DEF TreeShape, ValidTree
      <4> QED
        BY <3>1, <4>1
    <3>2. CASE n \notin some
      <4>1. some \in SUBSET DOMAIN document /\ \A m \in some : document'[m] = document[m]
        BY <2>5, <3>2
      <4>2. PICK m \in some : document[m].parent \notin some
        BY <2>8, <4>1 DEF TreeShape, ValidTree
      <4> QED
        BY <4>1, <4>2
    <3> QED
      BY <3>1, <3>2
  <2>9. DOMAIN document' \subseteq TreeNodes
        /\ \A m \in DOMAIN document' : /\ document'[m].parent \in DOMAIN document' \cup {TreePage}
                                       /\ document'[m].index \in Int
    BY <2>1, <2>4, <2>5, <2>6 DEF TreeShape, ValidTree
  <2> QED
    BY <2>7, <2>8, <2>9 DEF TreeShape, ValidTree
<1> QED
  BY <1>1, <1>2, <1>3 DEF OtherChange

LEMMA TreeShapeStep ==
  ASSUME TreeInv, TreeShape, [TreeNext]_treeVars
  PROVE  TreeShape'
<1>1. ASSUME UNCHANGED document PROVE TreeShape'
  BY <1>1 DEF TreeShape, ValidTree
<1>2. ASSUME NEW item, NEW modifier, ClickRow(item, modifier) PROVE TreeShape'
  BY <1>1, <1>2 DEF ClickRow
<1>3. ASSUME NEW item, KeyOnRow(item) PROVE TreeShape'
  BY <1>1, <1>3 DEF KeyOnRow
<1>4. CASE OtherSelection
  BY <1>1, <1>4 DEF OtherSelection
<1>5. CASE UNCHANGED treeVars
  BY <1>1, <1>5 DEF treeVars
<1> QED
  BY <1>2, <1>3, <1>4, <1>5, EditShape, DeleteShape, DropShape, OtherChangeShape DEF TreeNext, RowInput

\* No node is left without its parent or below itself, and no two siblings have an
\* index, whatever is edited, deleted and dropped in the scene panel.
THEOREM TreeStaysATree == TreeSpec => []TreeTypeOK
<1>1. TreeInit => TreeInv /\ TreeShape
  <2>1. PICK ids \in SUBSET TreeNodes : InitialTree \in [ids -> TreeRecord]
    BY InitialTreeAssumption
  <2>2. \A n \in DOMAIN InitialTree : InitialTree[n].index \in Int
    BY <2>1 DEF TreeRecord
  <2>3. TreeInit => TreeShape
    BY <2>2, InitialTreeAssumption DEF TreeInit, TreeShape, ValidTree
  <2> QED
    BY <2>3, InitialNodesHaveFields, AlikeItself DEF TreeInit, TreeInv, ShownIds
<1>2. TreeInv /\ TreeShape /\ [TreeNext]_treeVars => TreeInv' /\ TreeShape'
  BY TreeInvStep, TreeShapeStep
<1>3. TreeShape => TreeTypeOK
  BY DEF TreeShape, TreeTypeOK
<1> QED
  BY <1>1, <1>2, <1>3, PTL DEF TreeSpec

-----------------------------------------------------------------------------
(***************************************************************************)
(* The retention of the log.                                               *)
(***************************************************************************)

Ended == [id : SessionIds, endedAt : 0 .. LastTime]

\* The sessions that ended are of the history.
HistoryInv ==
  /\ everEnded \subseteq Ended
  /\ DOMAIN sessions \subseteq SessionIds
  /\ recovering \subseteq SessionIds
  /\ \A id \in DOMAIN sessions :
       sessions[id].status = "ended" => [id |-> id, endedAt |-> sessions[id].endedAt] \in everEnded

\* What a run listed ended, and before what it took for the newest.
ListInv(retention) ==
  /\ DOMAIN retention = {"stage", "completed", "newest", "usage"}
  /\ retention.completed \subseteq everEnded
  /\ \A ended \in retention.completed :
       ended # retention.newest => /\ retention.newest \in everEnded
                                   /\ Before(ended, retention.newest)

RunsInv == DOMAIN retentions = Runs /\ \A run \in Runs : ListInv(retentions[run])

RetentionInv == HistoryInv /\ RunsInv /\ NewestEndedKept

\* Before is a strict order.
LEMMA BeforeIsStrict ==
  ASSUME NEW a \in Ended, NEW b \in Ended, Before(a, b)
  PROVE  ~Before(b, a)
<1>1. a.id \in Nat /\ b.id \in Nat
  BY RetentionAssumption DEF Ended
<1>2. a.endedAt \in Int /\ b.endedAt \in Int
  BY RetentionAssumption DEF Ended
<1> QED
  BY <1>1, <1>2 DEF Before

LEMMA RetentionInitInv == RetentionInit => RetentionInv
BY RetentionAssumption DEF RetentionInit, RetentionInv, HistoryInv, RunsInv, ListInv, NewestEndedKept

\* The history only grows, so what was said of a list stays true.
LEMMA ListsStay ==
  ASSUME RunsInv, everEnded \subseteq everEnded', UNCHANGED retentions
  PROVE  RunsInv'
BY DEF RunsInv, ListInv, Before

\* A record that is written leaves the others as they were.
LEMMA PutKeepsHistory ==
  ASSUME HistoryInv, NEW id \in SessionIds, NEW status, NEW time, PutSession(id, status, time),
         everEnded \subseteq everEnded', everEnded' \subseteq Ended, recovering' \subseteq SessionIds,
         status = "ended" => [id |-> id, endedAt |-> time] \in everEnded'
  PROVE  HistoryInv' /\ DOMAIN sessions' = DOMAIN sessions \cup {id}
<1>1. PICK bytes \in 1 .. MaxBytes :
        sessions' = [x \in DOMAIN sessions \cup {id} |->
          IF x = id THEN [status |-> status, endedAt |-> time, bytes |-> bytes] ELSE sessions[x]]
  BY DEF PutSession
<1>2. DOMAIN sessions' = DOMAIN sessions \cup {id}
  BY <1>1
<1>3. ASSUME NEW x \in DOMAIN sessions', sessions'[x].status = "ended"
      PROVE  [id |-> x, endedAt |-> sessions'[x].endedAt] \in everEnded'
  <2>1. CASE x = id
    <3>1. sessions'[x].status = status /\ sessions'[x].endedAt = time
      BY <1>1, <1>2, <2>1
    <3> QED
      BY <1>3, <2>1, <3>1
  <2>2. CASE x # id
    <3>1. x \in DOMAIN sessions /\ sessions'[x] = sessions[x]
      BY <1>1, <1>2, <2>2
    <3> QED
      BY <1>3, <3>1 DEF HistoryInv
  <2> QED
    BY <2>1, <2>2
<1>4. DOMAIN sessions' \subseteq SessionIds
  BY <1>2 DEF HistoryInv
<1> QED
  BY <1>2, <1>3, <1>4 DEF HistoryInv

LEMMA StartKeeps ==
  ASSUME RetentionInv, NEW id \in SessionIds, StartSession(id)
  PROVE  RetentionInv'
<1>1. PutSession(id, "active", 0) /\ UNCHANGED <<retentions, recovering, everEnded>>
  BY DEF StartSession
<1>2. HistoryInv' /\ DOMAIN sessions' = DOMAIN sessions \cup {id}
  BY <1>1, PutKeepsHistory DEF RetentionInv, HistoryInv
<1>3. RunsInv'
  BY <1>1, ListsStay DEF RetentionInv
<1>4. NewestEndedKept'
  BY <1>1, <1>2 DEF RetentionInv, NewestEndedKept, Before
<1> QED
  BY <1>2, <1>3, <1>4 DEF RetentionInv

LEMMA EndKeeps ==
  ASSUME RetentionInv, NEW id \in SessionIds, NEW time \in 0 .. LastTime, EndSession(id, time)
  PROVE  RetentionInv'
<1> DEFINE new == [id |-> id, endedAt |-> time]
<1>1. /\ new \in Ended /\ new.id = id /\ everEnded' = everEnded \cup {new}
      /\ PutSession(id, "ended", time) /\ UNCHANGED <<retentions, recovering>>
  BY DEF EndSession, Ended
<1>2. HistoryInv' /\ DOMAIN sessions' = DOMAIN sessions \cup {id}
  BY <1>1, PutKeepsHistory DEF RetentionInv, HistoryInv
<1> HIDE DEF new
<1>3. RunsInv'
  BY <1>1, ListsStay DEF RetentionInv
<1>4. NewestEndedKept'
  BY <1>1, <1>2 DEF RetentionInv, NewestEndedKept, Before
<1> QED
  BY <1>2, <1>3, <1>4 DEF RetentionInv

LEMMA RecoveryKeeps ==
  ASSUME RetentionInv, ListActive \/ \E id \in SessionIds : AbandonSession(id)
  PROVE  RetentionInv'
<1>1. UNCHANGED <<retentions, everEnded>>
  BY DEF ListActive, AbandonSession
<1>2. HistoryInv' /\ DOMAIN sessions \subseteq DOMAIN sessions'
  <2>1. CASE ListActive
    BY <2>1 DEF ListActive, RetentionInv, HistoryInv
  <2>2. ASSUME NEW id \in SessionIds, AbandonSession(id)
        PROVE  HistoryInv' /\ DOMAIN sessions \subseteq DOMAIN sessions'
    <3>1. PutSession(id, "abnormal", 0) /\ recovering' = recovering \ {id}
      BY <2>2 DEF AbandonSession
    <3> QED
      BY <1>1, <3>1, PutKeepsHistory DEF RetentionInv, HistoryInv
  <2> QED
    BY <2>1, <2>2
<1>3. RunsInv'
  BY <1>1, ListsStay DEF RetentionInv
<1>4. NewestEndedKept'
  BY <1>1, <1>2 DEF RetentionInv, NewestEndedKept, Before
<1> QED
  BY <1>2, <1>3, <1>4 DEF RetentionInv

\* A run's list is about the history as it is.
LEMMA ListKeeps ==
  ASSUME RetentionInv, NEW run \in Runs, ListSessions(run)
  PROVE  RetentionInv'
<1> DEFINE completed == {[id |-> id, endedAt |-> sessions[id].endedAt] :
                          id \in {x \in DOMAIN sessions : sessions[x].status = "ended"}}
<1>1. completed \subseteq everEnded
  BY DEF RetentionInv, HistoryInv
<1>2. PICK newest \in (IF completed = {} THEN {NoSession} ELSE completed) :
        /\ \A other \in completed \ {newest} : Before(other, newest)
        /\ retentions' = [retentions EXCEPT ![run] =
             [stage |-> "listed", completed |-> completed, newest |-> newest, usage |-> 0]]
  BY DEF ListSessions
<1>3. UNCHANGED <<sessions, recovering, everEnded>>
  BY DEF ListSessions
<1>4. RunsInv'
  <2>1. DOMAIN retentions' = Runs
    BY <1>2 DEF RetentionInv, RunsInv
  <2>2. ASSUME NEW r \in Runs
        PROVE  ListInv(retentions[r])'
    <3>1. CASE r = run
      <4>1. retentions'[r] = [stage |-> "listed", completed |-> completed, newest |-> newest, usage |-> 0]
        BY <3>1, <1>2 DEF RetentionInv, RunsInv
      <4>2. \A ended \in completed : ended # newest => newest \in everEnded /\ Before(ended, newest)
        BY <1>1, <1>2
      <4> HIDE DEF completed
      <4> QED
        BY <4>1, <4>2, <1>1, <1>3 DEF ListInv, Before
    <3>2. CASE r # run
      BY <3>2, <1>2, <1>3 DEF RetentionInv, RunsInv, ListInv, Before
    <3> QED
      BY <3>1, <3>2
  <2> QED
    BY <2>1, <2>2 DEF RunsInv
<1>5. HistoryInv' /\ NewestEndedKept'
  BY <1>3 DEF RetentionInv, HistoryInv, NewestEndedKept, Before
<1> QED
  BY <1>4, <1>5 DEF RetentionInv

LEMMA EstimateAndFinishKeep ==
  ASSUME RetentionInv, NEW run \in Runs, EstimateUsage(run) \/ FinishRun(run)
  PROVE  RetentionInv'
<1>1. UNCHANGED <<sessions, recovering, everEnded>>
  BY DEF EstimateUsage, FinishRun
<1>2. RunsInv'
  <2>1. CASE EstimateUsage(run)
    BY <2>1, <1>1 DEF RetentionInv, RunsInv, ListInv, EstimateUsage, Before
  <2>2. CASE FinishRun(run)
    BY <2>2, <1>1 DEF RetentionInv, RunsInv, ListInv, FinishRun, Before
  <2> QED
    BY <2>1, <2>2
<1>3. HistoryInv' /\ NewestEndedKept'
  BY <1>1 DEF RetentionInv, HistoryInv, NewestEndedKept, Before
<1> QED
  BY <1>2, <1>3 DEF RetentionInv

\* The session that is deleted ended before another one.
LEMMA DeleteRunKeeps ==
  ASSUME RetentionInv, NEW run \in Runs, DeleteSession(run)
  PROVE  RetentionInv'
<1> DEFINE newest == retentions[run].newest
<1>1. PICK ended \in retentions[run].completed :
        /\ ended # newest
        /\ sessions' = [id \in DOMAIN sessions \ {ended.id} |-> sessions[id]]
        /\ retentions' = [retentions EXCEPT ![run].stage = "listed", ![run].completed = @ \ {ended}]
  BY DEF DeleteSession, Oldest, Deletes
<1>2. everEnded' = everEnded /\ recovering' = recovering
  BY DEF DeleteSession
<1>3. ended \in everEnded /\ newest \in everEnded /\ Before(ended, newest)
  BY <1>1 DEF RetentionInv, RunsInv, ListInv
<1>4. ended \in Ended /\ newest \in Ended
  BY <1>3 DEF RetentionInv, HistoryInv
<1>5. NewestEndedKept'
  <2> SUFFICES ASSUME NEW e \in everEnded,
                      \A other \in everEnded \ {e} : other.id # e.id /\ Before(other, e)
               PROVE  e.id \in DOMAIN sessions'
    BY <1>2 DEF NewestEndedKept, Before
  <2>1. e # ended
    BY <1>1, <1>3, <1>4, BeforeIsStrict
  <2>2. e.id # ended.id
    BY <2>1, <1>3
  <2>3. e.id \in DOMAIN sessions
    BY DEF RetentionInv, NewestEndedKept
  <2> QED
    BY <1>1, <2>2, <2>3
<1>6. HistoryInv'
  BY <1>1, <1>2 DEF RetentionInv, HistoryInv
<1>7. RunsInv'
  BY <1>1, <1>2 DEF RetentionInv, RunsInv, ListInv, Before
<1> QED
  BY <1>5, <1>6, <1>7 DEF RetentionInv

LEMMA RetentionNextInv == RetentionInv /\ [RetentionNext]_retentionVars => RetentionInv'
<1> SUFFICES ASSUME RetentionInv, [RetentionNext]_retentionVars
             PROVE  RetentionInv'
  OBVIOUS
<1>1. CASE UNCHANGED retentionVars
  BY <1>1 DEF retentionVars, RetentionInv, HistoryInv, RunsInv, ListInv, NewestEndedKept, Before
<1>2. CASE RetentionNext
  BY <1>2, StartKeeps, EndKeeps, RecoveryKeeps, ListKeeps, EstimateAndFinishKeep, DeleteRunKeeps
    DEF RetentionNext
<1> QED
  BY <1>1, <1>2

\* Whatever runs of the retention there are and whenever sessions start, end and are
\* recovered, the session that ended last is not deleted, unless it had ended before.
THEOREM NewestSessionIsKept == RetentionSpec => []NewestEndedKept
<1>1. RetentionInv => NewestEndedKept
  BY DEF RetentionInv
<1> QED
  BY <1>1, RetentionInitInv, RetentionNextInv, PTL DEF RetentionSpec

\* A session of the store that has ended is in the history with its time, and so is
\* what a run is to delete.
THEOREM RetentionTypes == RetentionSpec => []RetentionTypeOK
<1>1. RetentionInv => RetentionTypeOK
  BY DEF RetentionInv, HistoryInv, RunsInv, ListInv, RetentionTypeOK
<1> QED
  BY <1>1, RetentionInitInv, RetentionNextInv, PTL DEF RetentionSpec

-----------------------------------------------------------------------------
(***************************************************************************)
(* The command plugins.                                                    *)
(***************************************************************************)

PlaceInv ==
  /\ plugins \in Seq(PluginIds)
  /\ place \in 1 .. Len(plugins) + 1
  /\ \A entry \in registry : entry.place \in 1 .. place /\ entry.place <= Len(plugins)
  /\ phase \in {"installing", "installed", "rollingBack", "failed", "disposing", "disposed"}
  /\ phase \in {"installed", "disposing"} => place = Len(plugins) + 1

\* The disposers that are left are those of the first plugins, and the others ran,
\* from the last to the first.
UnwindInv ==
  /\ installed \in Seq(Nat) /\ ran \in Seq(Nat)
  /\ Len(installed) + Len(ran) = place - 1
  /\ \A i \in 1 .. Len(installed) : installed[i] = i
  /\ \A i \in 1 .. Len(ran) : ran[i] = place - i

PhaseInv ==
  /\ phase \in {"installing", "installed"} => ran = << >>
  /\ phase = "disposing" => \A entry \in registry : entry.place <= Len(installed)
  /\ phase \in {"failed", "disposed"} => registry = {} /\ installed = << >>

PluginsInv == PlaceInv /\ UnwindInv /\ PhaseInv

LEMMA PluginsInitInv == PluginsInit => PluginsInv
<1> SUFFICES ASSUME PluginsInit PROVE PluginsInv
  OBVIOUS
<1>1. plugins \in Seq(PluginIds)
  <2>1. PICK n \in 0 .. MaxPlugins : plugins \in [1 .. n -> PluginIds]
    BY DEF PluginsInit
  <2> QED
    BY <2>1, CommandPluginsAssumption
<1>2. PlaceInv
  BY <1>1 DEF PluginsInit, PlaceInv
<1>3. UnwindInv /\ PhaseInv
  BY DEF PluginsInit, UnwindInv, PhaseInv
<1> QED
  BY <1>2, <1>3 DEF PluginsInv

\* Steps that change neither what is installed nor what ran.
LEMMA FailKeeps ==
  ASSUME PluginsInv, IdConflict \/ PluginThrows
  PROVE  PluginsInv'
<1>1. Fail
  BY DEF IdConflict, PluginThrows
<1> QED
  BY <1>1 DEF Fail, PluginsInv, PlaceInv, UnwindInv, PhaseInv

LEMMA RegisterKeeps ==
  ASSUME PluginsInv, NEW command \in CommandIds, RegisterCommand(command)
  PROVE  PluginsInv'
<1>1. PlaceInv'
  BY DEF PluginsInv, PlaceInv, RegisterCommand, Installs
<1>2. UnwindInv' /\ PhaseInv'
  BY DEF PluginsInv, UnwindInv, PhaseInv, RegisterCommand, Installs
<1> QED
  BY <1>1, <1>2 DEF PluginsInv

LEMMA UnregisterKeeps ==
  ASSUME PluginsInv, NEW handle, Unregister(handle)
  PROVE  PluginsInv'
BY DEF PluginsInv, PlaceInv, UnwindInv, PhaseInv, Unregister

LEMMA InstalledKeeps ==
  ASSUME PluginsInv, PluginInstalled
  PROVE  PluginsInv'
<1>1. /\ plugins \in Seq(PluginIds) /\ Len(plugins) \in Nat
      /\ place \in 1 .. Len(plugins) + 1 /\ place <= Len(plugins)
      /\ phase = "installing" /\ phase' = phase /\ plugins' = plugins
      /\ place' = place + 1 /\ registry' = registry /\ ran' = ran
      /\ installed' = Append(installed, place)
  BY DEF PluginsInv, PlaceInv, PluginInstalled, Installs
<1>2. PlaceInv'
  BY <1>1 DEF PluginsInv, PlaceInv
<1>3. UnwindInv' /\ PhaseInv'
  <2>1. ran = << >> /\ installed \in Seq(Nat) /\ Len(installed) = place - 1
    BY <1>1 DEF PluginsInv, UnwindInv, PhaseInv
  <2>2. installed' \in Seq(Nat) /\ Len(installed') = place
    BY <1>1, <2>1
  <2>3. \A i \in 1 .. Len(installed') : installed'[i] = i
    BY <1>1, <2>1, <2>2 DEF PluginsInv, UnwindInv
  <2> QED
    BY <1>1, <2>1, <2>2, <2>3 DEF UnwindInv, PhaseInv
<1> QED
  BY <1>2, <1>3 DEF PluginsInv

\* AllInstalled, DisposeAll, Disposed and RolledBack: the phase ends.
LEMMA PhaseEndKeeps ==
  ASSUME PluginsInv, AllInstalled \/ DisposeAll \/ Disposed \/ RolledBack
  PROVE  PluginsInv'
<1>1. CASE AllInstalled
  BY <1>1 DEF AllInstalled, PluginsInv, PlaceInv, UnwindInv, PhaseInv
<1>2. CASE DisposeAll
  <2>1. ran = << >> /\ place = Len(plugins) + 1
    BY <1>2 DEF DisposeAll, PluginsInv, PlaceInv, PhaseInv
  <2>2. Len(installed) = Len(plugins)
    BY <2>1 DEF PluginsInv, PlaceInv, UnwindInv
  <2> QED
    BY <1>2, <2>1, <2>2 DEF DisposeAll, PluginsInv, PlaceInv, UnwindInv, PhaseInv
<1>3. CASE Disposed
  <2>1. registry = {}
    BY <1>3 DEF Disposed, PluginsInv, PlaceInv, PhaseInv
  <2> QED
    BY <1>3, <2>1 DEF Disposed, PluginsInv, PlaceInv, UnwindInv, PhaseInv
<1>4. CASE RolledBack
  BY <1>4 DEF RolledBack, PluginsInv, PlaceInv, UnwindInv, PhaseInv
<1> QED
  BY <1>1, <1>2, <1>3, <1>4

LEMMA DisposerKeeps ==
  ASSUME PluginsInv, RunDisposer
  PROVE  PluginsInv'
<1> DEFINE k == Len(installed)
<1>1. /\ installed \in Seq(Nat) /\ ran \in Seq(Nat) /\ k \in Nat \ {0} /\ Len(ran) \in Nat
      /\ k + Len(ran) = place - 1 /\ installed[k] = k /\ place \in Nat
  <2>1. installed \in Seq(Nat) /\ ran \in Seq(Nat) /\ installed # << >>
    BY DEF PluginsInv, UnwindInv, RunDisposer
  <2>2. k \in Nat \ {0} /\ Len(ran) \in Nat
    BY <2>1
  <2> QED
    BY <2>1, <2>2 DEF PluginsInv, PlaceInv, UnwindInv
<1>2. /\ ran' = Append(ran, k) /\ installed' = SubSeq(installed, 1, k - 1)
      /\ UNCHANGED <<plugins, handles, place, phase>>
  BY <1>1 DEF RunDisposer
<1>3. registry' \subseteq registry
  BY DEF RunDisposer
<1>4. PlaceInv'
  BY <1>2, <1>3 DEF PluginsInv, PlaceInv
<1>5. UnwindInv'
  <2>1. installed' \in Seq(Nat) /\ Len(installed') = k - 1
    <3>1. k - 1 \in Nat /\ 1 \in Int /\ k - 1 \in Int /\ \A i \in 1 .. k - 1 : installed[i] \in Nat
      BY <1>1
    <3> HIDE DEF k
    <3>2. /\ SubSeq(installed, 1, k - 1) \in Seq(Nat)
          /\ Len(SubSeq(installed, 1, k - 1)) = IF 1 <= k - 1 THEN (k - 1) - 1 + 1 ELSE 0
      BY <3>1, SubSeqProperties
    <3>3. (IF 1 <= k - 1 THEN (k - 1) - 1 + 1 ELSE 0) = k - 1
      BY <3>1
    <3> QED
      BY <1>2, <3>2, <3>3
  <2>2. \A i \in 1 .. Len(installed') : installed'[i] = i
    <3>1. \A i \in 1 .. k - 1 : SubSeq(installed, 1, k - 1)[i] = installed[i]
      BY <1>1
    <3>2. \A i \in 1 .. k - 1 : installed[i] = i
      BY <1>1 DEF PluginsInv, UnwindInv
    <3> HIDE DEF k
    <3> QED
      BY <1>1, <1>2, <2>1, <3>1, <3>2
  <2>3. ran' \in Seq(Nat) /\ Len(ran') = Len(ran) + 1
    BY <1>1, <1>2, AppendProperties
  <2>4. \A i \in 1 .. Len(ran') : ran'[i] = place - i
    <3>1. \A i \in 1 .. Len(ran) : Append(ran, k)[i] = ran[i] /\ ran[i] = place - i
      BY <1>1 DEF PluginsInv, UnwindInv
    <3>2. Append(ran, k)[Len(ran) + 1] = k /\ k = place - (Len(ran) + 1)
      BY <1>1
    <3> HIDE DEF k
    <3> QED
      BY <1>1, <1>2, <2>3, <3>1, <3>2
  <2>5. Len(installed') + Len(ran') = place - 1
    BY <1>1, <2>1, <2>3
  <2>6. place' = place
    BY <1>2
  <2> QED
    BY <2>1, <2>2, <2>3, <2>4, <2>5, <2>6 DEF UnwindInv
<1>6. Len(ran') = Len(ran) + 1 /\ Len(installed') + Len(ran') = place - 1
  <2>1. Len(ran') = Len(ran) + 1
    BY <1>1, <1>2
  <2>2. Len(installed') + Len(ran') = place' - 1 /\ place' = place
    BY <1>2, <1>5 DEF UnwindInv
  <2> QED
    BY <2>1, <2>2
<1>7. PhaseInv'
  <2>1. phase \in {"rollingBack", "disposing"}
    BY DEF RunDisposer
  <2>2. ASSUME phase = "disposing", NEW entry \in registry'
        PROVE  entry.place <= Len(installed')
    <3>1. Len(installed') = k - 1
      BY <1>1, <1>5, <1>6 DEF UnwindInv
    <3>2. entry.place # k
      BY <1>1, <2>2 DEF RunDisposer
    <3>3. entry.place \in Nat /\ entry.place <= k
      BY <2>2, <1>3 DEF PluginsInv, PlaceInv, PhaseInv
    <3> QED
      BY <3>1, <3>2, <3>3, <1>1
  <2> QED
    BY <1>2, <2>1, <2>2 DEF PhaseInv
<1> QED
  BY <1>4, <1>5, <1>7 DEF PluginsInv

LEMMA PluginsNextInv == PluginsInv /\ [PluginsNext]_pluginVars => PluginsInv'
<1> SUFFICES ASSUME PluginsInv, [PluginsNext]_pluginVars
             PROVE  PluginsInv'
  OBVIOUS
<1>1. CASE UNCHANGED pluginVars
  BY <1>1 DEF pluginVars, PluginsInv, PlaceInv, UnwindInv, PhaseInv
<1>2. CASE PluginsNext
  BY <1>2, FailKeeps, RegisterKeeps, UnregisterKeeps, InstalledKeeps, PhaseEndKeeps, DisposerKeeps
    DEF PluginsNext
<1> QED
  BY <1>1, <1>2

\* Whatever the plugins register, drop and throw, an installation that failed and an
\* editor that was disposed of leave no command, and each plugin that was installed
\* was disposed of once, the last one first.
THEOREM InstallationIsAllOrNothing == PluginsSpec => []PluginsAllOrNothing
<1>1. PluginsInv => PluginsAllOrNothing
  <2> SUFFICES ASSUME PluginsInv, phase \in {"failed", "disposed"}
               PROVE  registry = {} /\ ran = [i \in 1 .. place - 1 |-> place - i]
    BY DEF PluginsAllOrNothing
  <2>1. registry = {} /\ installed = << >>
    BY DEF PluginsInv, PhaseInv
  <2>2. ran \in Seq(Nat) /\ Len(ran) = place - 1
    BY <2>1 DEF PluginsInv, PlaceInv, UnwindInv
  <2>3. ran = [i \in 1 .. Len(ran) |-> place - i]
    BY <2>2 DEF PluginsInv, UnwindInv
  <2> QED
    BY <2>1, <2>2, <2>3
<1> QED
  BY <1>1, PluginsInitInv, PluginsNextInv, PTL DEF PluginsSpec

\* A command has one contribution, and what is registered is among what register
\* returned.
RegistryInv ==
  /\ registry \subseteq handles
  /\ \A a, b \in registry : a.command = b.command => a = b

\* A command has one contribution at a time, whatever is registered, dropped and
\* disposed of.
THEOREM PluginsTypes == PluginsSpec => []PluginsTypeOK
<1>1. PluginsInit => RegistryInv
  BY DEF PluginsInit, RegistryInv
<1>2. RegistryInv /\ [PluginsNext]_pluginVars => RegistryInv'
  <2> SUFFICES ASSUME RegistryInv, [PluginsNext]_pluginVars
               PROVE  RegistryInv'
    OBVIOUS
  <2>1. ASSUME NEW command \in CommandIds, RegisterCommand(command)
        PROVE  RegistryInv'
    <3> DEFINE new == [command |-> command, place |-> place]
    <3>1. registry' = registry \cup {new} /\ handles' = handles \cup {new}
      BY <2>1 DEF RegisterCommand
    <3>2. new.command = command /\ \A entry \in registry : entry.command # command
      BY <2>1 DEF RegisterCommand
    <3> HIDE DEF new
    <3> QED
      BY <3>1, <3>2 DEF RegistryInv
  <2>2. CASE registry' \subseteq registry /\ handles' = handles
    BY <2>2 DEF RegistryInv
  <2>3. \/ \E command \in CommandIds : RegisterCommand(command)
        \/ registry' \subseteq registry /\ handles' = handles
    BY DEF PluginsNext, pluginVars, IdConflict, PluginThrows, Fail, PluginInstalled, AllInstalled,
           Unregister, RolledBack, RunDisposer, DisposeAll, Disposed
  <2> QED
    BY <2>1, <2>2, <2>3
<1>3. PluginsInv /\ RegistryInv => PluginsTypeOK
  BY DEF PluginsInv, PlaceInv, RegistryInv, PluginsTypeOK
<1> QED
  BY <1>1, <1>2, <1>3, PluginsInitInv, PluginsNextInv, PTL DEF PluginsSpec

-----------------------------------------------------------------------------
(***************************************************************************)
(* The parts together.                                                     *)
(***************************************************************************)

\* A behaviour of MCEditorParts is one of each part: of the part that runs, and of
\* the others, which stay as they began.
LEMMA PartsAreApart ==
  Spec => /\ SessionSpec /\ CanvasSpec /\ TreeSpec /\ WorkspaceSpec
          /\ OutputSpec /\ RetentionSpec /\ PluginsSpec
<1> DEFINE all == <<part, sessionVars, canvasVars, treeVars, workspaceVars, outputVars,
                    retentionVars, pluginVars>>
<1>1. Init => /\ SessionInit /\ CanvasInit /\ TreeInit /\ WorkspaceInit
              /\ OutputInit /\ RetentionInit /\ PluginsInit
  BY DEF Init
<1>2. [Next]_all => /\ [SessionNext]_sessionVars /\ [CanvasNext]_canvasVars /\ [TreeNext]_treeVars
                    /\ [WorkspaceNext]_workspaceVars /\ [OutputNext]_outputVars
                    /\ [RetentionNext]_retentionVars /\ [PluginsNext]_pluginVars
  BY DEF Next
<1> QED
  BY <1>1, <1>2, PTL DEF Spec, SessionSpec, CanvasSpec, TreeSpec, WorkspaceSpec, OutputSpec,
                         RetentionSpec, PluginsSpec

\* The types of all the parts, and that their flags agree with what is under way, for
\* any values of the constants.
THEOREM PartsTypes == Spec => []PartsTypeOK
<1>1. /\ SessionTypeOK /\ CanvasTypeOK /\ TreeTypeOK /\ WorkspaceTypeOK
      /\ OutputTypeOK /\ RetentionTypeOK /\ PluginsTypeOK
      => PartsTypeOK
  BY DEF PartsTypeOK
<1> QED
  BY <1>1, PartsAreApart, SessionTypes, CanvasTypes, TreeStaysATree, WorkspaceTypes, OutputTypes,
     RetentionTypes, PluginsTypes, PTL
===============================================================================
