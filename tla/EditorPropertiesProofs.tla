------------------------- MODULE EditorPropertiesProofs -------------------------
(***************************************************************************)
(* Theorems about the properties of Editor in EditorProperties, for every  *)
(* set of ids, every loaded document and every history limit: the history  *)
(* implements DocumentTimeline.                                            *)
(***************************************************************************)
EXTENDS EditorProperties, EditorProofs, FiniteSetTheorems

-----------------------------------------------------------------------------
(* Least elements, in place of induction.                                  *)

\* A set of natural numbers that is not empty has a least element.
LEMMA LeastNatural ==
  ASSUME NEW T \in SUBSET Nat, T # {}
  PROVE  \E m \in T : \A k \in T : m <= k
<1>1. PICK m \in T : \A k \in T : ~(<<k, m>> \in OpToRel(<, Nat))
  BY NatLessThanWellFounded, WFMin
<1>2. \A k \in T : ~(k < m)
  BY <1>1 DEF OpToRel
<1>3. QED
  BY ONLY <1>2, T \in SUBSET Nat, m \in T

\* A family of subsets of a finite set that is not empty has a maximal member.
LEMMA MaximalSubset ==
  ASSUME NEW U, IsFiniteSet(U), NEW T \in SUBSET SUBSET U, T # {}
  PROVE  \E C \in T : \A D \in T : C \subseteq D => D = C
<1> DEFINE rest == {U \ C : C \in T}
<1>1. rest \subseteq SUBSET U /\ rest # {}
  <2>1. PICK C \in T : TRUE
    OBVIOUS
  <2>2. U \ C \in rest
    OBVIOUS
  <2>3. ASSUME NEW y \in rest PROVE y \subseteq U
    OBVIOUS
  <2>4. QED
    BY <2>2, <2>3
<1> HIDE DEF rest
<1>2. PICK x \in rest : \A y \in rest : ~(<<y, x>> \in StrictSubsetOrdering(U))
  BY <1>1, FS_FiniteSubsetsOfFinite, FS_StrictSubsetOrderingWellFounded, WFMin
<1>3. PICK C \in T : x = U \ C
  BY DEF rest
<1>4. ASSUME NEW D \in T, C \subseteq D, D # C PROVE FALSE
  <2>1. U \ D \in rest /\ U \ D \subseteq x /\ U \ D # x /\ x \in SUBSET U
    BY <1>3, <1>4 DEF rest
  <2>2. <<U \ D, x>> \in StrictSubsetOrdering(U)
    BY <2>1 DEF StrictSubsetOrdering
  <2>3. QED
    BY <1>2, <2>1, <2>2
<1>5. QED
  BY <1>4

\* And it has a minimal member.
LEMMA MinimalSubset ==
  ASSUME NEW U, IsFiniteSet(U), NEW T \in SUBSET SUBSET U, T # {}
  PROVE  \E C \in T : \A D \in T : D \subseteq C => D = C
<1>1. T \subseteq FiniteSubsetsOf(U)
  BY FS_FiniteSubsetsOfFinite
<1>2. PICK C \in T : \A D \in T : ~(<<D, C>> \in StrictSubsetOrdering(U))
  BY <1>1, FS_StrictSubsetOrderingWellFounded, WFMin
<1>3. QED
  BY <1>2 DEF StrictSubsetOrdering

-----------------------------------------------------------------------------
(* Walks.  SelfAndAncestors and Subtree follow a step until nothing new    *)
(* comes: they are the least closed sets.                                  *)

\* f follows F from any subset of U until it adds nothing.
Follows(f, U, F) ==
  f = [C \in SUBSET U |-> IF C \cup F[C] = C THEN C ELSE f[C \cup F[C]]]

Monotone(U, F) ==
  /\ F \in [SUBSET U -> SUBSET U]
  /\ \A C, D \in SUBSET U : C \subseteq D => F[C] \subseteq F[D]

\* There is a function that follows F.
LEMMA FollowerExists ==
  ASSUME NEW U, NEW F, Monotone(U, F)
  PROVE  \E f : Follows(f, U, F)
<1> DEFINE Holds(C, D) == C \subseteq D /\ F[D] \subseteq D
           g == [C \in SUBSET U |->
                   {x \in U : \A D \in SUBSET U : Holds(C, D) => x \in D}]
<1>1. ASSUME NEW C \in SUBSET U
      PROVE  g[C] = IF C \cup F[C] = C THEN C ELSE g[C \cup F[C]]
  <2>1. C \cup F[C] \in SUBSET U
    BY DEF Monotone
  <2>2. CASE C \cup F[C] = C
    <3>1. Holds(C, C)
      BY <2>2
    <3>2. g[C] = C
      BY <3>1
    <3>3. QED
      BY <2>2, <3>2
  <2>3. CASE C \cup F[C] # C
    <3>1. ASSUME NEW D \in SUBSET U
          PROVE  Holds(C, D) <=> Holds(C \cup F[C], D)
      BY DEF Monotone
    <3> HIDE DEF Holds
    <3>2. g[C] = g[C \cup F[C]]
      BY <2>1, <3>1
    <3>3. QED
      BY <2>3, <3>2
  <2>4. QED
    BY <2>2, <2>3
<1>2. Follows(g, U, F)
  <2>1. g = [C \in SUBSET U |-> g[C]]
    OBVIOUS
  <2> HIDE DEF g
  <2>2. QED
    BY <1>1, <2>1 DEF Follows
<1>3. QED
  BY <1>2

\* What a function that follows F yields: the least set that contains C and is
\* closed under F.
LEMMA FollowerIsLeast ==
  ASSUME NEW U, IsFiniteSet(U), NEW F, Monotone(U, F), NEW f, Follows(f, U, F),
         NEW C \in SUBSET U
  PROVE  /\ f[C] \in SUBSET U
         /\ C \subseteq f[C]
         /\ F[f[C]] \subseteq f[C]
         /\ \A D \in SUBSET U : C \subseteq D /\ F[D] \subseteq D => f[C] \subseteq D
<1> DEFINE Least(B) ==
             /\ f[B] \in SUBSET U
             /\ B \subseteq f[B]
             /\ F[f[B]] \subseteq f[B]
             /\ \A D \in SUBSET U : B \subseteq D /\ F[D] \subseteq D => f[B] \subseteq D
           wrong == {B \in SUBSET U : ~Least(B)}
<1>1. \A B \in SUBSET U : /\ F[B] \in SUBSET U
                          /\ f[B] = IF B \cup F[B] = B THEN B ELSE f[B \cup F[B]]
  BY DEF Follows, Monotone
<1>2. ASSUME NEW B \in SUBSET U, \A D \in wrong : B \subseteq D => D = B
      PROVE  Least(B)
  <2>1. CASE B \cup F[B] = B
    BY <1>1, <2>1
  <2>2. CASE B \cup F[B] # B
    <3> DEFINE next == B \cup F[B]
    <3>1. next \in SUBSET U /\ next \notin wrong /\ f[B] = f[next]
      BY <1>1, <1>2, <2>2
    <3>2. Least(next)
      BY <3>1
    <3>3. \A D \in SUBSET U : B \subseteq D /\ F[D] \subseteq D => next \subseteq D
      BY DEF Monotone
    <3>4. QED
      BY <3>1, <3>2, <3>3
  <2>3. QED
    BY <2>1, <2>2
<1>3. wrong \in SUBSET SUBSET U
  OBVIOUS
<1>4. wrong = {}
  <2> SUFFICES ASSUME wrong # {} PROVE FALSE
    OBVIOUS
  <2> HIDE DEF wrong
  <2>1. PICK B \in wrong : \A D \in wrong : B \subseteq D => D = B
    BY <1>3, MaximalSubset
  <2>2. B \in SUBSET U /\ ~Least(B)
    BY DEF wrong
  <2> HIDE DEF Least
  <2>3. QED
    BY <1>2, <2>1, <2>2
<1>5. QED
  BY <1>4

LEMMA NodesAreFinite ==
  ASSUME NEW s
  PROVE  IsFiniteSet(Nodes(s))
<1>1. IsFiniteSet(NodeId \cup {PageId})
  BY FiniteIdsAssumption, FS_AddElement
<1>2. Nodes(s) \subseteq NodeId \cup {PageId}
  BY DEF Nodes, Present, Id
<1>3. QED
  BY <1>1, <1>2, FS_Subset

\* One step up, and one step down.
UpStep(s) ==
  [C \in SUBSET Nodes(s) |-> {s[m].parentId : m \in C} \cap Nodes(s)]

DownStep(s) ==
  [C \in SUBSET Nodes(s) |-> {d \in Nodes(s) : s[d].parentId \in C}]

LEMMA StepsAreMonotone ==
  ASSUME NEW s
  PROVE  Monotone(Nodes(s), UpStep(s)) /\ Monotone(Nodes(s), DownStep(s))
<1>1. \A C, D \in SUBSET Nodes(s) : C \subseteq D => UpStep(s)[C] \subseteq UpStep(s)[D]
  BY DEF UpStep
<1>2. \A C, D \in SUBSET Nodes(s) : C \subseteq D => DownStep(s)[C] \subseteq DownStep(s)[D]
  BY DEF DownStep
<1>3. /\ UpStep(s) \in [SUBSET Nodes(s) -> SUBSET Nodes(s)]
      /\ DownStep(s) \in [SUBSET Nodes(s) -> SUBSET Nodes(s)]
  BY DEF UpStep, DownStep
<1>4. QED
  BY <1>1, <1>2, <1>3 DEF Monotone

\* The walk up from n ends with the least set that has n and every parent.
LEMMA UpwardWalk ==
  ASSUME NEW s, NEW n \in Nodes(s)
  PROVE  /\ SelfAndAncestors(s, n) \subseteq Nodes(s)
         /\ n \in SelfAndAncestors(s, n)
         /\ \A m \in SelfAndAncestors(s, n) :
              s[m].parentId \in Nodes(s) => s[m].parentId \in SelfAndAncestors(s, n)
         /\ \A D \in SUBSET Nodes(s) :
              /\ n \in D
              /\ \A m \in D : s[m].parentId \in Nodes(s) => s[m].parentId \in D
              => SelfAndAncestors(s, n) \subseteq D
<1> DEFINE U == Nodes(s)
           Up(f) == f = [C \in SUBSET U |->
                           IF C \cup ({s[m].parentId : m \in C} \cap U) = C THEN C
                           ELSE f[C \cup ({s[m].parentId : m \in C} \cap U)]]
           up == CHOOSE f : Up(f)
<1>1. SelfAndAncestors(s, n) = up[{n}]
  BY DEF SelfAndAncestors
<1>2. ASSUME NEW f PROVE Up(f) <=> Follows(f, U, UpStep(s))
  BY DEF Follows, UpStep
<1> HIDE DEF Up
<1>3. \E f : Up(f)
  BY <1>2, StepsAreMonotone, FollowerExists
<1>4. Follows(up, U, UpStep(s))
  BY <1>2, <1>3
<1> HIDE DEF up
<1> DEFINE start == {n}
           reached == up[start]
<1>5. /\ reached \in SUBSET U /\ start \subseteq reached
      /\ UpStep(s)[reached] \subseteq reached
      /\ \A D \in SUBSET U :
           start \subseteq D /\ UpStep(s)[D] \subseteq D => reached \subseteq D
  <2>1. start \in SUBSET U /\ IsFiniteSet(U) /\ Monotone(U, UpStep(s))
    BY NodesAreFinite, StepsAreMonotone
  <2> HIDE DEF U, start
  <2>2. QED
    BY <1>4, <2>1, FollowerIsLeast
<1> HIDE DEF reached
<1>6. \A D \in SUBSET U : UpStep(s)[D] \subseteq D <=>
        \A m \in D : s[m].parentId \in U => s[m].parentId \in D
  BY DEF UpStep
<1>7. \A D : start \subseteq D <=> n \in D
  OBVIOUS
<1> HIDE DEF start
<1>8. SelfAndAncestors(s, n) = reached
  BY <1>1 DEF reached, start
<1>9. QED
  BY <1>5, <1>6, <1>7, <1>8

\* The walk down from n ends with the least set that has n and every child.
LEMMA DownwardWalk ==
  ASSUME NEW s, NEW n \in Nodes(s)
  PROVE  /\ Subtree(s, n) \subseteq Nodes(s)
         /\ n \in Subtree(s, n)
         /\ \A d \in Nodes(s) : s[d].parentId \in Subtree(s, n) => d \in Subtree(s, n)
         /\ \A D \in SUBSET Nodes(s) :
              n \in D /\ (\A d \in Nodes(s) : s[d].parentId \in D => d \in D)
              => Subtree(s, n) \subseteq D
<1> DEFINE U == Nodes(s)
           Down(f) == f = [C \in SUBSET U |->
                             IF C \cup {d \in U : s[d].parentId \in C} = C THEN C
                             ELSE f[C \cup {d \in U : s[d].parentId \in C}]]
           down == CHOOSE f : Down(f)
<1>1. Subtree(s, n) = down[{n}]
  BY DEF Subtree
<1>2. ASSUME NEW f PROVE Down(f) <=> Follows(f, U, DownStep(s))
  BY DEF Follows, DownStep
<1> HIDE DEF Down
<1>3. \E f : Down(f)
  BY <1>2, StepsAreMonotone, FollowerExists
<1>4. Follows(down, U, DownStep(s))
  BY <1>2, <1>3
<1> HIDE DEF down
<1> DEFINE start == {n}
           reached == down[start]
<1>5. /\ reached \in SUBSET U /\ start \subseteq reached
      /\ DownStep(s)[reached] \subseteq reached
      /\ \A D \in SUBSET U :
           start \subseteq D /\ DownStep(s)[D] \subseteq D => reached \subseteq D
  <2>1. start \in SUBSET U /\ IsFiniteSet(U) /\ Monotone(U, DownStep(s))
    BY NodesAreFinite, StepsAreMonotone
  <2> HIDE DEF U, start
  <2>2. QED
    BY <1>4, <2>1, FollowerIsLeast
<1> HIDE DEF reached
<1>6. \A D \in SUBSET U : DownStep(s)[D] \subseteq D <=>
        \A d \in U : s[d].parentId \in D => d \in D
  BY DEF DownStep
<1>7. \A D : start \subseteq D <=> n \in D
  OBVIOUS
<1> HIDE DEF start
<1>8. Subtree(s, n) = reached
  BY <1>1 DEF reached, start
<1>9. QED
  BY <1>5, <1>6, <1>7, <1>8

\* What lies above an ancestor lies above the node.
LEMMA AncestorsNest ==
  ASSUME NEW s, NEW n \in Nodes(s), NEW m \in SelfAndAncestors(s, n)
  PROVE  m \in Nodes(s) /\ SelfAndAncestors(s, m) \subseteq SelfAndAncestors(s, n)
<1>1. m \in Nodes(s)
  BY UpwardWalk
<1>2. /\ SelfAndAncestors(s, n) \in SUBSET Nodes(s)
      /\ \A x \in SelfAndAncestors(s, n) :
           s[x].parentId \in Nodes(s) => s[x].parentId \in SelfAndAncestors(s, n)
  BY UpwardWalk
<1>3. QED
  BY <1>1, <1>2, UpwardWalk

\* A node's ancestors are its parent's, and the node itself comes first.
LEMMA AncestorsByParent ==
  ASSUME NEW s, NEW n \in Nodes(s)
  PROVE  /\ s[n].parentId \in Nodes(s) =>
              SelfAndAncestors(s, n) = {n} \cup SelfAndAncestors(s, s[n].parentId)
         /\ s[n].parentId \notin Nodes(s) => SelfAndAncestors(s, n) = {n}
<1>1. CASE s[n].parentId \in Nodes(s)
  <2> DEFINE p == s[n].parentId
             D == {n} \cup SelfAndAncestors(s, p)
  <2>1. p \in SelfAndAncestors(s, n) /\ n \in SelfAndAncestors(s, n)
    BY <1>1, UpwardWalk
  <2>2. SelfAndAncestors(s, p) \subseteq SelfAndAncestors(s, n)
    BY <2>1, AncestorsNest
  <2>3. /\ SelfAndAncestors(s, p) \subseteq Nodes(s)
        /\ p \in SelfAndAncestors(s, p)
        /\ \A m \in SelfAndAncestors(s, p) :
             s[m].parentId \in Nodes(s) => s[m].parentId \in SelfAndAncestors(s, p)
    BY <1>1, UpwardWalk
  <2>4. /\ D \in SUBSET Nodes(s) /\ n \in D
        /\ \A m \in D : s[m].parentId \in Nodes(s) => s[m].parentId \in D
    BY <2>3
  <2>5. SelfAndAncestors(s, n) \subseteq D
    <3> HIDE DEF D
    <3>1. QED
      BY <2>4, UpwardWalk
  <2>6. QED
    BY <1>1, <2>1, <2>2, <2>5
<1>2. CASE s[n].parentId \notin Nodes(s)
  <2> DEFINE D == {n}
  <2>1. /\ D \in SUBSET Nodes(s) /\ n \in D
        /\ \A m \in D : s[m].parentId \in Nodes(s) => s[m].parentId \in D
    BY <1>2
  <2>2. SelfAndAncestors(s, n) \subseteq D
    <3> HIDE DEF D
    <3>1. QED
      BY <2>1, UpwardWalk
  <2>3. n \in SelfAndAncestors(s, n)
    BY UpwardWalk
  <2>4. QED
    BY <1>2, <2>2, <2>3
<1>3. QED
  BY <1>1, <1>2

\* What lies below a node of the subtree lies in the subtree.
LEMMA SubtreesNest ==
  ASSUME NEW s, NEW n \in Nodes(s), NEW m \in Subtree(s, n)
  PROVE  m \in Nodes(s) /\ Subtree(s, m) \subseteq Subtree(s, n)
<1>1. m \in Nodes(s)
  BY DownwardWalk
<1>2. /\ Subtree(s, n) \in SUBSET Nodes(s)
      /\ \A d \in Nodes(s) : s[d].parentId \in Subtree(s, n) => d \in Subtree(s, n)
  BY DownwardWalk
<1>3. QED
  BY <1>1, <1>2, DownwardWalk

\* Down from m to d is up from d to m.
LEMMA DownIsUp ==
  ASSUME NEW s, NEW m \in Nodes(s), NEW d \in Nodes(s)
  PROVE  d \in Subtree(s, m) <=> m \in SelfAndAncestors(s, d)
<1>1. SelfAndAncestors(s, d) \subseteq {x \in Nodes(s) : d \in Subtree(s, x)}
  <2> DEFINE D == {x \in Nodes(s) : d \in Subtree(s, x)}
  <2>1. d \in D /\ D \in SUBSET Nodes(s)
    BY DownwardWalk
  <2>2. ASSUME NEW x \in D, s[x].parentId \in Nodes(s) PROVE s[x].parentId \in D
    <3>1. s[x].parentId \in Subtree(s, s[x].parentId)
      BY <2>2, DownwardWalk
    <3>2. x \in Subtree(s, s[x].parentId)
      BY <2>2, <3>1, DownwardWalk
    <3>3. Subtree(s, x) \subseteq Subtree(s, s[x].parentId)
      BY <2>2, <3>2, SubtreesNest
    <3>4. QED
      BY <2>2, <3>3
  <2> HIDE DEF D
  <2>3. SelfAndAncestors(s, d) \subseteq D
    BY <2>1, <2>2, UpwardWalk
  <2>4. QED
    BY <2>3 DEF D
<1>2. Subtree(s, m) \subseteq {x \in Nodes(s) : m \in SelfAndAncestors(s, x)}
  <2> DEFINE D == {x \in Nodes(s) : m \in SelfAndAncestors(s, x)}
  <2>1. m \in D /\ D \in SUBSET Nodes(s)
    BY UpwardWalk
  <2>2. ASSUME NEW x \in Nodes(s), s[x].parentId \in D PROVE x \in D
    <3>1. s[x].parentId \in Nodes(s) /\ m \in SelfAndAncestors(s, s[x].parentId)
      BY <2>2
    <3>2. QED
      BY <3>1, AncestorsByParent
  <2> HIDE DEF D
  <2>3. Subtree(s, m) \subseteq D
    BY <2>1, <2>2, DownwardWalk
  <2>4. QED
    BY <2>3 DEF D
<1>3. QED
  BY <1>1, <1>2

\* Of two nodes above a third, one lies above the other.
LEMMA AncestorsAreAChain ==
  ASSUME NEW s, NEW d \in Nodes(s),
         NEW m \in SelfAndAncestors(s, d), NEW n \in SelfAndAncestors(s, d)
  PROVE  n \in SelfAndAncestors(s, m) \/ m \in SelfAndAncestors(s, n)
<1> DEFINE D == {x \in Nodes(s) : \/ n \in SelfAndAncestors(s, x)
                                  \/ x \in SelfAndAncestors(s, n)}
<1>1. m \in Nodes(s) /\ n \in Nodes(s)
  BY UpwardWalk
<1>2. d \in D /\ D \in SUBSET Nodes(s)
  OBVIOUS
<1>3. ASSUME NEW x \in D, s[x].parentId \in Nodes(s) PROVE s[x].parentId \in D
  <2>1. CASE x \in SelfAndAncestors(s, n)
    <3>1. s[x].parentId \in SelfAndAncestors(s, n)
      BY <1>1, <1>3, <2>1, UpwardWalk
    <3>2. QED
      BY <1>3, <3>1
  <2>2. CASE n \in SelfAndAncestors(s, x) /\ x \notin SelfAndAncestors(s, n)
    <3>1. n # x
      BY <1>1, <2>2, UpwardWalk
    <3>2. n \in SelfAndAncestors(s, s[x].parentId)
      BY <1>3, <2>2, <3>1, AncestorsByParent
    <3>3. QED
      BY <1>3, <3>2
  <2>3. QED
    BY <2>1, <2>2
<1> HIDE DEF D
<1>4. SelfAndAncestors(s, d) \subseteq D
  BY <1>2, <1>3, UpwardWalk
<1>5. QED
  BY <1>4 DEF D

\* In a tree two different nodes do not lie above each other.
LEMMA NoMutualAncestors ==
  ASSUME NEW s, ~HasParentCycle(s), NEW m \in Nodes(s), NEW n \in Nodes(s),
         n \in SelfAndAncestors(s, m), m \in SelfAndAncestors(s, n)
  PROVE  m = n
<1> SUFFICES ASSUME m # n PROVE FALSE
  OBVIOUS
<1> DEFINE C == {x \in Nodes(s) : m \in SelfAndAncestors(s, x)}
<1>1. m \in C /\ C \in SUBSET Nodes(s)
  BY UpwardWalk
<1>2. ASSUME NEW x \in C PROVE s[x].parentId \in C
  <2>1. m \in SelfAndAncestors(s, x)
    OBVIOUS
  <2>2. CASE x # m
    BY <2>1, <2>2, AncestorsByParent
  <2>3. CASE x = m
    <3>1. s[m].parentId \in Nodes(s) /\ n \in SelfAndAncestors(s, s[m].parentId)
      BY AncestorsByParent
    <3>2. m \in SelfAndAncestors(s, s[m].parentId)
      BY <3>1, AncestorsNest
    <3>3. QED
      BY <2>3, <3>1, <3>2
  <2>4. QED
    BY <2>2, <2>3
<1> HIDE DEF C
<1>3. QED
  BY <1>1, <1>2 DEF HasParentCycle

-----------------------------------------------------------------------------
(* Deletion.                                                               *)

\* Above every node that lies in or below a selection is a topmost one of it.
LEMMA TopLevelCovers ==
  ASSUME NEW s, ~HasParentCycle(s), NEW ids \in SUBSET Nodes(s), NEW d \in Nodes(s),
         SelfAndAncestors(s, d) \cap ids # {}
  PROVE  \E t \in TopLevel(s, ids) : t \in SelfAndAncestors(s, d)
<1> DEFINE chosen == SelfAndAncestors(s, d) \cap ids
           T == {SelfAndAncestors(s, x) : x \in chosen}
<1>1. T \in SUBSET SUBSET Nodes(s) /\ T # {}
  <2>1. PICK x \in chosen : TRUE
    OBVIOUS
  <2>2. SelfAndAncestors(s, x) \in T
    OBVIOUS
  <2>3. ASSUME NEW y \in chosen PROVE SelfAndAncestors(s, y) \subseteq Nodes(s)
    BY UpwardWalk
  <2>4. QED
    BY <2>2, <2>3
<1> HIDE DEF T
<1>2. PICK C \in T : \A D \in T : D \subseteq C => D = C
  BY <1>1, NodesAreFinite, MinimalSubset
<1>3. PICK t \in chosen : C = SelfAndAncestors(s, t)
  BY DEF T
<1>4. t \in Nodes(s) /\ t \in ids /\ t \in SelfAndAncestors(s, d)
  OBVIOUS
<1>5. ASSUME NEW x \in Ancestors(s, t), x \in ids PROVE FALSE
  <2>1. x \in SelfAndAncestors(s, t) /\ x # t
    BY DEF Ancestors
  <2>2. x \in Nodes(s) /\ SelfAndAncestors(s, x) \subseteq SelfAndAncestors(s, t)
    BY <1>4, <2>1, AncestorsNest
  <2>3. x \in chosen
    BY <1>4, <1>5, <2>1, AncestorsNest
  <2>4. SelfAndAncestors(s, x) = SelfAndAncestors(s, t)
    BY <1>2, <1>3, <2>2, <2>3 DEF T
  <2>5. t \in SelfAndAncestors(s, x)
    BY <1>4, <2>4, UpwardWalk
  <2>6. QED
    BY <1>4, <2>1, <2>2, <2>5, NoMutualAncestors
<1>6. QED
  BY <1>4, <1>5 DEF TopLevel

\* The subtrees of the topmost selected nodes are what lies below the selection.
LEMMA DoomedLieBelow ==
  ASSUME NEW s, ~HasParentCycle(s), NEW ids \in SUBSET Nodes(s)
  PROVE  Doomed(s, ids) = {n \in Nodes(s) : SelfAndAncestors(s, n) \cap ids # {}}
<1>1. TopLevel(s, ids) \subseteq ids
  BY DEF TopLevel
<1>2. ASSUME NEW d \in Doomed(s, ids)
      PROVE  d \in Nodes(s) /\ SelfAndAncestors(s, d) \cap ids # {}
  <2>1. PICK n \in TopLevel(s, ids) : d \in Subtree(s, n)
    BY DEF Doomed
  <2>2. n \in ids /\ n \in Nodes(s) /\ d \in Nodes(s)
    BY <1>1, <2>1, DownwardWalk
  <2>3. n \in SelfAndAncestors(s, d)
    BY <2>1, <2>2, DownIsUp
  <2>4. QED
    BY <2>2, <2>3
<1>3. ASSUME NEW d \in Nodes(s), SelfAndAncestors(s, d) \cap ids # {}
      PROVE  d \in Doomed(s, ids)
  <2>1. PICK t \in TopLevel(s, ids) : t \in SelfAndAncestors(s, d)
    BY <1>3, TopLevelCovers
  <2>2. d \in Subtree(s, t)
    BY <1>1, <2>1, DownIsUp
  <2>3. QED
    BY <2>1, <2>2 DEF Doomed
<1>4. QED
  BY <1>2, <1>3

\* No record is removed twice.
LEMMA TopLevelSubtreesDisjoint ==
  ASSUME NEW s, NEW ids \in SUBSET Nodes(s)
  PROVE  RemovedOnce(s, ids)
<1> SUFFICES ASSUME NEW m \in TopLevel(s, ids), NEW n \in TopLevel(s, ids), m # n,
                    NEW d \in Subtree(s, m), d \in Subtree(s, n)
             PROVE  FALSE
  BY DEF RemovedOnce
<1>1. /\ m \in ids /\ m \in Nodes(s) /\ Ancestors(s, m) \cap ids = {}
      /\ n \in ids /\ n \in Nodes(s) /\ Ancestors(s, n) \cap ids = {}
  BY DEF TopLevel
<1>2. d \in Nodes(s)
  BY <1>1, DownwardWalk
<1>3. m \in SelfAndAncestors(s, d) /\ n \in SelfAndAncestors(s, d)
  BY <1>1, <1>2, DownIsUp
<1>4. n \in SelfAndAncestors(s, m) \/ m \in SelfAndAncestors(s, n)
  BY <1>2, <1>3, AncestorsAreAChain
<1>5. QED
  BY <1>1, <1>4 DEF Ancestors

\* A valid document without some nodes and all that lies below them is valid.
LEMMA RestIsValid ==
  ASSUME NEW s \in Stores, ValidRecords(s), NEW gone \in SUBSET Nodes(s),
         \A d \in Nodes(s) : s[d].parentId \in gone => d \in gone
  PROVE  ValidRecords(WithoutRecords(s, gone))
<1> DEFINE t == WithoutRecords(s, gone)
<1>1. PageId \in Pages(s) /\ Pages(s) = {PageId} /\ PageId \in Id
  BY DEF ValidRecords, Id
<1>2. \A id \in Id : t[id] = IF id \in gone THEN NoRecord ELSE s[id]
  BY DEF WithoutRecords
<1> HIDE DEF t
<1>3. Present(t) = Present(s) \ gone /\ \A id \in Present(t) : t[id] = s[id]
  BY <1>2 DEF Present
<1>4. Nodes(t) = Nodes(s) \ gone
  BY <1>3 DEF Nodes
<1>5. Pages(t) = {PageId}
  BY <1>1, <1>3 DEF Nodes, Pages
<1>6. \A n \in Nodes(t) : n \in Nodes(s) /\ t[n] = s[n]
  BY <1>3, <1>4 DEF Nodes
<1>7. \A id \in Present(t) : ShapeValid(t[id])
  BY <1>3 DEF ValidRecords
<1>8. ParentsResolve(t)
  <2>1. ParentsResolve(s)
    BY DEF ValidRecords, NodeTreeValid
  <2>2. QED
    BY <1>1, <1>4, <1>5, <1>6, <2>1 DEF ParentsResolve
<1>9. SiblingIndexesUnique(t)
  BY <1>6 DEF ValidRecords, NodeTreeValid, SiblingIndexesUnique
<1>10. ~HasParentCycle(t)
  <2>1. ~HasParentCycle(s)
    BY DEF ValidRecords, NodeTreeValid
  <2>2. QED
    BY <1>4, <1>6, <2>1 DEF HasParentCycle
<1>11. QED
  BY <1>5, <1>7, <1>8, <1>9, <1>10 DEF ValidRecords, NodeTreeValid, t

\* Any selection can be deleted: what lies in or below it goes, each record
\* once, and a valid document stays.
THEOREM DeletionTakesSubtrees == Spec => []DeletesSubtrees
<1>1. IInv => DeletesSubtrees
  <2> SUFFICES ASSUME IInv, NEW ids \in SUBSET Nodes(store)
               PROVE  /\ RemovedOnce(store, ids)
                      /\ Doomed(store, ids) =
                           {n \in Nodes(store) : SelfAndAncestors(store, n) \cap ids # {}}
                      /\ ValidRecords(WithoutRecords(store, Doomed(store, ids)))
    BY DEF DeletesSubtrees
  <2>1. store \in Stores /\ ValidRecords(store)
    BY CurrentStoreValid DEF IInv, TypeOK
  <2>2. ~HasParentCycle(store)
    BY <2>1 DEF ValidRecords, NodeTreeValid
  <2> DEFINE gone == Doomed(store, ids)
  <2>3. gone = {n \in Nodes(store) : SelfAndAncestors(store, n) \cap ids # {}}
    BY <2>2, DoomedLieBelow
  <2> HIDE DEF gone
  <2>4. ASSUME NEW d \in Nodes(store), store[d].parentId \in gone PROVE d \in gone
    <3>1. /\ store[d].parentId \in Nodes(store)
          /\ SelfAndAncestors(store, store[d].parentId) \cap ids # {}
      BY <2>3, <2>4
    <3>2. SelfAndAncestors(store, store[d].parentId) \subseteq SelfAndAncestors(store, d)
      BY <3>1, AncestorsByParent
    <3>3. QED
      BY <2>3, <3>1, <3>2
  <2>5. ValidRecords(WithoutRecords(store, gone))
    BY <2>1, <2>3, <2>4, RestIsValid
  <2>6. QED
    BY <2>3, <2>5, TopLevelSubtreesDisjoint DEF gone
<1>2. QED
  BY <1>1, LineInvariant, PTL

-----------------------------------------------------------------------------
(* Reordering.                                                             *)

\* What updateRecord leaves of a node record, whatever happens to its revision.
LEMMA UpdatedRecordFields ==
  ASSUME NEW r \in NodeRecord, NEW new \in NodeRecord
  PROVE  LET u == UpdatedRecord(r, new)
         IN /\ u \in NodeRecord
            /\ u.typeName = "node" /\ u.parentId = new.parentId /\ u.index = new.index
            /\ u.x = new.x /\ u.width = new.width /\ u.locked = new.locked
BY DEF UpdatedRecord, NodeRecord

\* A reorder under the same parent gives the node its new key, the sibling that
\* had it the old one, and leaves everything else as it was.
LEMMA ReorderedFields ==
  ASSUME NEW s \in Stores, NEW n \in Nodes(s), NEW index \in Index
  PROVE  LET parent == s[n].parentId
             d == Reordered(s, n, parent, index)
         IN /\ Nodes(d) = Nodes(s) /\ Pages(d) = Pages(s) /\ Present(d) = Present(s)
            /\ \A id \in Pages(s) : d[id] = s[id]
            /\ \A id \in Nodes(s) :
                 /\ d[id].parentId = s[id].parentId
                 /\ d[id].x = s[id].x /\ d[id].width = s[id].width
                 /\ d[id].index = IF id = n THEN index
                                  ELSE IF id \in Occupants(s, n, parent, index)
                                  THEN s[n].index ELSE s[id].index
<1> DEFINE parent == s[n].parentId
           d == Reordered(s, n, parent, index)
           swapped == Occupants(s, n, parent, index)
           freed == [id \in Id |-> IF id \in swapped
                       THEN UpdatedRecord(s[id], [s[id] EXCEPT !.index = s[n].index])
                       ELSE s[id]]
           new == [s[n] EXCEPT !.parentId = parent, !.index = index]
<1>1. /\ \A id \in Nodes(s) : id \in Id /\ s[id] \in NodeRecord
      /\ swapped \subseteq Nodes(s) /\ n \notin swapped
      /\ parent \in Id /\ s[n].index \in Index
  BY NodesHoldNodeRecords DEF Occupants, Siblings, NodeRecord
<1>2. d = [freed EXCEPT ![n] = UpdatedRecord(freed[n], new)]
  BY DEF Reordered, WithUpdated
<1> HIDE DEF d, swapped
<1>3. \A id \in Id :
        d[id] = IF id = n THEN UpdatedRecord(s[n], new)
                ELSE IF id \in swapped
                THEN UpdatedRecord(s[id], [s[id] EXCEPT !.index = s[n].index])
                ELSE s[id]
  BY <1>1, <1>2
<1>4. new \in NodeRecord /\ new.parentId = parent /\ new.index = index
      /\ new.x = s[n].x /\ new.width = s[n].width
  BY <1>1 DEF NodeRecord
<1> HIDE DEF new
<1>5. ASSUME NEW id \in Nodes(s)
      PROVE  /\ d[id] \in NodeRecord /\ d[id].typeName = "node"
             /\ d[id].parentId = s[id].parentId
             /\ d[id].x = s[id].x /\ d[id].width = s[id].width
             /\ d[id].index = IF id = n THEN index
                              ELSE IF id \in swapped THEN s[n].index ELSE s[id].index
  <2> DEFINE other == [s[id] EXCEPT !.index = s[n].index]
  <2>1. other \in NodeRecord /\ other.parentId = s[id].parentId
        /\ other.index = s[n].index /\ other.x = s[id].x /\ other.width = s[id].width
    BY <1>1 DEF NodeRecord
  <2>2. d[id] = IF id = n THEN UpdatedRecord(s[n], new)
                ELSE IF id \in swapped THEN UpdatedRecord(s[id], other) ELSE s[id]
    BY <1>1, <1>3
  <2> HIDE DEF other
  <2>3. s[id].typeName = "node"
    BY DEF Nodes
  <2>4. CASE id = n
    BY <1>1, <1>4, <2>2, <2>4, UpdatedRecordFields
  <2>5. CASE id # n /\ id \in swapped
    BY <1>1, <2>1, <2>2, <2>5, UpdatedRecordFields
  <2>6. CASE id # n /\ id \notin swapped
    BY <1>1, <2>2, <2>3, <2>6
  <2>7. QED
    BY <2>4, <2>5, <2>6
<1>6. \A id \in Id : id \notin Nodes(s) => d[id] = s[id]
  BY <1>1, <1>3
<1>7. \A id \in Id : d[id] # NoRecord <=> s[id] # NoRecord
  BY <1>5, <1>6, RecordsAssumption DEF Record, Nodes, Present
<1>8. Present(d) = Present(s)
  BY <1>7 DEF Present
<1>9. Nodes(d) = Nodes(s)
  BY <1>5, <1>6, <1>8 DEF Nodes, Present
<1>10. Pages(d) = Pages(s) /\ \A id \in Pages(s) : d[id] = s[id]
  <2>1. \A id \in Present(s) : id \in Nodes(s) => d[id].typeName = s[id].typeName
    BY <1>5 DEF Nodes
  <2>2. \A id \in Pages(s) : id \in Id /\ id \notin Nodes(s)
    BY DEF Pages, Nodes, Present
  <2>3. QED
    BY <1>6, <1>8, <2>1, <2>2 DEF Pages, Present
<1>11. QED
  BY <1>5, <1>8, <1>9, <1>10 DEF swapped, d

\* A reorder under the same parent keeps a document valid.
LEMMA ReorderStaysValid ==
  ASSUME NEW s \in Stores, ValidRecords(s), NEW n \in Nodes(s), NEW index \in Index
  PROVE  ValidRecords(Reordered(s, n, s[n].parentId, index))
<1> DEFINE d == Reordered(s, n, s[n].parentId, index)
           swapped == Occupants(s, n, s[n].parentId, index)
<1>1. /\ Nodes(d) = Nodes(s) /\ Pages(d) = Pages(s) /\ Present(d) = Present(s)
      /\ \A id \in Pages(s) : d[id] = s[id]
      /\ \A id \in Nodes(s) :
           /\ d[id].parentId = s[id].parentId
           /\ d[id].x = s[id].x /\ d[id].width = s[id].width
           /\ d[id].index = IF id = n THEN index
                            ELSE IF id \in swapped THEN s[n].index ELSE s[id].index
  BY ReorderedFields
<1>2. \A m \in Nodes(s) : m \in swapped <=> /\ m # n
                                            /\ s[m].parentId = s[n].parentId
                                            /\ s[m].index = index
  BY DEF Occupants, Siblings
<1> HIDE DEF d, swapped
<1>3. \A id \in Present(d) : ShapeValid(d[id])
  <2>1. \A id \in Present(s) : ShapeValid(s[id])
    BY DEF ValidRecords
  <2>2. \A id \in Present(d) : d[id].typeName = "node" => id \in Nodes(s)
    BY <1>1 DEF Nodes
  <2>3. \A id \in Nodes(s) : id \in Present(s) /\ s[id].typeName = "node"
    BY DEF Nodes
  <2>4. QED
    BY <1>1, <2>1, <2>2, <2>3 DEF ShapeValid
<1>4. ParentsResolve(d)
  BY <1>1 DEF ValidRecords, NodeTreeValid, ParentsResolve
<1>5. SiblingIndexesUnique(d)
  <2>1. SiblingIndexesUnique(s)
    BY DEF ValidRecords, NodeTreeValid
  <2> SUFFICES ASSUME NEW a \in Nodes(s), NEW b \in Nodes(s), a # b,
                      s[a].parentId = s[b].parentId, d[a].index = d[b].index
               PROVE  FALSE
    BY <1>1 DEF SiblingIndexesUnique
  <2>2. s[a].index # s[b].index
    BY <2>1 DEF SiblingIndexesUnique
  <2>3. ASSUME NEW m \in Nodes(s), m # n, s[m].parentId = s[n].parentId
        PROVE  s[m].index # s[n].index
    BY <2>1, <2>3 DEF SiblingIndexesUnique
  <2>4. CASE a = n
    BY <1>1, <1>2, <2>2, <2>3, <2>4
  <2>5. CASE b = n
    BY <1>1, <1>2, <2>2, <2>3, <2>5
  <2>6. CASE a # n /\ b # n
    BY <1>1, <1>2, <2>2, <2>3, <2>6
  <2>7. QED
    BY <2>4, <2>5, <2>6
<1>6. ~HasParentCycle(d)
  BY <1>1 DEF ValidRecords, NodeTreeValid, HasParentCycle
<1>7. QED
  BY <1>1, <1>3, <1>4, <1>5, <1>6 DEF ValidRecords, NodeTreeValid, d

\* On a key that a sibling has, the siblings use the same keys as before.
LEMMA ReorderKeepsKeys ==
  ASSUME NEW s \in Stores, SiblingIndexesUnique(s), NEW n \in Nodes(s),
         NEW m \in Siblings(s, s[n].parentId)
  PROVE  LET parent == s[n].parentId
             d == Reordered(s, n, parent, s[m].index)
         IN {d[k].index : k \in Siblings(d, parent)} = {s[k].index : k \in Siblings(s, parent)}
<1> DEFINE parent == s[n].parentId
           index == s[m].index
           d == Reordered(s, n, parent, index)
           swapped == Occupants(s, n, parent, index)
<1>1. m \in Nodes(s) /\ s[m].parentId = parent /\ index \in Index
  BY NodesHoldNodeRecords DEF Siblings, NodeRecord
<1>2. /\ Nodes(d) = Nodes(s)
      /\ \A id \in Nodes(s) :
           /\ d[id].parentId = s[id].parentId
           /\ d[id].index = IF id = n THEN index
                            ELSE IF id \in swapped THEN s[n].index ELSE s[id].index
  BY <1>1, ReorderedFields
<1>3. \A k \in Nodes(s) : k \in swapped <=> k # n /\ s[k].parentId = parent /\ s[k].index = index
  BY DEF Occupants, Siblings
<1> HIDE DEF d, swapped, index, parent
<1>4. Siblings(d, parent) = Siblings(s, parent)
  BY <1>2 DEF Siblings
<1>5. \A k \in Siblings(s, parent) : k \in Nodes(s) /\ s[k].parentId = parent
  BY DEF Siblings
<1>6. n \in Siblings(s, parent) /\ m \in Siblings(s, parent)
  BY <1>1 DEF Siblings, parent
<1>7. \A k \in Siblings(s, parent) : s[k].index = index => k = m
  BY <1>1, <1>5 DEF SiblingIndexesUnique, index
<1>8. s[m].index = index
  BY DEF index
<1>9. m # n => d[m].index = s[n].index
  BY <1>1, <1>2, <1>3, <1>8
<1>10. d[n].index = index
  BY <1>2
<1>11. \A k \in Siblings(s, parent) : k # n /\ k # m => d[k].index = s[k].index
  BY <1>2, <1>3, <1>5, <1>7
<1>12. QED
  BY <1>4, <1>6, <1>8, <1>9, <1>10, <1>11 DEF d, index, parent

\* Any node can be moved to any sibling key under its own parent: the document
\* stays valid, and on a taken key the siblings use the same keys as before.
THEOREM ReorderingSwapsKeys == Spec => []ReorderSwapsKeys
<1>1. IInv => ReorderSwapsKeys
  <2> SUFFICES ASSUME IInv, NEW n \in Nodes(store), NEW index \in ReorderIndex
               PROVE  LET parent == store[n].parentId
                          draft == Reordered(store, n, parent, index)
                          keys(s) == {s[m].index : m \in Siblings(s, parent)}
                      IN /\ ValidRecords(draft)
                         /\ index \in keys(store) => keys(draft) = keys(store)
    BY DEF ReorderSwapsKeys
  <2>1. store \in Stores /\ ValidRecords(store)
    BY CurrentStoreValid DEF IInv, TypeOK
  <2>2. index \in Index /\ SiblingIndexesUnique(store)
    BY <2>1, EditorAssumption DEF ValidRecords, NodeTreeValid
  <2>3. ValidRecords(Reordered(store, n, store[n].parentId, index))
    BY <2>1, <2>2, ReorderStaysValid
  <2>4. ASSUME NEW m \in Siblings(store, store[n].parentId), index = store[m].index
        PROVE  LET draft == Reordered(store, n, store[n].parentId, index)
               IN {draft[k].index : k \in Siblings(draft, store[n].parentId)}
                    = {store[k].index : k \in Siblings(store, store[n].parentId)}
    <3>1. LET draft == Reordered(store, n, store[n].parentId, store[m].index)
          IN {draft[k].index : k \in Siblings(draft, store[n].parentId)}
               = {store[k].index : k \in Siblings(store, store[n].parentId)}
      <4>1. n \in Nodes(store) /\ m \in Siblings(store, store[n].parentId)
        OBVIOUS
      <4> QED
        BY ONLY <2>1, <2>2, <4>1, ReorderKeepsKeys
    <3> QED
      BY ONLY <2>4, <3>1
  <2>5. QED
    BY <2>3, <2>4
<1>2. QED
  BY <1>1, LineInvariant, PTL

-----------------------------------------------------------------------------
(* Locks.                                                                  *)

\* d keeps the position and extent of every node it has in common with s.
KeepsGeometry(s, d) ==
  \A n \in Nodes(s) \cap Nodes(d) : d[n].x = s[n].x /\ d[n].width = s[n].width

\* d changes the position and extent of unlocked nodes only, and no lock.
ChangesUnlocked(s, d) ==
  /\ Nodes(d) = Nodes(s)
  /\ \A n \in Nodes(s) :
       /\ d[n].parentId = s[n].parentId /\ d[n].locked = s[n].locked
       /\ d[n].x # s[n].x \/ d[n].width # s[n].width => ~TransformLocked(s, n)

\* Neither before nor after a change is a node locked whose geometry it changes.
LocksRespected(s, d) ==
  \A n \in Nodes(s) \cap Nodes(d) :
    d[n].x # s[n].x \/ d[n].width # s[n].width =>
      ~TransformLocked(s, n) /\ ~TransformLocked(d, n)

\* Documents with the same nodes and parents have the same ancestors.
LEMMA SameAncestors ==
  ASSUME NEW s, NEW d, Nodes(d) = Nodes(s),
         \A n \in Nodes(s) : d[n].parentId = s[n].parentId,
         NEW n \in Nodes(s)
  PROVE  SelfAndAncestors(d, n) = SelfAndAncestors(s, n)
<1>1. SelfAndAncestors(d, n) \subseteq SelfAndAncestors(s, n)
  <2> DEFINE D == SelfAndAncestors(s, n)
  <2>1. /\ D \in SUBSET Nodes(d) /\ n \in D
        /\ \A m \in D : d[m].parentId \in Nodes(d) => d[m].parentId \in D
    BY UpwardWalk
  <2> HIDE DEF D
  <2>2. SelfAndAncestors(d, n) \subseteq D
    BY <2>1, UpwardWalk
  <2>3. QED
    BY <2>2 DEF D
<1>2. SelfAndAncestors(s, n) \subseteq SelfAndAncestors(d, n)
  <2> DEFINE D == SelfAndAncestors(d, n)
  <2>1. /\ D \in SUBSET Nodes(s) /\ n \in D
        /\ \A m \in D : s[m].parentId \in Nodes(s) => s[m].parentId \in D
    BY UpwardWalk
  <2> HIDE DEF D
  <2>2. SelfAndAncestors(s, n) \subseteq D
    BY <2>1, UpwardWalk
  <2>3. QED
    BY <2>2 DEF D
<1>3. QED
  BY <1>1, <1>2

\* Documents with the same nodes, parents and locks lock the same nodes.
LEMMA SameLocks ==
  ASSUME NEW s, NEW d, Nodes(d) = Nodes(s),
         \A n \in Nodes(s) : d[n].parentId = s[n].parentId /\ d[n].locked = s[n].locked,
         NEW n \in Nodes(s)
  PROVE  TransformLocked(d, n) <=> TransformLocked(s, n)
<1>1. SelfAndAncestors(d, n) = SelfAndAncestors(s, n)
  BY SameAncestors
<1>2. SelfAndAncestors(s, n) \subseteq Nodes(s)
  BY UpwardWalk
<1>3. QED
  BY <1>1, <1>2 DEF TransformLocked

\* What a transaction leaves in the store is the draft but for revisions.
LEMMA StoredIsDraft ==
  ASSUME NEW s \in Stores, NEW d \in Stores
  PROVE  LET t == Patched(s, BuildPatch(s, d))
         IN /\ Nodes(t) = Nodes(d)
            /\ \A n \in Nodes(d) :
                 /\ t[n].x = d[n].x /\ t[n].width = d[n].width
                 /\ t[n].parentId = d[n].parentId /\ t[n].locked = d[n].locked
<1> DEFINE t == Patched(s, BuildPatch(s, d))
           kept(id) == s[id] # NoRecord /\ d[id] # NoRecord /\ ~RecordsDiffer(s[id], d[id])
<1>1. ASSUME NEW id \in Id
      PROVE  t[id] = d[id] \/ (kept(id) /\ t[id] = s[id])
  <2>1. BuildPatch(s, d)[id] = IF kept(id) THEN Untouched
                               ELSE [before |-> s[id], after |-> d[id]]
    BY DEF BuildPatch
  <2>2. t[id] = IF BuildPatch(s, d)[id] # Untouched
                THEN BuildPatch(s, d)[id].after ELSE s[id]
    BY DEF Patched, Touched
  <2>3. CASE kept(id)
    BY <2>1, <2>2, <2>3
  <2>4. CASE ~kept(id)
    <3>1. CASE [before |-> s[id], after |-> d[id]] = Untouched
      BY <2>1, <2>2, <2>4, <3>1 DEF Untouched
    <3>2. CASE [before |-> s[id], after |-> d[id]] # Untouched
      BY <2>1, <2>2, <2>4, <3>2
    <3>3. QED
      BY <3>1, <3>2
  <2>5. QED
    BY <2>3, <2>4
<1>2. \A id \in Id : s[id] \in Record \cup {NoRecord} /\ d[id] \in Record \cup {NoRecord}
  BY DEF Stores
<1>3. ASSUME NEW r \in Record, NEW q \in Record, ~RecordsDiffer(r, q)
      PROVE  /\ r.typeName = q.typeName
             /\ r.typeName = "node" =>
                  /\ r.x = q.x /\ r.width = q.width
                  /\ r.parentId = q.parentId /\ r.locked = q.locked
  <2>1. [r EXCEPT !.revision = 0] = [q EXCEPT !.revision = 0]
    BY <1>3 DEF RecordsDiffer
  <2>2. CASE r \in NodeRecord /\ q \in NodeRecord
    BY <2>1, <2>2 DEF NodeRecord
  <2>3. CASE r \in PageRecord /\ q \in PageRecord
    BY <2>3 DEF PageRecord
  <2>4. CASE r \in NodeRecord /\ q \in PageRecord
    <3>1. [r EXCEPT !.revision = 0].typeName = "node"
      BY <2>4 DEF NodeRecord
    <3>2. [q EXCEPT !.revision = 0].typeName = "page"
      BY <2>4 DEF PageRecord
    <3>3. QED
      BY <2>1, <3>1, <3>2
  <2>5. CASE r \in PageRecord /\ q \in NodeRecord
    <3>1. [r EXCEPT !.revision = 0].typeName = "page"
      BY <2>5 DEF PageRecord
    <3>2. [q EXCEPT !.revision = 0].typeName = "node"
      BY <2>5 DEF NodeRecord
    <3>3. QED
      BY <2>1, <3>1, <3>2
  <2>6. QED
    BY <2>2, <2>3, <2>4, <2>5 DEF Record
<1> HIDE DEF t
<1>4. ASSUME NEW id \in Id
      PROVE  /\ t[id] # NoRecord <=> d[id] # NoRecord
             /\ d[id] # NoRecord =>
                  /\ t[id].typeName = d[id].typeName
                  /\ d[id].typeName = "node" =>
                       /\ t[id].x = d[id].x /\ t[id].width = d[id].width
                       /\ t[id].parentId = d[id].parentId /\ t[id].locked = d[id].locked
  <2>1. CASE t[id] = d[id]
    BY <2>1
  <2>2. CASE kept(id) /\ t[id] = s[id]
    <3>1. s[id] \in Record /\ d[id] \in Record /\ ~RecordsDiffer(s[id], d[id])
      BY <1>2, <2>2
    <3>2. QED
      BY <1>3, <2>2, <3>1
  <2>3. QED
    BY <1>1, <2>1, <2>2
<1>5. Nodes(t) = Nodes(d)
  BY <1>4 DEF Nodes, Present
<1>6. \A n \in Nodes(d) : n \in Id /\ d[n] # NoRecord /\ d[n].typeName = "node"
  BY DEF Nodes, Present
<1>7. QED
  BY <1>4, <1>5, <1>6 DEF t

\* A draft of either kind leads to a store that respects the locks.
LEMMA DraftsRespectLocks ==
  ASSUME NEW s \in Stores, NEW d \in Stores, KeepsGeometry(s, d) \/ ChangesUnlocked(s, d)
  PROVE  LocksRespected(s, Patched(s, BuildPatch(s, d)))
<1> DEFINE t == Patched(s, BuildPatch(s, d))
<1>1. /\ Nodes(t) = Nodes(d)
      /\ \A n \in Nodes(d) :
           /\ t[n].x = d[n].x /\ t[n].width = d[n].width
           /\ t[n].parentId = d[n].parentId /\ t[n].locked = d[n].locked
  BY StoredIsDraft
<1> HIDE DEF t
<1>2. CASE KeepsGeometry(s, d)
  BY <1>1, <1>2 DEF KeepsGeometry, LocksRespected, t
<1>3. CASE ChangesUnlocked(s, d)
  <2>1. /\ Nodes(t) = Nodes(s)
        /\ \A n \in Nodes(s) :
             /\ t[n].parentId = s[n].parentId /\ t[n].locked = s[n].locked
             /\ t[n].x # s[n].x \/ t[n].width # s[n].width => ~TransformLocked(s, n)
    BY <1>1, <1>3 DEF ChangesUnlocked
  <2>2. \A n \in Nodes(s) : TransformLocked(t, n) <=> TransformLocked(s, n)
    BY <2>1, SameLocks
  <2>3. QED
    BY <2>1, <2>2 DEF LocksRespected, t
<1>4. QED
  BY <1>2, <1>3

\* New geometry for chosen unlocked nodes.
LEMMA NewGeometry ==
  ASSUME NEW s \in Stores, NEW ids \in SUBSET Nodes(s), NEW new,
         \A id \in ids : /\ ~TransformLocked(s, id)
                         /\ new[id] \in NodeRecord
                         /\ new[id].parentId = s[id].parentId
                         /\ new[id].locked = s[id].locked
  PROVE  ChangesUnlocked(s, [id \in Id |-> IF id \in ids
                                           THEN UpdatedRecord(s[id], new[id]) ELSE s[id]])
<1> DEFINE d == [id \in Id |-> IF id \in ids
                               THEN UpdatedRecord(s[id], new[id]) ELSE s[id]]
<1>1. \A n \in Nodes(s) : n \in Id /\ s[n] \in NodeRecord /\ s[n].typeName = "node"
  BY NodesHoldNodeRecords DEF Nodes
<1>2. \A id \in Id : d[id] = IF id \in ids THEN UpdatedRecord(s[id], new[id]) ELSE s[id]
  OBVIOUS
<1> HIDE DEF d
<1>3. \A n \in ids : /\ d[n] \in NodeRecord /\ d[n].typeName = "node"
                     /\ d[n].parentId = s[n].parentId /\ d[n].locked = s[n].locked
  BY <1>1, <1>2, UpdatedRecordFields
<1>4. \A n \in ids : d[n] # NoRecord /\ s[n] # NoRecord
  BY <1>1, <1>3, RecordsAssumption DEF Record
<1>5. Nodes(d) = Nodes(s)
  BY <1>1, <1>2, <1>3, <1>4 DEF Nodes, Present
<1>6. QED
  BY <1>1, <1>2, <1>3, <1>5 DEF ChangesUnlocked, d

\* A new record for one node that keeps its geometry.
LEMMA NewFlags ==
  ASSUME NEW s \in Stores, NEW n \in Nodes(s), NEW new \in NodeRecord,
         new.x = s[n].x, new.width = s[n].width
  PROVE  KeepsGeometry(s, WithUpdated(s, n, new))
<1>1. n \in Id /\ s[n] \in NodeRecord
  BY NodesHoldNodeRecords
<1>2. \A id \in Id : WithUpdated(s, n, new)[id] = IF id = n THEN UpdatedRecord(s[n], new)
                                                   ELSE s[id]
  BY <1>1 DEF WithUpdated, Stores
<1>3. UpdatedRecord(s[n], new).x = s[n].x /\ UpdatedRecord(s[n], new).width = s[n].width
  BY <1>1, UpdatedRecordFields
<1>4. \A m \in Nodes(s) : m \in Id
  BY NodesHoldNodeRecords
<1>5. QED
  BY <1>2, <1>3, <1>4 DEF KeepsGeometry

\* A reorder moves no node, under whichever parent it puts one.
LEMMA ReorderKeepsGeometry ==
  ASSUME NEW s \in Stores, NEW n \in Nodes(s), NEW parent \in Id, NEW index \in Index
  PROVE  KeepsGeometry(s, Reordered(s, n, parent, index))
<1> DEFINE d == Reordered(s, n, parent, index)
           swapped == IF s[n].parentId = parent THEN Occupants(s, n, parent, index) ELSE {}
           freed == [id \in Id |-> IF id \in swapped
                       THEN UpdatedRecord(s[id], [s[id] EXCEPT !.index = s[n].index])
                       ELSE s[id]]
           new == [s[n] EXCEPT !.parentId = parent, !.index = index]
<1>1. /\ \A id \in Nodes(s) : id \in Id /\ s[id] \in NodeRecord
      /\ swapped \subseteq Nodes(s) /\ n \notin swapped /\ s[n].index \in Index
  BY NodesHoldNodeRecords DEF Occupants, Siblings, NodeRecord
<1>2. d = [freed EXCEPT ![n] = UpdatedRecord(freed[n], new)]
  BY DEF Reordered, WithUpdated
<1> HIDE DEF d, swapped
<1>3. \A id \in Id :
        d[id] = IF id = n THEN UpdatedRecord(s[n], new)
                ELSE IF id \in swapped
                THEN UpdatedRecord(s[id], [s[id] EXCEPT !.index = s[n].index])
                ELSE s[id]
  BY <1>1, <1>2
<1>4. new \in NodeRecord /\ new.x = s[n].x /\ new.width = s[n].width
  BY <1>1 DEF NodeRecord
<1>5. \A id \in Nodes(s) :
        LET other == [s[id] EXCEPT !.index = s[n].index]
        IN other \in NodeRecord /\ other.x = s[id].x /\ other.width = s[id].width
  BY <1>1 DEF NodeRecord
<1> HIDE DEF new
<1>6. ASSUME NEW id \in Nodes(s) PROVE d[id].x = s[id].x /\ d[id].width = s[id].width
  <2> DEFINE other == [s[id] EXCEPT !.index = s[n].index]
  <2>1. other \in NodeRecord /\ other.x = s[id].x /\ other.width = s[id].width
    BY <1>5
  <2>2. d[id] = IF id = n THEN UpdatedRecord(s[n], new)
                ELSE IF id \in swapped THEN UpdatedRecord(s[id], other) ELSE s[id]
    BY <1>1, <1>3
  <2> HIDE DEF other
  <2>3. QED
    BY <1>1, <1>4, <2>1, <2>2, UpdatedRecordFields
<1>7. QED
  BY <1>6 DEF KeepsGeometry, d

\* Every command makes a draft of one of the two kinds.
LEMMA CommandsRespectLocks ==
  ASSUME TypeOK, ValidRecords(store), Dispatch
  PROVE  LocksRespected(store, store')
<1> DEFINE Respects(d) == KeepsGeometry(store, d) \/ ChangesUnlocked(store, d)
           Done == \E d \in Stores : Respects(d) /\ store' = Patched(store, BuildPatch(store, d))
<1>0. store \in Stores
  BY DEF TypeOK
<1>a. ASSUME NEW command, NEW d \in Stores, Commit(command, d), Respects(d)
      PROVE  Done
  BY <1>a DEF Commit
<1> HIDE DEF Done
<1>1. ASSUME NEW id \in NodeId, NEW parent \in Id, NEW x \in InputCoord,
             NEW width \in InputSize, NEW name \in Name,
             NodeCreate(id, parent, x, width, name)
      PROVE  Done
  <2> DEFINE r(index) == [typeName |-> "node", revision |-> 0, parentId |-> parent,
                          index |-> index, x |-> x, width |-> width, visible |-> TRUE,
                          locked |-> FALSE, name |-> name]
  <2>1. PICK index \in Index : Commit([type |-> "node.create"],
                                      WithRecord(store, id, r(index)))
    BY <1>1 DEF NodeCreate
  <2>2. r(index) \in Record
    BY RecordsAssumption, EditorAssumption DEF Record, NodeRecord
  <2> HIDE DEF r
  <2>3. WithRecord(store, id, r(index)) \in Stores
    BY <1>0, <2>2 DEF WithRecord, Stores, Id
  <2>4. id \notin Nodes(store)
    BY <1>1 DEF NodeCreate, Nodes
  <2>5. KeepsGeometry(store, WithRecord(store, id, r(index)))
    BY <1>0, <2>4 DEF KeepsGeometry, WithRecord, Nodes, Present, Stores
  <2>6. QED
    BY <1>a, <2>1, <2>3, <2>5
<1>2. ASSUME NEW ids \in SUBSET NodeId, NEW delta \in MoveDelta, NodeMove(ids, delta)
      PROVE  Done
  <2> DEFINE new == [n \in Nodes(store) |-> [store[n] EXCEPT !.x = @ + delta]]
             moved == TopLevel(store, ids)
             draft == [id \in Id |-> IF id \in moved
                                     THEN UpdatedRecord(store[id], new[id])
                                     ELSE store[id]]
  <2>1. moved \in SUBSET Nodes(store) /\ \A n \in moved : ~TransformLocked(store, n)
    BY <1>2 DEF NodeMove, TopLevel
  <2>2. \A n \in moved : /\ new[n] \in NodeRecord /\ new[n].parentId = store[n].parentId
                         /\ new[n].locked = store[n].locked
    BY <1>0, <2>1, NodesHoldNodeRecords, EditorAssumption DEF NodeRecord
  <2>3. draft \in Stores /\ ChangesUnlocked(store, draft)
    <3> HIDE DEF new, moved
    <3> QED
      BY <1>0, <2>1, <2>2, ManyUpdatedTyped, NewGeometry
  <2>4. draft = [id \in Id |->
          IF id \in moved
          THEN UpdatedRecord(store[id], [store[id] EXCEPT !.x = @ + delta])
          ELSE store[id]]
    BY <2>1
  <2>5. Commit([type |-> "node.move", ids |-> ids, delta |-> delta], draft)
    BY <1>2, <2>4 DEF NodeMove
  <2> HIDE DEF draft
  <2>6. QED
    BY <1>a, <2>3, <2>5
<1>3. ASSUME NEW n \in Nodes(store), NEW width \in InputSize,
             NEW x \in InputCoord \cup {store[n].x}, NodeResize(n, x, width)
      PROVE  Done
  <2> DEFINE box == [store[n] EXCEPT !.x = x, !.width = width]
             new == [m \in {n} |-> box]
             draft == [id \in Id |-> IF id \in {n}
                                     THEN UpdatedRecord(store[id], new[id])
                                     ELSE store[id]]
  <2>1. n \in Id /\ store[n] \in NodeRecord
    BY <1>0, NodesHoldNodeRecords
  <2>2. /\ box \in NodeRecord /\ box.parentId = store[n].parentId
        /\ box.locked = store[n].locked
    BY <2>1, RecordsAssumption, EditorAssumption DEF NodeRecord
  <2>3. ~TransformLocked(store, n) /\ Commit([type |-> "node.resize"],
                                             WithUpdated(store, n, box))
    BY <1>3 DEF NodeResize
  <2> HIDE DEF box
  <2>4. draft \in Stores /\ ChangesUnlocked(store, draft)
    <3>1. \A id \in {n} : /\ ~TransformLocked(store, id)
                          /\ new[id] \in NodeRecord
                          /\ new[id].parentId = store[id].parentId
                          /\ new[id].locked = store[id].locked
      BY <2>2, <2>3
    <3> HIDE DEF new
    <3>2. QED
      BY <1>0, <3>1, ManyUpdatedTyped, NewGeometry
  <2>5. draft = WithUpdated(store, n, box)
    BY <1>0, <2>1 DEF WithUpdated, Stores
  <2> HIDE DEF draft
  <2>6. QED
    BY <1>a, <2>3, <2>4, <2>5
<1>4. ASSUME NEW ids \in SUBSET NodeId, NEW box \in [ids -> [x: InputCoord, width: InputSize]],
             NodeResizeMany(ids, box)
      PROVE  Done
  <2> DEFINE new == [n \in ids |-> [store[n] EXCEPT !.x = box[n].x,
                                                    !.width = box[n].width]]
             draft == [id \in Id |-> IF id \in ids
                                     THEN UpdatedRecord(store[id], new[id])
                                     ELSE store[id]]
  <2>1. ids \in SUBSET Nodes(store) /\ \A n \in ids : ~TransformLocked(store, n)
    BY <1>4 DEF NodeResizeMany
  <2>2. ASSUME NEW n \in ids
        PROVE  /\ new[n] \in NodeRecord /\ new[n].parentId = store[n].parentId
               /\ new[n].locked = store[n].locked
    <3>1. store[n] \in NodeRecord
      BY <1>0, <2>1, NodesHoldNodeRecords
    <3>2. box[n].x \in Int /\ box[n].width \in Int
      BY RecordsAssumption, EditorAssumption
    <3>3. QED
      BY <3>1, <3>2 DEF NodeRecord
  <2>3. draft \in Stores /\ ChangesUnlocked(store, draft)
    <3> HIDE DEF new
    <3> QED
      BY <1>0, <2>1, <2>2, ManyUpdatedTyped, NewGeometry
  <2>4. draft = [id \in Id |->
          IF id \in ids
          THEN UpdatedRecord(store[id], [store[id] EXCEPT !.x = box[id].x,
                                                          !.width = box[id].width])
          ELSE store[id]]
    OBVIOUS
  <2>5. Commit([type |-> "node.resizeMany"], draft)
    BY <1>4, <2>4 DEF NodeResizeMany
  <2> HIDE DEF draft
  <2>6. QED
    BY <1>a, <2>3, <2>5
<1>5. ASSUME NEW ids \in SUBSET NodeId, NodeDelete(ids)
      PROVE  Done
  <2> DEFINE draft == WithoutRecords(store, Doomed(store, ids))
  <2>1. draft \in Stores
    BY <1>0 DEF WithoutRecords, Stores
  <2>2. KeepsGeometry(store, draft)
    BY DEF KeepsGeometry, WithoutRecords, Nodes, Present
  <2>3. Commit([type |-> "node.delete"], draft)
    BY <1>5 DEF NodeDelete
  <2> HIDE DEF draft
  <2>4. QED
    BY <1>a, <2>1, <2>2, <2>3
<1>6. ASSUME NEW n \in NodeId, NEW parent \in Id, NEW index \in ReorderIndex,
             NodeReorder(n, parent, index)
      PROVE  Done
  <2>1. n \in Nodes(store) /\ index \in Index
        /\ Commit([type |-> "node.reorder"], Reordered(store, n, parent, index))
    BY <1>6, EditorAssumption DEF NodeReorder
  <2>2. /\ Reordered(store, n, parent, index) \in Stores
        /\ KeepsGeometry(store, Reordered(store, n, parent, index))
    BY <1>0, <2>1, ReorderedTyped, ReorderKeepsGeometry
  <2>3. QED
    BY <1>a, <2>1, <2>2
<1>7. ASSUME NEW n \in Nodes(store), NEW new \in NodeRecord, NEW command,
             new.x = store[n].x, new.width = store[n].width,
             Commit(command, WithUpdated(store, n, new))
      PROVE  Done
  <2>1. n \in Id /\ store[n] \in NodeRecord
    BY <1>0, NodesHoldNodeRecords
  <2>2. /\ WithUpdated(store, n, new) \in Stores
        /\ KeepsGeometry(store, WithUpdated(store, n, new))
    BY <1>0, <1>7, <2>1, WithUpdatedTyped, NewFlags
  <2>3. QED
    BY <1>a, <1>7, <2>2
<1>8. ASSUME NEW n \in NodeId, NEW name \in Name, NodeRename(n, name)
      PROVE  Done
  <2> DEFINE new == [store[n] EXCEPT !.name = name]
  <2>1. n \in Nodes(store) /\ Commit([type |-> "node.rename"], WithUpdated(store, n, new))
    BY <1>8 DEF NodeRename
  <2>2. new \in NodeRecord /\ new.x = store[n].x /\ new.width = store[n].width
    BY <1>0, <2>1, NodesHoldNodeRecords DEF NodeRecord
  <2> HIDE DEF new
  <2>3. QED
    BY <1>7, <2>1, <2>2
<1>9. ASSUME NEW n \in NodeId, NEW visible \in InputFlag, NodeSetVisible(n, visible)
      PROVE  Done
  <2> DEFINE new == [store[n] EXCEPT !.visible = visible]
  <2>1. n \in Nodes(store) /\ Commit([type |-> "node.setVisible"], WithUpdated(store, n, new))
    BY <1>9 DEF NodeSetVisible
  <2>2. new \in NodeRecord /\ new.x = store[n].x /\ new.width = store[n].width
    BY <1>0, <2>1, NodesHoldNodeRecords, EditorAssumption DEF NodeRecord
  <2> HIDE DEF new
  <2>3. QED
    BY <1>7, <2>1, <2>2
<1>10. ASSUME NEW n \in NodeId, NEW locked \in InputFlag, NodeSetLocked(n, locked)
      PROVE  Done
  <2> DEFINE new == [store[n] EXCEPT !.locked = locked]
  <2>1. n \in Nodes(store) /\ Commit([type |-> "node.setLocked"], WithUpdated(store, n, new))
    BY <1>10 DEF NodeSetLocked
  <2>2. new \in NodeRecord /\ new.x = store[n].x /\ new.width = store[n].width
    BY <1>0, <2>1, NodesHoldNodeRecords, EditorAssumption DEF NodeRecord
  <2> HIDE DEF new
  <2>3. QED
    BY <1>7, <2>1, <2>2
<1>11. ASSUME NEW overflow \in Overflow, PageSetOverflow(overflow)
       PROVE  Done
  <2> DEFINE new == [store[PageId] EXCEPT !.overflow = overflow]
             draft == WithUpdated(store, PageId, new)
  <2>1. PageId \in Id /\ store[PageId] \in PageRecord
    BY <1>0, RootPageHoldsPageRecord DEF Id
  <2>2. new \in PageRecord
    BY <2>1 DEF PageRecord
  <2>3. Commit([type |-> "page.setOverflow"], draft)
    BY <1>11 DEF PageSetOverflow
  <2> HIDE DEF new
  <2>4. draft \in Stores
    BY <1>0, <2>1, <2>2, WithUpdatedTyped
  <2>5. PageId \notin Nodes(store)
    BY <2>1 DEF Nodes, PageRecord
  <2>6. KeepsGeometry(store, draft)
    BY <1>0, <2>5 DEF KeepsGeometry, WithUpdated, Nodes, Present, Stores
  <2> HIDE DEF draft
  <2>7. QED
    BY <1>a, <2>3, <2>4, <2>6
<1>12. Done
  BY <1>1, <1>2, <1>3, <1>4, <1>5, <1>6, <1>8, <1>9, <1>10, <1>11 DEF Dispatch
<1>13. QED
  BY <1>0, <1>12, DraftsRespectLocks DEF Done

-----------------------------------------------------------------------------
(* The history is a timeline.                                              *)

\* The stores behind the current one, replayed backwards, are the line's.
LEMMA RewoundIsLine ==
  ASSUME NEW k \in Nat, NEW line, NEW from, line[k + 1] = from,
         \A i \in 1 .. k : line[i] = Patched(line[i + 1], entries[i].inverse)
  PROVE  \A i \in 1 .. k + 1 : Rewound(from, k)[i] = line[i]
<1> DEFINE Rewinds(f) == f = [i \in 1 .. k + 1 |->
                                IF i = k + 1 THEN from
                                ELSE Patched(f[i + 1], entries[i].inverse)]
           back == Rewound(from, k)
           wrong == {d \in 0 .. k : back[k + 1 - d] # line[k + 1 - d]}
<1>1. Rewinds([i \in 1 .. k + 1 |-> line[i]])
  OBVIOUS
<1>2. back = CHOOSE f : Rewinds(f)
  BY DEF Rewound
<1>3. Rewinds(back)
  BY <1>1, <1>2
<1>4. \A i \in 1 .. k + 1 :
        back[i] = IF i = k + 1 THEN from ELSE Patched(back[i + 1], entries[i].inverse)
  BY <1>3
<1> HIDE DEF back
<1>5. ASSUME wrong # {} PROVE FALSE
  <2>1. wrong \in SUBSET Nat
    OBVIOUS
  <2> HIDE DEF wrong
  <2>2. PICK d \in wrong : \A c \in wrong : d <= c
    BY <1>5, <2>1, LeastNatural
  <2>3. d \in 0 .. k /\ back[k + 1 - d] # line[k + 1 - d]
    BY DEF wrong
  <2>4. d # 0
    BY <1>4, <2>3
  <2>5. d - 1 \in 0 .. k /\ d - 1 \notin wrong
    BY <2>2, <2>3, <2>4
  <2>6. back[k + 1 - (d - 1)] = line[k + 1 - (d - 1)]
    BY <2>5 DEF wrong
  <2> DEFINE i == k + 1 - d
  <2>7. i \in 1 .. k /\ i # k + 1 /\ i \in 1 .. k + 1 /\ k + 1 - (d - 1) = i + 1
    BY <2>3, <2>4
  <2>8. back[i] = line[i]
    BY <1>4, <2>6, <2>7
  <2>9. QED
    BY <2>3, <2>8
<1>6. ASSUME NEW i \in 1 .. k + 1 PROVE back[i] = line[i]
  <2>1. k + 1 - i \in 0 .. k /\ k + 1 - (k + 1 - i) = i
    OBVIOUS
  <2>2. QED
    BY <1>5, <2>1
<1>7. QED
  BY <1>6 DEF back

\* The stores ahead of the current one, replayed forwards, are the line's.
LEMMA ReplayedIsLine ==
  ASSUME NEW k \in Nat, Len(entries) \in Nat, k <= Len(entries),
         NEW line, NEW from, line[k + 1] = from,
         \A i \in k + 1 .. Len(entries) : line[i + 1] = Patched(line[i], entries[i].forward)
  PROVE  \A i \in k + 1 .. Len(entries) + 1 : Replayed(from, k)[i] = line[i]
<1> DEFINE n == Len(entries)
           Replays(f) == f = [i \in k + 1 .. n + 1 |->
                                IF i = k + 1 THEN from
                                ELSE Patched(f[i - 1], entries[i - 1].forward)]
           ahead == Replayed(from, k)
           wrong == {i \in k + 1 .. n + 1 : ahead[i] # line[i]}
<1>1. \A i \in k + 1 .. n + 1 : i # k + 1 =>
        i - 1 \in k + 1 .. n /\ i - 1 \in k + 1 .. n + 1 /\ (i - 1) + 1 = i
  OBVIOUS
<1>2. Replays([i \in k + 1 .. n + 1 |-> line[i]])
  BY <1>1
<1>3. ahead = CHOOSE f : Replays(f)
  BY DEF Replayed
<1>4. Replays(ahead)
  BY <1>2, <1>3
<1>5. \A i \in k + 1 .. n + 1 :
        ahead[i] = IF i = k + 1 THEN from ELSE Patched(ahead[i - 1], entries[i - 1].forward)
  BY <1>4
<1> HIDE DEF ahead
<1>6. ASSUME wrong # {} PROVE FALSE
  <2>1. wrong \in SUBSET Nat
    OBVIOUS
  <2> HIDE DEF wrong
  <2>2. PICK i \in wrong : \A j \in wrong : i <= j
    BY <1>6, <2>1, LeastNatural
  <2>3. i \in k + 1 .. n + 1 /\ ahead[i] # line[i]
    BY DEF wrong
  <2>4. i # k + 1
    BY <1>5, <2>3
  <2>5. i - 1 \notin wrong
    BY <2>1, <2>2
  <2>6. ahead[i - 1] = line[i - 1]
    BY <1>1, <2>3, <2>4, <2>5 DEF wrong
  <2>7. QED
    BY <1>1, <1>5, <2>3, <2>4, <2>6
<1>7. QED
  BY <1>6 DEF ahead

\* Whatever line is behind the history, it is the timeline.
TimelineIsTheLine ==
  \A line \in Seq(Stores) : HistoryLine(line) => Timeline = line

\* The line behind the history is the timeline replayed from the current store.
LEMMA LineIsTimeline == TypeOK => TimelineIsTheLine
<1> SUFFICES ASSUME TypeOK, NEW line \in Seq(Stores), HistoryLine(line)
             PROVE  Timeline = line
  BY DEF TimelineIsTheLine
<1> DEFINE k == currentIndex
           n == Len(entries)
<1>1. k \in Nat /\ n \in Nat /\ k <= n
  BY DEF TypeOK
<1>2. /\ line[k + 1] = store
      /\ \A i \in 1 .. k : line[i] = Patched(line[i + 1], entries[i].inverse)
      /\ \A i \in k + 1 .. n : line[i + 1] = Patched(line[i], entries[i].forward)
  BY <1>1 DEF HistoryLine, Joins
<1>3. \A i \in 1 .. k + 1 : Rewound(store, k)[i] = line[i]
  BY <1>1, <1>2, RewoundIsLine
<1>4. \A i \in k + 1 .. n + 1 : Replayed(store, k)[i] = line[i]
  BY <1>1, <1>2, ReplayedIsLine
<1>5. \A i \in 1 .. n + 1 : Timeline[i] = line[i]
  BY <1>1, <1>3, <1>4 DEF Timeline
<1>6. Timeline = [i \in 1 .. n + 1 |-> Timeline[i]]
  BY DEF Timeline
<1>7. line = [i \in 1 .. n + 1 |-> line[i]]
  BY <1>1 DEF HistoryLine
<1>8. QED
  BY <1>5, <1>6, <1>7

\* How a step of the editor changes the timeline and moves on it.
LEMMA StepsOnTimeline ==
  ASSUME IInv, [Next]_vars
  PROVE  /\ TypeOK /\ TypeOK' /\ store \in Stores /\ ValidRecords(store)
         /\ Timeline \in Seq(Stores) /\ Len(Timeline) = Len(entries) + 1
         /\ Timeline[currentIndex + 1] = store
         /\ Timeline' \in Seq(Stores) /\ Len(Timeline') = Len(entries') + 1
         /\ Timeline'[currentIndex' + 1] = store'
         /\ Dispatch => CutsAndAppends(Timeline, Timeline')
         /\ ~Dispatch => Timeline' = Timeline
<1>1. PICK line \in Seq(Stores) : HistoryLine(line)
  BY DEF IInv
<1>2. TypeOK /\ store \in Stores /\ ValidRecords(store)
  BY <1>1, CurrentStoreValid DEF IInv, TypeOK
<1>3. Timeline = line
  BY <1>1, <1>2, LineIsTimeline DEF TimelineIsTheLine
<1>4. (TypeOK => TimelineIsTheLine)'
  BY LineIsTimeline, PTL
<1>5. \E after \in Seq(Stores) : /\ TypeOK' /\ HistoryLine(after)'
                                 /\ Dispatch => CutsAndAppends(line, after)
                                 /\ ~Dispatch => after = line
  <2>1. CASE Dispatch
    <3>1. Ready /\ \E command \in Operation, draft \in Stores : Commit(command, draft)
      BY <1>2, <2>1, DispatchCommits
    <3>2. TypeOK' /\ \E l \in Seq(Stores) : HistoryLine(l)' /\ CutsAndAppends(line, l)
      BY <1>1, <1>2, <3>1, CommitMakesLine
    <3>3. QED
      BY <2>1, <3>2
  <2>2. CASE ~Dispatch
    <3>1. TypeOK' /\ HistoryLine(line)'
      BY <1>1, <1>2, <2>2, MoveKeepsLine DEF Next
    <3>2. QED
      BY <2>2, <3>1
  <2>3. QED
    BY <2>1, <2>2
<1>6. PICK after \in Seq(Stores) : /\ TypeOK' /\ HistoryLine(after)'
                                   /\ Dispatch => CutsAndAppends(line, after)
                                   /\ ~Dispatch => after = line
  BY <1>5
<1>7. Timeline' = after
  BY <1>4, <1>6 DEF TimelineIsTheLine
<1>8. /\ Len(line) = Len(entries) + 1 /\ line[currentIndex + 1] = store
      /\ Len(after) = Len(entries') + 1 /\ after[currentIndex' + 1] = store'
  BY <1>1, <1>6 DEF HistoryLine
<1>9. QED
  BY <1>2, <1>3, <1>6, <1>7, <1>8

\* Every step of the editor is a step of the timeline or leaves it as it is.
LEMMA StepsAreTimelineSteps ==
  ASSUME IInv, [Next]_vars
  PROVE  [History!Next]_<<Timeline, currentIndex + 1>>
<1>1. /\ TypeOK /\ TypeOK'
      /\ Timeline[currentIndex + 1] = store
      /\ Timeline' \in Seq(Stores) /\ Len(Timeline') = Len(entries') + 1
      /\ Timeline'[currentIndex' + 1] = store'
      /\ Dispatch => CutsAndAppends(Timeline, Timeline')
      /\ ~Dispatch => Timeline' = Timeline
  BY StepsOnTimeline
<1>2. CASE /\ store' # store
           /\ Timeline' = Capped(PushedAfter(Timeline, currentIndex + 1, store'))
           /\ currentIndex' + 1 = Len(Timeline')
  <2>1. Timeline' = History!Oldest(Append(SubSeq(Timeline, 1, currentIndex + 1), store'))
    BY <1>2 DEF Capped, PushedAfter, History!Oldest
  <2>2. Timeline'[Len(Timeline')] = store'
    BY <1>1, <1>2
  <2>3. History!Edit
    BY <1>1, <1>2, <2>1, <2>2 DEF History!Edit
  <2>4. QED
    BY <2>3 DEF History!Next
<1>3. CASE Timeline' = Timeline /\ currentIndex' = currentIndex
  BY <1>3
<1>4. CASE Timeline' = Timeline /\ currentIndex' # currentIndex
  <2>1. /\ currentIndex \in Nat /\ currentIndex' \in 0 .. Len(entries')
        /\ Len(entries') \in Nat
    BY <1>1 DEF TypeOK
  <2>2. \A k, m, n \in Nat : k \in 0 .. m /\ k # n => k + 1 \in 1 .. m + 1 /\ k + 1 # n + 1
    OBVIOUS
  <2>3. currentIndex' \in Nat
    BY <2>1
  <2>4. /\ currentIndex' + 1 # currentIndex + 1
        /\ currentIndex' + 1 \in 1 .. Len(entries') + 1
    BY <1>4, <2>1, <2>2, <2>3, Zenon
  <2>5. currentIndex' + 1 \in 1 .. Len(Timeline)
    BY <1>1, <1>4, <2>4
  <2>6. History!Visit(currentIndex' + 1)
    BY <1>4, <2>4 DEF History!Visit
  <2>7. QED
    BY <2>5, <2>6 DEF History!Next
<1>5. QED
  BY <1>1, <1>2, <1>3, <1>4 DEF CutsAndAppends

\* The history implements the timeline: undo, redo and jump bring back exactly
\* the stores that were there, an edit cuts off the redo branch and appends its
\* store, and nothing else changes what undo and redo would show.
THEOREM HistoryRefinesTimeline == Spec => HistoryIsATimeline
<1>1. ASSUME Init PROVE History!Init
  <2>1. PICK line \in Seq(Stores) : HistoryLine(line)
    BY <1>1, InitEstablishes DEF IInv
  <2>2. Timeline = line
    BY <1>1, <2>1, InitEstablishes, LineIsTimeline DEF IInv, TimelineIsTheLine
  <2>3. Len(line) = 1 /\ currentIndex + 1 = 1
    BY <1>1, <2>1, EmptySeq DEF Init, HistoryLine
  <2>4. QED
    BY <2>2, <2>3 DEF History!Init
<1>2. IInv /\ [Next]_vars => [History!Next]_<<Timeline, currentIndex + 1>>
  BY StepsAreTimelineSteps
<1>3. QED
  BY <1>1, <1>2, LineInvariant, PTL DEF Spec, HistoryIsATimeline, History!Spec

-----------------------------------------------------------------------------
(* Locks along the history.                                                *)

\* Neighbours on the timeline respect each other's locks.
LocksOnTimeline ==
  \A i \in 1 .. Len(entries) : LocksRespected(Timeline[i], Timeline[i + 1])

\* A new store at the end of a line that respected the locks.
LEMMA LocksOnLongerLine ==
  ASSUME NEW line \in Seq(Stores), NEW k \in 1 .. Len(line), NEW e \in Stores,
         \A i \in 1 .. k - 1 : LocksRespected(line[i], line[i + 1]),
         LocksRespected(line[k], e), HistoryLimit \in Nat
  PROVE  LET after == Capped(PushedAfter(line, k, e))
         IN \A i \in 1 .. Len(after) - 1 : LocksRespected(after[i], after[i + 1])
<1> DEFINE longer == PushedAfter(line, k, e)
<1>1. IsPushed(PushedAfter(line, k, e), Stores, line, k, e)
  BY PushProperties
<1>2. /\ longer \in Seq(Stores) /\ Len(longer) = k + 1
      /\ \A i \in 1 .. k : longer[i] = line[i]
      /\ longer[k + 1] = e
      /\ Len(Tail(longer)) = k
      /\ \A i \in 1 .. k : Tail(longer)[i] = longer[i + 1]
  BY <1>1 DEF IsPushed
<1> HIDE DEF longer
<1>3. ASSUME NEW i \in 1 .. k PROVE LocksRespected(longer[i], longer[i + 1])
  <2>1. CASE i = k
    BY <1>2, <2>1
  <2>2. CASE i # k
    <3>1. i \in 1 .. k - 1 /\ i \in 1 .. k /\ i + 1 \in 1 .. k
      BY <2>2
    <3>2. QED
      BY <1>2, <3>1
  <2>3. QED
    BY <2>1, <2>2
<1>4. ASSUME NEW i \in 1 .. k - 1
      PROVE  LocksRespected(Tail(longer)[i], Tail(longer)[i + 1])
  <2>1. i \in 1 .. k /\ i + 1 \in 1 .. k
    OBVIOUS
  <2>2. QED
    BY <1>2, <1>3, <2>1
<1>5. CASE Len(longer) > HistoryLimit + 1
  <2>1. Capped(longer) = Tail(longer)
    BY <1>5 DEF Capped
  <2>2. QED
    BY <1>2, <1>4, <2>1 DEF longer
<1>6. CASE ~(Len(longer) > HistoryLimit + 1)
  <2>1. Capped(longer) = longer
    BY <1>6 DEF Capped
  <2>2. QED
    BY <1>2, <1>3, <2>1 DEF longer
<1>7. QED
  BY <1>5, <1>6

\* Commands extend the timeline by a store that respects the locks of the one
\* before, undo, redo and jump only move along it.
LEMMA LocksOnTimelineKept ==
  ASSUME IInv, LocksOnTimeline, [Next]_vars
  PROVE  LocksOnTimeline'
<1>1. /\ TypeOK /\ store \in Stores /\ ValidRecords(store)
      /\ Timeline \in Seq(Stores) /\ Len(Timeline) = Len(entries) + 1
      /\ Timeline[currentIndex + 1] = store
      /\ Timeline' \in Seq(Stores) /\ Len(Timeline') = Len(entries') + 1
      /\ TypeOK'
      /\ Dispatch => CutsAndAppends(Timeline, Timeline')
      /\ ~Dispatch => Timeline' = Timeline
  BY StepsOnTimeline
<1>2. /\ currentIndex \in 0 .. Len(entries) /\ Len(entries) \in Nat
      /\ Len(entries') \in Nat /\ store' \in Stores
  BY <1>1 DEF TypeOK
<1>3. \A i \in 1 .. Len(entries) : LocksRespected(Timeline[i], Timeline[i + 1])
  BY DEF LocksOnTimeline
<1>4. CASE Timeline' = Timeline
  <2>1. Len(entries') + 1 = Len(entries) + 1
    BY <1>1, <1>4
  <2>2. \A a, b \in Nat : a + 1 = b + 1 => a = b
    OBVIOUS
  <2>3. Len(entries') = Len(entries)
    BY <1>2, <2>1, <2>2, Zenon
  <2>4. QED
    BY <1>3, <1>4, <2>3 DEF LocksOnTimeline
<1>5. CASE Dispatch /\ Timeline' = Capped(PushedAfter(Timeline, currentIndex + 1, store'))
  <2> DEFINE k == currentIndex + 1
             after == Capped(PushedAfter(Timeline, k, store'))
  <2>1. k \in 1 .. Len(Timeline) /\ HistoryLimit \in Nat
    BY <1>1, <1>2, EditorAssumption
  <2>2. \A i \in 1 .. k - 1 : LocksRespected(Timeline[i], Timeline[i + 1])
    BY <1>2, <1>3
  <2>3. LocksRespected(Timeline[k], store')
    BY <1>1, <1>5, CommandsRespectLocks
  <2> HIDE DEF k
  <2>4. \A i \in 1 .. Len(after) - 1 : LocksRespected(after[i], after[i + 1])
    BY <1>1, <1>2, <2>1, <2>2, <2>3, LocksOnLongerLine
  <2>5. after = Timeline'
    BY <1>5 DEF k
  <2> HIDE DEF after
  <2>6. Len(after) - 1 = Len(entries')
    <3>1. \A a, b \in Nat : a = b + 1 => a - 1 = b
      OBVIOUS
    <3>2. Len(after) = Len(entries') + 1 /\ Len(after) \in Nat
      BY <1>1, <2>5
    <3>3. QED
      BY <1>2, <3>1, <3>2, Zenon
  <2>7. QED
    BY <2>4, <2>5, <2>6 DEF LocksOnTimeline
<1>6. QED
  BY <1>1, <1>4, <1>5 DEF CutsAndAppends

\* A node that is locked, or lies under a locked one, keeps its position and
\* extent through any command that keeps the node and through any undo or redo.
THEOREM LockedNodesStay == Spec => LockedGeometryFrozen
<1>1. ASSUME Init PROVE LocksOnTimeline
  BY <1>1, EmptySeq DEF Init, LocksOnTimeline
<1>2. ASSUME IInv, LocksOnTimeline, [Next]_vars, jump = NoJump,
             NEW n \in Nodes(store) \cap Nodes(store'),
             \E a \in SelfAndAncestors(store, n) : store[a].locked
      PROVE  store'[n].x = store[n].x /\ store'[n].width = store[n].width
  <2>1. /\ TypeOK /\ TypeOK' /\ store \in Stores /\ ValidRecords(store)
        /\ Timeline[currentIndex + 1] = store
        /\ Timeline'[currentIndex' + 1] = store'
        /\ ~Dispatch => Timeline' = Timeline
    BY <1>2, StepsOnTimeline
  <2>2. /\ currentIndex \in 0 .. Len(entries) /\ Len(entries) \in Nat
    BY <2>1 DEF TypeOK
  <2>3. TransformLocked(store, n)
    BY <1>2 DEF TransformLocked
  <2>4. CASE Dispatch
    <3>1. LocksRespected(store, store')
      BY <2>1, <2>4, CommandsRespectLocks
    <3>2. QED
      BY <1>2, <2>3, <3>1 DEF LocksRespected
  <2>5. CASE ~Dispatch /\ Undo
    <3>1. currentIndex > 0 /\ currentIndex' = currentIndex - 1
      BY <2>5 DEF Undo
    <3>2. currentIndex \in 1 .. Len(entries) /\ currentIndex' + 1 = currentIndex
      BY <2>2, <3>1
    <3>3. LocksRespected(store', store)
      BY <1>2, <2>1, <2>5, <3>2 DEF LocksOnTimeline
    <3>4. QED
      BY <1>2, <2>3, <3>3 DEF LocksRespected
  <2>6. CASE ~Dispatch /\ Redo
    <3>1. currentIndex < Len(entries) /\ currentIndex' = currentIndex + 1
      BY <2>6 DEF Redo
    <3>2. currentIndex + 1 \in 1 .. Len(entries)
      BY <2>2, <3>1
    <3>3. LocksRespected(store, store')
      BY <1>2, <2>1, <2>6, <3>1, <3>2 DEF LocksOnTimeline
    <3>4. QED
      BY <1>2, <2>3, <3>3 DEF LocksRespected
  <2>7. CASE ~Dispatch /\ ~Undo /\ ~Redo
    <3>1. store' = store
      BY <1>2, <2>7 DEF Next, JumpToCurrentIndex, JumpToHistory, JumpIteration, JumpReturn,
                        Dispose, vars
    <3>2. QED
      BY <3>1
  <2>8. QED
    BY <2>4, <2>5, <2>6, <2>7
<1>3. IInv /\ LocksOnTimeline /\ [Next]_vars =>
        [jump = NoJump =>
           \A n \in Nodes(store) \cap Nodes(store') :
             (\E a \in SelfAndAncestors(store, n) : store[a].locked) =>
               store'[n].x = store[n].x /\ store'[n].width = store[n].width]_vars
  BY <1>2
<1>4. IInv /\ LocksOnTimeline /\ [Next]_vars => LocksOnTimeline'
  BY LocksOnTimelineKept
<1>5. QED
  BY <1>1, <1>3, <1>4, LineInvariant, PTL DEF Spec, LockedGeometryFrozen

-----------------------------------------------------------------------------
(* Positions in the page.  WorldX sums the offsets over a node and its     *)
(* ancestors with a fold, that is, with a function on the subsets that     *)
(* takes away one chosen element after the other.                          *)

\* The element the fold takes first.
Chosen(v) == CHOOSE x \in v : TRUE

\* f sums w over every subset of u.
Sums(f, u, w) ==
  f = [v \in SUBSET u |-> IF v = {} THEN 0
                          ELSE w[Chosen(v)] + f[v \ {Chosen(v)}]]

\* What such a function yields at a subset.
LEMMA SumsAt ==
  ASSUME NEW f, NEW u, NEW w, Sums(f, u, w), NEW v \in SUBSET u
  PROVE  /\ v = {} => f[v] = 0
         /\ v # {} => /\ Chosen(v) \in v
                      /\ v \ {Chosen(v)} \in SUBSET u
                      /\ v \ {Chosen(v)} \subseteq v /\ v \ {Chosen(v)} # v
                      /\ f[v] = w[Chosen(v)] + f[v \ {Chosen(v)}]
<1>1. f[v] = IF v = {} THEN 0 ELSE w[Chosen(v)] + f[v \ {Chosen(v)}]
  BY DEF Sums
<1>2. v # {} => Chosen(v) \in v
  BY DEF Chosen
<1>3. QED
  BY <1>1, <1>2

\* Sums over a set and over a larger one agree.
LEMMA SumsAgree ==
  ASSUME NEW U, IsFiniteSet(U), NEW u \in SUBSET U, NEW w, NEW f, NEW g,
         Sums(f, u, w), Sums(g, U, w), NEW c \in SUBSET u
  PROVE  f[c] = g[c]
<1> DEFINE wrong == {v \in SUBSET u : f[v] # g[v]}
<1> SUFFICES ASSUME wrong # {} PROVE FALSE
  OBVIOUS
<1>1. wrong \in SUBSET SUBSET U
  OBVIOUS
<1> HIDE DEF wrong
<1>2. PICK v \in wrong : \A d \in wrong : d \subseteq v => d = v
  BY <1>1, MinimalSubset
<1>3. v \in SUBSET u /\ v \in SUBSET U /\ f[v] # g[v]
  BY DEF wrong
<1>4. v # {}
  BY <1>3, SumsAt
<1> DEFINE rest == v \ {Chosen(v)}
<1>5. /\ rest \in SUBSET u /\ rest \subseteq v /\ rest # v
      /\ f[v] = w[Chosen(v)] + f[rest]
      /\ g[v] = w[Chosen(v)] + g[rest]
  BY <1>3, <1>4, SumsAt
<1> HIDE DEF rest
<1>6. f[rest] = g[rest]
  BY <1>2, <1>5 DEF wrong
<1>7. QED
  BY <1>3, <1>5, <1>6

\* Every finite set can be summed over.
LEMMA SumsExist ==
  ASSUME NEW U, IsFiniteSet(U), NEW w
  PROVE  \E f : Sums(f, U, w)
<1> DEFINE wrong == {u \in SUBSET U : ~ \E f : Sums(f, u, w)}
<1> SUFFICES ASSUME wrong # {} PROVE FALSE
  OBVIOUS
<1>1. wrong \in SUBSET SUBSET U
  OBVIOUS
<1> HIDE DEF wrong
<1>2. PICK u \in wrong : \A d \in wrong : d \subseteq u => d = u
  BY <1>1, MinimalSubset
<1>3. u \in SUBSET U /\ ~ \E f : Sums(f, u, w)
  BY DEF wrong
<1> DEFINE part(v) == CHOOSE f : Sums(f, v, w)
           H(v) == part(v)[v]
<1>4. ASSUME NEW v \in SUBSET u, v # u
      PROVE  Sums(part(v), v, w) /\ IsFiniteSet(v)
  <2>1. v \notin wrong /\ v \in SUBSET U
    BY <1>2, <1>3, <1>4
  <2>2. \E f : Sums(f, v, w)
    BY <2>1 DEF wrong
  <2>3. QED
    BY <2>1, <2>2, FS_Subset
<1> HIDE DEF part
<1>5. ASSUME NEW v \in SUBSET u, v # u
      PROVE  /\ v = {} => H(v) = 0
             /\ v # {} => H(v) = w[Chosen(v)] + H(v \ {Chosen(v)})
  <2>1. Sums(part(v), v, w) /\ IsFiniteSet(v)
    BY <1>4, <1>5
  <2>2. v = {} => H(v) = 0
    BY <2>1, SumsAt
  <2>3. ASSUME v # {}
        PROVE  H(v) = w[Chosen(v)] + H(v \ {Chosen(v)})
    <3> DEFINE rest == v \ {Chosen(v)}
    <3>1. rest \in SUBSET v /\ rest # v /\ H(v) = w[Chosen(v)] + part(v)[rest]
      BY <2>1, <2>3, SumsAt
    <3> HIDE DEF rest
    <3>2. Sums(part(rest), rest, w)
      BY <1>4, <1>5, <3>1
    <3>3. part(rest)[rest] = part(v)[rest]
      BY <2>1, <3>1, <3>2, SumsAgree
    <3>4. QED
      BY <3>1, <3>3 DEF rest
  <2>4. QED
    BY <2>2, <2>3
<1> HIDE DEF H
<1> DEFINE g == [v \in SUBSET u |-> IF v = {} THEN 0
                                    ELSE w[Chosen(v)] + H(v \ {Chosen(v)})]
<1>6. ASSUME NEW v \in SUBSET u, v # u PROVE g[v] = H(v)
  BY <1>5, <1>6
<1>7. ASSUME NEW v \in SUBSET u
      PROVE  g[v] = IF v = {} THEN 0 ELSE w[Chosen(v)] + g[v \ {Chosen(v)}]
  <2>1. CASE v = {}
    BY <2>1
  <2>2. CASE v # {}
    <3>1. Chosen(v) \in v
      BY <2>2 DEF Chosen
    <3>2. v \ {Chosen(v)} \in SUBSET u /\ v \ {Chosen(v)} # u
      BY <3>1
    <3>3. g[v \ {Chosen(v)}] = H(v \ {Chosen(v)})
      BY <1>6, <3>2
    <3>4. g[v] = w[Chosen(v)] + H(v \ {Chosen(v)})
      BY <2>2
    <3>5. QED
      BY <2>2, <3>3, <3>4
  <2>3. QED
    BY <2>1, <2>2
<1>8. g = [v \in SUBSET u |-> g[v]]
  OBVIOUS
<1> HIDE DEF g
<1>9. Sums(g, u, w)
  BY <1>7, <1>8 DEF Sums
<1>10. QED
  BY <1>3, <1>9

\* Raising the weight of one element raises the sums of the sets that have it.
LEMMA SumsShift ==
  ASSUME NEW U, IsFiniteSet(U), NEW w, NEW w2, NEW f, NEW f2,
         Sums(f, U, w), Sums(f2, U, w2),
         NEW t, NEW delta \in Int,
         \A x \in U : w[x] \in Int /\ w2[x] = w[x] + (IF x = t THEN delta ELSE 0)
  PROVE  f[U] \in Int /\ f2[U] = f[U] + (IF t \in U THEN delta ELSE 0)
<1> DEFINE Right(v) == f[v] \in Int /\ f2[v] = f[v] + (IF t \in v THEN delta ELSE 0)
           wrong == {v \in SUBSET U : ~Right(v)}
<1> SUFFICES ASSUME wrong # {} PROVE FALSE
  OBVIOUS
<1>1. wrong \in SUBSET SUBSET U
  OBVIOUS
<1> HIDE DEF wrong
<1>2. PICK v \in wrong : \A d \in wrong : d \subseteq v => d = v
  BY <1>1, MinimalSubset
<1>3. v \in SUBSET U /\ ~Right(v)
  BY DEF wrong
<1>4. v # {}
  <2>1. v = {} => f[v] = 0
    BY <1>3, SumsAt
  <2>2. v = {} => f2[v] = 0
    BY <1>3, SumsAt
  <2>3. QED
    BY <1>3, <2>1, <2>2
<1> DEFINE rest == v \ {Chosen(v)}
<1>5. /\ Chosen(v) \in v /\ Chosen(v) \in U
      /\ rest \in SUBSET U /\ rest \subseteq v /\ rest # v
      /\ f[v] = w[Chosen(v)] + f[rest]
      /\ f2[v] = w2[Chosen(v)] + f2[rest]
  BY <1>3, <1>4, SumsAt
<1>6. t \in v <=> t \in rest \/ t = Chosen(v)
  BY <1>5
<1>7. t \in rest => t # Chosen(v)
  OBVIOUS
<1> HIDE DEF rest
<1>8. Right(rest)
  BY <1>2, <1>5 DEF wrong
<1>9. QED
  BY <1>3, <1>5, <1>6, <1>7, <1>8

\* The sums behind WorldX.
LEMMA WorldXIsSum ==
  ASSUME NEW s, NEW n \in Nodes(s), NEW w,
         \A a \in SelfAndAncestors(s, n) : w[a] = s[a].x
  PROVE  \E f : Sums(f, SelfAndAncestors(s, n), w)
                /\ WorldX(s, n) = f[SelfAndAncestors(s, n)]
<1> DEFINE U == SelfAndAncestors(s, n)
           Folds(f) == f = [v \in SUBSET U |->
                              IF v = {} THEN 0
                              ELSE s[CHOOSE x \in v : TRUE].x
                                     + f[v \ {CHOOSE x \in v : TRUE}]]
<1>1. WorldX(s, n) = (CHOOSE f : Folds(f))[U]
  BY DEF WorldX, MapThenSumSet, MapThenFoldSet
<1>2. ASSUME NEW f PROVE Folds(f) <=> Sums(f, U, w)
  <2>1. ASSUME NEW v \in SUBSET U, v # {} PROVE w[Chosen(v)] = s[Chosen(v)].x
    BY <2>1 DEF Chosen
  <2>2. Folds(f) <=> f = [v \in SUBSET U |->
                            IF v = {} THEN 0
                            ELSE s[Chosen(v)].x + f[v \ {Chosen(v)}]]
    BY DEF Chosen
  <2> HIDE DEF Folds, U
  <2>3. QED
    BY <2>1, <2>2 DEF Sums
<1>3. IsFiniteSet(U)
  BY UpwardWalk, NodesAreFinite, FS_Subset
<1> HIDE DEF Folds, U
<1>4. \E f : Folds(f)
  BY <1>2, <1>3, SumsExist
<1>5. Folds(CHOOSE f : Folds(f))
  BY <1>4
<1>6. QED
  BY <1>1, <1>2, <1>5 DEF U

\* One selected node at most is at the top of what is selected above a node.
LEMMA OneTopAbove ==
  ASSUME NEW s, NEW ids \in SUBSET Nodes(s), NEW n \in Nodes(s),
         NEW t \in TopLevel(s, ids) \cap SelfAndAncestors(s, n),
         NEW u \in TopLevel(s, ids) \cap SelfAndAncestors(s, n)
  PROVE  t = u
<1>1. u \in SelfAndAncestors(s, t) \/ t \in SelfAndAncestors(s, u)
  BY AncestorsAreAChain
<1>2. QED
  BY <1>1 DEF TopLevel, Ancestors

\* Shifting the top level of a selection moves what is selected, or lies under
\* a selected node, once.
LEMMA ShiftedPositions ==
  ASSUME NEW s, NEW d, NEW ids \in SUBSET Nodes(s), NEW delta \in Int,
         ~HasParentCycle(s), Nodes(d) = Nodes(s),
         \A a \in Nodes(s) :
           /\ s[a].x \in Int
           /\ d[a].parentId = s[a].parentId
           /\ d[a].x = s[a].x + (IF a \in TopLevel(s, ids) THEN delta ELSE 0),
         NEW n \in Nodes(s)
  PROVE  WorldX(d, n) - WorldX(s, n) =
           IF SelfAndAncestors(s, n) \cap ids = {} THEN 0 ELSE delta
<1> DEFINE U == SelfAndAncestors(s, n)
           w == [a \in Nodes(s) |-> s[a].x]
           w2 == [a \in Nodes(s) |-> d[a].x]
<1>1. SelfAndAncestors(d, n) = U
  BY SameAncestors
<1>2. U \subseteq Nodes(s) /\ IsFiniteSet(U)
  BY UpwardWalk, NodesAreFinite, FS_Subset
<1>3. \A a \in U : w[a] = s[a].x /\ w2[a] = d[a].x
  BY <1>2
<1> HIDE DEF U, w, w2
<1>4. PICK f : Sums(f, U, w) /\ WorldX(s, n) = f[U]
  BY <1>3, WorldXIsSum DEF U
<1>5. PICK g : Sums(g, U, w2) /\ WorldX(d, n) = g[U]
  BY <1>1, <1>3, WorldXIsSum
<1>6. CASE U \cap ids = {}
  <2>1. n \in U /\ n \notin ids
    BY <1>6, UpwardWalk DEF U
  <2>2. PICK nothing \in Int : nothing = 0
    OBVIOUS
  <2>3. nothing \in Int
    BY <2>2
  <2>4. \A a \in U : w[a] \in Int /\ w2[a] = w[a] + (IF a = n THEN nothing ELSE 0)
    BY <1>2, <1>3, <1>6, <2>2 DEF TopLevel
  <2>5. f[U] \in Int /\ g[U] = f[U] + (IF n \in U THEN nothing ELSE 0)
    <3>1. IsFiniteSet(U) /\ Sums(f, U, w) /\ Sums(g, U, w2)
      BY <1>2, <1>4, <1>5
    <3>2. QED
      BY ONLY <2>3, <2>4, <3>1, SumsShift
  <2>6. QED
    BY <1>4, <1>5, <1>6, <2>2, <2>5 DEF U
<1>7. CASE U \cap ids # {}
  <2>1. PICK t \in TopLevel(s, ids) : t \in U
    BY <1>7, TopLevelCovers DEF U
  <2>2. \A a \in U : a \in TopLevel(s, ids) <=> a = t
    BY <2>1, OneTopAbove DEF U
  <2>3. \A a \in U : w[a] \in Int /\ w2[a] = w[a] + (IF a = t THEN delta ELSE 0)
    BY <1>2, <1>3, <2>2
  <2>4. f[U] \in Int /\ g[U] = f[U] + (IF t \in U THEN delta ELSE 0)
    BY <1>2, <1>4, <1>5, <2>3, SumsShift
  <2>5. QED
    BY <1>4, <1>5, <1>7, <2>1, <2>4 DEF U
<1>8. QED
  BY <1>6, <1>7

\* What a node.move leaves in the store.
LEMMA MovedStore ==
  ASSUME TypeOK, NEW ids \in SUBSET NodeId, NEW delta \in MoveDelta, NodeMove(ids, delta)
  PROVE  /\ ids \in SUBSET Nodes(store) /\ delta \in Int
         /\ Nodes(store') = Nodes(store)
         /\ \A a \in Nodes(store) :
              /\ store[a].x \in Int
              /\ store'[a].parentId = store[a].parentId
              /\ store'[a].x = store[a].x + (IF a \in TopLevel(store, ids) THEN delta ELSE 0)
<1> DEFINE new == [n \in Nodes(store) |-> [store[n] EXCEPT !.x = @ + delta]]
           moved == TopLevel(store, ids)
           draft == [id \in Id |-> IF id \in moved
                                   THEN UpdatedRecord(store[id], new[id])
                                   ELSE store[id]]
<1>1. store \in Stores /\ delta \in Int
  BY EditorAssumption DEF TypeOK
<1>2. ids \in SUBSET Nodes(store) /\ moved \in SUBSET Nodes(store)
  BY DEF NodeMove, TopLevel
<1>3. \A a \in Nodes(store) :
        /\ a \in Id /\ store[a] \in NodeRecord
        /\ store[a].typeName = "node" /\ store[a].x \in Int
  BY <1>1, NodesHoldNodeRecords DEF NodeRecord, Nodes
<1>4. \A a \in moved : /\ new[a] \in NodeRecord /\ new[a].parentId = store[a].parentId
                       /\ new[a].x = store[a].x + delta
  BY <1>1, <1>2, <1>3 DEF NodeRecord
<1>5. draft = [id \in Id |->
        IF id \in moved
        THEN UpdatedRecord(store[id], [store[id] EXCEPT !.x = @ + delta])
        ELSE store[id]]
  BY <1>2
<1>6. store' = Patched(store, BuildPatch(store, draft))
  BY <1>5 DEF NodeMove, Commit
<1> HIDE DEF new, moved
<1>7. draft \in Stores
  BY <1>1, <1>2, <1>4, ManyUpdatedTyped
<1>8. \A id \in Id : draft[id] = IF id \in moved THEN UpdatedRecord(store[id], new[id])
                                                ELSE store[id]
  OBVIOUS
<1> HIDE DEF draft
<1>9. \A a \in Nodes(store) :
        /\ draft[a] \in NodeRecord /\ draft[a].typeName = "node"
        /\ draft[a].parentId = store[a].parentId
        /\ draft[a].x = store[a].x + (IF a \in moved THEN delta ELSE 0)
  <2>1. ASSUME NEW a \in moved
        PROVE  /\ draft[a] \in NodeRecord /\ draft[a].typeName = "node"
               /\ draft[a].parentId = store[a].parentId
               /\ draft[a].x = store[a].x + delta
    BY <1>2, <1>3, <1>4, <1>8, UpdatedRecordFields
  <2>2. QED
    BY <1>2, <1>3, <1>8, <2>1
<1>10. Nodes(draft) = Nodes(store)
  <2>1. \A a \in Nodes(store) : draft[a] # NoRecord
    BY <1>9, RecordsAssumption DEF Record
  <2>2. QED
    BY <1>2, <1>3, <1>8, <1>9, <2>1 DEF Nodes, Present
<1>11. /\ Nodes(store') = Nodes(draft)
       /\ \A a \in Nodes(draft) : /\ store'[a].x = draft[a].x
                                  /\ store'[a].parentId = draft[a].parentId
  BY <1>1, <1>6, <1>7, StoredIsDraft
<1>12. QED
  BY <1>1, <1>2, <1>3, <1>9, <1>10, <1>11 DEF moved

\* node.move shifts the selected nodes and everything below them by the delta
\* once, however the selection nests, and shifts nothing else.
THEOREM MovesShiftOnce == Spec => MoveShiftsOnce
<1>1. ASSUME IInv, [Next]_vars, Committed("node.move"), NEW n \in Nodes(store)
      PROVE  WorldX(store', n) - WorldX(store, n) =
               IF SelfAndAncestors(store, n) \cap operation'.ids = {}
               THEN 0 ELSE operation'.delta
  <2>1. TypeOK /\ transactionSequence \in Nat
    BY <1>1 DEF IInv, TypeOK
  <2>2. transactionSequence' # transactionSequence /\ operation'.type = "node.move"
    BY <1>1, <2>1 DEF Committed
  <2>3. Dispatch
    BY <1>1, <2>2 DEF Next, Undo, Redo, JumpToCurrentIndex, JumpToHistory, JumpIteration,
                      JumpReturn, Dispose, vars
  <2>4. \E ids \in SUBSET NodeId, delta \in MoveDelta : NodeMove(ids, delta)
    <3>1. ASSUME NEW type, NEW draft, type # "node.move", Commit([type |-> type], draft)
          PROVE  FALSE
      BY <2>2, <3>1 DEF Commit
    <3>2. \A id, parent, x, width, name : ~NodeCreate(id, parent, x, width, name)
      BY <3>1 DEF NodeCreate
    <3>3. \A m, x, width : ~NodeResize(m, x, width)
      BY <3>1 DEF NodeResize
    <3>4. \A ids, box : ~NodeResizeMany(ids, box)
      BY <3>1 DEF NodeResizeMany
    <3>5. \A ids : ~NodeDelete(ids)
      BY <3>1 DEF NodeDelete
    <3>6. \A m, parent, index : ~NodeReorder(m, parent, index)
      BY <3>1 DEF NodeReorder
    <3>7. \A m, value : /\ ~NodeRename(m, value) /\ ~NodeSetVisible(m, value)
                         /\ ~NodeSetLocked(m, value) /\ ~PageSetOverflow(value)
      BY <3>1 DEF NodeRename, NodeSetVisible, NodeSetLocked, PageSetOverflow
    <3>8. QED
      BY <2>3, <3>2, <3>3, <3>4, <3>5, <3>6, <3>7 DEF Dispatch
  <2>5. PICK ids \in SUBSET NodeId, delta \in MoveDelta : NodeMove(ids, delta)
    BY <2>4
  <2>6. operation'.ids = ids /\ operation'.delta = delta
    BY <2>5 DEF NodeMove, Commit
  <2>7. ~HasParentCycle(store)
    BY <1>1, CurrentStoreValid DEF IInv, ValidRecords, NodeTreeValid
  <2>8. WorldX(store', n) - WorldX(store, n) =
          IF SelfAndAncestors(store, n) \cap ids = {} THEN 0 ELSE delta
    <3> DEFINE d == store'
    <3>1. /\ ids \in SUBSET Nodes(store) /\ delta \in Int
          /\ Nodes(d) = Nodes(store)
          /\ \A a \in Nodes(store) :
               /\ store[a].x \in Int
               /\ d[a].parentId = store[a].parentId
               /\ d[a].x = store[a].x + (IF a \in TopLevel(store, ids) THEN delta ELSE 0)
      BY <2>1, <2>5, MovedStore
    <3> HIDE DEF d
    <3>2. WorldX(d, n) - WorldX(store, n) =
            IF SelfAndAncestors(store, n) \cap ids = {} THEN 0 ELSE delta
      BY <2>7, <3>1, ShiftedPositions
    <3>3. QED
      BY <3>2 DEF d
  <2>9. QED
    BY <2>6, <2>8
<1>2. IInv /\ [Next]_vars =>
        [Committed("node.move") =>
           \A n \in Nodes(store) :
             WorldX(store', n) - WorldX(store, n) =
               IF SelfAndAncestors(store, n) \cap operation'.ids = {}
               THEN 0 ELSE operation'.delta]_vars
  BY <1>1
<1>3. QED
  BY <1>2, LineInvariant, PTL DEF Spec, MoveShiftsOnce
=============================================================================
