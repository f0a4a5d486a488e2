------------------------------- MODULE MCEditor -------------------------------
(***************************************************************************)
(* Small instances of EditorProperties.                                    *)
(***************************************************************************)
EXTENDS EditorProperties, TLC

CONSTANTS n1, n2, n3, page

MCNode(parent, index, x, locked) ==
  [typeName |-> "node", revision |-> 0, parentId |-> parent, index |-> index,
   x |-> x, width |-> 1, visible |-> TRUE, locked |-> locked, name |-> "a"]

MCPage == [typeName |-> "page", revision |-> 0, overflow |-> "visible"]

MCOverflow == {"visible", "hidden"}

\* A chain of three nodes, two siblings, and a parent of two.
MCChain == page :> MCPage @@ n1 :> MCNode(page, 0, 0, FALSE)
             @@ n2 :> MCNode(n1, 0, 1, FALSE) @@ n3 :> MCNode(n2, 0, 0, FALSE)

MCPair == page :> MCPage @@ n1 :> MCNode(page, 0, 0, FALSE)
            @@ n2 :> MCNode(page, 1, 1, FALSE) @@ n3 :> NoRecord

MCFork == page :> MCPage @@ n1 :> MCNode(page, 0, 0, FALSE)
            @@ n2 :> MCNode(n1, 0, 1, FALSE) @@ n3 :> MCNode(n1, 1, 0, TRUE)

MCTreeDocuments == {MCChain, MCPair}

MCLayoutDocuments == {MCChain, MCPair, MCFork}

MCDeltas == {-1, 1}
=============================================================================
