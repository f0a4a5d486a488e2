------------------------- MODULE MCNodeTreeValidation -------------------------
(***************************************************************************)
(* NodeTreeValidation on every collection of at most three nodes.          *)
(***************************************************************************)
EXTENDS NodeTreeValidation

CONSTANTS n1, n2, n3, page
=============================================================================
