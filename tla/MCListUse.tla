----------------------------- MODULE MCListUse -----------------------------
(***************************************************************************)
(* TLC instance of ListUse: the nodes and the two lists are interchangeable. *)
(***************************************************************************)
EXTENDS ListUse, TLC

NodeSymmetry == Permutations(Node) \union Permutations(ListId)
=============================================================================
