------------------------------ MODULE MCKHeap ------------------------------
(***************************************************************************)
(* TLC instances of KHeap: one size class with room for two items in a     *)
(* slab and one for a single item; the users are interchangeable.          *)
(***************************************************************************)
EXTENDS KHeap, TLC

CONSTANTS h1, h2, h3, h4, small, large

MCItems == small :> 2 @@ large :> 1
Users == Permutations(Handle)
=============================================================================
