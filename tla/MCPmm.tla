------------------------------- MODULE MCPmm -------------------------------
(***************************************************************************)
(* TLC instances of Pmm: words of two bits, three of them, two cores.      *)
(* AllMaps lets boot find every set of usable frames.                      *)
(***************************************************************************)
EXTENDS Pmm, TLC

AllMaps == SUBSET Frame

CoreSymmetry == Permutations(Cores)
=============================================================================
