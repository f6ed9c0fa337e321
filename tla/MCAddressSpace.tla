--------------------------- MODULE MCAddressSpace ---------------------------
(***************************************************************************)
(* TLC instances of AddressSpace: two levels, user entries 0 and 1 and     *)
(* kernel entries 2 (heap) and 3 (symbols and MMIO) at the top; a program  *)
(* may map the first MMIO page with MAP_FIXED.                             *)
(***************************************************************************)
EXTENDS AddressSpace, TLC

CONSTANTS p1, p2, p3, root, dev

MCImage == <<<<0, 0>>>>
MCArena == <<<<1, 0>>>>
MCFixed == {<<3, 1>>}
MCLeftover == {NoTable}
MCBoot == <<<<2, 0>>, <<3, 0>>>>
MCHeap == <<<<2, 1>>>>
MCMmio == <<<<3, 1>>, <<3, 2>>>>
=============================================================================
