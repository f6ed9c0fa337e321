------------------------------- MODULE KHeap -------------------------------
(***************************************************************************)
(* The kernel heap, kernel/mem/alloc.c: slabs of small items of one size   *)
(* class each, big blocks of whole pages, and the list of free pages that  *)
(* both are taken from.  Every operation runs under heap_lock, so it is    *)
(* one step.  A page is a number, in the order of the addresses; its slab  *)
(* header is magic, size, items (the chain from free) and next.  Whoever   *)
(* gets a block clears it, headers of other pages inside it included.      *)
(* A program's heap, lib/libc/stdlib/_alloc.c, is the same algorithm with  *)
(* no lock and no magic number, on pages from mmap (magic is then only     *)
(* what the properties compare, and the program aborts without memory).    *)
(***************************************************************************)
EXTENDS Integers, Sequences, FiniteSets

CONSTANTS
  NPages,        \* pages between HEAP_START and HEAP_END
  Class,         \* the size classes of small items
  Items,         \* how many items of a class fit in a slab
  Handle,        \* the users of blocks; each holds one at most
  MaxBlock,      \* bound: pages of a big block
  MaxBig,        \* bound: big blocks allocated
  Reuse,         \* big blocks are allocated also after one has been freed
  Heaps,         \* the heaps looked at: "kernel", "user"
  MaxBigFree     \* bound: big blocks freed

ASSUME KHeapAssumption ==
  /\ {NPages, MaxBlock} \subseteq Nat \ {0} /\ {MaxBig, MaxBigFree} \subseteq Nat
  /\ Reuse \in BOOLEAN /\ Heaps \subseteq {"kernel", "user"}
  /\ \A k \in Class : Items[k] \in Nat \ {0}
  /\ Class \cap (0 .. MaxBlock) = {}

Page == 1 .. NPages
Nil == 0
Big == 0                 \* the index of BIG_SLAB in slabs; a freed page's size

VARIABLES
  brk,         \* heap: the pages up to brk have been taken by __sbrk
  magic, size, items, next,   \* the headers; size is a class or a number of pages
  slabs,       \* slabs[]: the first slab of each class and of the big ones
  free_slabs,
  block,       \* the block each user holds
  bigs, bigFrees,
  panic,       \* "no", or what the kernel stopped at: "memory", "corruption"
  which        \* the heap it is; never changes

headers == <<magic, size, items, next>>
lists == <<slabs, free_slabs>>
counts == <<bigs, bigFrees>>
vars == <<brk, headers, lists, block, counts, panic, which>>

NoBlock == [page |-> Nil, kind |-> Big, item |-> 0]
Block == [page : Page, kind : Class \union (1 .. MaxBlock), item : Nat]

TypeOK ==
  /\ brk \in 0 .. NPages
  /\ magic \in [Page -> BOOLEAN]
  /\ size \in [Page -> Class \union (0 .. MaxBlock)]
  /\ items \in [Page -> Seq(Nat)]
  /\ next \in [Page -> Page \union {Nil}]
  /\ slabs \in [Class \union {Big} -> Page \union {Nil}]
  /\ free_slabs \in Page \union {Nil}
  /\ block \in [Handle -> Block \union {NoBlock}]
  /\ bigs \in 0 .. MaxBig /\ bigFrees \in 0 .. MaxBigFree
  /\ panic \in {"no", "memory", "corruption"} /\ which \in Heaps

Init ==
  /\ brk = 0 /\ magic = [p \in Page |-> FALSE] /\ size = [p \in Page |-> Big]
  /\ items = [p \in Page |-> <<>>] /\ next = [p \in Page |-> Nil]
  /\ slabs = [c \in Class \union {Big} |-> Nil] /\ free_slabs = Nil
  /\ block = [h \in Handle |-> NoBlock]
  /\ bigs = 0 /\ bigFrees = 0 /\ panic = "no" /\ which \in Heaps

----------------------------------------------------------------------------
(* Walks.  A list that has closed on itself shows as longer than the heap. *)

Chain(link, first) ==
  LET at[i \in 1 .. NPages + 1] ==
        IF i = 1 THEN first ELSE IF at[i - 1] = Nil THEN Nil ELSE link[at[i - 1]]
      Reached == {i \in DOMAIN at : at[i] # Nil}
  IN [i \in Reached |-> at[i]]

\* __tail
LastOf(link, first) ==
  LET c == Chain(link, first) IN IF c = <<>> THEN Nil ELSE c[Len(c)]

SetMin(S) == CHOOSE i \in S : \A j \in S : i <= j

\* __insert_free_slab: behind the first page of the list that is not above p.
InsertFree(f, p) ==
  LET c == Chain(f.next, f.first)
      Stop == {i \in DOMAIN c : c[i] <= p}
      parent == c[SetMin(Stop)]
  IN IF f.first = Nil THEN [f EXCEPT !.first = p]
     ELSE IF Stop # {} THEN
       [f EXCEPT !.next[p] = f.next[parent], !.next[parent] = p]
     ELSE [f EXCEPT !.next[c[Len(c)]] = p]

\* Mutant: the loop stops one page early.
FreePagesShort(p, n) ==
  LET f[i \in 0 .. n] ==
        IF i = 0 THEN [next |-> next, first |-> free_slabs]
        ELSE InsertFree([f[i - 1] EXCEPT !.next[p + i - 1] = Nil], p + i - 1)
  IN f[n - 1]

\* __free_big_slab, for the n pages from p on.
FreePages(p, n) ==
  LET f[i \in 0 .. n] ==
        IF i = 0 THEN [next |-> next, first |-> free_slabs]
        ELSE InsertFree([f[i - 1] EXCEPT !.next[p + i - 1] = Nil], p + i - 1)
  IN f[n]

\* __try_get_big_free_slab: the start in the free list of n pages in a row.
RunStart(c, i) == i = 1 \/ c[i] # c[i - 1] + 1
Starts(c, n) ==
  {i \in DOMAIN c : RunStart(c, i) /\ i + n - 1 <= Len(c)
                      /\ \A j \in 1 .. n - 1 : c[i + j] = c[i] + j}

\* The list is mended at the start of the run before, not at its end.
WithoutRun(c, i, n) ==
  LET Before == {j \in 1 .. i - 1 : RunStart(c, j)}
      after == IF i + n <= Len(c) THEN c[i + n] ELSE Nil
      head == CHOOSE j \in Before : \A k \in Before : k <= j
  IN IF Before = {} THEN [next |-> next, first |-> after]
     ELSE [next |-> [next EXCEPT ![c[head]] = after], first |-> free_slabs]

----------------------------------------------------------------------------
\* __insert_slab: the links once p, set up with the given links, is appended.
Appended(link, index, p) ==
  IF slabs[index] = Nil THEN link ELSE [link EXCEPT ![LastOf(link, slabs[index])] = p]

MayBeBig == bigs < MaxBig /\ (Reuse \/ bigFrees = 0)

HasItem(k) == LET t == LastOf(next, slabs[k]) IN t # Nil /\ items[t] # <<>>

\* kmalloc of a small size when the last slab of its class has an item left.
AllocItem(h, k) ==
  LET t == LastOf(next, slabs[k]) IN
  /\ HasItem(k)
  /\ block' = [block EXCEPT ![h] = [page |-> t, kind |-> k, item |-> Head(items[t])]]
  /\ items' = [items EXCEPT ![t] = Tail(@)]
  /\ UNCHANGED <<brk, magic, size, next, lists, counts, panic>>

\* Mutant: next of the page is not cleared.
AllocSlabStaleLink(h, k) ==
  LET p == IF free_slabs # Nil THEN free_slabs ELSE brk + 1 IN
  /\ ~HasItem(k) /\ p \in Page
  /\ brk' = IF free_slabs # Nil THEN brk ELSE p
  /\ free_slabs' = IF free_slabs # Nil THEN next[p] ELSE Nil
  /\ magic' = [magic EXCEPT ![p] = TRUE] /\ size' = [size EXCEPT ![p] = k]
  /\ items' = [items EXCEPT ![p] = [i \in 1 .. Items[k] - 1 |-> i + 1]]
  /\ next' = Appended(next, k, p)
  /\ slabs' = [slabs EXCEPT ![k] = IF @ = Nil THEN p ELSE @]
  /\ block' = [block EXCEPT ![h] = [page |-> p, kind |-> k, item |-> 1]]
  /\ UNCHANGED <<counts, panic>>

\* Mutant: the page is not taken off the free list.
AllocSlabKeepsFree(h, k) ==
  LET p == IF free_slabs # Nil THEN free_slabs ELSE brk + 1 IN
  /\ ~HasItem(k) /\ p \in Page
  /\ brk' = IF free_slabs # Nil THEN brk ELSE p
  /\ UNCHANGED free_slabs
  /\ magic' = [magic EXCEPT ![p] = TRUE] /\ size' = [size EXCEPT ![p] = k]
  /\ items' = [items EXCEPT ![p] = [i \in 1 .. Items[k] - 1 |-> i + 1]]
  /\ next' = Appended([next EXCEPT ![p] = Nil], k, p)
  /\ slabs' = [slabs EXCEPT ![k] = IF @ = Nil THEN p ELSE @]
  /\ block' = [block EXCEPT ![h] = [page |-> p, kind |-> k, item |-> 1]]
  /\ UNCHANGED <<counts, panic>>

\* ... and when a page becomes a slab first, a free one or else a new one.
AllocSlab(h, k) ==
  LET p == IF free_slabs # Nil THEN free_slabs ELSE brk + 1 IN
  /\ ~HasItem(k) /\ p \in Page
  /\ brk' = IF free_slabs # Nil THEN brk ELSE p
  /\ free_slabs' = IF free_slabs # Nil THEN next[p] ELSE Nil
  /\ magic' = [magic EXCEPT ![p] = TRUE] /\ size' = [size EXCEPT ![p] = k]
  /\ items' = [items EXCEPT ![p] = [i \in 1 .. Items[k] - 1 |-> i + 1]]
  /\ next' = Appended([next EXCEPT ![p] = Nil], k, p)
  /\ slabs' = [slabs EXCEPT ![k] = IF @ = Nil THEN p ELSE @]
  /\ block' = [block EXCEPT ![h] = [page |-> p, kind |-> k, item |-> 1]]
  /\ UNCHANGED <<counts, panic>>

\* kmalloc of more than MAX_SLAB_SIZE: n pages, the header included.
AllocBig(h, n) ==
  LET c == Chain(next, free_slabs)
      found == Starts(c, n) # {}
      i == SetMin(Starts(c, n))
      p == IF found THEN c[i] ELSE brk + 1
      rest == IF found THEN WithoutRun(c, i, n) ELSE [next |-> next, first |-> free_slabs]
      Inside == p + 1 .. p + n - 1
      link == Appended([rest.next EXCEPT ![p] = Nil], Big, p)
  IN
  /\ MayBeBig /\ p + n - 1 \in Page
  /\ brk' = IF found THEN brk ELSE brk + n
  /\ free_slabs' = rest.first
  /\ magic' = [q \in Page |-> q \notin Inside /\ (q = p \/ magic[q])]
  /\ size' = [q \in Page |-> IF q = p THEN n ELSE IF q \in Inside THEN 0 ELSE size[q]]
  /\ items' = [q \in Page |-> IF q \in Inside \union {p} THEN <<>> ELSE items[q]]
  /\ next' = [q \in Page |-> IF q \in Inside THEN Nil ELSE link[q]]
  /\ slabs' = [slabs EXCEPT ![Big] = IF @ = Nil THEN p ELSE @]
  /\ block' = [block EXCEPT ![h] = [page |-> p, kind |-> n, item |-> 0]]
  /\ bigs' = bigs + 1 /\ UNCHANGED <<bigFrees, panic>>

\* __sbrk beyond HEAP_END.
OutOfMemory ==
  /\ \/ \E k \in Class : ~HasItem(k) /\ free_slabs = Nil /\ brk = NPages
     \/ \E n \in 1 .. MaxBlock :
          MayBeBig /\ Starts(Chain(next, free_slabs), n) = {} /\ brk + n > NPages
  /\ panic' = "memory"
  /\ UNCHANGED <<brk, headers, lists, block, counts>>

\* Only kfree looks at the magic number.
Trusted(p) == magic[p] \/ which = "user"

\* free: what the header says of the page decides, not what was asked for; a
\* header without the magic number panics.
FreeItem(h) ==
  LET p == block[h].page IN
  /\ Trusted(p) => size[p] \notin 1 .. MaxBlock
  /\ items' = IF Trusted(p) THEN [items EXCEPT ![p] = <<block[h].item>> \o @] ELSE items
  /\ panic' = IF Trusted(p) THEN panic ELSE "corruption"
  /\ UNCHANGED <<brk, magic, size, next, lists, counts>>

FreeBig(h) ==
  LET p == block[h].page
      f == FreePages(p, size[p])
      Freed == p .. p + size[p] - 1
  IN
  /\ Trusted(p) /\ size[p] \in 1 .. MaxBlock /\ bigFrees < MaxBigFree
  /\ size' = [q \in Page |-> IF q \in Freed THEN 0 ELSE size[q]]
  /\ items' = [q \in Page |-> IF q \in Freed THEN <<>> ELSE items[q]]
  /\ next' = f.next /\ free_slabs' = f.first
  /\ bigFrees' = bigFrees + 1
  /\ UNCHANGED <<brk, magic, slabs, bigs, panic>>

Allocate(h) ==
  /\ block[h] = NoBlock
  /\ \/ \E k \in Class : AllocItem(h, k) \/ AllocSlab(h, k)
     \/ \E n \in 1 .. MaxBlock : AllocBig(h, n)
     \/ OutOfMemory

Release(h) ==
  /\ block[h] # NoBlock
  /\ FreeItem(h) \/ FreeBig(h)
  /\ block' = [block EXCEPT ![h] = NoBlock]

kmalloc(h) == which = "kernel" /\ Allocate(h)
kfree(h) == which = "kernel" /\ Release(h)

\* malloc and free of a program.
__malloc(h) == which = "user" /\ Allocate(h)
__free(h) == which = "user" /\ Release(h)

\* A list that has closed on itself: the next walk of it does not end, and it
\* is under heap_lock in the kernel.
Endless(first) == Len(Chain(next, first)) > NPages
Stuck == Endless(free_slabs) \/ \E c \in DOMAIN slabs : Endless(slabs[c])

Next ==
  /\ panic = "no" /\ ~Stuck
  /\ \E h \in Handle : kmalloc(h) \/ kfree(h) \/ __malloc(h) \/ __free(h)
  /\ UNCHANGED which

Spec == Init /\ [][Next]_vars
----------------------------------------------------------------------------
Held == {h \in Handle : block[h] # NoBlock}
PagesOf(b) == b.page .. b.page + (IF b.kind \in Class THEN 1 ELSE b.kind) - 1
Same(b, d) == b.kind \in Class /\ d.kind = b.kind /\ d.item # b.item

Elements(s) == {s[i] : i \in DOMAIN s}
Slabs(k) == Elements(Chain(next, slabs[k]))
FreeSet == Elements(Chain(next, free_slabs))

(* No two blocks in use overlap: they are on different pages, or different  *)
(* items of one slab.                                                       *)
Exclusive ==
  \A g, h \in Held : g # h /\ PagesOf(block[g]) \cap PagesOf(block[h]) # {}
    => Same(block[g], block[h])

(* The header in front of every block in use is the one malloc wrote, so    *)
(* that kfree finds the magic number and gives the block back where it came *)
(* from: the check that panics with "Heap corruption" never strikes.        *)
HeadersIntact ==
  /\ TypeOK
  /\ \A h \in Held : magic[block[h].page] /\ size[block[h].page] = block[h].kind

\* Every item of a slab is free in it or in use, and never both.
ItemsAccounted ==
  \A k \in Class : \A p \in Slabs(k) :
    LET InUse == {block[h].item : h \in {g \in Held : block[g].page = p}} IN
    /\ Elements(items[p]) = (1 .. Items[k]) \ InUse
    /\ Len(items[p]) = Items[k] - Cardinality(InUse)

\* Every page the heap has grown to is a slab of one class, part of a big
\* block or on the free list: none is lost, none has two uses.
PagesAccounted ==
  \A p \in 1 .. brk :
    Cardinality({k \in Class : p \in Slabs(k)})
      + (IF p \in FreeSet THEN 1 ELSE 0)
      + Cardinality({h \in Held : block[h].kind \notin Class /\ p \in PagesOf(block[h])})
      = 1

(* No memory is lost: what is not in use can be allocated again, an item    *)
(* from its slab, a page from the free list.                                *)
Accounted == ItemsAccounted /\ PagesAccounted

(* kfree never panics with "Heap corruption: slab = ...".                   *)
NoCorruption == panic # "corruption"
=============================================================================
