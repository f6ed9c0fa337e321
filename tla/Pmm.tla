-------------------------------- MODULE Pmm --------------------------------
(***************************************************************************)
(* The physical memory manager, kernel/mem/pmm.c: one bit per frame, kept  *)
(* in words of WordBits bits, with a cached index of a word that holds a   *)
(* free frame.  Every operation holds __pmm_lock from its first to its     *)
(* last access, so an operation is one action; marking a region takes the  *)
(* lock once per frame, and other cores run between two of its frames.     *)
(***************************************************************************)
EXTENDS Integers, FiniteSets

CONSTANTS
  Cores,       \* the processors that allocate and free frames
  WordBits,    \* bits of one bitmap word (64 in the code)
  NWords,      \* words of the storage allocate_pmm_bitmap reserves
  MaxRun,      \* longest run of frames one allocation asks for
  MemoryMaps   \* the usable frames boot may find, after the bitmap's own

ASSUME ConstAssumption ==
  /\ WordBits \in Nat \ {0}
  /\ NWords \in Nat \ {0}
  /\ MaxRun \in Nat \ {0}

Frame == 0 .. NWords * WordBits - 1

Index(f) == f \div WordBits

ASSUME MapsAssumption == MemoryMaps \subseteq SUBSET Frame

VARIABLES
  free,         \* frames whose bit is set
  size,         \* __pmm_bitmap_size
  freeIndex,    \* __pmm_bitmap_free_index
  initialized,  \* __pmm_initialized
  unmarked,     \* usable frames k_mem_pmm_init has still to mark
  usable,       \* the frames of the memory map (constant after Init)
  owned,        \* frames each core was given and has not begun to free
  releasing,    \* rest of the region each core is freeing
  panicked      \* panic(NULL, "Out of memory.") was reached

vars == <<free, size, freeIndex, initialized, unmarked, usable, owned,
          releasing, panicked>>

Word(i, bits) == {f \in bits : Index(f) = i}

TypeOK ==
  /\ free \subseteq Frame
  /\ size \in 0 .. NWords
  /\ freeIndex \in 0 .. NWords
  /\ initialized \in BOOLEAN
  /\ usable \subseteq Frame
  /\ unmarked \subseteq usable
  /\ owned \in [Cores -> SUBSET Frame]
  /\ releasing \in [Cores -> SUBSET Frame]
  /\ panicked \in BOOLEAN

Init ==
  /\ usable \in MemoryMaps
  /\ unmarked = usable
  /\ free = {} /\ size = 0 /\ freeIndex = 0
  /\ initialized = FALSE
  /\ owned = [c \in Cores |-> {}]
  /\ releasing = [c \in Cores |-> {}]
  /\ panicked = FALSE

Lowest(S) == CHOOSE f \in S : \A g \in S : f <= g

----------------------------------------------------------------------------
\* Mutant: the size grows to one past the word that is needed.
MarkFrameGrowsTooFar(f) ==
  /\ free' = free \union {f}
  /\ size' = IF Index(f) > size /\ ~initialized THEN Index(f) + 2 ELSE size
  /\ freeIndex' = IF Word(freeIndex, free \union {f}) = {}
                  THEN Index(f) ELSE freeIndex

\* Mutant: the cached index is not refreshed when its word was empty.
MarkFrameKeepsIndex(f) ==
  \/ /\ initialized /\ Index(f) > size
     /\ UNCHANGED <<free, size, freeIndex>>
  \/ /\ ~initialized \/ Index(f) <= size
     /\ free' = free \union {f}
     /\ size' = IF Index(f) > size THEN Index(f) + 1 ELSE size
     /\ freeIndex' = IF ~initialized /\ Word(freeIndex, free \union {f}) = {}
                     THEN Index(f) ELSE freeIndex

(* k_mem_pmm_mark_frame.  The bitmap's size grows only while the manager is *)
(* being initialised, and only for an index beyond it; a later index beyond *)
(* it is refused.                                                           *)
MarkFrame(f) ==
  \/ /\ initialized /\ Index(f) > size
     /\ UNCHANGED <<free, size, freeIndex>>
  \/ /\ ~initialized \/ Index(f) <= size
     /\ free' = free \union {f}
     /\ size' = IF Index(f) > size THEN Index(f) + 1 ELSE size
     /\ freeIndex' = IF Word(freeIndex, free \union {f}) = {}
                     THEN Index(f) ELSE freeIndex

\* The next frame of k_mem_pmm_init's loop over the memory map, in address order.
BootMark ==
  /\ ~initialized /\ unmarked # {}
  /\ MarkFrame(Lowest(unmarked))
  /\ unmarked' = unmarked \ {Lowest(unmarked)}
  /\ UNCHANGED <<initialized, usable, owned, releasing, panicked>>

BootDone ==
  /\ ~initialized /\ unmarked = {}
  /\ initialized' = TRUE
  /\ UNCHANGED <<free, size, freeIndex, unmarked, usable, owned, releasing,
                 panicked>>

----------------------------------------------------------------------------
\* Mutant: found_frames is not reset when the search meets a frame in use.
RunsNoReset(n) ==
  {r \in free : freeIndex <= Index(r) /\ Index(r + n - 1) < size}

\* The runs of n free frames that the search of k_mem_pmm_alloc can meet: it
\* starts at the cached word and never looks below it.
Runs(n) ==
  {r \in Frame : /\ freeIndex <= Index(r)
                 /\ Index(r + n - 1) < size
                 /\ r .. r + n - 1 \subseteq free}

\* The first word from i on that holds a bit, or size when none does.
Scan(i, bits) ==
  CHOOSE j \in i .. size : /\ j = size \/ Word(j, bits) # {}
                           /\ \A k \in i .. j - 1 : Word(k, bits) = {}

\* Mutant: no wrap to the first word when the end is met.
AdvanceNoWrap(bits) == Scan(freeIndex, bits)

\* The two loops at the end of k_mem_pmm_alloc, with the wrap between them.
Advance(bits) ==
  IF Scan(freeIndex, bits) < size THEN Scan(freeIndex, bits) ELSE Scan(0, bits)

Alloc(c, n) ==
  /\ initialized /\ ~panicked /\ releasing[c] = {}
  /\ \/ /\ freeIndex < size /\ Runs(n) # {}
        /\ LET run == Lowest(Runs(n)) .. Lowest(Runs(n)) + n - 1 IN
           /\ free' = free \ run
           /\ freeIndex' = Advance(free \ run)
           /\ owned' = [owned EXCEPT ![c] = @ \union run]
        /\ UNCHANGED panicked
     \/ /\ freeIndex >= size \/ Runs(n) = {}
        /\ panicked' = TRUE
        /\ UNCHANGED <<free, freeIndex, owned>>
  /\ UNCHANGED <<size, initialized, unmarked, usable, releasing>>

\* A caller enters k_mem_pmm_mark_region (k_mem_pmm_free is a region of one).
Release(c, first, count) ==
  /\ initialized /\ ~panicked /\ releasing[c] = {}
  /\ first .. first + count - 1 \subseteq owned[c]
  /\ owned' = [owned EXCEPT ![c] = @ \ (first .. first + count - 1)]
  /\ releasing' = [releasing EXCEPT ![c] = first .. first + count - 1]
  /\ UNCHANGED <<free, size, freeIndex, initialized, unmarked, usable, panicked>>

\* Mutant: the loop of k_mem_pmm_mark_region stops one frame early.
ReleaseStepShort(c) ==
  /\ ~panicked /\ releasing[c] # {}
  /\ MarkFrame(Lowest(releasing[c]))
  /\ releasing' = [releasing EXCEPT ![c] =
                     IF Cardinality(@) = 2 THEN {} ELSE @ \ {Lowest(@)}]
  /\ UNCHANGED <<initialized, unmarked, usable, owned, panicked>>

ReleaseStep(c) ==
  /\ ~panicked /\ releasing[c] # {}
  /\ MarkFrame(Lowest(releasing[c]))
  /\ releasing' = [releasing EXCEPT ![c] = @ \ {Lowest(@)}]
  /\ UNCHANGED <<initialized, unmarked, usable, owned, panicked>>

Next ==
  \/ BootMark
  \/ BootDone
  \/ \E c \in Cores :
       \/ \E n \in 1 .. MaxRun : Alloc(c, n)
       \/ \E first \in Frame, count \in 1 .. MaxRun : Release(c, first, count)
       \/ ReleaseStep(c)

Spec == Init /\ [][Next]_vars

----------------------------------------------------------------------------
Held(c) == owned[c] \union releasing[c]

(* No frame has two owners, and none is owned while its bit says free: two  *)
(* cores never write through the same frame (k_mem_pmm_alloc against a      *)
(* k_mem_pmm_mark_region that is half done on another core).                *)
Exclusive ==
  /\ \A c \in Cores : Held(c) \cap free = {}
  /\ \A c, d \in Cores : c # d => Held(c) \cap Held(d) = {}

(* Frames are neither lost nor invented after boot: what the memory map     *)
(* offered is at all times free, held or still to be marked.                *)
Conservation ==
  usable = unmarked \union free \union UNION {Held(c) : c \in Cores}

\* Every usable frame lies below the size that boot computed.  Boot misses it
\* when the last word of the map follows a word that was just reached: the
\* test of k_mem_pmm_mark_frame is index > size where index >= size is meant.
FitsBitmap == \A f \in usable : Index(f) < size

(* The cached index: while it lies inside the bitmap its word holds a free  *)
(* frame, and once it has run off the end no frame at all is free.  This is *)
(* what lets k_mem_pmm_alloc start its search there and panic at the end.   *)
CacheExact ==
  initialized /\ FitsBitmap =>
    \/ freeIndex < size /\ Word(freeIndex, free) # {}
    \/ freeIndex = size /\ free = {}

(* "Out of memory." for a single frame is raised only when none is free.    *)
SingleOomMeansEmpty ==
  [][\A c \in Cores : Alloc(c, 1) /\ panicked' /\ FitsBitmap => free = {}]_vars
=============================================================================
