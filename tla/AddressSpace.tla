---------------------------- MODULE AddressSpace ----------------------------
(***************************************************************************)
(* The address spaces of processes: what fork, exec, mmap, munmap and the  *)
(* drivers' iomap and DMA buffers do to page tables and frames.  A space   *)
(* is changed by its own process only and the kernel is not preempted, so  *)
(* each call is one step; frames come one by one, under the lock of the    *)
(* physical memory manager.                                                *)
(***************************************************************************)
EXTENDS Paging

CONSTANTS
  Process,    \* the processes, which are the spaces besides Root
  InitProc,
  Root,       \* __root_pml
  Image,      \* the addresses a program and its stack are loaded at, in order
  Arena,      \* the pages from MMAP_START to MMAP_END, in order
  KernelTop,  \* the top-level entries of the kernel: those with a boot page
  BootPages,  \* the kernel addresses mapped before the first process
  HeapPages,  \* the pages of the kernel heap, in order
  MmioPages,  \* the pages from MMIO_START to MMIO_END, in order
  PageBytes,  \* PAGE_SIZE
  Leftover,   \* what a frame that is taken for a table may hold at boot
  FixedAt,    \* bound: the addresses that programs map with MAP_FIXED
  MaxBlocks,  \* bound: regions a process has mapped at a time
  Reuse       \* frames that have been given back are handed out again

ASSUME AddressSpaceAssumption ==
  /\ Space = Process \union {Root} /\ Root \notin Process /\ InitProc \in Process
  /\ Levels > 1 /\ KernelTop \subseteq Index /\ PageBytes \in Nat \ {0} /\ MaxBlocks \in Nat
  /\ Reuse \in BOOLEAN /\ FixedAt \subseteq Address /\ Leftover \subseteq [Index -> Entry]
  /\ {Image, Arena, BootPages, HeapPages, MmioPages} \subseteq Seq(Address)
  /\ \A as \in {Image, Arena} : \A i \in DOMAIN as : as[i][1] \notin KernelTop
  /\ \A as \in {BootPages, HeapPages, MmioPages} :
       \A i \in DOMAIN as : as[i][1] \in KernelTop
  \* The heap and iomap have been used before the first process, and what has
  \* been mapped is none of the pages that iomap will map.
  /\ \A t \in KernelTop : \E b \in DOMAIN BootPages : BootPages[b][1] = t
  /\ \A i, j \in DOMAIN MmioPages : MmioPages[i] = MmioPages[j] => i = j
  /\ \A i \in DOMAIN MmioPages, as \in {BootPages, HeapPages} :
       \A j \in DOMAIN as : as[j] # MmioPages[i]
  /\ Levels * Len(BootPages) <= NFrames

Value == {0, 1}
UserPages == {a \in Address : a[1] \notin KernelTop}
KernelPages == Address \ UserPages
Prot == {"none", "read", "write"}

VARIABLES
  tab, data, free,  \* the tables, the frames' contents, the free frames
  given,      \* frames given back, kept apart unless Reuse
  alive,      \* the processes spawned
  mmap_start, \* how much of the arena each process has used
  mmap,       \* the regions each process has mapped
  heap,       \* the pages the kernel heap has grown to
  mmio,       \* how many pages of the MMIO range are used
  regions,    \* __iomapped_regions: the physical pages that have an address
  dma,        \* the frames that are drivers' buffers
  touched     \* history: the kernel's addresses that programs have mapped

spaces == <<alive, mmap_start, mmap>>
drivers == <<mmio, regions, dma>>
vars == <<tab, data, free, given, spaces, heap, drivers, touched>>

Memory == [tab |-> tab, data |-> data, free |-> free, given |-> given]

TypeOK ==
  /\ tab \in [Table -> [Index -> Entry]]
  /\ data \in [Frame -> Value]
  /\ free \subseteq Frame /\ given \subseteq Frame
  /\ alive \subseteq Process
  /\ mmap_start \in [Process -> 0 .. Len(Arena)]
  /\ mmap \in [Process -> Seq(Address)] /\ touched \subseteq KernelPages
  /\ heap \in 0 .. Len(HeapPages) /\ mmio \in 0 .. Len(MmioPages)
  /\ regions \in [Frame \union Device -> Address \union {<<>>}]
  /\ dma \subseteq Frame

Becomes(m) == tab' = m.tab /\ data' = m.data /\ free' = m.free /\ given' = m.given

\* Frames given back can be used again, or are kept apart.
GiveBack(m, Back) ==
  IF Reuse THEN [m EXCEPT !.free = @ \union Back] ELSE [m EXCEPT !.given = @ \union Back]

\* Memory as the boot loader leaves it, ram being the tables it could be read as.
Blank(ram) == [tab |-> [t \in Table |-> IF t \in Frame THEN ram[t] ELSE NoTable],
               data |-> [f \in Frame |-> 0], free |-> Frame, given |-> {}]

\* The kernel's own mappings at boot, and init with nothing but them.
Init ==
  /\ \E ram \in [Frame -> Leftover] :
       LET n == Clone(MapPages(Blank(ram), Root, BootPages, FALSE, FALSE), Root, InitProc)
       IN tab = n.tab /\ data = n.data /\ free = n.free /\ given = n.given
  /\ alive = {InitProc}
  /\ mmap_start = [p \in Process |-> 0] /\ mmap = [p \in Process |-> <<>>]
  /\ heap = 0 /\ mmio = 0
  /\ regions = [phys \in Frame \union Device |-> <<>>]
  /\ dma = {} /\ touched = {}

\* No call panics for want of memory: so many frames are left.
Left(n) == Cardinality(free) >= n
----------------------------------------------------------------------------
\* k_process_fork: the child's list of regions is new, its arena starts afresh.
Fork(p, child) ==
  /\ p \in alive /\ child \in Process \ alive
  /\ Left(Cardinality(UserPaths(Memory, p)))
  /\ Becomes(Clone(Memory, p, child))
  /\ alive' = alive \union {child}
  /\ UNCHANGED <<mmap_start, mmap, heap, drivers, touched>>

\* The pages of the program and its stack, filled.
Load(m, p) ==
  LET n == MapPages(m, p, Image, TRUE, TRUE)
      Loaded == {Target(n, p, Image[i]) : i \in DOMAIN Image}
  IN [n EXCEPT !.data = [f \in Frame |-> IF f \in Loaded THEN 0 ELSE @[f]]]

\* Mutant: the frames of the tables that have replaced the old ones go back.
ExecFreesNew(p) ==
  LET m == Load(Clone(Memory, Root, p), p) IN
  /\ p \in alive /\ Left(Levels * Len(Image))
  /\ Becomes(GiveBack(m, FramesToFree(m, p)))
  /\ UNCHANGED <<spaces, heap, drivers, touched>>

\* k_elf_exec: a copy of the root space takes the place of the process's, whose
\* frames are given back before the program is loaded.
Exec(p) ==
  /\ p \in alive /\ Left(Levels * Len(Image))
  /\ Becomes(Load(GiveBack(Clone(Memory, Root, p), FramesToFree(Memory, p)), p))
  /\ UNCHANGED <<spaces, heap, drivers, touched>>

\* k_mem_mmap, anonymous: at a fixed address, whosever it is, or at the next one
\* of the arena.
Map(p, start, prot) ==
  /\ p \in alive /\ Left(Levels) /\ Len(mmap[p]) < MaxBlocks
  /\ mmap' = [mmap EXCEPT ![p] = Append(@, start)]
  /\ touched' = touched \union ({start} \cap KernelPages)
  /\ Becomes(IF prot = "none" THEN Memory
             ELSE MapPage(Memory, p, start, Nil, TRUE, prot = "write"))
  /\ UNCHANGED <<alive, heap, drivers>>

MmapFixed(p, start, prot) == Map(p, start, prot) /\ UNCHANGED mmap_start

Mmap(p, prot) ==
  /\ mmap_start[p] < Len(Arena)
  /\ mmap_start' = [mmap_start EXCEPT ![p] = @ + 1]
  /\ Map(p, Arena[mmap_start[p] + 1], prot)

\* k_mem_munmap: only a region that was mapped with this start and size, once.
Munmap(p, i) ==
  /\ p \in alive /\ i \in DOMAIN mmap[p]
  /\ \A j \in 1 .. i - 1 : mmap[p][j] # mmap[p][i]
  /\ Becomes(Unmap(Memory, p, mmap[p][i]))
  /\ mmap' = [mmap EXCEPT ![p] = SubSeq(@, 1, i - 1) \o SubSeq(@, i + 1, Len(@))]
  /\ UNCHANGED <<alive, mmap_start, heap, drivers, touched>>

\* The program writes to its memory, where the tables allow it.
Store(p, a, v) ==
  /\ p \in alive /\ Writable(Memory, p, a)
  /\ data' = [data EXCEPT ![Target(Memory, p, a)] = v]
  /\ UNCHANGED <<tab, free, given, spaces, heap, drivers, touched>>

----------------------------------------------------------------------------
\* __sbrk of the kernel heap, in whatever space is current.
GrowHeap(p) ==
  /\ p \in alive /\ heap < Len(HeapPages) /\ Left(Levels)
  /\ heap' = heap + 1
  /\ Becomes(MapPage(Memory, p, HeapPages[heap + 1], Nil, FALSE, FALSE))
  /\ UNCHANGED <<spaces, drivers, touched>>

\* k_mem_iomap of a page, in memory m; a known one has its address already.
MapDevice(m, p, phys) ==
  IF regions[phys] # <<>> THEN Becomes(m) /\ UNCHANGED <<mmio, regions>>
  ELSE /\ Becomes(MapPage(m, p, MmioPages[mmio + 1], phys, FALSE, FALSE))
       /\ mmio' = mmio + 1
       /\ regions' = [regions EXCEPT ![phys] = MmioPages[mmio + 1]]

\* Mutant: MMIO_END is not looked at and the next page is in use by others.
IomapWraps(p, phys) ==
  /\ p \in alive /\ phys \in Device /\ Left(Levels)
  /\ IF regions[phys] # <<>> THEN Becomes(Memory) /\ UNCHANGED <<mmio, regions>>
     ELSE /\ Becomes(MapPage(Memory, p, MmioPages[1], phys, FALSE, FALSE))
          /\ mmio' = mmio + 1
          /\ regions' = [regions EXCEPT ![phys] = MmioPages[1]]
  /\ UNCHANGED <<spaces, heap, dma, touched>>

Iomap(p, phys) ==
  /\ p \in alive /\ phys \in Device /\ Left(Levels)
  /\ mmio < Len(MmioPages)
  /\ MapDevice(Memory, p, phys)
  /\ UNCHANGED <<spaces, heap, dma, touched>>

\* k_mem_alloc_dma of a page.
AllocDma(p) ==
  LET f == Nth(free, 0) IN
  /\ p \in alive /\ Left(Levels + 1) /\ mmio < Len(MmioPages)
  /\ MapDevice([Memory EXCEPT !.free = @ \ {f}], p, f)
  /\ dma' = dma \union {f}
  /\ UNCHANGED <<spaces, heap, touched>>

\* k_mem_free_dma hands the byte address of the buffer over as a frame number;
\* a number beyond the bitmap is refused, the mapping stays.
FreeDma(p, f) ==
  /\ p \in alive /\ f \in dma
  /\ dma' = dma \ {f}
  /\ Becomes(GiveBack(Memory, {f * PageBytes} \cap Frame))
  /\ UNCHANGED <<spaces, heap, mmio, regions, touched>>

Step(p) ==
  \/ \E child \in Process : Fork(p, child)
  \/ Exec(p)
  \/ \E prot \in Prot : Mmap(p, prot) \/ \E a \in FixedAt : MmapFixed(p, a, prot)
  \/ \E i \in 1 .. MaxBlocks : Munmap(p, i)
  \/ \E a \in UserPages, v \in Value : Store(p, a, v)
  \/ GrowHeap(p)
  \/ \E phys \in Device : Iomap(p, phys)
  \/ AllocDma(p)
  \/ \E f \in Frame : FreeDma(p, f)

Next == \E p \in Process : Step(p)

Spec == Init /\ [][Next]_vars
----------------------------------------------------------------------------
\* What a process sees of its memory.
View(p) ==
  [a \in UserPages |->
     IF Readable(Memory, p, a)
     THEN <<data[Target(Memory, p, a)], Writable(Memory, p, a)>> ELSE <<>>]

\* The places that refer to a frame; the kernel's tables hang from the root.
TablesOf(s) == {s} \union {Target(Memory, s, p) :
                  p \in {q \in Prefix : Len(q) < Levels /\ Target(Memory, s, q) # Nil}}
Places(f) ==
  {ti \in UNION {TablesOf(s) \X Index : s \in alive \union {Root}} :
     tab[ti[1]][ti[2]].to = f /\ (ti[1] \in alive => ti[2] \notin KernelTop)}

(* Nothing a process does changes what another one sees of its memory: not  *)
(* its writes after a fork, nor what it maps, unmaps, executes or makes a   *)
(* driver do.                                                               *)
Isolation == [][\A p \in Process : Step(p) =>
                  \A q \in alive \ {p} : View(q)' = View(q)]_vars

(* A forked child sees exactly what its parent sees at that moment.         *)
ForkCopies == [][\A p, q \in Process : Fork(p, q) => View(q)' = View(p)]_vars

\* What programs have mapped over the kernel's addresses may be in the way.
DeviceMapped ==
  \A phys \in Frame \union Device :
    regions[phys] \notin touched \union {<<>>} => Target(Memory, Root, regions[phys]) = phys

(* The kernel's part is the same in every space, whichever space it was     *)
(* mapped in, by the kernel or by a program, and whenever the others were   *)
(* cloned, so that a driver finds its device at the address iomap gave it   *)
(* from whatever process it runs, unless a program has mapped that address. *)
KernelAgrees ==
  /\ TypeOK
  /\ DeviceMapped
  /\ \A s \in alive, a \in KernelPages : Target(Memory, s, a) = Target(Memory, Root, a)

(* Every frame has one use: a single entry of all tables refers to it, and  *)
(* none while it is free.                                                   *)
FrameOwnedOnce ==
  /\ \A f \in Frame : Cardinality(Places(f)) <= 1
  /\ \A f \in free \union given : Places(f) = {}
=============================================================================
