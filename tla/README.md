# WyrmOS in TLA+

Specifications of the WyrmOS kernel, model-checked with TLC and, where noted, proved with
TLAPS for every value of the constants. Every definition is translated from the C and assembly
source; `PROJECT.json` names the lines each one stands for.

## The system

WyrmOS is an x86-64 kernel that boots through Limine, starts every processor, loads its drivers
as modules and runs ELF programs in address spaces of their own. Kernel code runs with
interrupts off (interrupt gates, no `sti` except in the idle loop), so a processor is preempted
only in user mode and in `hlt`; shared data is guarded by spin locks.

| Component | Source | State | Operations | Uses |
|---|---|---|---|---|
| Physical memory manager | `kernel/mem/pmm.c` | bitmap, its size, cached free index | mark at boot, alloc a run, free frames | its lock |
| Page tables | `arch/x86_64/mem/paging.c` | the tables themselves, the root table | map, unmap, lookup, clone, free, switch | frames |
| Kernel heap | `kernel/mem/alloc.c` | break, slab headers, `slabs[]`, `free_slabs` | kmalloc, kfree | frames, page tables, its lock |
| mmap, iomap, DMA | `kernel/mem/mmap.c`, `mmio.c` | a process's regions and arena, mapped devices | mmap, munmap, iomap, alloc_dma, free_dma | page tables, frames, heap |
| Lists and trees | `lib/types` | nodes with owner, head, tail, size | append, prepend, pop, delete, insert, swap | heap |
| Processes, scheduler, signals | `kernel/proc/process.c`, `smp.c`, `pit.c`, `interrupt.c` | ready, sleep and wait queues, flags, contexts, pending signals | fork, exit, sleep, block, kill, yield, tick, wake-up | lists, page tables, three locks |
| AHCI driver | `modules/ahci/main.c` | command headers, PxCI, PxIS, two wait queues | read, interrupt | sleep and wake-up, DMA |
| Descriptors, system calls | `process.c`, `kernel/cpu/syscall.c` | a process's descriptor list | open, read, write, seek, readdir | VFS |
| VFS, initrd | `kernel/fs`, `kernel/exec/initrd.c` | tree of mount points, callbacks, archive headers | mount, open, read, readdir | trees, heap |
| Module loader, ELF, exec | `kernel/exec` | loaded modules, executors, symbols | load with dependencies, exec | VFS, heap, page tables |
| Boot, processors, interrupts | `kernel.c`, `arch/x86_64` | per-core data, IDT, the start flag | start cores, dispatch | all |
| Log, panic, terminal, serial, PCI, ACPI, CMOS | `kernel/dev`, `panic.c` | cursor, buffers, listeners | write, panic, probe | VFS |
| C library, programs | `lib/libc`, `user` | user heap, environment | malloc, printf, strings | system calls |

They interact by calls and by shared state: a system call or a tick enters the kernel on one
core, changes queues that every core reads, and leaves through the scheduler; a driver puts its
caller to sleep in a wait queue that its interrupt handler empties on the boot core; fork and
exec turn frames of the physical memory manager into page tables that share the kernel's part.

What is hard here: the interleaving of cores between two critical sections of one kernel path
(a process that is neither queued nor marked running), the hand-over of a context from the core
that saves it to the core that resumes it, an interrupt between a test and the sleep that
follows, a status bit that several waiters take for theirs, the reuse of memory that still holds old links,
cached values that are refreshed on some paths only, a string search whose place all cores share,
and arithmetic on pages, words, slabs and archive blocks.
The list with its source lines is `hazards` in `PROJECT.json`.

What makes each component correct:

* **frames** - handed out once at a time, none lost or invented; the manager gives up only when
  nothing is left;
* **heap** - blocks never overlap, headers stay whole, every item and page is in use or free;
* **lists** - pointers, owners and sizes describe one sequence per list;
* **processes** - each is in exactly one place and runs on one core at a time, from a context
  saved since it last ran; whoever is ready, asleep or waiting runs in the end; a fatal signal
  ends its process;
* **address spaces** - a frame has one use, no process sees another's memory change, all share
  one kernel, a child begins with its parent's memory;
* **disks** - a port's lists change only while it is idle, every disk that answers is one device;
  one command per slot, the data of the reader's own command in its buffer, none written after a
  successful read is over, and reads end where the interrupt line allows it;
* **files** - an open returns what the path names on the mounts there are, a descriptor delivers
  its file's bytes in order and none else, a directory is listed completely;
* **modules and boot** - a module starts once, after what it depends on, with every reference
  pointing where its symbol is; processors start one at a time with an entry of their own; a
  program finds its arguments; the boot ends, and a panic can be read;
* **text** - what printf writes to a cleared buffer strtol reads back, fields have their width,
  nothing is written past the limit of a buffer, and the string functions leave memory as C says,
  strncpy only where its result happens to be C's (see Regimes).

## Modules

| Module | Models | Notes |
|---|---|---|
| `Pmm` | `kernel/mem/pmm.c` | one step per critical section; freeing a region is one step per frame |
| `PmmProof`, `ListProof`, `ProcessProof`, `KHeapProof`, `AddressSpaceProof`, `AhciProof`, `BootProof`, `FilesProof` | - | theorems about the module they are named after, and their lemmas |
| `List` | `lib/types/list.c` | operators on a heap of nodes: `head`, `tail`, `size`, `prev`, `next`, `owner` |
| `ListSeq` | - | the abstract specification: a sequence per list |
| `ListUse` | how the kernel uses lists | shown to implement `ListSeq` |
| `Process` | `process.c`, ticks, return to user mode | uses `List` for the ready queue |
| `KHeap` | `kernel/mem/alloc.c`, `lib/libc/stdlib/_alloc.c` | the kernel's heap and a program's, which is the same algorithm |
| `Pci` | `kernel/dev/pci.c` | operators: the search over buses, devices, functions and bridges |
| `AhciStart` | `load()` of `modules/ahci/main.c` | finds the controllers with `Pci`; the ports' engines are external actors |
| `Ahci` | reads of `modules/ahci/main.c` | on the first disk that `AhciStart` found; the device is an external actor |
| `Elf` | `kernel/exec/elf.c`, `symbols.c`, `crt0.asm` | operators: sections, relocations, the stack of a new program |
| `Loader` | `kernel/exec/module.c` | prepares each file with `Elf` and starts modules after their dependencies |
| `Boot` | `kernel.c`, `smp.c`, `exec.c`, `log.c`, `panic.c`, `spinlock.h` | runs `Loader`, then the processors, then programs; the log and panic of all |
| `CString` | `lib/libc/string`, `ctype`, `stdlib.c` | operators on memory and text |
| `Format` | `lib/libc/stdio/printf.c` | the state machine of `__vprintf_generic`, a character a step |
| `Text` | calls of `Format` and `CString` | prints, reads back, and calls one function on any memory |
| `Paging` | `paging.c` | operators on a memory of tables, data and free frames |
| `AddressSpace` | fork, exec, mmap, munmap, iomap, DMA | composes `Paging` with the callers in `process.c`, `elf.c`, `mmap.c`, `mmio.c` |
| `Vfs` | `kernel/fs`, `kernel/exec/initrd.c` | operators: the mount tree, and the archive walked by address |
| `Files` | boot mounts, `syscall.c`, descriptors of `process.c`, `strtok`, `dirent.c` | uses `Vfs` |
| `MC*` | - | TLC instances: model values, small functions, symmetry |

An operator named after a defect (`RunsNoReset`, `SwitchReadiesFirst`, ...) and commented
`Mutant:` is not part of a specification; it stands before the definition it alters and shows
that the property named in `PROJECT.json` notices.

**Pmm.** `free` is the set bits of the bitmap, `size` the words it is searched to, `freeIndex`
the cached word, `owned` and `releasing` what each core's callers hold and are giving back.
`BootMark` is the loop over the usable map entries, `Alloc` the whole of `k_mem_pmm_alloc` with
the loops that skip empty words afterwards, `Release` and `ReleaseStep` a call of
`k_mem_pmm_free_frames`. A request that cannot be served stops the core (`panic`).

**Process.** `pc[c]` says where core `c` is in the kernel; a path is cut at each lock and at each
flag that is read outside the lock of the update it guards. `Switch`, `Requeue`, `Pick`, `Claim`
and `Load` are `k_process_switch`, `k_process_make_ready`, `k_process_get_ready` and the load of
the context. `Fork`/`ForkReady`, `Exit`, `Sleep`, `Block`, `Kill`/`KillCheck`/`KillReady` are the
system calls, `Return` the signals taken on the way back to user mode, `Tick`, `Timing`, `Expire`
and `Expired` the timer interrupt, `Irq`, `Waking` and `Wakeup` a device interrupt. Time is what
each sleeper has `left`; `Elapse` counts it down.

**KHeap.** A page is a number and carries the slab header the code finds at its start: a big
block that covers the next page overwrites that page's header, which is how corruption shows.

**AhciStart** and **Ahci.** `stage` goes through `load()` as the boot core runs it: search the
buses, switch a controller on, stop a port, exchange its lists, start it, identify the disk,
create the device; ports follow ST and FRE in their own time and identify answers or fails. Only
then `Ahci` begins. A reader chooses a slot, fills its header, issues the command, tests PxCI, waits, and
finishes; the interrupt handler wakes those who wait
for data, a finished read those who wait for a slot. `header` is what the
device reads when it executes a slot: a reader, or that the reader's buffer was given back, after
a success (`Freed`) or an error (`Dropped`). The device moves a command's data (`Transfer`) and
completes it (`Complete`) in two steps. `processed` is bit 5 of PxIS, "descriptor processed" in
the AHCI specification: a device with `setup.reports` may set it at any transfer, `Start` clears
it, and `Woken` takes it for an error whosever command set it, as line 613 does. A real error
(`Fail`) halts the device and is seen by nobody. A request is a start and a length; `Returned`
follows the code's arithmetic of sectors, regions and the bytes of the block address (`Field`) to
the bytes the caller gets, `request[r].start + i - 1` being what it should get. The device moves
one byte more for an entry than its count says (`Before`, `Writers`); the driver writes the count
itself for every full region. `irq` is the interrupt line: `setup.line` says whether the firmware
left the enables on, and whether the line reports a level, which stays since nobody clears PxIS
or IS, or an edge, which comes once.

**AddressSpace.** `tab` holds page tables whose entries name the frame below, `data` one value
for each frame. Clone copies the user half and shares the kernel half, as the code does; `Before`
is the order in which its nested loops ask for frames. A program may ask for any address with
MAP_FIXED (`FixedAt`), the kernel's own pages too: `k_mem_mmap` checks nothing. The entries it
makes and removes in the shared tables are then every space's, and `touched` records the addresses, which
the code does not. `Leftover` is what a frame may hold when it is first taken for a table, which
`map_ex` does not clear. `BootPages` are the kernel's own mappings
and what drivers mapped before the first process: they give the kernel heap and the range of
`iomap` their top-level entries, which every later space copies (`AddressSpaceAssumption`).

**Files.** The tree of `Vfs` is a function from the mapped paths to what is mounted there; its
archive is a sequence of blocks which `ParseTar` and `Members` walk as the code does, one header
after the other, so that a wrong step reads contents as a header. `stage` goes through the mounts
of `kernel_main`. `StartOpen`, `NextName` and `FinishOpen` are `sys_open`, `k_fs_open` and
`path_parse`, one step for each call of `strtok`, whose static place is `backup`; a string given
back may hold any name. The properties say what is promised by comparing names and looking blocks
up, without the walks.

**Loader.** `to_load`, `loaded` and `calls` are the list, `__loaded_modules` and the recursion of
`__load_recursive`, a frame holding the module and the dependency it has come to. `Check` looks
one dependency up, `Call` calls `load()`. `Find` is the search with `__scope_comparator`, which
never gets past the first scope of a module: it finds, does not find, or hangs. `LoadImage` of
`Elf` is `k_elf_load_module` in closed form: a section's address depends on how far the loop has
come (`Allocated`), and what the relocated places hold in the end is compared with what the
symbols mean (`Meant`), computed from the layout alone.

**Boot.** `pc` says where each processor is. The boot processor goes through the modules,
`k_process_init`, the loop of `__try_bootloader` and `k_exec`; the others wait until their
`goto_address` is written (`Release`) and go through `__init_core`. `say` is a call of
`k_dev_log`, in steps at the lock, the shared buffer and each half of the output. `Die` enters
`panic` anywhere, also inside the log; `Silence` is one turn of the loop that sends NMIs, `Shout`
opens the lock and prints, `Stop` is `hcf`. A program's stack is the sequence of bytes that
`k_elf_exec` pushes; `Started` is what `_start` has done to it.

**Format.** `vprintf` reads a character a step; `stage` is the `PRINTF_AWAIT_...` it waits for,
and a character that does not belong there is left to the next stage. Numbers have the widths of
their types (`Cast`), the digits go on a stack of `Stack` bytes of which `low` is the lowest used,
and `Emitted` is the bounded buffer of `vsnprintf`, which gets no terminator. `Text` hands the
buffer to `strtol` with what it held before behind the output (`InBuffer`), and compares memory
after a string function with what C says of that function (`Promise`), not with the code.

## Runs

| Run | Shows | Bounds |
|---|---|---|
| `pmm` | type, exclusivity, conservation, exactness of the cached index, a single frame is refused only when none is left | 2 cores, 3 words of 2 bits, every memory map, runs of 1 and 2 |
| `list` | lists stay whole and implement sequences | 2 lists, 4 nodes |
| `proc` | one place, fresh contexts, the assertion holds, ready queue whole, ready runs, sleepers run, a fatal signal ends its process | in turn: 1 core, 3 processes that sleep up to 2 and wait for a device; 1 core, 3 that signal, with PIT and list nodes that were not cleared; 2 cores, 3 that fork, yield and exit |
| `proc_signal_race` (violation) | a signal from another core queues a process twice and the assertion fails | 2 cores, 2 processes |
| `heap` | no overlap, headers whole, items and pages accounted for, in the kernel's heap and a program's | 4 pages, 2 classes, 4 users, blocks of 1 and 2 pages |
| `heap_corruption` (violation) | a freed big block, reused, makes kfree panic for a correct owner | 6 pages |
| `ahci` | idle ports at the exchange of lists, a device for each disk, slots, which bytes arrive, buffers of successful reads, termination under a level line | 4 machines of 2 buses, 2 ports in any of 3 states; 3 readers of one piece, 2 slots, 1 core, failing commands, devices that set bit 5 and that do not; one reader with requests of 1 byte to 10 regions; lines that are off, report a level or an edge; 161,023 states |
| `address_space` | kernel and devices seen alike everywhere, single use of frames, isolation, fork | 2 processes, 2 levels of 4 entries, 9 frames, 1 region each, MAP_FIXED at the first page of iomap; 154,212 states |
| `files` | opens, reads and listings against the archive and the mounts | 2 processes, 1 core, 8 members in blocks of 2, offsets from -3 to 3 |
| `boot` | modules in order, references right, processors apart, log whole, arguments arrive, the boot ends | 3 modules of 11 kinds, 139 images with every kind of relocation, up to 3 processors of which one panics, up to 2 arguments and 2 variables of up to 2 characters |
| `text` | numbers read back from cleared buffers or delimited outputs, fields filled, no overrun, string functions as in C, strncpy within its regime | types of 4, 5, 8 and 10 bits, one flag, buffers that held NULs, digits or signs, texts of up to 4 characters, memories of 5 |
| `files_two_cores` (violation) | of two cores that split paths at once one fails to open a file that is there | 2 cores, 2 paths |

Why the bounds suffice. Three bitmap words give a first, a middle and a last one, so every
position of the index relative to a free frame occurs, and two bits let a word be empty, partly
and entirely free and let a run cross a word. Four nodes give lists with a head, a tail and two
members between. Three processes let one run, one be queued and one be in a core's hands. Two
slots and three readers make somebody wait for a slot. Four pages let a big block lie between two
slabs. Two levels of tables run the same loops as four: a shared and a private entry at the top
and a page below. The one address of MAP_FIXED is the page that iomap gives next, so that a program
maps it before iomap does, after it, or unmaps what iomap has given; at a page of the user's half
MAP_FIXED does what the arena's pages show, and the proof takes any set of addresses. The archive has an empty file, one that fills its last block and one that does
not, a nested directory and a member that a mount point hides; two processes meet in `strtok`.
Three modules give a chain, a circle, two providers of a scope and one that fails between two others; three
processors let the flag be raised a second time while the first has hardly started, and
any of them may panic meanwhile. A pointer of two bytes and an alignment of four give every remainder the
stack can end with. Types keep the proportions of char, short, int and long, so that a conversion
to a narrower one, to the unsigned one and back differ, and the stack of digits is as far from
the widest number and precision as in the code.
`Setups`, `Jobs`, `MaxSleep`, `MaxSleepers`, `MaxReads`, `MaxBlock`, `MaxBig`, `MaxBigFree`, `MaxBlocks`, `MaxFds`,
`MaxOffset`, `MaxIndex`, `MaxNames` and `FixedAt` only cut counters and arguments off, and `Unused` keeps the log, whose
offset nobody looks at, from multiplying the states. No run checks for deadlock: the processes may all exit, a
panic stops the system, and the bounded modules run out of calls.

### Regimes

Some properties hold only where a known defect is out of reach; the constant that keeps it out is
named, and the hazard it belongs to says what fails without it.

* `KHeap.Reuse = FALSE`: no big block is allocated after one has been freed. With `TRUE` the
  lists mix (`heap_corruption`).
* `AddressSpace.Reuse = FALSE`: frames given back are kept apart. A new page table is not
  cleared (`paging.c:86`), so a frame that was a table before still maps what it mapped then,
  and `FrameOwnedOnce` fails.
* `AddressSpace.Leftover = {NoTable}`: memory is cleared before the kernel starts. Neither the boot protocol nor `paging.c:86` sees to it; with
  anything else in a frame its first use as a table maps what the garbage says.
* `AddressSpace.touched`: an address that a program has mapped over the kernel with MAP_FIXED
  (`syscall.c:142`, `mmap.c:33`). If iomap then gives out that page, the present entry keeps
  the program's frame, and a driver finds that instead of its device; if the program unmaps it,
  the device is gone. `KernelAgrees` asks for devices elsewhere only; everything else it says,
  isolation and single use hold whatever is mapped. Without the exception it fails at
  the first `iomap` after such a call.
* `AddressSpace.PageBytes = 16` keeps the address that `free_dma` passes for a frame number
  (`mmio.c:80`) outside the bitmap, as an address above the machine's frame count is. `Regime`
  of `AddressSpaceProof` says this and `~Reuse` in general; the run's constants satisfy it.
* `Process.Setups` in each run: sleeping or blocking together with `kill` breaks `OnePlace`
  (`process.c:335` wakes a sleeper and leaves it in its queue); sleeping on two cores breaks
  `FreshContext` and `OnePlace` (`process.c:471`, `402`); with the PIT nobody wakes sleepers.
* `Ahci.FirstRegion`, `InBuffer`: of a read that starts with a sector the first region (8 KiB) is
  right. Every later one is shifted, by a byte more for each region before it, because the
  count 8192 in an entry means 8193 bytes (`main.c:543`; the identify command, `main.c:426`,
  writes 511 for 512). A start inside a sector is right for 0 only (`main.c:644`). From six regions
  (48 KiB) on what is left is reckoned wrongly (`main.c:545`), an entry in the middle falls short
  and the last may have the device write behind the buffer.
* `NoStrayWrite` speaks of the buffers of successful reads; of the others only on a device that
  does not set bit 5 of PxIS. On one that does, a woken reader returns an error and gives its
  buffer back while its own command is in PxCI (`main.c:613-615`), the device writes there,
  and the run reaches that.
* `ReadEnds` holds for a line that is on and reports a level (`setup.line`, `intxOff`), while the
  device has met no error and no reader was misled by bit 5 (`Misled`): nobody wakes those who
  wait for the slot of a reader that has left. A disk that answers the identify command with an error
  is polled for ever (`main.c:449`), which `LoadEnds` excuses. `cmd ^= (1<<10)` switches a line
  off that the firmware had left on (`main.c:668`).
* `DiskNodes` excuses controllers behind a bridge, found twice (`pci.c:133` and `174`).
* `Boot.BootFirst`: a processor listed before the boot processor gets entry 0 of `cores[]` as
  well, and `CoresDistinct` fails. Lists longer than `MAX_CORES` are outside the setups: the code
  writes behind `cores[]`.
* `Loader.Early`: a reference to `.bss` that is relocated before the loop has come to `.bss` uses
  a place in the file (`elf.c:163`), and `ImageRight` fails.
* `BootEnds` excuses `loading = "hang"` (`module.c:71`); `ArgumentsArrive` asks for what `_start`
  leaves only if the environment ends aligned, else the stack pointer, rounded up
  (`elf.c:316`), lies inside it and the first pushes overwrite it.
* `Text.Regular`, `LeastOfType`: the least value of a signed type is its own negation
  (`printf.c:140`), and zeros are put before the minus sign.
* `Text.Delimited`: no terminator is written (`printf.c:444-465`), so `ReadsBack` is stated for
  buffers that held NULs (as `k_dev_log` clears its own, and the paths of AHCI and initrd are
  initialised), or whose old characters are no digits or letters, or that were padded on the right.
* `Text.AsInC`: `strncpy` writes a terminator always and pads never (`string.c:39-46`), C's
  writes n characters in all. The two agree where the string is shorter than n and the rest of the n
  bytes is NUL already, which is how the kernel's structures are filled (`memset` first, in `fs.c`
  and `process.c`) as long as the name is shorter than the array; `CallsRight` compares them there
  only. For a name as long as the array the code writes one byte behind it.
* `Ahci.Cores = 1`: on two cores two readers choose one slot (`ahci/main.c:559`).
* `Files.Cores = 1`: on two cores `strtok`'s place is shared (`string.c:157`, `files_two_cores`).
* `Loader.SoundFiles`: relocations name symbols that exist and places of their own, for sections
  whose bits are in the file, as compilers write them, and the kernel exports a name once at
  most; the loader checks none of it.
* `Loader.OneProviderEach`: with two providers of a scope it depends on the order of the directory
  which one is taken, and a module may be dropped though the other could serve it
  (`module.c:96`); `ModulesRight` then asks for the order only.
* `Files.TarOrder`: the members below a directory follow it in the archive, one after the other, as
  tar writes them; `readdir` stops at the first header that does not belong to the directory.
* `AhciStart.SoundMachines`: functions can be reached, function 0 tells of the others, a bridge
  leads to a later bus, as the PCI specification has it; one AHCI controller at most.

`SoundFiles`, `TarOrder` and `SoundMachines` are hypotheses of theorems. The instances the runs check satisfy them: `MCBoot`,
`MCFiles` and `MCAhci` state that with an `ASSUME`, which TLC evaluates.

### Fairness

Weak fairness of each core's kernel path: a processor executes. Strong fairness in `Process` of a core's tick
and of a device's interrupt: both are latched by the interrupt controller while the core is in
the kernel with interrupts off, and delivered when it leaves. Weak fairness of the clock. The
programs themselves have none: they may stay in user mode for ever. In `Ahci`, the device
moves and completes what was issued unless it has halted on an error, which `ReadEnds` allows for:
the driver never restarts it; ports follow ST and FRE. Strong fairness of `Irq` says only that a
line that is asserted again and again while a core could take it is taken. It stays asserted
on a `level` line, because the handler clears nothing; on an `edge` line the interrupt comes once, on one that is
`off` never, and `ReadEnds` claims nothing there: the driver sets no enable itself. A woken reader
runs in the end (strong fairness of `Resume`) although the asserted line interrupts again and
again: the tick (IRQ 0) goes before it at the 8259, so the scheduler still gets its turns. In `Boot` every processor executes, each
weakly fair, and `Die` is not: a panic may happen or not. `Format` needs no fairness: its
properties are invariants.

## Proofs

TLAPS proves the following for every value of the constants that satisfies the assumptions of
the modules, which TLC evaluates on every run that extends them.

| Module | Theorem | Statement |
|---|---|---|
| `PmmProof` | `TypeCorrect` | `Spec => []TypeOK` |
| | `FramesExclusive` | no frame is held twice, or free and held |
| | `FramesConserved` | usable frames are exactly the free, held and not yet marked ones |
| | `FreeIndexExact` | on a map that fits the bitmap, the cached index leads to a free frame whenever there is one |
| | `SingleOom` | a request for one frame panics only when none is free |
| `ListProof` | `ListsWellFormed` | lists read the same both ways, with the right size and members |
| | `ListsImplementSequences` | `ListUse!Spec` implies `ListSeq!Spec` under the walk along `next` |
| `ProcessProof` | `EachOnce` | every unfinished process is in exactly one place, once |
| | `ReadyListWhole` | the ready queue is a whole list of the ready processes |
| | `AssertionHolds` | the assertion of `k_process_get_ready` never fails |
| | `ResumesSaved` | (action property) a core loads a context saved since the process last ran |
| `KHeapProof` | `BlocksExclusive` | no two blocks in use overlap |
| | `HeadersKept` | the types, and the header of every block in use is the one malloc wrote |
| | `NothingLost` | each item and each page of the heap has one use |
| | `NeverCorrupt` | `kfree` never panics with "Heap corruption" |
| `AddressSpaceProof` | `FramesExclusive` | one entry of all tables refers to a frame, none to a free one |
| | `KernelShared` | the types; kernel addresses lead to the same frame or device in every space, whatever programs map there; devices are where iomap put them unless a program has mapped that page |
| | `SpacesIsolated` | (action property) no call changes what another process sees |
| | `ForkIsCopy` | (action property) a child sees what its parent sees at the fork |
| `AhciProof` | `EnginesStopped` | lists are exchanged only at ports that stand still |
| | `DisksFound` | every SATA disk that answers becomes a device, once, and nothing else does |
| | `TypeCorrect` | the types, and no more readers in the kernel than cores |
| | `SlotsOwned` | two waiting readers never share a slot, headers are their reader's |
| | `NoStrayWrites` | the device never writes into the buffer of a read that succeeded; into none given back, if it does not set bit 5 |
| | `DisksNamed` | `DiskNodes`: the search finds every function, once unless behind a bridge, and the disks that answer are devices, once each |
| | `DataRight` | `RightData`: a read that reports success was carried out by its own command, its first region is the disk's, and below six regions nothing is written behind its buffer |
| `BootProof` | `ModulesInOrder` | modules are started once at most and after what they depend on |
| | `RightModules` | `ModulesRight`: besides, exactly those modules are loaded that can be |
| | `ImagesSound` | `ImageRight`: every relocated place holds what its symbol stands for |
| | `ArgumentsFound` | `ArgumentsArrive`: a program finds its arguments and environment whole |
| | `ProcessorsStart` | processors start one at a time, with an entry each, before any program |
| | `LogKeptApart` | lines are whole and unmixed before a panic; the last in a panic is alone |
| `FilesProof` | `OpensRight` | `OpenReturns`: an open returns what its path names, or an error |
| | `DeliversInOrder` | `ReadsInOrder`: a descriptor delivers its file's bytes in order and none else |
| | `ListsInOrder` | `ListsEachOnce`: a directory is listed completely, each entry once |

What each rests on:

* **PmmProof.** One inductive invariant, `PmmInv`. Exclusivity alone is not inductive: a frame
  given back must lie inside the bitmap (`HeldInside`, or the mark would grow it after boot), be
  given back once (`ReleasedOnce`), and boot must leave the index at a word that holds a bit or
  have marked nothing (`BootState`). `LowestExists` justifies "first fit" from the
  well-foundedness of the naturals, `ScanSpec` states where the skipping loops stop.
* **ListProof.** The invariant is that *some* family of disjoint sequences is what the pointers
  represent (`Represents`). Each call is shown to lead from a representation to another one
  (`...Keeps` lemmas), which is the step the abstract action makes; a walk of `List` then finds
  the sequence, since a chain in which no node is met twice is no longer than there are nodes.
  `Node` is finite, `Nil` is neither node nor list.
* **ProcessProof.** `ProcessInv` assigns one place to each process and says what each place means
  for program counters, flags, the pointers of the ready queue, the sleep queue, the wait queues
  and saved contexts. `OnePlace` is not inductive without the program counters: between the pop
  from the ready queue and the load of the context a process is in a core's hands only. The lemmas
  about the list are `ListProof`'s, instantiated. The theorems hold on the machines of
  `SoundSetups`: several cores whose programs fork, yield and exit; one core whose programs also
  sleep and wait for devices; one core whose programs also send signals. On all others some run
  or hazard shows a property to fail, so the assumption cannot be dropped; the setups of the run
  `proc` satisfy it.
* **KHeapProof.** `Inv` gives every page one use (new, free, slab of a class, part of a user's
  block) and says that the list of each class and the free list lead through exactly the pages of
  their use, that a slab's chain holds exactly the items nobody has, and that headers are right.
  `Path` is a list, `ChainIs` shows that the bounded walk finds all of it, `InsertFreeIs` and
  `FreePagesIs` what the loop of `__free_big_slab` does to the free list, one page after the
  other, and `AppendedIs` what `__insert_slab` does. The theorems assume `~Reuse`: once a big
  block has been freed its page is still in `slabs[BIG_SLAB]`, and the run `heap_corruption`
  shows what happens when one is allocated again.
* **AddressSpaceProof.** `Whole` says that the tables form trees: some labels give every table
  and page in use an owner and a path (`Fits`, again by `PICK`), each present entry extends the
  path of its table by its own index, and no two entries lead to one frame (`OneEntry`); the
  kernel's top-level entries are the root's in every space, free frames hold no entries, and the
  pages that iomap comes to next are unmapped but for the ones that programs have mapped
  (`MmioLeft` with `touched`). What a program maps over the kernel goes into a shared table, below a top-level entry
  that is there since boot and not the user's (`Levels > 1`), so that it changes every space alike
  (`KernelMapped`, `Cleared`) and no process's user view. `FrameOwnedOnce` alone is not inductive: it says
  nothing of a free frame's contents, which the next table starts from. `EntFits` shows that a
  walk ends in an entry of the walk's own path, `MapPageIs` what the loop of `map_ex` does level
  by level (`Extends`: nothing present is lost, only the path's own entries are new), `ForkIs`
  that the frames which `Nth` hands out in the order `Before` are distinct (`FreshIs`, a rank
  argument on `Cardinality`) and that the copy is a tree beside the old one, `ExecIs` and
  `UnmapIs` the same for the calls that take tables away. Isolation follows because a process
  writes only entries and pages with its own label or the root's. The theorems assume `Regime`
  (see Regimes): frames given back stay apart, no byte address of a buffer is a frame number, and
  memory is clear at boot.
  Without it a frame that was a table is used with its old entries, or a frame in use is given
  back, and both properties about frames fail. MAP_FIXED is not restricted.
* **AhciProof.** `BootInv` follows `load()` from port to port; `SlotInv` says whose the slots,
  headers and buffers are, and (`DroppedInv`) that a command in PxCI never points to a buffer that
  a successful read gave back, and to one of a failed read only if the device sets bit 5. The
  theorems about reads assume `Cores = 1`: on two cores two readers
  choose the same slot (see Regimes). `DisksNamed` assumes `SoundMachines`. Its search is a
  recursive function over the buses: `SearchedExists` builds it from the last bus down, because a
  bridge leads to a later bus only, `RightBus` says what a bus contributes (what is on it, once
  unless a bridge leads there, else only what is behind bridges), and `FlattenIn` what occurs in
  the flattened parts, and what once. `DataRight` follows the sums that `Before` forms of counts that
  are one too small: the first entry's bytes land at their own offsets, and below six regions
  no later entry reaches behind the buffer before the disk's bytes are used up, for every size
  of sector and region.
* **BootProof.** `LoadInv` says that the stack of calls, the list of modules still to load and
  the modules called are disjoint and that a call has checked what lies before the dependency it
  has come to; `StartInv` what the one flag of the handshake means and whose id stands in which
  entry of `cores[]`; `LogInv` who holds the lock and whose line is in the shared buffer. The ids
  of processors are distinct by `BootAssumption`; the modules are any that
  `LoaderAssumption` allows. `RightModules` compares with the least set closed under "all it
  depends on is there": what is loaded is in every such set because a call ends only when its
  dependencies are loaded, and when loading is over it is closed, because a file was given up
  only for a dependency that nobody provides, is on the stack (a circle, which no well-founded
  order of loading allows) or failed. `ImagesSound` assumes `SoundFiles`: sections are allocated
  in order and do not overlap, so two relocated places are two addresses and the last write to
  each is its own. `ArgumentsFound` follows the pushes of `k_elf_exec` by an invariant of the
  pushed bytes.
* **FilesProof.** `IInv` is `BootInv` (which mount points exist at which stage of the boot),
  `CallInv` (which names of its path a call has collected, and that the place of `strtok` is in
  the path of the one call under way, hence `Cores = 1`) and `FdsInv` (a descriptor is what its
  path promises, its offset at a byte of its file or at its end). The archive is laid out block
  by block (`Start` gives where a member begins); a walk from header to header meets members
  only, in order, shown at the least address at which it would not. `ListsInOrder` assumes
  `TarOrder`.

Two proof techniques recur. A recursive function inside a `LET` is treated by exhibiting the
function that satisfies its equation and comparing the two at the least place where they differ,
because the induction theorems take an operator as a parameter. State that is existentially
quantified (sequences, places, uses) is introduced by `PICK` and never by `CHOOSE`.

Only model-checked, and why:

* liveness (`ReadyRuns`, `SleeperRuns`, `FatalKills`, `ReadEnds`, `BootEnds`): needs `ENABLED`;
* `ReadsBack`, `FieldFilled`, `NoOverrun` and `CallsRight` of `Text`: what `printf` and `strtol`
  do is an induction over digits and characters, with powers of a base that is not fixed; the
  memory functions are folds over memory.

## Disagreements found

* `process.c:334` tests owner and flag outside the lock: a process is queued twice and the
  assertion of `k_process_get_ready` fails (`proc_signal_race`).
* `alloc.c:157` leaves freed big blocks in `slabs[BIG_SLAB]` (`heap_corruption`).
* `string.c:157` the "start of the next search" is one for all cores: in the run the split of
  `bin/init` goes on in the other core's `bin`, ends there, and leaves `bin` without the mark of a
  directory; the archive has `bin/` only (`path.c:50`, `initrd.c:126-150`), and the open fails
  though the file is there (`files_two_cores`).

The hazards list further defects that no run's violation stands for, each at its line.

## Further observations

Met while reading and outside what the runs tell apart:

* `kernel/mem/pmm.c:109` `index > size` where `>=` is meant: the last word may stay outside the bitmap's size, the index then finds nothing there after exhaustion, and an allocation panics with "Out of memory." though memory has been freed; the properties of `Pmm` are stated for the maps that fit
* `kernel/mem/pmm.c:141` a run of several frames is looked for from the cached index on only: near exhaustion a request panics though a run exists below it
* `kernel/proc/process.c:257` opening a file into a slot that was closed would store the node where a descriptor is expected; nothing closes one yet
* `kernel/exec/initrd.c:100` a directory is listed with everything below it, the entries of its subdirectories by their last name; `/` and `/dev` have no readdir and list nothing
* `lib/libc/dirent.c:28` the result of sys_readdir is read as unsigned: an error counts as an entry
* `modules/ahci/main.c:555` a new read clears PxIS for all, and with it what another reader has yet to look at
* `modules/ahci/main.c:522` the identify data is used after its buffer has been given back
* `modules/ahci/main.c:668` the comment says "Interrupt enable", but bit 10 disables; neither GHC.IE nor PxIE is ever set by the driver
* `modules/ahci/main.c` a mapped register block ignores the upper half of its address; a controller whose IS follows PxIS would let the Start of one reader, which clears PxIS, take back an interrupt another one still waits for: the model's line is asserted by IS, which nobody clears
* `kernel/dev/pci.c:133` a bus outside every range of the MCFG reads as zeros, which is not "no device": devices that do not exist are found there
* `modules/ahci/main.c:535` the DMA memory of the command table is never given back after a read
* `kernel/mem/alloc.c:223` only the last slab of a class is looked at, items freed in earlier slabs are never used again
* `kernel/mem/alloc.c:247` kmalloc_aligned with a small alignment returns memory that overlaps the slab header of a big block
* `lib/types/list.c:201` swapping two adjacent nodes redirects the very links that are exchanged afterwards; the list closes on itself and a sort does not end
* `kernel/proc/process.c:322` __signal_defaults has entries up to the largest initialised signal only and is indexed by any signal below NSIG
* `kernel/proc/process.c:469` list_insert_after allocates a node that the pop at the wake-up never frees
* `kernel/arch/x86_64/cpu/interrupt.c:109` an interrupt number equal to MAX_INTERRUPT passes the check and indexes past the table
* `kernel/proc/process.c:184` a forked child starts with no descriptors, so the first file it opens becomes descriptor 0, which its parent uses for input
* `kernel/cpu/syscall.c:161` the library calls SYS_CLOSE, number 11, which has no entry in the table: every close fails and descriptors and nodes are never given back
* `kernel/proc/process.c:248` a finished process is never removed from the process list, its stack, page tables and descriptors are never freed
* `kernel/cpu/syscall.c:101` sig > NSIG lets NSIG itself through, one past the array of signals
* `kernel/cpu/syscall.c:119` a relative sleep adds the sub-seconds without carrying into the seconds, and the queue is ordered by seconds first: a sleeper may be placed behind one that wakes later
* `kernel/arch/x86_64/mem/paging.c:265` a range that ends exactly at a page boundary is also looked up in the page behind it: a valid buffer at the end of a mapping is refused
* `kernel/exec/elf.c:127` a relative or 32-bit address that does not fit its field is cut off without a word; entries of type REL have no addend, though it is in the place itself
* `kernel/exec/elf.c:319` the entry point is read from the image after the image was given back
* `kernel/arch/x86_64/init.c:78` a processor whose local APIC has id 0, or whose id is not stored yet, is not silenced by a panic, and without a description of the processors none is; two panics at once halt each other
* `lib/libc/libc.c:19` the null pointer is stored one element behind the environment
* `kernel/arch/x86_64/mem/paging.c:131` unmapping gives no frame back and invalidates no translation
* `kernel/arch/x86_64/mem/paging.c:78` an entry that is present keeps its flags: behind a read-only table nothing becomes writable
* `kernel/mem/mmio.c:49` a device is found by its address alone, whatever size was mapped; `mmio.c:42` looks at the end of the range before it takes the lock
* `kernel/include/exec/module.h:27` the lists of scopes and dependencies end in an empty string, the loops over them wait for a null pointer
* `kernel/exec/module.c:96` a module whose dependency fails was already taken off the list and is dropped, though another module could provide the scope later
* `kernel/fs/fs.c:53` the tree of mount points and the list of mount callbacks have no lock: a lookup on one core may walk children that another appends to
* `kernel/arch/x86_64/proc/smp.c:67` the starting core clears the flag before it calibrates its timer, while the next one starts: two cores measure at once and both use the shared kernel
* `kernel/panic.c:18` a panic clears the log lock whoever holds it; the holder on another core and the panicking one then share the two static buffers
* `kernel/arch/x86_64/cpu/interrupt.asm:93` an APIC tick calls lapic_eoi before the registers are saved and before the kernel's segment base is swapped in, so the interrupted code gets back other values in the registers the call uses
* `kernel/dev/terminal.c:132` the cursor wraps only when cx * width > w, one cell too late: the last glyph of a full line is drawn across the right edge into the next pixel row
* `lib/libc/stdlib/alloc.c:23` realloc copies as many bytes as the new block has, which reads beyond an old block that is smaller
* `lib/libc/stdlib/_alloc.c:146` the user heap frees big blocks as the kernel heap does, without removing them from slabs: freed and allocated again they corrupt its lists
* `kernel/exec/exec.c:61` the node that was opened and the image that was read are never released when the program cannot be used, nor after it was loaded
* `kernel/arch/x86_64/mem/paging.c:110` map_region_ex subtracts the end from the start and would map nearly the whole address space
* `modules/ata/main.c:131` the device's path is printed into an array on the stack that is not cleared, and no terminator is written: the node is mounted under a name with old characters behind it
* `lib/libc/stdio/printf.c:457` `vsprintf` passes a limit of 0: `sprintf` writes nothing at all
* `kernel/mem/mmap.c:35` a fixed mapping at address zero returns without freeing its descriptor, and MMAP_END is never looked at

## Not modelled

* Terminal, serial line, random numbers, CMOS clock, ACPI tables, the ATA, video and test
  modules: pure input and output, or discovery without state.
* The order in which locks nest: the locks elsewhere are part of the step they guard. Read by
  hand (sleep queue over ready queue, sleep queue over heap over frames, heap over log), it has no
  cycle.
* Closing files and the refusal of bad system call arguments, streams and the environment of a
  program, `realloc` and `calloc`.
* Inside the modelled components: large pages, translation caches and the page fault handler,
  `kmalloc_aligned`, mapped regions of several pages, signal handler frames, kernel stacks,
  descriptor tables and timer calibration, writes to a disk (the driver has none), the text of a
  panic's dump. `list_swap` is modelled for members that are not neighbours; its only caller,
  `list_sort_cmp`, is called by nobody.

## Plan

1. Done: frames, lists, processes, both heaps, the disk driver from the PCI search on, address
   spaces, files, modules, boot, text; the theorems about all of them but text.
2. Left to TLC: liveness and the invariants of `Text` (see Proofs). A theorem about `printf` would
   first need the digits of a number as an explicit function of its value.
3. Not begun: closing and inheriting descriptors, `realloc`, large pages, the modules without
   state (see Not modelled).
