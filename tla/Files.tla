-------------------------------- MODULE Files --------------------------------
(***************************************************************************)
(* Descriptors and the system calls on them (kernel/cpu/syscall.c and      *)
(* kernel/proc/process.c) over the file system of Vfs, from the mounts at  *)
(* boot.  Kernel code is not preempted: at most Cores processes are in it. *)
(* Splitting a path calls strtok, which keeps its place in one static      *)
(* variable; a call is one step until it gets there, and each strtok is    *)
(* one step.  Everything else a call touches is its process's own, or does *)
(* not change after boot.                                                  *)
(***************************************************************************)
EXTENDS Vfs, FiniteSets

CONSTANTS
  Process, InitProcess, Cores,
  Asks,         \* what each program opens: a set of [path, dir]
  ReadSizes, SeekOffsets,
  Unused,       \* bound: kinds of nodes that are opened and not used further
  MaxFds,       \* bound: how long each process's descriptor list may get
  MaxOffset, MaxIndex,   \* bounds: of offsets, both ways, and of directory indices
  MaxNames,     \* bound: of the names path_parse collects
  Names,        \* the names that memory given back may happen to hold
  NoName,       \* strtok found no further name
  NoCall,       \* the process is in user mode
  NoString, Freed        \* strtok's place: none yet, in a string given back

Ram0 == <<"dev", "ram0">>
Log == <<"dev", "log">>

\* A call that is splitting a path, and a place in such a path.
Splitting == [op : {"open", "readdir"}, fd : Nat, string : Paths, dir : BOOLEAN,
              names : Seq(STRING), first : BOOLEAN]
Place == [owner : Process, behind : Nat]

ASSUME FilesAssumption ==
  /\ InitProcess \in Process /\ Cores \in Nat \ {0}
  /\ \A p \in Process : Asks[p] \subseteq [path : Paths, dir : BOOLEAN]
  /\ ReadSizes \subseteq Nat /\ SeekOffsets \subseteq Int
  /\ MaxFds \in [Process -> Nat] /\ {MaxOffset, MaxIndex, MaxNames} \subseteq Nat
  /\ Names \subseteq STRING /\ NoName \notin STRING
  /\ NoCall \notin Splitting /\ {NoString, Freed} \cap Place = {} /\ NoString # Freed
  /\ \E i \in DOMAIN Devices : Devices[i].path = Log
  /\ Ram0 \in Paths /\ \A i \in DOMAIN Devices : Devices[i].path # Ram0

VARIABLES
  stage,      \* how far the boot has come
  tree,       \* the mount points
  callbacks,  \* the file systems registered
  backup,     \* backup_string of strtok: whose string, how many names are behind it
  call,       \* the path each process in the kernel is splitting, and what for
  fds         \* the descriptors of each process that exists

vars == <<stage, tree, callbacks, backup, call, fds>>

Registering == Len(Devices)
Loading == Registering + 1
Mounting == Registering + 2
Spawning == Registering + 3
Running == Registering + 4

\* A descriptor.  asked, start and data are history: what was opened, where the
\* last seek went and the addresses delivered since.  index is the library's
\* place in a directory, listed the names it has returned since rewinddir.
Descriptor(node, asked) ==
  [node |-> node, offset |-> 0, asked |-> asked, start |-> 0, data |-> <<>>,
   index |-> 0, listed |-> <<>>]

Init ==
  /\ stage = 0 /\ tree = EmptyTree /\ callbacks = {} /\ backup = NoString
  /\ call = [p \in Process |-> NoCall] /\ fds = [p \in {} |-> <<>>]

\* A step of kernel_main or of what it calls, on one core.
Boot(next) == stage' = next /\ UNCHANGED <<call>>

\* The log, the terminal, null and zero.
MountDevice ==
  /\ stage < Registering
  /\ LET d == Devices[stage + 1]
     IN tree' = MountNode(tree, d.path, Node(d.kind, 0, 0, <<>>))
  /\ Boot(stage + 1) /\ UNCHANGED <<callbacks, backup, fds>>

RegisterInitrd ==
  /\ stage = Registering /\ callbacks' = callbacks \union {"initrd"}
  /\ Boot(Loading) /\ UNCHANGED <<tree, backup, fds>>

LoadRamDisk ==
  /\ stage = Loading /\ tree' = MountNode(tree, Ram0, RamDisk)
  /\ Boot(Mounting) /\ UNCHANGED <<callbacks, backup, fds>>

MountRoot ==
  /\ stage = Mounting /\ tree' = Mount(tree, <<>>, Ram0, "initrd", callbacks)
  /\ Boot(Spawning) /\ UNCHANGED <<callbacks, backup, fds>>

\* Input, output and errors of the first process.  By now every string that
\* strtok has seen has been given back.
SpawnInit ==
  /\ stage = Spawning
  /\ LET log == Descriptor(Open(tree, Log, FALSE), [path |-> Log, dir |-> FALSE])
     IN fds' = [p \in {InitProcess} |-> <<log, log, log>>]
  /\ backup' = Freed
  /\ Boot(Running) /\ UNCHANGED <<tree, callbacks>>

-----------------------------------------------------------------------------
InKernel == {p \in Process : call[p] # NoCall}

\* A system call of p begins.
Enter(p) ==
  /\ p \in DOMAIN fds /\ call[p] = NoCall /\ Cardinality(InKernel) < Cores
  /\ UNCHANGED <<stage, tree, callbacks>>

\* k_fs_open and __initrd_readdir call path_parse, which copies the path.
Parse(p, op, fd, path, dir) ==
  call' = [call EXCEPT ![p] =
    [op |-> op, fd |-> fd, string |-> path, dir |-> dir, names |-> <<>>, first |-> TRUE]]

StartOpen(p, asked) ==
  /\ Enter(p) /\ Len(fds[p]) < MaxFds[p]
  /\ Parse(p, "open", 0, asked.path, asked.dir)
  /\ UNCHANGED <<backup, fds>>

\* What strtok returns to p and where it leaves its place: it goes on in
\* whatever string the last call of any process was about.
Strtok(p) ==
  LET from == IF call[p].first THEN [owner |-> p, behind |-> 0] ELSE backup IN
  IF from = Freed THEN {[name |-> n, backup |-> Freed] : n \in Names \union {NoName}}
  ELSE LET string == call[from.owner].string IN
       IF from.behind < Len(string)
       THEN {[name   |-> string[from.behind + 1],
              backup |-> [from EXCEPT !.behind = @ + 1]]}
       ELSE {[name |-> NoName, backup |-> backup]}

\* The loop of path_parse.
NextName(p) ==
  /\ call[p] # NoCall
  /\ \E result \in Strtok(p) :
       /\ result.name # NoName /\ Len(call[p].names) < MaxNames
       /\ backup' = result.backup
       /\ call' = [call EXCEPT ![p].names = Append(@, result.name), ![p].first = FALSE]
  /\ UNCHANGED <<stage, tree, callbacks, fds>>

\* path_parse returns: the copy is given back, whoever is still looking at it.
EndParse(p, op) ==
  /\ call[p] # NoCall /\ call[p].op = op
  /\ \E result \in Strtok(p) : result.name = NoName
  /\ backup' = IF backup \notin {NoString, Freed} /\ backup.owner = p THEN Freed ELSE backup
  /\ call' = [call EXCEPT ![p] = NoCall]
  /\ UNCHANGED <<stage, tree, callbacks>>

\* The rest of k_fs_open, and k_process_open_file: no slot of the list is ever
\* emptied, so that the descriptor goes to its end.
FinishOpen(p) ==
  /\ EndParse(p, "open")
  /\ LET asked == [path |-> call[p].string, dir |-> call[p].dir]
         node  == Open(tree, call[p].names, call[p].dir)
     IN fds' = IF node = NoNode THEN fds
               ELSE [fds EXCEPT ![p] = Append(@, Descriptor(node, asked))]

-----------------------------------------------------------------------------
\* A call of p on descriptor i that is over in one step.
Use(p, i) ==
  /\ Enter(p) /\ i \in DOMAIN fds[p] /\ fds[p][i].node.kind \notin Unused
  /\ UNCHANGED <<backup, call>>

InBounds(offset) == offset \in -MaxOffset .. MaxOffset

Read(p, i, n) ==
  /\ Use(p, i)
  /\ LET node  == fds[p][i].node
         bytes == IF node.kind = "ram" THEN RamRead(node, fds[p][i].offset, n) ELSE <<>>
         count == IF node.kind = "zero" THEN n ELSE Len(bytes)
     IN /\ InBounds(fds[p][i].offset + count)
        /\ fds' = [fds EXCEPT ![p][i].offset = @ + count, ![p][i].data = @ \o bytes]

Write(p, i, n) ==
  /\ Use(p, i)
  /\ LET count == IF fds[p][i].node.kind \in {"log", "terminal", "zero"} THEN n ELSE 0
     IN /\ InBounds(fds[p][i].offset + count)
        /\ fds' = [fds EXCEPT ![p][i].offset = @ + count]

Seek(p, i, origin, by) ==
  /\ Use(p, i)
  /\ LET base == CASE origin = "set" -> 0
                   [] origin = "cur" -> fds[p][i].offset
                   [] origin = "end" -> fds[p][i].node.size
     IN /\ InBounds(base + by)
        /\ fds' = [fds EXCEPT ![p][i].offset = base + by, ![p][i].start = base + by,
                              ![p][i].data = <<>>]

\* readdir of the library and sys_readdir.  The index moves on in any case.
EntriesOf(node) == IF node.kind = "dir" THEN Members(node.meta) ELSE <<>>

ReaddirEnd(p, i) ==
  /\ Use(p, i) /\ fds[p][i].index >= Len(EntriesOf(fds[p][i].node))
  /\ fds[p][i].index < MaxIndex
  /\ fds' = [fds EXCEPT ![p][i].index = @ + 1]

StartReaddir(p, i) ==
  /\ Enter(p) /\ i \in DOMAIN fds[p] /\ fds[p][i].index < MaxIndex
  /\ LET entries == EntriesOf(fds[p][i].node)
         index   == fds[p][i].index
     IN /\ index < Len(entries)
        /\ Parse(p, "readdir", i, Header(entries[index + 1]).name, FALSE)
  /\ UNCHANGED <<backup, fds>>

FinishReaddir(p) ==
  /\ EndParse(p, "readdir")
  /\ fds' = [fds EXCEPT ![p][call[p].fd].index = @ + 1,
                        ![p][call[p].fd].listed = Append(@, Last(call[p].names))]

Rewinddir(p, i) ==
  /\ i \in DOMAIN fds[p] /\ call[p] = NoCall /\ fds[p][i].node.kind = "dir"
  /\ fds' = [fds EXCEPT ![p][i].index = 0, ![p][i].listed = <<>>]
  /\ UNCHANGED <<stage, tree, callbacks, backup, call>>

\* The child begins with no descriptors.
Fork(p) ==
  /\ Enter(p)
  /\ \E child \in Process \ DOMAIN fds :
       fds' = [q \in DOMAIN fds \union {child} |-> IF q = child THEN <<>> ELSE fds[q]]
  /\ UNCHANGED <<backup, call>>

BootStep == MountDevice \/ RegisterInitrd \/ LoadRamDisk \/ MountRoot \/ SpawnInit

Next ==
  \/ BootStep
  \/ \E p \in Process :
       \/ \E asked \in Asks[p] : StartOpen(p, asked)
       \/ NextName(p) \/ FinishOpen(p) \/ FinishReaddir(p) \/ Fork(p)
  \/ \E p \in DOMAIN fds, i \in 1 .. MaxFds[InitProcess] :
       \/ \E n \in ReadSizes : Read(p, i, n) \/ Write(p, i, n)
       \/ \E by \in SeekOffsets, origin \in {"set", "cur", "end"} : Seek(p, i, origin, by)
       \/ StartReaddir(p, i) \/ ReaddirEnd(p, i) \/ Rewinddir(p, i)

Spec == Init /\ [][Next]_vars

-----------------------------------------------------------------------------
Entry == 1 .. Len(Archive)
Below(path) == {m \in Entry : IsStrictPrefix(path, Archive[m].name)}
Nth(S, k) == CHOOSE m \in S : Cardinality({j \in S : j <= m}) = k

\* What path names on the running system, said without the walks of the code.
MemberNamed(path, dir) ==
  {m \in Entry : Archive[m].name = path /\ Archive[m].dir = dir}
HeaderOf(m) ==
  (CHOOSE b \in DOMAIN Image : Image[b] = [member |-> m, block |-> 0]) * BlockSize - BlockSize
Mounts == {Devices[i] : i \in DOMAIN Devices} \union {[path |-> Ram0, kind |-> "ram"]}

Promised(path, dir) ==
  IF \E d \in Mounts : d.path = path
  THEN LET d == CHOOSE d \in Mounts : d.path = path
       IN IF path = Ram0 THEN RamDisk ELSE Node(d.kind, 0, 0, <<>>)
  ELSE IF path = <<>>
  THEN Node("initrd", 0, 0, [m \in Entry |-> HeaderOf(m)])
  ELSE IF \E d \in Mounts : IsStrictPrefix(path, d.path) THEN VfsNode
  ELSE IF MemberNamed(path, dir) = {} \/ (\E d \in Mounts : d.path[1] = path[1]) THEN NoNode
  ELSE LET m == CHOOSE m \in MemberNamed(path, dir) : TRUE
       IN IF dir THEN Node("dir", Archive[m].size, HeaderOf(m), <<>>)
          ELSE Node("ram", Archive[m].size, HeaderOf(m) + BlockSize, <<>>)

TypeOK ==
  /\ stage \in 0 .. Running
  /\ <<>> \in DOMAIN tree
  /\ \A path \in DOMAIN tree : tree[path] = NoNode \/ tree[path].kind \in Kinds
  /\ callbacks \subseteq {"initrd"}
  /\ backup \in {NoString, Freed} \/ backup \in Place
  /\ DOMAIN fds \subseteq Process /\ Cardinality(InKernel) <= Cores
  /\ \A p \in InKernel : p \in DOMAIN fds /\ call[p].op \in {"open", "readdir"}
  /\ \A p \in DOMAIN fds : \A i \in DOMAIN fds[p] :
       /\ fds[p][i].node # NoNode /\ fds[p][i].node.kind \in Kinds
       /\ fds[p][i].offset \in Int /\ fds[p][i].index \in 0 .. MaxIndex

\* An open returns what the path names: the device, the mount point, the member
\* of the ram disk with its contents, or an error when there is none or a mount
\* point hides it (path_parse, __get_mountpoint, __initrd_open, __parse_tar_module).
OpenReturns ==
  [][\A p \in Process :
       call[p] # NoCall /\ call'[p] = NoCall /\ call[p].op = "open" =>
         LET asked    == [path |-> call[p].string, dir |-> call[p].dir]
             promised == Promised(asked.path, asked.dir)
         IN fds'[p] = IF promised = NoNode THEN fds[p]
                      ELSE Append(fds[p], Descriptor(promised, asked))]_vars

\* What a descriptor of a file has delivered since the last seek is the file's
\* own bytes from there on, none left out, none from the padding or the next
\* member, whatever is read, sought and opened in between (__ram_read, sys_read).
ReadsInOrder ==
  TypeOK /\ \A p \in DOMAIN fds : \A i \in DOMAIN fds[p] :
    LET d == fds[p][i] IN
    \A m \in MemberNamed(d.asked.path, FALSE) : d.node.kind = "ram" /\ d.asked.path # Ram0 =>
      /\ d.offset = d.start + Len(d.data)
      /\ d.data # <<>> => d.start >= 0 /\ d.offset <= Archive[m].size
      /\ \A k \in DOMAIN d.data :
           LET byte == d.start + k - 1 IN
           /\ BlockAt(d.data[k]) = [member |-> m, block |-> byte \div BlockSize + 1]
           /\ d.data[k] % BlockSize = byte % BlockSize

\* tar writes what is in a directory behind it, before anything else.
TarOrder ==
  \A d \in Entry : Archive[d].dir =>
    \E n \in 0 .. Len(Archive) - d : Below(Archive[d].name) = d + 1 .. d + n

\* A directory is listed completely, each entry below it once and in the order
\* of the archive, and the end is reported when all are listed and not before
\* (__initrd_readdir, with the index the library counts).
ListsEachOnce ==
  \A p \in DOMAIN fds : \A i \in DOMAIN fds[p] :
    LET d     == fds[p][i]
        below == Below(d.asked.path)
        n     == Cardinality(below)
    IN d.node.kind = "dir" =>
         d.listed = [k \in 1 .. (IF d.index < n THEN d.index ELSE n)
                       |-> Last(Archive[Nth(below, k)].name)]
=============================================================================
