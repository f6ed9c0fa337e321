--------------------------------- MODULE Vfs ---------------------------------
(***************************************************************************)
(* The virtual file system as operators: the tree of mount points          *)
(* (kernel/fs/fs.c, lib/types/tree.c) and the initial ram disk             *)
(* (kernel/exec/initrd.c).  A path is a sequence of names.  The tree is a  *)
(* function from the paths it has, a prefix-closed set, to the node        *)
(* mounted there or NoNode.  The ram disk is memory: Image holds the       *)
(* blocks of a tar archive, and the code walks it by address.              *)
(***************************************************************************)
EXTENDS Integers, SequencesExt

CONSTANTS
  Archive,    \* the members of the ram disk, in order: [name, dir, size]
  BlockSize,  \* bytes in a block of the archive
  Devices,    \* what the kernel mounts at boot, in order: [path, kind]
  NoNode      \* no file system node

Kinds == {"log", "terminal", "null", "zero", "ram", "initrd", "dir", "vfs"}

Paths == Seq(STRING)

\* What a node can be.
NodeType == [kind : Kinds, size : Nat, meta : Nat, files : Seq(Nat)]

ASSUME VfsAssumption ==
  /\ BlockSize \in Nat \ {0}
  /\ Archive \in Seq([name : Paths, dir : BOOLEAN, size : Nat])
  /\ \A i, j \in DOMAIN Archive :
       /\ Archive[i].name # <<>>
       /\ Archive[i].name = Archive[j].name => i = j
  /\ Devices \in Seq([path : Paths, kind : {"log", "terminal", "null", "zero"}])
  /\ \A i, j \in DOMAIN Devices :
       /\ Devices[i].path # <<>>
       /\ Devices[i].path = Devices[j].path => i = j
  /\ NoNode \notin NodeType

Blocks(size) == (size + BlockSize - 1) \div BlockSize

\* tar: a header, the contents in whole blocks, and an empty block at the end.
Image ==
  FlattenSeq([i \in DOMAIN Archive |->
    [b \in 1 .. 1 + Blocks(Archive[i].size) |-> [member |-> i, block |-> b - 1]]])
  \o <<[member |-> 0, block |-> 0]>>

Address == 0 .. Len(Image) * BlockSize - 1
BlockAt(a) == Image[a \div BlockSize + 1]

\* What the code reads at an address it takes for a header; contents are junk.
Junk == [name |-> <<>>, dir |-> FALSE, size |-> 0]
Header(a) == IF BlockAt(a).block = 0 THEN Archive[BlockAt(a).member] ELSE Junk
AtEnd(a) == BlockAt(a).member = 0

\* Mutant: contents that do not fill their last block are forgotten.
NextHeaderRounded(a) == a + (Header(a).size \div BlockSize + 1) * BlockSize

\* The address of the header behind the one at a.
NextHeader(a) ==
  LET size == Header(a).size IN
  a + (size \div BlockSize + 1) * BlockSize
    + (IF size % BlockSize # 0 THEN BlockSize ELSE 0)

\* The headers of the archive at an address.
ParseTar(start) ==
  LET walk[a \in Address] == IF AtEnd(a) THEN <<>> ELSE <<a>> \o walk[NextHeader(a)]
  IN walk[start]

\* Mutant: the directory lists itself.
MembersAndSelf(d) ==
  LET walk[a \in Address] ==
        IF AtEnd(a) \/ ~IsPrefix(Header(d).name, Header(a).name) THEN <<>>
        ELSE <<a>> \o walk[NextHeader(a)]
  IN walk[d]

\* What __initrd_readdir counts: the headers behind the directory's own for as
\* long as their names begin with its name.
Members(d) ==
  LET walk[a \in Address] ==
        IF AtEnd(a) \/ ~IsPrefix(Header(d).name, Header(a).name) THEN <<>>
        ELSE (IF a = d THEN <<>> ELSE <<a>>) \o walk[NextHeader(a)]
  IN walk[d]

\* A node: what its operations do is told by its kind, meta is an address.
Node(kind, size, meta, files) ==
  [kind |-> kind, size |-> size, meta |-> meta, files |-> files]

VfsNode == Node("vfs", 0, 0, <<>>)
RamDisk == Node("ram", Len(Image) * BlockSize, 0, <<>>)
Initrd(device) == Node("initrd", 0, 0, ParseTar(device.meta))

\* __initrd_open, with path_build: a directory's name in the archive ends in a
\* slash, so a path is found only with the flag that fits.
InitrdOpen(root, left, dir) ==
  LET i == SelectInSeq(root.files,
                       LAMBDA a : Header(a).name = left /\ Header(a).dir = dir)
      a == root.files[i]
  IN IF i = 0 THEN NoNode
     ELSE IF dir THEN Node("dir", Header(a).size, a, <<>>)
     ELSE Node("ram", Header(a).size, a + BlockSize, <<>>)

\* Mutant: a read goes on behind the end of the file.
RamReadOpenEnd(node, offset, n) ==
  IF offset < 0 \/ offset > node.size THEN <<>>
  ELSE [i \in 1 .. n |-> node.meta + offset + i - 1]

\* The addresses a read copies.  The offset is unsigned: a negative one is
\* beyond every file.
RamRead(node, offset, n) ==
  IF offset < 0 \/ offset > node.size THEN <<>>
  ELSE [i \in 1 .. (IF offset + n > node.size THEN node.size - offset ELSE n)
          |-> node.meta + offset + i - 1]

-----------------------------------------------------------------------------
EmptyTree == [p \in {<<>>} |-> NoNode]

\* How many names of the path the tree has: it is never looked at further.
MountPoint(tree, path) ==
  CHOOSE k \in 0 .. Len(path) :
    /\ SubSeq(path, 1, k) \in DOMAIN tree
    /\ \A j \in k + 1 .. Len(path) : SubSeq(path, 1, j) \notin DOMAIN tree

CreateMapping(tree, path) ==
  [p \in DOMAIN tree \union {SubSeq(path, 1, k) : k \in 0 .. Len(path)} |->
     IF p \in DOMAIN tree THEN tree[p] ELSE NoNode]

\* Mounts nothing where something is mounted; the mapping is made all the same.
MountNode(tree, path, node) ==
  LET mapped == CreateMapping(tree, path) IN
  IF mapped[path] = NoNode THEN [mapped EXCEPT ![path] = node] ELSE mapped

\* k_fs_open for a path that path_parse has split.
Open(tree, path, dir) ==
  LET k     == MountPoint(tree, path)
      mount == tree[SubSeq(path, 1, k)]
  IN IF k = Len(path)
     THEN IF mount = NoNode THEN VfsNode ELSE mount
     ELSE IF mount # NoNode /\ mount.kind = "initrd"
     THEN InitrdOpen(mount, SubSeq(path, k + 1, Len(path)), dir)
     ELSE NoNode

\* k_fs_mount; callbacks are the file systems that have been registered.
Mount(tree, path, device, type, callbacks) ==
  LET dev == Open(tree, device, FALSE) IN
  IF dev = NoNode \/ type \notin callbacks THEN tree
  ELSE MountNode(tree, path, Initrd(dev))
=============================================================================
