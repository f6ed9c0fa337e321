------------------------------- MODULE Paging -------------------------------
(***************************************************************************)
(* Page tables: kernel/arch/x86_64/mem/paging.c as operators on a memory m *)
(* with m.tab (what each table holds, in a frame or at the top of a        *)
(* space), m.data (what each frame holds as a page) and m.free (the frames *)
(* of the physical memory manager).  An address is the sequence of its     *)
(* indices, one for each level.  A frame keeps its contents when it is     *)
(* given back, and a new table is used as it comes.                        *)
(***************************************************************************)
EXTENDS Integers, Sequences, FiniteSets

CONSTANTS
  Space,     \* address spaces, one top-level table each
  NFrames,   \* frames of physical memory
  Device,    \* pages of device memory
  NIndex,    \* entries of a table
  Levels,    \* levels of tables
  Nil        \* no frame

Frame == 1 .. NFrames
Index == 0 .. NIndex - 1
Table == Space \union Frame

ASSUME PagingAssumption ==
  /\ {NFrames, NIndex, Levels} \subseteq Nat \ {0}
  /\ Space \cap Frame = {} /\ Device \cap Frame = {}
  /\ Nil \notin Frame \union Device

Entry == [user : BOOLEAN, writable : BOOLEAN, to : Frame \union Device \union {Nil}]
NoEntry == [user |-> FALSE, writable |-> FALSE, to |-> Nil]
NoTable == [i \in Index |-> NoEntry]
Present(e) == e.to # Nil

Address == [1 .. Levels -> Index]
Prefix == UNION {[1 .. k -> Index] : k \in 1 .. Levels}

\* The entries on the way of a path, NoEntry from the first that is missing on.
Way(m, s, path) ==
  LET way[k \in 1 .. Len(path)] ==
        IF k = 1 THEN m.tab[s][path[1]]
        ELSE IF Present(way[k - 1]) THEN m.tab[way[k - 1].to][path[k]] ELSE NoEntry
  IN way

\* k_mem_paging_get_physical, up to the offset in the page.
Target(m, s, path) == Way(m, s, path)[Len(path)].to

\* The processor lets user code through, to read or to write.
Readable(m, s, a) == \A k \in 1 .. Levels : Present(Way(m, s, a)[k]) /\ Way(m, s, a)[k].user
Writable(m, s, a) == Readable(m, s, a) /\ \A k \in 1 .. Levels : Way(m, s, a)[k].writable

\* Mutant: the user bit is not looked at.
UserPathsAll(m, s) ==
  {path \in Prefix : \A k \in 1 .. Len(path) : Present(Way(m, s, path)[k])}

\* The paths that clone and free follow: present and user all the way.
UserPaths(m, s) ==
  {path \in Prefix : \A k \in 1 .. Len(path) :
     Present(Way(m, s, path)[k]) /\ Way(m, s, path)[k].user}

Nth(S, n) == CHOOSE f \in S : Cardinality({g \in S : g < f}) = n
----------------------------------------------------------------------------
\* k_mem_paging_map_ex: missing tables, and the page unless a physical one is
\* given, get the lowest free frame; an entry that is there stays as it is.
MapPage(m, s, a, phys, user, writable) ==
  LET walk[k \in 0 .. Levels] ==
        IF k = 0 THEN [m |-> m, table |-> s]
        ELSE
          LET w == walk[k - 1]
              e == w.m.tab[w.table][a[k]]
              to == IF k = Levels /\ phys # Nil THEN phys ELSE Nth(w.m.free, 0)
          IN IF Present(e) THEN [m |-> w.m, table |-> e.to]
             ELSE [m |-> [w.m EXCEPT
                            !.tab[w.table][a[k]] =
                              [user |-> user, writable |-> writable, to |-> to],
                            !.free = @ \ {to}],
                   table |-> to]
  IN walk[Levels].m

\* k_mem_paging_map_pages_ex, for the pages of a sequence of addresses.
MapPages(m, s, as, user, writable) ==
  LET done[i \in 0 .. Len(as)] ==
        IF i = 0 THEN m ELSE MapPage(done[i - 1], s, as[i], Nil, user, writable)
  IN done[Len(as)]

\* k_mem_paging_unmap: the frame is not given back.
Unmap(m, s, a) ==
  LET way == Way(m, s, a)
      table == IF Levels = 1 THEN s ELSE way[Levels - 1].to
  IN IF Present(way[Levels]) THEN [m EXCEPT !.tab[table][a[Levels]] = NoEntry] ELSE m

\* The order in which the nested loops of clone come to the paths.
IndexAt(path, k) == IF k \in 1 .. Len(path) THEN path[k] ELSE -1
Before(q, p) ==
  \E k \in 1 .. Levels : /\ \A j \in 1 .. k - 1 : IndexAt(q, j) = IndexAt(p, j)
                        /\ IndexAt(q, k) < IndexAt(p, k)

\* Space n gets the tables of s, the path p in Paths leading to fresh[p] now.
CopyTables(m, s, n, Paths, fresh) ==
  LET Copy(table, prefix) ==
        [i \in Index |-> IF Append(prefix, i) \in Paths
                         THEN [table[i] EXCEPT !.to = fresh[Append(prefix, i)]]
                         ELSE table[i]]
      Original(f) == CHOOSE p \in Paths : fresh[p] = f
      NewTable == {fresh[p] : p \in {q \in Paths : Len(q) < Levels}}
  IN [m EXCEPT !.free = @ \ {fresh[p] : p \in Paths},
               !.tab = [t \in Table |->
                 IF t = n THEN Copy(m.tab[s], <<>>)
                 ELSE IF t \in NewTable
                   THEN Copy(m.tab[Target(m, s, Original(t))], Original(t))
                 ELSE m.tab[t]]]

FreshFrame(m, Paths, p) == Nth(m.free, Cardinality({q \in Paths : Before(q, p)}))

\* Mutant: the pages are not copied, both spaces have them.
CloneSharesPages(m, s, n) ==
  LET Paths == UserPaths(m, s) IN
  CopyTables(m, s, n, Paths,
    [p \in Paths |-> IF Len(p) = Levels THEN Target(m, s, p) ELSE FreshFrame(m, Paths, p)])

\* Mutant: memcpy is left out.
CloneForgetsData(m, s, n) ==
  LET Paths == UserPaths(m, s) IN
  CopyTables(m, s, n, Paths, [p \in Paths |-> FreshFrame(m, Paths, p)])

\* k_mem_paging_clone_pml: every user table and page of space s gets a frame of
\* its own in space n, the others are shared by reference.
Clone(m, s, n) ==
  LET Paths == UserPaths(m, s)
      fresh == [p \in Paths |-> FreshFrame(m, Paths, p)]
      Pages == {p \in Paths : Len(p) = Levels}
      Original(f) == CHOOSE p \in Pages : fresh[p] = f
  IN [CopyTables(m, s, n, Paths, fresh) EXCEPT
        !.data = [f \in Frame |-> IF f \in {fresh[p] : p \in Pages}
                                  THEN m.data[Target(m, s, Original(f))] ELSE m.data[f]]]

\* k_mem_paging_free_pml: the frames that a clone would have copied.
FramesToFree(m, s) == {Target(m, s, p) : p \in UserPaths(m, s)}
=============================================================================
