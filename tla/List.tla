------------------------------- MODULE List -------------------------------
(***************************************************************************)
(* The intrusive doubly linked list of lib/types/list.c, pointer by        *)
(* pointer.  A heap h of nodes and lists is one record: next, prev and     *)
(* owner of every node, head, tail and size of every list.  Each operator  *)
(* returns the heap after one call, for any argument a caller can pass, a  *)
(* node that is already linked included.                                   *)
(***************************************************************************)
EXTENDS Integers, Sequences

CONSTANTS Node, ListId, Nil

ASSUME NilAssumption == Nil \notin Node /\ Nil \notin ListId

Heap == [next : [Node -> Node \union {Nil}], prev : [Node -> Node \union {Nil}],
         owner : [Node -> ListId \union {Nil}],
         head : [ListId -> Node \union {Nil}], tail : [ListId -> Node \union {Nil}],
         size : [ListId -> Nat]]

\* list_create, with every node as list_create_node leaves it.
Empty(owners) ==
  [next |-> [n \in Node |-> Nil], prev |-> [n \in Node |-> Nil],
   owner |-> owners,
   head |-> [l \in ListId |-> Nil], tail |-> [l \in ListId |-> Nil],
   size |-> [l \in ListId |-> 0]]

AppendNode(h, l, n) ==
  LET t == h.tail[l] IN
  [h EXCEPT !.owner[n] = l,
            !.next = [m \in Node |-> IF m = t THEN n ELSE IF m = n THEN Nil ELSE @[m]],
            !.prev[n] = t,
            !.head[l] = IF t = Nil THEN n ELSE @,
            !.tail[l] = n,
            !.size[l] = @ + 1]

\* Mutant: the old head's prev is not pointed at the new node.
PrependNoBackLink(h, l, n) ==
  IF h.head[l] = Nil THEN AppendNode(h, l, n)
  ELSE [h EXCEPT !.owner[n] = l, !.prev[n] = Nil, !.next[n] = h.head[l],
                 !.head[l] = n, !.size[l] = @ + 1]

\* Prepending writes prev of n before prev of the old head, which may be n.
PrependNode(h, l, n) ==
  LET d == h.head[l] IN
  IF d = Nil THEN AppendNode(h, l, n)
  ELSE [h EXCEPT !.owner[n] = l,
                 !.prev = [m \in Node |-> IF m = d THEN n ELSE IF m = n THEN Nil ELSE @[m]],
                 !.next[n] = d,
                 !.head[l] = n,
                 !.size[l] = @ + 1]

\* list_pop_back of a list with a tail; the node returned is h.tail[l].
PopBackNode(h, l) ==
  LET n == h.tail[l]
      t == h.prev[n] IN
  [h EXCEPT !.tail[l] = t,
            !.head[l] = IF t = Nil THEN Nil ELSE IF n = @ THEN t ELSE @,
            !.next = [m \in Node |-> IF m \in {n, t} THEN Nil ELSE @[m]],
            !.prev[n] = Nil, !.owner[n] = Nil,
            !.size[l] = @ - 1]

\* list_pop_front of a list with a head; the node returned is h.head[l].
PopFrontNode(h, l) ==
  LET n == h.head[l]
      d == h.next[n] IN
  [h EXCEPT !.head[l] = d,
            !.tail[l] = IF d = Nil THEN Nil ELSE @,
            !.prev = [m \in Node |-> IF m \in {n, d} THEN Nil ELSE @[m]],
            !.next[n] = Nil, !.owner[n] = Nil,
            !.size[l] = @ - 1]

\* Mutant: the tail is not moved when the last node is deleted.
DeleteKeepsTail(h, l, n) ==
  LET p == h.prev[n]
      s == h.next[n] IN
  [h EXCEPT !.next = [m \in Node |-> IF m = p THEN s ELSE @[m]],
            !.prev = [m \in Node |-> IF m = s THEN p ELSE @[m]],
            !.head[l] = IF n = @ THEN s ELSE @,
            !.size[l] = @ - 1]

\* list_delete, after its assertions; the node's memory is freed as it is.
DeleteNode(h, l, n) ==
  LET p == h.prev[n]
      s == h.next[n] IN
  [h EXCEPT !.next = [m \in Node |-> IF m = p THEN s ELSE @[m]],
            !.prev = [m \in Node |-> IF m = s THEN p ELSE @[m]],
            !.head[l] = IF n = @ THEN s ELSE @,
            !.tail[l] = IF n = @ THEN p ELSE @,
            !.size[l] = @ - 1]

\* list_insert_after links a node r it has just allocated.
InsertAfterNode(h, l, p, r) ==
  LET s == h.next[p] IN
  [h EXCEPT !.owner[r] = l,
            !.next = [m \in Node |-> IF m = p THEN r ELSE IF m = r THEN s ELSE @[m]],
            !.prev = [m \in Node |-> IF m = r THEN p ELSE IF m = s THEN r ELSE @[m]],
            !.tail[l] = IF s = Nil /\ p = @ THEN r ELSE @,
            !.size[l] = @ + 1]

InsertBeforeNode(h, l, p, r) ==
  LET q == h.prev[p] IN
  [h EXCEPT !.owner[r] = l,
            !.prev = [m \in Node |-> IF m = p THEN r ELSE IF m = r THEN q ELSE @[m]],
            !.next = [m \in Node |-> IF m = r THEN p ELSE IF m = q THEN r ELSE @[m]],
            !.head[l] = IF q = Nil /\ p = @ THEN r ELSE @,
            !.size[l] = @ + 1]

(***************************************************************************)
(* list_swap.  The four neighbours are redirected before the two nodes     *)
(* exchange their own links; when a and b are adjacent a neighbour is the  *)
(* other node, and the links it gets are the ones exchanged afterwards.    *)
(***************************************************************************)
SwapNodes(h, a, b) ==
  LET l == h.owner[a]
      nextA == [m \in Node |-> IF m = h.prev[a] THEN b ELSE h.next[m]]
      prevA == [m \in Node |-> IF m = nextA[a] THEN b ELSE h.prev[m]]
      prevB == [m \in Node |-> IF m = nextA[b] THEN a ELSE prevA[m]]
      nextB == [m \in Node |-> IF m = prevB[b] THEN a ELSE nextA[m]]
      nextC == [nextB EXCEPT ![a] = nextB[b], ![b] = nextB[a]]
      prevC == [prevB EXCEPT ![a] = prevB[b], ![b] = prevB[a]]
  IN [h EXCEPT !.next = nextC, !.prev = prevC,
               !.tail[l] = IF nextC[a] = Nil THEN a ELSE IF nextC[b] = Nil THEN b ELSE @,
               !.head[l] = IF prevC[a] = Nil THEN a ELSE IF prevC[b] = Nil THEN b ELSE @]

----------------------------------------------------------------------------
\* The nodes foreach visits, as far as Len steps; and from the tail backwards.
Forward(h, l, len) ==
  LET walk[k \in 0 .. len] ==
        IF k = 0 THEN <<>>
        ELSE LET s == walk[k - 1]
                 n == IF k = 1 THEN h.head[l]
                      ELSE IF Len(s) < k - 1 THEN Nil ELSE h.next[s[k - 1]]
             IN IF n = Nil THEN s ELSE Append(s, n)
  IN walk[len]

Backward(h, l, len) ==
  LET walk[k \in 0 .. len] ==
        IF k = 0 THEN <<>>
        ELSE LET s == walk[k - 1]
                 n == IF k = 1 THEN h.tail[l]
                      ELSE IF Len(s) < k - 1 THEN Nil ELSE h.prev[s[1]]
             IN IF n = Nil THEN s ELSE <<n>> \o s
  IN walk[len]
=============================================================================
