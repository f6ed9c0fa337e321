------------------------------ MODULE ListUse ------------------------------
(***************************************************************************)
(* Lists as the kernel uses them: a node is linked while it has no owner,  *)
(* inserted around a member, deleted through its own list.  A node created *)
(* by an insertion is fresh memory whose owner field nothing initialised.  *)
(***************************************************************************)
EXTENDS List, FiniteSets

ASSUME NodesAssumption == IsFiniteSet(Node)   \* memory ends

VARIABLES
  heap,   \* the nodes and lists
  made    \* nodes that exist: created and not freed

vars == <<heap, made>>

Max == Cardinality(Node) + 1

SeqOf(l) == Forward(heap, l, Max)

TypeOK == heap \in Heap /\ made \subseteq Node

Init ==
  /\ heap \in {Empty(o) : o \in [Node -> ListId \union {Nil}]}
  /\ made = {}

\* list_create_node and list_append or list_prepend of the node.
Push(l, n) ==
  /\ n \notin made
  /\ heap' \in {AppendNode(heap, l, n), PrependNode(heap, l, n)}
  /\ made' = made \union {n}

\* A node that was popped is linked again.
Relink(l, n) ==
  /\ n \in made /\ heap.owner[n] = Nil
  /\ heap' \in {AppendNode(heap, l, n), PrependNode(heap, l, n)}
  /\ UNCHANGED made

Pop(l) ==
  /\ heap.head[l] # Nil
  /\ heap' \in {PopBackNode(heap, l), PopFrontNode(heap, l)}
  /\ UNCHANGED made

Delete(l, n) ==
  /\ n \in made /\ heap.owner[n] = l
  /\ heap' = DeleteNode(heap, l, n)
  /\ made' = made \ {n}

Insert(l, p, r) ==
  /\ p \in made /\ heap.owner[p] = l /\ r \notin made
  /\ heap' \in {InsertAfterNode(heap, l, p, r), InsertBeforeNode(heap, l, p, r)}
  /\ made' = made \union {r}

\* Two members that are not neighbours.  list_swap of neighbours redirects the
\* links it exchanges afterwards and cuts the list; its one caller, a sort that
\* only swaps neighbours, is called by nobody.
Swap(a, b) ==
  /\ {a, b} \subseteq made /\ a # b
  /\ heap.owner[a] # Nil /\ heap.owner[a] = heap.owner[b]
  /\ heap.next[a] # b /\ heap.next[b] # a
  /\ heap' = SwapNodes(heap, a, b)
  /\ UNCHANGED made

Next ==
  \/ \E l \in ListId :
       \/ \E n \in Node : Push(l, n) \/ Relink(l, n) \/ Delete(l, n)
       \/ Pop(l)
       \/ \E p, r \in Node : Insert(l, p, r)
  \/ \E a, b \in Node : Swap(a, b)

Spec == Init /\ [][Next]_vars

----------------------------------------------------------------------------
(* Every list reads the same forwards and backwards, its size is its length *)
(* and its nodes are exactly those that name it as their owner: nothing the *)
(* eight operations do leaves a half-linked node behind.                    *)
WellFormed ==
  /\ TypeOK
  /\ \A l \in ListId :
       /\ Forward(heap, l, Max) = Backward(heap, l, Max)
       /\ Len(SeqOf(l)) = heap.size[l]
       /\ {SeqOf(l)[i] : i \in DOMAIN SeqOf(l)} = {n \in made : heap.owner[n] = l}

Abstract == INSTANCE ListSeq WITH seq <- [l \in ListId |-> SeqOf(l)]

(* The pointers implement sequences: every call inserts, removes or         *)
(* exchanges members at one place and disturbs nothing else.                *)
ImplementsSequences == Abstract!Spec
=============================================================================
