------------------------------ MODULE ListSeq ------------------------------
(***************************************************************************)
(* What lib/types/list.c promises: a list is a sequence of nodes, and no   *)
(* node is in two places.                                                  *)
(***************************************************************************)
EXTENDS Integers, Sequences, SequencesExt

CONSTANTS Node, ListId

VARIABLE seq

Linked(n) == \E l \in ListId : \E i \in DOMAIN seq[l] : seq[l][i] = n

Init == seq = [l \in ListId |-> <<>>]

Put(l, i, n) == ~Linked(n) /\ seq' = [seq EXCEPT ![l] = InsertAt(@, i, n)]

Take(l, i) == seq' = [seq EXCEPT ![l] = RemoveAt(@, i)]

Exchange(l, i, j) ==
  seq' = [seq EXCEPT ![l] = [@ EXCEPT ![i] = seq[l][j], ![j] = seq[l][i]]]

Next ==
  \E l \in ListId :
    \/ \E n \in Node, i \in 1 .. Len(seq[l]) + 1 : Put(l, i, n)
    \/ \E i \in DOMAIN seq[l] : Take(l, i)
    \/ \E i, j \in DOMAIN seq[l] : i < j /\ Exchange(l, i, j)

Spec == Init /\ [][Next]_seq
=============================================================================
