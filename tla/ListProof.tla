----------------------------- MODULE ListProof -----------------------------
(***************************************************************************)
(* Proof that the pointers of ListUse implement the sequences of ListSeq,  *)
(* for every number of nodes and lists.  The inductive invariant is that   *)
(* some sequences are what the pointers represent; a step then changes     *)
(* these as it changes the pointers, and the walks of List find them.      *)
(***************************************************************************)
EXTENDS ListUse, TLAPS, FiniteSetTheorems, SequenceTheorems, WellFoundedInduction

\* The member at a place of a sequence, as a link names it.
At(q, i) == IF i \in 1 .. Len(q) THEN q[i] ELSE Nil

\* The pointers of a list describe the sequence q.
Chain(h, l, q) ==
  /\ \A i \in 1 .. Len(q) : h.next[q[i]] = At(q, i + 1) /\ h.prev[q[i]] = At(q, i - 1)
  /\ h.head[l] = At(q, 1) /\ h.tail[l] = At(q, Len(q)) /\ h.size[l] = Len(q)

Distinct(q) == \A i, j \in 1 .. Len(q) : q[i] = q[j] => i = j

Has(q, n) == \E i \in 1 .. Len(q) : q[i] = n

\* Its members are the nodes that exist and name it as their owner.
Owns(h, mk, l, q) == \A n \in Node : n \in mk /\ h.owner[n] = l <=> Has(q, n)

Represents(h, mk, s) ==
  /\ h \in Heap /\ mk \subseteq Node /\ s \in [ListId -> Seq(Node)]
  /\ \A l \in ListId : Chain(h, l, s[l]) /\ Distinct(s[l]) /\ Owns(h, mk, l, s[l])

ListInv == \E s \in [ListId -> Seq(Node)] : Represents(heap, made, s)

----------------------------------------------------------------------------
(* Sequences                                                                *)

LEMMA SeqFacts ==
  ASSUME NEW q \in Seq(Node)
  PROVE  /\ Len(q) \in Nat /\ DOMAIN q = 1 .. Len(q)
         /\ \A i \in 1 .. Len(q) : q[i] \in Node /\ q[i] # Nil /\ At(q, i) = q[i]
         /\ \A i \in Int : At(q, i) \in Node \union {Nil} /\ (At(q, i) = Nil <=> i \notin 1 .. Len(q))
  <1>1. Len(q) \in Nat /\ DOMAIN q = 1 .. Len(q) /\ \A i \in 1 .. Len(q) : q[i] \in Node
    OBVIOUS
  <1>2. QED BY <1>1, NilAssumption DEF At

LEMMA InsertAtSpec ==
  ASSUME NEW q \in Seq(Node), NEW i \in 1 .. Len(q) + 1, NEW n \in Node
  PROVE  LET t == Abstract!InsertAt(q, i, n) IN
         /\ t \in Seq(Node) /\ Len(t) = Len(q) + 1
         /\ \A j \in 1 .. Len(q) + 1 : t[j] = IF j < i THEN q[j] ELSE IF j = i THEN n ELSE q[j - 1]
  <1> DEFINE a == SubSeq(q, 1, i - 1)
             b == SubSeq(q, i, Len(q))
             c == a \o <<n>>
  <1>1. /\ a \in Seq(Node) /\ Len(a) = i - 1 /\ \A j \in 1 .. i - 1 : a[j] = q[j]
        /\ b \in Seq(Node) /\ Len(b) = Len(q) - i + 1 /\ \A j \in 1 .. Len(q) - i + 1 : b[j] = q[i + j - 1]
    OBVIOUS
  <1>2. Abstract!InsertAt(q, i, n) = c \o b
    BY DEF Abstract!InsertAt
  <1>3. c \in Seq(Node) /\ Len(c) = i /\ \A j \in 1 .. i : c[j] = IF j < i THEN q[j] ELSE n
    <2> HIDE DEF a
    <2>1. <<n>> \in Seq(Node) /\ Len(<<n>>) = 1 /\ <<n>>[1] = n
      OBVIOUS
    <2>2. /\ c \in Seq(Node) /\ Len(c) = Len(a) + 1
          /\ \A j \in 1 .. Len(a) + 1 : c[j] = IF j <= Len(a) THEN a[j] ELSE <<n>>[j - Len(a)]
      BY <1>1, <2>1, ConcatProperties
    <2>3. ASSUME NEW j \in 1 .. i PROVE c[j] = IF j < i THEN q[j] ELSE n
      <3>1. CASE j < i
        BY <1>1, <2>2, <3>1
      <3>2. CASE j = i
        BY <1>1, <2>1, <2>2, <3>2
      <3>3. i \in Nat /\ j \in 1 .. i
        BY <1>1
      <3>4. j < i \/ j = i
        BY <3>3
      <3>5. QED BY <3>1, <3>2, <3>4
    <2>4. QED BY <1>1, <2>2, <2>3
  <1> HIDE DEF a, b, c
  <1>4. /\ c \o b \in Seq(Node) /\ Len(c \o b) = Len(c) + Len(b)
        /\ \A j \in 1 .. Len(c) + Len(b) : (c \o b)[j] = IF j <= Len(c) THEN c[j] ELSE b[j - Len(c)]
    BY <1>1, <1>3, ConcatProperties
  <1>5. ASSUME NEW j \in 1 .. Len(q) + 1
        PROVE  (c \o b)[j] = IF j < i THEN q[j] ELSE IF j = i THEN n ELSE q[j - 1]
    <2>1. j \in 1 .. Len(c) + Len(b) /\ Len(q) \in Nat
      BY <1>1, <1>3
    <2>2. CASE j <= i
      BY <1>3, <1>4, <2>1, <2>2
    <2>3. CASE j > i
      <3>1. j - i \in 1 .. Len(q) - i + 1 /\ i + (j - i) - 1 = j - 1
        BY <2>1, <2>3
      <3>2. b[j - i] = q[j - 1]
        BY <1>1, <3>1
      <3>3. QED BY <1>3, <1>4, <2>1, <2>3, <3>2
    <2>4. QED BY <2>1, <2>2, <2>3
  <1>6. QED BY <1>1, <1>2, <1>3, <1>4, <1>5

LEMMA RemoveAtSpec ==
  ASSUME NEW q \in Seq(Node), NEW i \in 1 .. Len(q)
  PROVE  LET t == Abstract!RemoveAt(q, i) IN
         /\ t \in Seq(Node) /\ Len(t) = Len(q) - 1
         /\ \A j \in 1 .. Len(q) - 1 : t[j] = IF j < i THEN q[j] ELSE q[j + 1]
  <1> DEFINE a == SubSeq(q, 1, i - 1)
             b == SubSeq(q, i + 1, Len(q))
  <1>1. /\ a \in Seq(Node) /\ Len(a) = i - 1 /\ \A j \in 1 .. i - 1 : a[j] = q[j]
        /\ b \in Seq(Node) /\ Len(b) = Len(q) - i /\ \A j \in 1 .. Len(q) - i : b[j] = q[i + j]
    OBVIOUS
  <1>2. Abstract!RemoveAt(q, i) = a \o b
    BY DEF Abstract!RemoveAt
  <1> HIDE DEF a, b
  <1>3. /\ a \o b \in Seq(Node) /\ Len(a \o b) = Len(a) + Len(b)
        /\ \A j \in 1 .. Len(a) + Len(b) : (a \o b)[j] = IF j <= Len(a) THEN a[j] ELSE b[j - Len(a)]
    BY <1>1, ConcatProperties
  <1>4. ASSUME NEW j \in 1 .. Len(q) - 1
        PROVE  (a \o b)[j] = IF j < i THEN q[j] ELSE q[j + 1]
    <2>1. j \in 1 .. Len(a) + Len(b) /\ Len(q) \in Nat
      BY <1>1
    <2>2. CASE j < i
      BY <1>1, <1>3, <2>1, <2>2
    <2>3. CASE ~(j < i)
      <3>1. j - (i - 1) \in 1 .. Len(q) - i /\ i + (j - (i - 1)) = j + 1
        BY <2>1, <2>3
      <3>2. b[j - (i - 1)] = q[j + 1]
        BY <1>1, <3>1
      <3>3. QED BY <1>1, <1>3, <2>1, <2>3, <3>2, SMTT(30)
    <2>4. QED BY <2>2, <2>3
  <1>5. Len(a \o b) = Len(q) - 1
    BY <1>1, <1>3
  <1>6. QED BY <1>2, <1>3, <1>4, <1>5

----------------------------------------------------------------------------
(* What becomes of the sequence when the pointers change                   *)

\* The pointers of one list after node n was linked in at place i of it.
LinkedIn(g, h, l, q, i, n) ==
  /\ h.next[n] = At(q, i) /\ h.prev[n] = At(q, i - 1)
  /\ \A j \in 1 .. Len(q) : /\ h.next[q[j]] = IF j = i - 1 THEN n ELSE g.next[q[j]]
                            /\ h.prev[q[j]] = IF j = i THEN n ELSE g.prev[q[j]]
  /\ h.head[l] = IF i = 1 THEN n ELSE g.head[l]
  /\ h.tail[l] = IF i = Len(q) + 1 THEN n ELSE g.tail[l]
  /\ h.size[l] = g.size[l] + 1

\* And after the node at place i was unlinked.
Unlinked(g, h, l, q, i) ==
  /\ \A j \in 1 .. Len(q) : j # i =>
       /\ h.next[q[j]] = IF j = i - 1 THEN At(q, i + 1) ELSE g.next[q[j]]
       /\ h.prev[q[j]] = IF j = i + 1 THEN At(q, i - 1) ELSE g.prev[q[j]]
  /\ h.head[l] = IF i = 1 THEN At(q, 2) ELSE g.head[l]
  /\ h.tail[l] = IF i = Len(q) THEN At(q, Len(q) - 1) ELSE g.tail[l]
  /\ h.size[l] = g.size[l] - 1

LEMMA ChainInsert ==
  ASSUME NEW g, NEW h, NEW l, NEW q \in Seq(Node), NEW i \in 1 .. Len(q) + 1, NEW n \in Node,
         ~Has(q, n), Distinct(q), Chain(g, l, q), LinkedIn(g, h, l, q, i, n)
  PROVE  LET t == Abstract!InsertAt(q, i, n) IN
         /\ t \in Seq(Node) /\ Chain(h, l, t) /\ Distinct(t)
         /\ \A m \in Node : Has(t, m) <=> Has(q, m) \/ m = n
  <1> DEFINE t == Abstract!InsertAt(q, i, n)
  <1>0. /\ h.next[n] = At(q, i) /\ h.prev[n] = At(q, i - 1)
        /\ \A j \in 1 .. Len(q) : /\ h.next[q[j]] = IF j = i - 1 THEN n ELSE g.next[q[j]]
                                  /\ h.prev[q[j]] = IF j = i THEN n ELSE g.prev[q[j]]
        /\ h.head[l] = IF i = 1 THEN n ELSE g.head[l]
        /\ h.tail[l] = IF i = Len(q) + 1 THEN n ELSE g.tail[l]
        /\ h.size[l] = g.size[l] + 1
    BY DEF LinkedIn
  <1>1. /\ t \in Seq(Node) /\ Len(t) = Len(q) + 1 /\ Len(q) \in Nat
        /\ \A j \in 1 .. Len(q) + 1 : t[j] = IF j < i THEN q[j] ELSE IF j = i THEN n ELSE q[j - 1]
    <2>1. Len(q) \in Nat
      OBVIOUS
    <2>2. QED BY <2>1, InsertAtSpec
  <1> HIDE DEF t
  <1>2. i \in Nat \ {0} /\ i <= Len(q) + 1
    BY <1>1
  <1>3. \A j \in Int : At(t, j) = IF j < i THEN At(q, j) ELSE IF j = i THEN n ELSE At(q, j - 1)
    <2> SUFFICES ASSUME NEW j \in Int
                 PROVE  At(t, j) = IF j < i THEN At(q, j) ELSE IF j = i THEN n ELSE At(q, j - 1)
      OBVIOUS
    <2>1. CASE j < i
      <3>1. j \in 1 .. Len(t) <=> j \in 1 .. Len(q)
        BY <1>1, <1>2, <2>1
      <3>2. QED BY <1>1, <2>1, <3>1 DEF At
    <2>2. CASE j = i
      <3>1. j \in 1 .. Len(t)
        BY <1>1, <1>2, <2>2
      <3>2. QED BY <1>1, <1>2, <2>2, <3>1 DEF At
    <2>3. CASE j > i
      <3>1. j \in 1 .. Len(t) <=> j - 1 \in 1 .. Len(q)
        BY <1>1, <1>2, <2>3
      <3>2. ~(j < i) /\ j # i
        BY <1>2, <2>3
      <3>3. QED BY <1>1, <3>1, <3>2 DEF At
    <2>4. QED BY <1>2, <2>1, <2>2, <2>3
  <1>4. ASSUME NEW j \in 1 .. Len(t)
        PROVE  h.next[t[j]] = At(t, j + 1) /\ h.prev[t[j]] = At(t, j - 1)
    <2>1. /\ \A k \in 1 .. Len(q) : g.next[q[k]] = At(q, k + 1) /\ g.prev[q[k]] = At(q, k - 1)
          /\ j \in Int /\ j + 1 \in Int /\ j - 1 \in Int
      BY <1>1 DEF Chain
    <2>2. CASE j < i
      <3>1. t[j] = q[j] /\ j \in 1 .. Len(q)
        BY <1>1, <1>2, <2>2
      <3>2. At(t, j + 1) = IF j = i - 1 THEN n ELSE At(q, j + 1)
        BY <1>2, <1>3, <2>1, <2>2
      <3>3. At(t, j - 1) = At(q, j - 1)
        BY <1>2, <1>3, <2>1, <2>2
      <3>4. j # i
        BY <1>2, <2>1, <2>2
      <3>5. QED BY <1>0, <2>1, <3>1, <3>2, <3>3, <3>4
    <2>3. CASE j = i
      <3>1. t[j] = n
        BY <1>1, <2>1, <2>3, <1>2
      <3>2. At(t, j + 1) = At(q, i) /\ At(t, j - 1) = At(q, i - 1)
        BY <1>2, <1>3, <2>1, <2>3
      <3>3. QED BY <1>0, <3>1, <3>2
    <2>4. CASE j > i
      <3>1. t[j] = q[j - 1] /\ j - 1 \in 1 .. Len(q)
        BY <1>1, <1>2, <2>4
      <3>2. At(t, j + 1) = At(q, j)
        <4>1. (j + 1) - 1 = j /\ ~(j + 1 < i) /\ j + 1 # i
          BY <1>2, <2>1, <2>4
        <4>2. QED BY <1>3, <2>1, <4>1
      <3>3. At(t, j - 1) = IF j - 1 = i THEN n ELSE At(q, j - 2)
        BY <1>2, <1>3, <2>1, <2>4
      <3>4. j - 1 # i - 1 /\ (j - 1) + 1 = j /\ (j - 1) - 1 = j - 2
        BY <1>2, <2>1, <2>4
      <3>5. QED BY <1>0, <2>1, <3>1, <3>2, <3>3, <3>4
    <2>5. QED BY <1>2, <2>1, <2>2, <2>3, <2>4
  <1>5. h.head[l] = At(t, 1)
    BY <1>0, <1>2, <1>3 DEF Chain
  <1>6. h.tail[l] = At(t, Len(t)) /\ h.size[l] = Len(t)
    <2>1. g.tail[l] = At(q, Len(q)) /\ g.size[l] = Len(q) /\ Len(t) - 1 = Len(q)
      BY <1>1 DEF Chain
    <2>2. At(t, Len(t)) = IF i = Len(q) + 1 THEN n ELSE At(q, Len(q))
      BY <1>1, <1>2, <1>3, <2>1
    <2>3. QED BY <1>0, <1>1, <2>1, <2>2
  <1>7. \A m \in Node : Has(t, m) <=> Has(q, m) \/ m = n
    <2>1. ASSUME NEW m \in Node, Has(t, m) PROVE Has(q, m) \/ m = n
      <3>1. PICK j \in 1 .. Len(t) : t[j] = m
        BY <2>1 DEF Has
      <3>2. \/ j \in 1 .. Len(q) /\ t[j] = q[j]
            \/ t[j] = n
            \/ j - 1 \in 1 .. Len(q) /\ t[j] = q[j - 1]
        BY <1>1, <1>2
      <3>3. QED BY <3>1, <3>2 DEF Has
    <2>2. ASSUME NEW j \in 1 .. Len(q) PROVE Has(t, q[j])
      <3>1. CASE j < i
        BY <1>1, <1>2, <3>1, SMTT(30) DEF Has
      <3>2. CASE ~(j < i)
        <4>1. j + 1 \in 1 .. Len(t) /\ t[j + 1] = q[j]
          BY <1>1, <1>2, <3>2
        <4>2. QED BY <4>1 DEF Has
      <3>3. QED BY <3>1, <3>2
    <2>3. Has(t, n)
      BY <1>1, <1>2 DEF Has
    <2>4. ASSUME NEW m \in Node, Has(q, m) PROVE Has(t, m)
      <3>1. PICK j \in 1 .. Len(q) : q[j] = m
        BY <2>4 DEF Has
      <3>2. QED BY <2>2, <3>1
    <2>5. QED BY <2>1, <2>3, <2>4
  <1>8. Distinct(t)
    <2> SUFFICES ASSUME NEW j \in 1 .. Len(t), NEW k \in 1 .. Len(t), t[j] = t[k] PROVE j = k
      BY DEF Distinct
    <2>1. \A m \in 1 .. Len(t) :
            \/ m = i /\ t[m] = n
            \/ m < i /\ m \in 1 .. Len(q) /\ t[m] = q[m]
            \/ m > i /\ m - 1 \in 1 .. Len(q) /\ t[m] = q[m - 1]
      BY <1>1, <1>2
    <2>2. /\ \A m \in 1 .. Len(q) : q[m] # n
          /\ \A m, o \in 1 .. Len(q) : q[m] = q[o] => m = o
      BY DEF Has, Distinct
    <2>3. CASE j = i \/ k = i
      BY <1>2, <2>1, <2>2, <2>3
    <2>4. CASE j # i /\ k # i
      <3>1. j \in Int /\ k \in Int /\ i \in Int
        BY <1>1, <1>2
      <3>2. CASE j < i /\ k < i
        BY <2>1, <2>2, <3>1, <3>2
      <3>3. CASE j > i /\ k > i
        BY <2>1, <2>2, <3>1, <3>3, SMTT(30)
      <3>4. CASE j < i /\ k > i
        BY <2>1, <2>2, <3>1, <3>4
      <3>5. CASE j > i /\ k < i
        BY <2>1, <2>2, <3>1, <3>5
      <3>6. QED BY <2>4, <3>1, <3>2, <3>3, <3>4, <3>5
    <2>5. QED BY <2>3, <2>4
  <1>9. QED BY <1>1, <1>4, <1>5, <1>6, <1>7, <1>8 DEF Chain, t

LEMMA ChainRemove ==
  ASSUME NEW g, NEW h, NEW l, NEW q \in Seq(Node), NEW i \in 1 .. Len(q),
         Distinct(q), Chain(g, l, q), Unlinked(g, h, l, q, i)
  PROVE  LET t == Abstract!RemoveAt(q, i) IN
         /\ t \in Seq(Node) /\ Chain(h, l, t) /\ Distinct(t)
         /\ \A m \in Node : Has(t, m) <=> Has(q, m) /\ m # q[i]
  <1> DEFINE t == Abstract!RemoveAt(q, i)
  <1>0. /\ \A j \in 1 .. Len(q) : j # i =>
             /\ h.next[q[j]] = IF j = i - 1 THEN At(q, i + 1) ELSE g.next[q[j]]
             /\ h.prev[q[j]] = IF j = i + 1 THEN At(q, i - 1) ELSE g.prev[q[j]]
        /\ h.head[l] = IF i = 1 THEN At(q, 2) ELSE g.head[l]
        /\ h.tail[l] = IF i = Len(q) THEN At(q, Len(q) - 1) ELSE g.tail[l]
        /\ h.size[l] = g.size[l] - 1
    BY DEF Unlinked
  <1>1. /\ t \in Seq(Node) /\ Len(t) = Len(q) - 1 /\ Len(q) \in Nat
        /\ \A j \in 1 .. Len(q) - 1 : t[j] = IF j < i THEN q[j] ELSE q[j + 1]
    <2>1. Len(q) \in Nat
      OBVIOUS
    <2>2. QED BY <2>1, RemoveAtSpec
  <1> HIDE DEF t
  <1>2. i \in Nat \ {0} /\ i <= Len(q)
    BY <1>1
  <1>3. \A j \in Int : At(t, j) = IF j < i THEN At(q, j) ELSE At(q, j + 1)
    <2> SUFFICES ASSUME NEW j \in Int
                 PROVE  At(t, j) = IF j < i THEN At(q, j) ELSE At(q, j + 1)
      OBVIOUS
    <2>1. CASE j < i
      <3>1. j \in 1 .. Len(t) <=> j \in 1 .. Len(q)
        BY <1>1, <1>2, <2>1
      <3>2. QED BY <1>1, <2>1, <3>1 DEF At
    <2>2. CASE ~(j < i)
      <3>1. j \in 1 .. Len(t) <=> j + 1 \in 1 .. Len(q)
        BY <1>1, <1>2, <2>2
      <3>2. QED BY <1>1, <2>2, <3>1 DEF At
    <2>3. QED BY <2>1, <2>2
  <1>4. ASSUME NEW j \in 1 .. Len(t)
        PROVE  h.next[t[j]] = At(t, j + 1) /\ h.prev[t[j]] = At(t, j - 1)
    <2>1. /\ \A k \in 1 .. Len(q) : g.next[q[k]] = At(q, k + 1) /\ g.prev[q[k]] = At(q, k - 1)
          /\ j \in Int /\ j + 1 \in Int /\ j - 1 \in Int
      BY <1>1 DEF Chain
    <2>2. CASE j < i
      <3>1. t[j] = q[j] /\ j \in 1 .. Len(q) /\ j # i /\ j # i + 1
        BY <1>1, <1>2, <2>2
      <3>2. At(t, j + 1) = IF j = i - 1 THEN At(q, i + 1) ELSE At(q, j + 1)
        <4>1. (j + 1 < i <=> j # i - 1) /\ (j = i - 1 => (j + 1) + 1 = i + 1)
          BY <1>2, <2>1, <2>2
        <4>2. QED BY <1>3, <2>1, <4>1
      <3>3. At(t, j - 1) = At(q, j - 1)
        BY <1>2, <1>3, <2>1, <2>2
      <3>4. QED BY <1>0, <2>1, <3>1, <3>2, <3>3
    <2>3. CASE ~(j < i)
      <3>1. t[j] = q[j + 1] /\ j + 1 \in 1 .. Len(q) /\ j + 1 # i /\ j + 1 # i - 1
        BY <1>1, <1>2, <2>3
      <3>2. At(t, j + 1) = At(q, j + 2)
        BY <1>2, <1>3, <2>1, <2>3
      <3>3. At(t, j - 1) = IF j + 1 = i + 1 THEN At(q, i - 1) ELSE At(q, j)
        <4>1. (j - 1) + 1 = j /\ (j - 1 < i <=> j = i) /\ (j + 1 = i + 1 <=> j = i)
          BY <1>2, <2>1, <2>3
        <4>2. QED BY <1>3, <2>1, <4>1
      <3>4. (j + 1) + 1 = j + 2 /\ (j + 1) - 1 = j
        BY <2>1
      <3>5. QED BY <1>0, <2>1, <3>1, <3>2, <3>3, <3>4
    <2>4. QED BY <2>2, <2>3
  <1>5. h.head[l] = At(t, 1)
    <2>1. At(t, 1) = IF i = 1 THEN At(q, 2) ELSE At(q, 1)
      BY <1>2, <1>3
    <2>2. QED BY <1>0, <2>1 DEF Chain
  <1>6. h.tail[l] = At(t, Len(t)) /\ h.size[l] = Len(t)
    <2>1. g.tail[l] = At(q, Len(q)) /\ g.size[l] = Len(q)
      BY DEF Chain
    <2>2. At(t, Len(t)) = IF i = Len(q) THEN At(q, Len(q) - 1) ELSE At(q, Len(q))
      <3>1. Len(t) \in Int /\ Len(t) + 1 = Len(q) /\ (Len(t) < i <=> i = Len(q))
        BY <1>1, <1>2
      <3>2. QED BY <1>1, <1>3, <3>1
    <2>3. QED BY <1>0, <1>1, <2>1, <2>2
  <1>7. \A m \in Node : Has(t, m) <=> Has(q, m) /\ m # q[i]
    <2>1. ASSUME NEW j \in 1 .. Len(t) PROVE Has(q, t[j]) /\ t[j] # q[i]
      <3>1. PICK k \in 1 .. Len(q) : k # i /\ t[j] = q[k]
        BY <1>1, <1>2
      <3>2. QED BY <3>1 DEF Has, Distinct
    <2>2. ASSUME NEW j \in 1 .. Len(q), q[j] # q[i] PROVE Has(t, q[j])
      <3>1. CASE j < i
        BY <1>1, <1>2, <3>1 DEF Has
      <3>2. CASE ~(j < i)
        <4>1. j # i
          BY <2>2
        <4>2. j - 1 \in 1 .. Len(t) /\ t[j - 1] = q[j]
          BY <1>1, <1>2, <3>2, <4>1
        <4>3. QED BY <4>2 DEF Has
      <3>3. QED BY <3>1, <3>2
    <2>3. ASSUME NEW m \in Node, Has(t, m) PROVE Has(q, m) /\ m # q[i]
      BY <2>1, <2>3 DEF Has
    <2>4. ASSUME NEW m \in Node, Has(q, m), m # q[i] PROVE Has(t, m)
      <3>1. PICK j \in 1 .. Len(q) : q[j] = m
        BY <2>4 DEF Has
      <3>2. QED BY <2>2, <2>4, <3>1
    <2>5. QED BY <2>3, <2>4
  <1>8. Distinct(t)
    <2> SUFFICES ASSUME NEW j \in 1 .. Len(t), NEW k \in 1 .. Len(t), t[j] = t[k] PROVE j = k
      BY DEF Distinct
    <2>1. ASSUME NEW m \in 1 .. Len(t)
          PROVE  \/ m < i /\ m \in 1 .. Len(q) /\ t[m] = q[m]
                 \/ m >= i /\ m + 1 \in 1 .. Len(q) /\ t[m] = q[m + 1]
      <3>1. m \in 1 .. Len(q) - 1 /\ m \in Int /\ i \in Int
        BY <1>1, <1>2
      <3>2. m \in 1 .. Len(q) /\ m + 1 \in 1 .. Len(q)
        BY <1>1, <3>1
      <3>3. CASE m < i
        BY <1>1, <3>1, <3>2, <3>3
      <3>4. CASE ~(m < i)
        <4>1. m >= i
          BY <3>1, <3>4
        <4>2. QED BY <1>1, <3>1, <3>2, <3>4, <4>1
      <3>5. QED BY <3>3, <3>4
    <2>2. \A m, o \in 1 .. Len(q) : q[m] = q[o] => m = o
      BY DEF Distinct
    <2>3. j \in Int /\ k \in Int /\ i \in Int
      BY <1>1, <1>2
    <2>4. CASE j < i /\ k < i
      BY <2>1, <2>2, <2>3, <2>4
    <2>5. CASE j >= i /\ k >= i
      BY <2>1, <2>2, <2>3, <2>5
    <2>6. CASE j < i /\ k >= i
      BY <2>1, <2>2, <2>3, <2>6
    <2>7. CASE j >= i /\ k < i
      BY <2>1, <2>2, <2>3, <2>7
    <2>8. QED BY <2>3, <2>4, <2>5, <2>6, <2>7
  <1>9. QED BY <1>1, <1>4, <1>5, <1>6, <1>7, <1>8 DEF Chain, t

(* A list none of whose pointers changes keeps its sequence.                *)
LEMMA ChainSame ==
  ASSUME NEW g, NEW h, NEW l, NEW q \in Seq(Node), Chain(g, l, q),
         \A j \in 1 .. Len(q) : h.next[q[j]] = g.next[q[j]] /\ h.prev[q[j]] = g.prev[q[j]],
         h.head[l] = g.head[l], h.tail[l] = g.tail[l], h.size[l] = g.size[l]
  PROVE  Chain(h, l, q)
  BY DEF Chain

----------------------------------------------------------------------------
(* A node n is linked in at place i of list l, whose sequence is q.         *)
PutAt(g, h, l, q, i, n) ==
  /\ h \in Heap
  /\ \A m \in Node :
       /\ h.owner[m] = IF m = n THEN l ELSE g.owner[m]
       /\ h.next[m] = IF m = n THEN At(q, i) ELSE IF m = At(q, i - 1) THEN n ELSE g.next[m]
       /\ h.prev[m] = IF m = n THEN At(q, i - 1) ELSE IF m = At(q, i) THEN n ELSE g.prev[m]
  /\ \A r \in ListId :
       /\ h.head[r] = IF r = l /\ i = 1 THEN n ELSE g.head[r]
       /\ h.tail[r] = IF r = l /\ i = Len(q) + 1 THEN n ELSE g.tail[r]
       /\ h.size[r] = IF r = l THEN g.size[r] + 1 ELSE g.size[r]

(* The node at place i is unlinked; its own fields are not of interest.     *)
TakeAt(g, h, l, q, i) ==
  /\ h \in Heap
  /\ \A m \in Node \ {q[i]} :
       /\ h.owner[m] = g.owner[m]
       /\ h.next[m] = IF m = At(q, i - 1) THEN At(q, i + 1) ELSE g.next[m]
       /\ h.prev[m] = IF m = At(q, i + 1) THEN At(q, i - 1) ELSE g.prev[m]
  /\ \A r \in ListId :
       /\ h.head[r] = IF r = l /\ i = 1 THEN At(q, 2) ELSE g.head[r]
       /\ h.tail[r] = IF r = l /\ i = Len(q) THEN At(q, Len(q) - 1) ELSE g.tail[r]
       /\ h.size[r] = IF r = l THEN g.size[r] - 1 ELSE g.size[r]

(* What holds of one list of a state.                                       *)
LEMMA Listed ==
  ASSUME NEW g, NEW mk, NEW s, Represents(g, mk, s), NEW l \in ListId
  PROVE  /\ g \in Heap /\ mk \subseteq Node
         /\ s[l] \in Seq(Node) /\ Chain(g, l, s[l]) /\ Distinct(s[l]) /\ Owns(g, mk, l, s[l])
         /\ \A i \in 1 .. Len(s[l]) : s[l][i] \in mk /\ s[l][i] \in Node /\ g.owner[s[l][i]] = l
  <1>1. g \in Heap /\ mk \subseteq Node /\ s[l] \in Seq(Node)
    BY DEF Represents
  <1>2. Chain(g, l, s[l]) /\ Distinct(s[l]) /\ Owns(g, mk, l, s[l])
    BY DEF Represents
  <1>3. ASSUME NEW i \in 1 .. Len(s[l]) PROVE s[l][i] \in Node /\ Has(s[l], s[l][i])
    BY <1>1, SeqFacts DEF Has
  <1>4. QED BY <1>1, <1>2, <1>3 DEF Owns

LEMMA PutStep ==
  ASSUME NEW g, NEW h, NEW mk, NEW s, Represents(g, mk, s),
         NEW l \in ListId, NEW i \in 1 .. Len(s[l]) + 1, NEW n \in Node,
         \A r \in ListId : ~Has(s[r], n), PutAt(g, h, l, s[l], i, n)
  PROVE  Represents(h, mk \union {n}, [s EXCEPT ![l] = Abstract!InsertAt(s[l], i, n)])
  <1> DEFINE q == s[l]
             t == Abstract!InsertAt(q, i, n)
             u == [s EXCEPT ![l] = t]
  <1>1. g \in Heap /\ mk \subseteq Node /\ s \in [ListId -> Seq(Node)]
    BY DEF Represents
  <1>2. /\ q \in Seq(Node) /\ Chain(g, l, q) /\ Distinct(q) /\ Owns(g, mk, l, q)
        /\ \A j \in 1 .. Len(q) : q[j] \in Node /\ g.owner[q[j]] = l /\ q[j] # n
    BY Listed DEF Has
  <1>3. Len(q) \in Nat /\ \A j \in Int : At(q, j) \in Node \union {Nil}
    BY <1>2, SeqFacts
  <1>4. t \in Seq(Node) /\ Chain(h, l, t) /\ Distinct(t) /\ \A m \in Node : Has(t, m) <=> Has(q, m) \/ m = n
    <2>1. i - 1 \in Int /\ i \in Int
      BY <1>3
    <2>2. h.next[n] = At(q, i) /\ h.prev[n] = At(q, i - 1)
      BY DEF PutAt
    <2>3. ASSUME NEW j \in 1 .. Len(q)
          PROVE  /\ h.next[q[j]] = IF j = i - 1 THEN n ELSE g.next[q[j]]
                 /\ h.prev[q[j]] = IF j = i THEN n ELSE g.prev[q[j]]
      <3>1. q[j] \in Node /\ q[j] # n /\ q[j] # Nil
        BY <1>2, NilAssumption
      <3>2. (q[j] = At(q, i - 1) <=> j = i - 1) /\ (q[j] = At(q, i) <=> j = i)
        BY <1>2, <3>1 DEF At, Distinct
      <3>3. QED BY <3>1, <3>2 DEF PutAt
    <2>4. /\ h.head[l] = IF i = 1 THEN n ELSE g.head[l]
          /\ h.tail[l] = IF i = Len(q) + 1 THEN n ELSE g.tail[l]
          /\ h.size[l] = g.size[l] + 1
      BY DEF PutAt
    <2>5. ~Has(q, n) /\ i \in 1 .. Len(q) + 1
      OBVIOUS
    <2> HIDE DEF q
    <2>6. q \in Seq(Node) /\ Distinct(q) /\ Chain(g, l, q)
      BY <1>2
    <2>7. LinkedIn(g, h, l, q, i, n)
      BY <2>2, <2>3, <2>4 DEF LinkedIn
    <2>8. QED BY <2>5, <2>6, <2>7, ChainInsert
  <1> HIDE DEF t
  <1>5. u \in [ListId -> Seq(Node)] /\ u[l] = t /\ \A r \in ListId \ {l} : u[r] = s[r]
    BY <1>1, <1>4
  <1>6. ASSUME NEW r \in ListId PROVE Chain(h, r, u[r]) /\ Distinct(u[r]) /\ Owns(h, mk \union {n}, r, u[r])
    <2>1. CASE r = l
      <3>1. ASSUME NEW m \in Node PROVE m \in mk \union {n} /\ h.owner[m] = l <=> Has(t, m)
        <4>1. h.owner[m] = IF m = n THEN l ELSE g.owner[m]
          BY DEF PutAt
        <4>2. m \in mk /\ g.owner[m] = l <=> Has(q, m)
          BY <1>2 DEF Owns
        <4>3. Has(t, m) <=> Has(q, m) \/ m = n
          BY <1>4
        <4> HIDE DEF q
        <4>4. QED BY <4>1, <4>2, <4>3
      <3>2. QED BY <1>4, <1>5, <2>1, <3>1 DEF Owns
    <2>2. CASE r # l
      <3>1. /\ s[r] \in Seq(Node) /\ Chain(g, r, s[r]) /\ Distinct(s[r]) /\ Owns(g, mk, r, s[r])
            /\ \A j \in 1 .. Len(s[r]) : s[r][j] \in Node /\ g.owner[s[r][j]] = r /\ s[r][j] # n
        BY Listed DEF Has
      <3>2. ASSUME NEW j \in 1 .. Len(s[r])
            PROVE  h.next[s[r][j]] = g.next[s[r][j]] /\ h.prev[s[r][j]] = g.prev[s[r][j]]
        <4>1. s[r][j] # At(q, i) /\ s[r][j] # At(q, i - 1)
          BY <1>2, <2>2, <3>1, NilAssumption DEF At
        <4>2. QED BY <3>1, <4>1 DEF PutAt
      <3>3. h.head[r] = g.head[r] /\ h.tail[r] = g.tail[r] /\ h.size[r] = g.size[r]
        BY <2>2 DEF PutAt
      <3>4. Chain(h, r, s[r])
        BY <3>1, <3>2, <3>3, ChainSame
      <3>5. Owns(h, mk \union {n}, r, s[r])
        <4>1. ASSUME NEW m \in Node PROVE m \in mk \union {n} /\ h.owner[m] = r <=> Has(s[r], m)
          <5>1. h.owner[m] = IF m = n THEN l ELSE g.owner[m]
            BY DEF PutAt
          <5>2. m \in mk /\ g.owner[m] = r <=> Has(s[r], m)
            BY <3>1 DEF Owns
          <5>3. ~Has(s[r], n)
            OBVIOUS
          <5>4. QED BY <2>2, <5>1, <5>2, <5>3
        <4>2. QED BY <4>1 DEF Owns
      <3>6. QED BY <1>5, <2>2, <3>1, <3>4, <3>5
    <2>3. QED BY <2>1, <2>2
  <1>7. h \in Heap /\ mk \union {n} \subseteq Node
    BY <1>1 DEF PutAt
  <1>8. QED BY <1>5, <1>6, <1>7 DEF Represents, t

LEMMA TakeStep ==
  ASSUME NEW g, NEW h, NEW mk, NEW mk2, NEW s, Represents(g, mk, s),
         NEW l \in ListId, NEW i \in 1 .. Len(s[l]), TakeAt(g, h, l, s[l], i),
         mk2 \subseteq Node, \A m \in Node \ {s[l][i]} : m \in mk2 <=> m \in mk,
         s[l][i] \in mk2 => h.owner[s[l][i]] = Nil
  PROVE  Represents(h, mk2, [s EXCEPT ![l] = Abstract!RemoveAt(s[l], i)])
  <1> DEFINE q == s[l]
             t == Abstract!RemoveAt(q, i)
             u == [s EXCEPT ![l] = t]
  <1>1. g \in Heap /\ mk \subseteq Node /\ s \in [ListId -> Seq(Node)]
    BY DEF Represents
  <1>2. /\ q \in Seq(Node) /\ Chain(g, l, q) /\ Distinct(q) /\ Owns(g, mk, l, q)
        /\ \A j \in 1 .. Len(q) : q[j] \in Node /\ g.owner[q[j]] = l
    BY Listed
  <1>3. Len(q) \in Nat /\ \A j \in Int : At(q, j) \in Node \union {Nil}
    BY <1>2, SeqFacts
  <1>4. t \in Seq(Node) /\ Chain(h, l, t) /\ Distinct(t) /\ \A m \in Node : Has(t, m) <=> Has(q, m) /\ m # q[i]
    <2>1. ASSUME NEW j \in 1 .. Len(q), j # i
          PROVE  /\ h.next[q[j]] = IF j = i - 1 THEN At(q, i + 1) ELSE g.next[q[j]]
                 /\ h.prev[q[j]] = IF j = i + 1 THEN At(q, i - 1) ELSE g.prev[q[j]]
      <3>1. q[j] \in Node /\ q[j] # q[i] /\ q[j] # Nil
        BY <1>2, <2>1, NilAssumption DEF Distinct
      <3>2. (q[j] = At(q, i - 1) <=> j = i - 1) /\ (q[j] = At(q, i + 1) <=> j = i + 1)
        BY <1>2, <3>1 DEF At, Distinct
      <3>3. QED BY <3>1, <3>2 DEF TakeAt
    <2>2. /\ h.head[l] = IF i = 1 THEN At(q, 2) ELSE g.head[l]
          /\ h.tail[l] = IF i = Len(q) THEN At(q, Len(q) - 1) ELSE g.tail[l]
          /\ h.size[l] = g.size[l] - 1
      BY DEF TakeAt
    <2>3. i \in 1 .. Len(q)
      OBVIOUS
    <2> HIDE DEF q
    <2>4. q \in Seq(Node) /\ Distinct(q) /\ Chain(g, l, q)
      BY <1>2
    <2>5. Unlinked(g, h, l, q, i)
      BY <2>1, <2>2 DEF Unlinked
    <2>6. QED BY <2>3, <2>4, <2>5, ChainRemove
  <1> HIDE DEF t
  <1>5. u \in [ListId -> Seq(Node)] /\ u[l] = t /\ \A r \in ListId \ {l} : u[r] = s[r]
    BY <1>1, <1>4
  <1>6. ASSUME NEW r \in ListId PROVE Chain(h, r, u[r]) /\ Distinct(u[r]) /\ Owns(h, mk2, r, u[r])
    <2>1. CASE r = l
      <3>1. ASSUME NEW m \in Node PROVE m \in mk2 /\ h.owner[m] = l <=> Has(t, m)
        <4>1. m \in mk /\ g.owner[m] = l <=> Has(q, m)
          BY <1>2 DEF Owns
        <4>2. Has(t, m) <=> Has(q, m) /\ m # q[i]
          BY <1>4
        <4>3. m # q[i] => h.owner[m] = g.owner[m]
          BY DEF TakeAt
        <4>4. l # Nil
          BY NilAssumption
        <4> HIDE DEF q
        <4>5. QED BY <4>1, <4>2, <4>3, <4>4 DEF q
      <3>2. QED BY <1>4, <1>5, <2>1, <3>1 DEF Owns
    <2>2. CASE r # l
      <3>1. /\ s[r] \in Seq(Node) /\ Chain(g, r, s[r]) /\ Distinct(s[r]) /\ Owns(g, mk, r, s[r])
            /\ \A j \in 1 .. Len(s[r]) : s[r][j] \in Node /\ g.owner[s[r][j]] = r
        BY Listed
      <3>2. ASSUME NEW j \in 1 .. Len(s[r])
            PROVE  h.next[s[r][j]] = g.next[s[r][j]] /\ h.prev[s[r][j]] = g.prev[s[r][j]]
        <4>1. s[r][j] # At(q, i + 1) /\ s[r][j] # At(q, i - 1) /\ s[r][j] # q[i]
          BY <1>2, <2>2, <3>1, NilAssumption DEF At
        <4>2. QED BY <3>1, <4>1 DEF TakeAt
      <3>3. h.head[r] = g.head[r] /\ h.tail[r] = g.tail[r] /\ h.size[r] = g.size[r]
        BY <2>2 DEF TakeAt
      <3>4. Chain(h, r, s[r])
        BY <3>1, <3>2, <3>3, ChainSame
      <3>5. Owns(h, mk2, r, s[r])
        <4>1. ASSUME NEW m \in Node PROVE m \in mk2 /\ h.owner[m] = r <=> Has(s[r], m)
          <5>1. m # q[i] => h.owner[m] = g.owner[m]
            BY DEF TakeAt
          <5>2. m \in mk /\ g.owner[m] = r <=> Has(s[r], m)
            BY <3>1 DEF Owns
          <5>3. ~Has(s[r], q[i]) /\ r # Nil
            BY <1>2, <2>2, <3>1, NilAssumption DEF Has
          <5>4. QED BY <2>2, <5>1, <5>2, <5>3
        <4>2. QED BY <4>1 DEF Owns
      <3>6. QED BY <1>5, <2>2, <3>1, <3>4, <3>5
    <2>3. QED BY <2>1, <2>2
  <1>7. h \in Heap
    BY DEF TakeAt
  <1>8. QED BY <1>5, <1>6, <1>7 DEF Represents, t

----------------------------------------------------------------------------
(* What each call of list.c does to the sequence of its list.               *)
LEMMA Ends ==
  ASSUME NEW g, NEW mk, NEW s, Represents(g, mk, s), NEW l \in ListId
  PROVE  /\ Len(s[l]) \in Nat /\ g.size[l] = Len(s[l])
         /\ g.head[l] = At(s[l], 1) /\ g.tail[l] = At(s[l], Len(s[l]))
         /\ \A i \in Int : At(s[l], i) \in Node \union {Nil} /\ (At(s[l], i) = Nil <=> i \notin 1 .. Len(s[l]))
         /\ \A i \in 1 .. Len(s[l]) :
              /\ s[l][i] \in Node /\ s[l][i] # Nil /\ At(s[l], i) = s[l][i]
              /\ g.next[s[l][i]] = At(s[l], i + 1) /\ g.prev[s[l][i]] = At(s[l], i - 1)
         /\ \A i, j \in 1 .. Len(s[l]) : At(s[l], i) = At(s[l], j) => i = j
  <1>1. s[l] \in Seq(Node) /\ Chain(g, l, s[l]) /\ Distinct(s[l])
    BY Listed
  <1> DEFINE q == s[l]
  <1> HIDE DEF q
  <1>2. q \in Seq(Node) /\ Chain(g, l, q) /\ Distinct(q)
    BY <1>1 DEF q
  <1>3. /\ Len(q) \in Nat
        /\ \A i \in 1 .. Len(q) : q[i] \in Node /\ q[i] # Nil /\ At(q, i) = q[i]
        /\ \A i \in Int : At(q, i) \in Node \union {Nil} /\ (At(q, i) = Nil <=> i \notin 1 .. Len(q))
    BY <1>2, SeqFacts
  <1>4. /\ \A i \in 1 .. Len(q) : g.next[q[i]] = At(q, i + 1) /\ g.prev[q[i]] = At(q, i - 1)
        /\ g.head[l] = At(q, 1) /\ g.tail[l] = At(q, Len(q)) /\ g.size[l] = Len(q)
    BY <1>2 DEF Chain
  <1>5. \A i, j \in 1 .. Len(q) : At(q, i) = At(q, j) => i = j
    BY <1>2, <1>3 DEF Distinct
  <1>6. QED BY <1>3, <1>4, <1>5 DEF q

\* The fields of a heap, one at a time.
LEMMA HeapFields ==
  ASSUME NEW g \in Heap
  PROVE  /\ g.next \in [Node -> Node \union {Nil}] /\ g.prev \in [Node -> Node \union {Nil}]
         /\ g.owner \in [Node -> ListId \union {Nil}]
         /\ g.head \in [ListId -> Node \union {Nil}] /\ g.tail \in [ListId -> Node \union {Nil}]
         /\ g.size \in [ListId -> Nat]
  BY DEF Heap

Fields == {"next", "prev", "owner", "head", "tail", "size"}

LEMMA HeapBuilt ==
  ASSUME NEW h, h = [f \in DOMAIN h |-> h[f]], DOMAIN h = Fields,
         h.next \in [Node -> Node \union {Nil}], h.prev \in [Node -> Node \union {Nil}],
         h.owner \in [Node -> ListId \union {Nil}],
         h.head \in [ListId -> Node \union {Nil}], h.tail \in [ListId -> Node \union {Nil}],
         h.size \in [ListId -> Nat]
  PROVE  h \in Heap
  BY DEF Heap, Fields

LEMMA AppendPuts ==
  ASSUME NEW g, NEW mk, NEW s, Represents(g, mk, s), NEW l \in ListId, NEW n \in Node, ~Has(s[l], n)
  PROVE  PutAt(g, AppendNode(g, l, n), l, s[l], Len(s[l]) + 1, n)
  <1> DEFINE q == s[l]
             t == g.tail[l]
             h == AppendNode(g, l, n)
  <1>1. /\ g \in Heap /\ Len(q) \in Nat /\ t = At(q, Len(q)) /\ At(q, Len(q) + 1) = Nil
        /\ (t = Nil <=> Len(q) = 0) /\ t \in Node \union {Nil} /\ t # n
    <2>1. \A i \in 1 .. Len(q) : q[i] # n
      BY DEF Has
    <2>2. Len(q) + 1 \notin 1 .. Len(q) /\ (Len(q) \notin 1 .. Len(q) <=> Len(q) = 0)
      BY Ends
    <2>3. QED BY <2>1, <2>2, Ends, Listed, NilAssumption DEF At
  <1> HIDE DEF q
  <1>2. h.next = [m \in Node |-> IF m = t THEN n ELSE IF m = n THEN Nil ELSE g.next[m]]
    BY <1>1 DEF AppendNode, Heap
  <1>3. h.prev = [g.prev EXCEPT ![n] = t]
    BY <1>1 DEF AppendNode, Heap
  <1>4. h.owner = [g.owner EXCEPT ![n] = l]
    BY <1>1 DEF AppendNode, Heap
  <1>5. h.head = [g.head EXCEPT ![l] = IF t = Nil THEN n ELSE @]
    BY <1>1 DEF AppendNode, Heap
  <1>6. h.tail = [g.tail EXCEPT ![l] = n]
    BY <1>1 DEF AppendNode, Heap
  <1>7. h.size = [g.size EXCEPT ![l] = @ + 1]
    BY <1>1 DEF AppendNode, Heap
  <1>8. h = [f \in DOMAIN h |-> h[f]]
    BY ZenonT(30) DEF AppendNode
  <1>9. DOMAIN h = Fields
    BY <1>1 DEF AppendNode, Heap, Fields
  <1> HIDE DEF t, h
  <1>10. h \in Heap
    <2>1. /\ h.next \in [Node -> Node \union {Nil}] /\ h.prev \in [Node -> Node \union {Nil}]
          /\ h.owner \in [Node -> ListId \union {Nil}]
      BY <1>1, <1>2, <1>3, <1>4, HeapFields
    <2>2. /\ h.head \in [ListId -> Node \union {Nil}] /\ h.tail \in [ListId -> Node \union {Nil}]
          /\ h.size \in [ListId -> Nat]
      BY <1>1, <1>5, <1>6, <1>7, HeapFields
    <2>3. QED BY <1>8, <1>9, <2>1, <2>2, HeapBuilt
  <1>11. \A m \in Node :
          /\ h.owner[m] = IF m = n THEN l ELSE g.owner[m]
          /\ h.next[m] = IF m = n THEN Nil ELSE IF m = t THEN n ELSE g.next[m]
          /\ h.prev[m] = IF m = n THEN t ELSE g.prev[m]
    BY <1>1, <1>2, <1>3, <1>4, HeapFields, ZenonT(30)
  <1>12. \A r \in ListId :
          /\ h.head[r] = IF r = l /\ t = Nil THEN n ELSE g.head[r]
          /\ h.tail[r] = IF r = l THEN n ELSE g.tail[r]
          /\ h.size[r] = IF r = l THEN g.size[r] + 1 ELSE g.size[r]
    BY <1>1, <1>5, <1>6, <1>7, HeapFields
  <1>13. PutAt(g, h, l, q, Len(q) + 1, n)
    <2>1. Len(q) + 1 - 1 = Len(q) /\ (Len(q) + 1 = 1 <=> Len(q) = 0)
      BY <1>1
    <2>2. \A m \in Node : m # Nil
      BY NilAssumption
    <2>3. QED BY <1>1, <1>10, <1>11, <1>12, <2>1, <2>2 DEF PutAt
  <1>14. QED BY <1>13 DEF q, h

LEMMA PrependPuts ==
  ASSUME NEW g, NEW mk, NEW s, Represents(g, mk, s), NEW l \in ListId, NEW n \in Node, ~Has(s[l], n), g.head[l] # Nil
  PROVE  PutAt(g, PrependNode(g, l, n), l, s[l], 1, n)
  <1> DEFINE q == s[l]
             d == g.head[l]
             h == PrependNode(g, l, n)
  <1>1. /\ g \in Heap /\ Len(q) \in Nat /\ d = At(q, 1) /\ At(q, 0) = Nil
        /\ Len(q) # 0 /\ d \in Node /\ d # n /\ d # Nil
    <2>1. \A i \in 1 .. Len(q) : q[i] # n
      BY DEF Has
    <2>2. 0 \notin 1 .. Len(q) /\ (1 \in 1 .. Len(q) <=> Len(q) # 0)
      BY Ends
    <2>3. QED BY <2>1, <2>2, Ends, Listed, NilAssumption DEF At
  <1> HIDE DEF q
  <1>2. h.next = [g.next EXCEPT ![n] = d]
    BY <1>1 DEF PrependNode, Heap
  <1>3. h.prev = [m \in Node |-> IF m = d THEN n ELSE IF m = n THEN Nil ELSE g.prev[m]]
    BY <1>1 DEF PrependNode, Heap
  <1>4. h.owner = [g.owner EXCEPT ![n] = l]
    BY <1>1 DEF PrependNode, Heap
  <1>5. h.head = [g.head EXCEPT ![l] = n]
    BY <1>1 DEF PrependNode, Heap
  <1>6. h.tail = g.tail
    BY <1>1 DEF PrependNode, Heap
  <1>7. h.size = [g.size EXCEPT ![l] = @ + 1]
    BY <1>1 DEF PrependNode, Heap
  <1>8. h = [f \in DOMAIN h |-> h[f]]
    BY DEF PrependNode
  <1>9. DOMAIN h = Fields
    BY <1>1 DEF PrependNode, Heap, Fields
  <1> HIDE DEF h, d
  <1>10. h \in Heap
    <2>1. /\ h.next \in [Node -> Node \union {Nil}] /\ h.prev \in [Node -> Node \union {Nil}]
          /\ h.owner \in [Node -> ListId \union {Nil}]
      BY <1>1, <1>2, <1>3, <1>4, HeapFields
    <2>2. /\ h.head \in [ListId -> Node \union {Nil}] /\ h.tail \in [ListId -> Node \union {Nil}]
          /\ h.size \in [ListId -> Nat]
      BY <1>1, <1>5, <1>6, <1>7, HeapFields
    <2>3. QED BY <1>8, <1>9, <2>1, <2>2, HeapBuilt
  <1>11. \A m \in Node :
          /\ h.owner[m] = IF m = n THEN l ELSE g.owner[m]
          /\ h.next[m] = IF m = n THEN d ELSE g.next[m]
          /\ h.prev[m] = IF m = n THEN Nil ELSE IF m = d THEN n ELSE g.prev[m]
    BY <1>1, <1>2, <1>3, <1>4, HeapFields
  <1>12. \A r \in ListId :
          /\ h.head[r] = IF r = l THEN n ELSE g.head[r]
          /\ h.tail[r] = g.tail[r]
          /\ h.size[r] = IF r = l THEN g.size[r] + 1 ELSE g.size[r]
    BY <1>1, <1>5, <1>6, <1>7, HeapFields
  <1>13. PutAt(g, h, l, q, 1, n)
    <2>1. 1 - 1 = 0 /\ 1 # Len(q) + 1
      BY <1>1
    <2>2. \A m \in Node : m # Nil
      BY NilAssumption
    <2>3. QED BY <1>1, <1>10, <1>11, <1>12, <2>1, <2>2 DEF PutAt
  <1>14. QED BY <1>13 DEF q, h

LEMMA AfterPuts ==
  ASSUME NEW g, NEW mk, NEW s, Represents(g, mk, s), NEW l \in ListId, NEW n \in Node, NEW k \in 1 .. Len(s[l]), ~Has(s[l], n)
  PROVE  PutAt(g, InsertAfterNode(g, l, s[l][k], n), l, s[l], k + 1, n)
  <1> DEFINE q == s[l]
             p == s[l][k]
             t == g.next[p]
             h == InsertAfterNode(g, l, s[l][k], n)
  <1>1. /\ g \in Heap /\ Len(q) \in Nat /\ k \in Nat /\ k <= Len(q) /\ k # 0
        /\ p \in Node /\ p # n /\ p = At(q, k)
        /\ t = At(q, k + 1) /\ t \in Node \union {Nil} /\ t # n /\ t # p /\ (t = Nil <=> k = Len(q))
        /\ (t = Nil => p = g.tail[l])
    <2>1. \A i \in 1 .. Len(q) : q[i] # n
      BY DEF Has
    <2>2. /\ g \in Heap /\ Len(q) \in Nat /\ k \in Nat /\ k <= Len(q) /\ k # 0
          /\ (k + 1 \in 1 .. Len(q) <=> k # Len(q)) /\ k + 1 # k /\ k + 1 \in Int
      BY Ends, Listed
    <2>3. p \in Node /\ p # n /\ p = At(q, k) /\ t = At(q, k + 1) /\ t \in Node \union {Nil} /\ (t = Nil <=> k = Len(q))
      BY <2>1, <2>2, Ends
    <2>4. t # n
      BY <2>1, <2>2, <2>3, NilAssumption DEF At
    <2>5. t # p
      <3>1. CASE k = Len(q)
        BY <2>3, <3>1, NilAssumption
      <3>2. CASE k # Len(q)
        BY <2>2, <2>3, <3>2, Ends
      <3>3. QED BY <3>1, <3>2
    <2>6. t = Nil => p = g.tail[l]
      BY <2>3, Ends
    <2>7. QED BY <2>2, <2>3, <2>4, <2>5, <2>6
  <1> HIDE DEF q
  <1>2. h.next = [m \in Node |-> IF m = p THEN n ELSE IF m = n THEN t ELSE g.next[m]]
    BY <1>1 DEF InsertAfterNode, Heap
  <1>3. h.prev = [m \in Node |-> IF m = n THEN p ELSE IF m = t THEN n ELSE g.prev[m]]
    BY <1>1 DEF InsertAfterNode, Heap
  <1>4. h.owner = [g.owner EXCEPT ![n] = l]
    BY <1>1 DEF InsertAfterNode, Heap
  <1>5. h.head = g.head
    BY <1>1 DEF InsertAfterNode, Heap
  <1>6. h.tail = [g.tail EXCEPT ![l] = IF t = Nil /\ p = @ THEN n ELSE @]
    BY <1>1 DEF InsertAfterNode, Heap
  <1>7. h.size = [g.size EXCEPT ![l] = @ + 1]
    BY <1>1 DEF InsertAfterNode, Heap
  <1>8. h = [f \in DOMAIN h |-> h[f]]
    BY DEF InsertAfterNode
  <1>9. DOMAIN h = Fields
    BY <1>1 DEF InsertAfterNode, Heap, Fields
  <1> HIDE DEF h, p, t
  <1>10. h \in Heap
    <2>1. /\ h.next \in [Node -> Node \union {Nil}] /\ h.prev \in [Node -> Node \union {Nil}]
          /\ h.owner \in [Node -> ListId \union {Nil}]
      BY <1>1, <1>2, <1>3, <1>4, HeapFields
    <2>2. /\ h.head \in [ListId -> Node \union {Nil}] /\ h.tail \in [ListId -> Node \union {Nil}]
          /\ h.size \in [ListId -> Nat]
      BY <1>1, <1>5, <1>6, <1>7, HeapFields
    <2>3. QED BY <1>8, <1>9, <2>1, <2>2, HeapBuilt
  <1>11. \A m \in Node :
          /\ h.owner[m] = IF m = n THEN l ELSE g.owner[m]
          /\ h.next[m] = IF m = n THEN t ELSE IF m = p THEN n ELSE g.next[m]
          /\ h.prev[m] = IF m = n THEN p ELSE IF m = t THEN n ELSE g.prev[m]
    <2>1. \A m \in Node : h.owner[m] = IF m = n THEN l ELSE g.owner[m]
      BY <1>1, <1>4, HeapFields
    <2>2. \A m \in Node : h.next[m] = IF m = n THEN t ELSE IF m = p THEN n ELSE g.next[m]
      BY <1>1, <1>2
    <2>3. \A m \in Node : h.prev[m] = IF m = n THEN p ELSE IF m = t THEN n ELSE g.prev[m]
      BY <1>1, <1>3
    <2>4. QED BY <2>1, <2>2, <2>3
  <1>12. \A r \in ListId :
          /\ h.head[r] = g.head[r]
          /\ h.tail[r] = IF r = l /\ t = Nil THEN n ELSE g.tail[r]
          /\ h.size[r] = IF r = l THEN g.size[r] + 1 ELSE g.size[r]
    BY <1>1, <1>5, <1>6, <1>7, HeapFields
  <1>13. PutAt(g, h, l, q, k + 1, n)
    <2>1. k + 1 - 1 = k /\ k + 1 # 1 /\ (k + 1 = Len(q) + 1 <=> t = Nil)
      BY <1>1
    <2>2. QED BY <1>1, <1>10, <1>11, <1>12, <2>1 DEF PutAt
  <1>14. QED BY <1>13 DEF q, h

LEMMA BeforePuts ==
  ASSUME NEW g, NEW mk, NEW s, Represents(g, mk, s), NEW l \in ListId, NEW n \in Node, NEW k \in 1 .. Len(s[l]), ~Has(s[l], n)
  PROVE  PutAt(g, InsertBeforeNode(g, l, s[l][k], n), l, s[l], k, n)
  <1> DEFINE q == s[l]
             p == s[l][k]
             t == g.prev[p]
             h == InsertBeforeNode(g, l, s[l][k], n)
  <1>1. /\ g \in Heap /\ Len(q) \in Nat /\ k \in Nat /\ k <= Len(q) /\ k # 0
        /\ p \in Node /\ p # n /\ p = At(q, k)
        /\ t = At(q, k - 1) /\ t \in Node \union {Nil} /\ t # n /\ t # p /\ (t = Nil <=> k = 1)
        /\ (t = Nil => p = g.head[l])
    <2>1. \A i \in 1 .. Len(q) : q[i] # n
      BY DEF Has
    <2>2. /\ g \in Heap /\ Len(q) \in Nat /\ k \in Nat /\ k <= Len(q) /\ k # 0
          /\ (k - 1 \in 1 .. Len(q) <=> k # 1) /\ k - 1 # k /\ k - 1 \in Int
      BY Ends, Listed
    <2>3. p \in Node /\ p # n /\ p = At(q, k) /\ t = At(q, k - 1) /\ t \in Node \union {Nil} /\ (t = Nil <=> k = 1)
      BY <2>1, <2>2, Ends
    <2>4. t # n
      BY <2>1, <2>2, <2>3, NilAssumption DEF At
    <2>5. t # p
      <3>1. CASE k = 1
        BY <2>3, <3>1, NilAssumption
      <3>2. CASE k # 1
        BY <2>2, <2>3, <3>2, Ends
      <3>3. QED BY <3>1, <3>2
    <2>6. t = Nil => p = g.head[l]
      BY <2>3, Ends
    <2>7. QED BY <2>2, <2>3, <2>4, <2>5, <2>6
  <1> HIDE DEF q
  <1>2. h.next = [m \in Node |-> IF m = n THEN p ELSE IF m = t THEN n ELSE g.next[m]]
    BY <1>1 DEF InsertBeforeNode, Heap
  <1>3. h.prev = [m \in Node |-> IF m = p THEN n ELSE IF m = n THEN t ELSE g.prev[m]]
    BY <1>1 DEF InsertBeforeNode, Heap
  <1>4. h.owner = [g.owner EXCEPT ![n] = l]
    BY <1>1 DEF InsertBeforeNode, Heap
  <1>5. h.head = [g.head EXCEPT ![l] = IF t = Nil /\ p = @ THEN n ELSE @]
    BY <1>1 DEF InsertBeforeNode, Heap
  <1>6. h.tail = g.tail
    BY <1>1 DEF InsertBeforeNode, Heap
  <1>7. h.size = [g.size EXCEPT ![l] = @ + 1]
    BY <1>1 DEF InsertBeforeNode, Heap
  <1>8. h = [f \in DOMAIN h |-> h[f]]
    BY DEF InsertBeforeNode
  <1>9. DOMAIN h = Fields
    BY <1>1 DEF InsertBeforeNode, Heap, Fields
  <1> HIDE DEF h, p, t
  <1>10. h \in Heap
    <2>1. /\ h.next \in [Node -> Node \union {Nil}] /\ h.prev \in [Node -> Node \union {Nil}]
          /\ h.owner \in [Node -> ListId \union {Nil}]
      BY <1>1, <1>2, <1>3, <1>4, HeapFields
    <2>2. /\ h.head \in [ListId -> Node \union {Nil}] /\ h.tail \in [ListId -> Node \union {Nil}]
          /\ h.size \in [ListId -> Nat]
      BY <1>1, <1>5, <1>6, <1>7, HeapFields
    <2>3. QED BY <1>8, <1>9, <2>1, <2>2, HeapBuilt
  <1>11. \A m \in Node :
          /\ h.owner[m] = IF m = n THEN l ELSE g.owner[m]
          /\ h.next[m] = IF m = n THEN p ELSE IF m = t THEN n ELSE g.next[m]
          /\ h.prev[m] = IF m = n THEN t ELSE IF m = p THEN n ELSE g.prev[m]
    BY <1>1, <1>2, <1>3, <1>4, HeapFields
  <1>12. \A r \in ListId :
          /\ h.head[r] = IF r = l /\ t = Nil THEN n ELSE g.head[r]
          /\ h.tail[r] = g.tail[r]
          /\ h.size[r] = IF r = l THEN g.size[r] + 1 ELSE g.size[r]
    BY <1>1, <1>5, <1>6, <1>7, HeapFields
  <1>13. PutAt(g, h, l, q, k, n)
    <2>1. k # Len(q) + 1
      BY <1>1
    <2>2. QED BY <1>1, <1>10, <1>11, <1>12, <2>1 DEF PutAt
  <1>14. QED BY <1>13 DEF q, h

LEMMA DeleteTakes ==
  ASSUME NEW g, NEW mk, NEW s, Represents(g, mk, s), NEW l \in ListId, NEW k \in 1 .. Len(s[l])
  PROVE  TakeAt(g, DeleteNode(g, l, s[l][k]), l, s[l], k)
  <1> DEFINE q == s[l]
             n == s[l][k]
             t == g.prev[n]
             u == g.next[n]
             h == DeleteNode(g, l, s[l][k])
  <1>1. /\ g \in Heap /\ Len(q) \in Nat /\ k \in Nat /\ k <= Len(q) /\ k # 0
        /\ n \in Node /\ n = q[k] /\ t = At(q, k - 1) /\ u = At(q, k + 1)
        /\ t \in Node \union {Nil} /\ u \in Node \union {Nil}
        /\ (n = g.head[l] <=> k = 1) /\ (n = g.tail[l] <=> k = Len(q))
        /\ g.size[l] - 1 \in Nat
    <2>1. /\ g \in Heap /\ Len(q) \in Nat /\ k \in Nat /\ k <= Len(q) /\ k # 0
          /\ k - 1 \in Int /\ k + 1 \in Int /\ 1 \in 1 .. Len(q) /\ Len(q) \in 1 .. Len(q)
      BY Ends, Listed
    <2>2. /\ n \in Node /\ n = q[k] /\ n = At(q, k) /\ t = At(q, k - 1) /\ u = At(q, k + 1)
          /\ t \in Node \union {Nil} /\ u \in Node \union {Nil}
      BY <2>1, Ends
    <2>3. (n = g.head[l] <=> k = 1) /\ (n = g.tail[l] <=> k = Len(q))
      BY <2>1, <2>2, Ends
    <2>4. g.size[l] - 1 \in Nat
      BY <2>1, Ends
    <2>5. QED BY <2>1, <2>2, <2>3, <2>4
  <1> HIDE DEF q
  <1>2. h.next = [m \in Node |-> IF m = t THEN u ELSE g.next[m]]
    BY <1>1 DEF DeleteNode, Heap
  <1>3. h.prev = [m \in Node |-> IF m = u THEN t ELSE g.prev[m]]
    BY <1>1 DEF DeleteNode, Heap
  <1>4. h.owner = g.owner
    BY <1>1 DEF DeleteNode, Heap
  <1>5. h.head = [g.head EXCEPT ![l] = IF n = @ THEN u ELSE @]
    BY <1>1 DEF DeleteNode, Heap
  <1>6. h.tail = [g.tail EXCEPT ![l] = IF n = @ THEN t ELSE @]
    BY <1>1 DEF DeleteNode, Heap
  <1>7. h.size = [g.size EXCEPT ![l] = @ - 1]
    BY <1>1 DEF DeleteNode, Heap
  <1>8. h = [f \in DOMAIN h |-> h[f]]
    BY DEF DeleteNode
  <1>9. DOMAIN h = Fields
    BY <1>1 DEF DeleteNode, Heap, Fields
  <1> HIDE DEF h, n, t, u
  <1>10. h \in Heap
    <2>1. /\ h.next \in [Node -> Node \union {Nil}] /\ h.prev \in [Node -> Node \union {Nil}]
          /\ h.owner \in [Node -> ListId \union {Nil}]
      BY <1>1, <1>2, <1>3, <1>4, HeapFields
    <2>2. /\ h.head \in [ListId -> Node \union {Nil}] /\ h.tail \in [ListId -> Node \union {Nil}]
          /\ h.size \in [ListId -> Nat]
      BY <1>1, <1>5, <1>6, <1>7, HeapFields
    <2>3. QED BY <1>8, <1>9, <2>1, <2>2, HeapBuilt
  <1>11. \A m \in Node :
          /\ h.owner[m] = g.owner[m]
          /\ h.next[m] = IF m = t THEN u ELSE g.next[m]
          /\ h.prev[m] = IF m = u THEN t ELSE g.prev[m]
    BY <1>1, <1>2, <1>3, <1>4, HeapFields
  <1>12. \A r \in ListId :
          /\ h.head[r] = IF r = l /\ k = 1 THEN u ELSE g.head[r]
          /\ h.tail[r] = IF r = l /\ k = Len(q) THEN t ELSE g.tail[r]
          /\ h.size[r] = IF r = l THEN g.size[r] - 1 ELSE g.size[r]
    BY <1>1, <1>5, <1>6, <1>7, HeapFields
  <1>13. TakeAt(g, h, l, q, k)
    <2>1. (k = 1 => k + 1 = 2) /\ (k = Len(q) => k - 1 = Len(q) - 1)
      BY <1>1
    <2>2. QED BY <1>1, <1>10, <1>11, <1>12, <2>1 DEF TakeAt
  <1>14. QED BY <1>13 DEF q, h

LEMMA PopBackTakes ==
  ASSUME NEW g, NEW mk, NEW s, Represents(g, mk, s), NEW l \in ListId, g.head[l] # Nil
  PROVE  TakeAt(g, PopBackNode(g, l), l, s[l], Len(s[l]))
  <1> DEFINE q == s[l]
             n == g.tail[l]
             t == g.prev[n]
             h == PopBackNode(g, l)
  <1>1. /\ g \in Heap /\ Len(q) \in Nat /\ Len(q) # 0
        /\ n \in Node /\ n = q[Len(q)] /\ t = At(q, Len(q) - 1) /\ At(q, Len(q) + 1) = Nil
        /\ t \in Node \union {Nil} /\ (t = Nil <=> Len(q) = 1) /\ (n = g.head[l] <=> Len(q) = 1)
        /\ At(q, 2) = (IF Len(q) = 1 THEN Nil ELSE At(q, 2))
        /\ g.size[l] - 1 \in Nat
    <2>0. g \in Heap /\ Len(q) \in Nat /\ g.head[l] = At(q, 1) /\ g.tail[l] = At(q, Len(q)) /\ g.size[l] = Len(q)
      BY Ends, Listed
    <2>1. /\ Len(q) # 0 /\ 1 \in 1 .. Len(q) /\ Len(q) \in 1 .. Len(q) /\ Len(q) + 1 \notin 1 .. Len(q)
          /\ Len(q) - 1 \in Int /\ (Len(q) - 1 \in 1 .. Len(q) <=> Len(q) # 1) /\ (Len(q) = 1 => 2 \notin 1 .. Len(q))
      <3>1. Len(q) # 0
        BY <2>0 DEF At
      <3>2. \A x \in Nat : x # 0 => /\ 1 \in 1 .. x /\ x \in 1 .. x /\ x + 1 \notin 1 .. x /\ x - 1 \in Int
                                    /\ (x - 1 \in 1 .. x <=> x # 1) /\ (x = 1 => 2 \notin 1 .. x)
        OBVIOUS
      <3>3. QED BY <2>0, <3>1, <3>2
    <2>2. n \in Node /\ n = q[Len(q)] /\ n = At(q, Len(q)) /\ t = At(q, Len(q) - 1) /\ t \in Node \union {Nil}
      BY <2>0, <2>1, Ends
    <2>3. (n = g.head[l] <=> Len(q) = 1) /\ (t = Nil <=> Len(q) = 1)
      BY <2>0, <2>1, <2>2, Ends
    <2>4. At(q, Len(q) + 1) = Nil /\ At(q, 2) = (IF Len(q) = 1 THEN Nil ELSE At(q, 2))
      BY <2>1 DEF At
    <2>5. QED BY <2>0, <2>1, <2>2, <2>3, <2>4
  <1> HIDE DEF q
  <1>2. h.next = [m \in Node |-> IF m \in {n, t} THEN Nil ELSE g.next[m]]
    BY <1>1 DEF PopBackNode, Heap
  <1>3. h.prev = [g.prev EXCEPT ![n] = Nil]
    BY <1>1 DEF PopBackNode, Heap
  <1>4. h.owner = [g.owner EXCEPT ![n] = Nil]
    BY <1>1 DEF PopBackNode, Heap
  <1>5. h.head = [g.head EXCEPT ![l] = IF t = Nil THEN Nil ELSE IF n = @ THEN t ELSE @]
    BY <1>1 DEF PopBackNode, Heap
  <1>6. h.tail = [g.tail EXCEPT ![l] = t]
    BY <1>1 DEF PopBackNode, Heap
  <1>7. h.size = [g.size EXCEPT ![l] = @ - 1]
    BY <1>1 DEF PopBackNode, Heap
  <1>8. h = [f \in DOMAIN h |-> h[f]]
    BY ZenonT(30) DEF PopBackNode
  <1>9. DOMAIN h = Fields
    BY <1>1 DEF PopBackNode, Heap, Fields
  <1> HIDE DEF h, n, t
  <1>10. h \in Heap
    <2>1. /\ h.next \in [Node -> Node \union {Nil}] /\ h.prev \in [Node -> Node \union {Nil}]
          /\ h.owner \in [Node -> ListId \union {Nil}]
      BY <1>1, <1>2, <1>3, <1>4, HeapFields
    <2>2. /\ h.head \in [ListId -> Node \union {Nil}] /\ h.tail \in [ListId -> Node \union {Nil}]
          /\ h.size \in [ListId -> Nat]
      BY <1>1, <1>5, <1>6, <1>7, HeapFields
    <2>3. QED BY <1>8, <1>9, <2>1, <2>2, HeapBuilt
  <1>11. \A m \in Node :
          /\ m # n => h.owner[m] = g.owner[m]
          /\ m # n => h.next[m] = IF m = t THEN Nil ELSE g.next[m]
          /\ m # n => h.prev[m] = g.prev[m]
    BY <1>1, <1>2, <1>3, <1>4, HeapFields, ZenonT(30)
  <1>12. \A r \in ListId :
          /\ h.head[r] = IF r = l /\ Len(q) = 1 THEN Nil ELSE g.head[r]
          /\ h.tail[r] = IF r = l THEN t ELSE g.tail[r]
          /\ h.size[r] = IF r = l THEN g.size[r] - 1 ELSE g.size[r]
    BY <1>1, <1>5, <1>6, <1>7, HeapFields
  <1>13. TakeAt(g, h, l, q, Len(q))
    <2>1. \A m \in Node : m # Nil
      BY NilAssumption
    <2>2. QED BY <1>1, <1>10, <1>11, <1>12, <2>1 DEF TakeAt
  <1>14. QED BY <1>13 DEF q, h

LEMMA PopFrontTakes ==
  ASSUME NEW g, NEW mk, NEW s, Represents(g, mk, s), NEW l \in ListId, g.head[l] # Nil
  PROVE  TakeAt(g, PopFrontNode(g, l), l, s[l], 1)
  <1> DEFINE q == s[l]
             n == g.head[l]
             d == g.next[n]
             h == PopFrontNode(g, l)
  <1>1. /\ g \in Heap /\ Len(q) \in Nat /\ Len(q) # 0
        /\ n \in Node /\ n = q[1] /\ d = At(q, 2) /\ At(q, 0) = Nil
        /\ d \in Node \union {Nil} /\ (d = Nil <=> Len(q) = 1)
        /\ (Len(q) = 1 => At(q, Len(q) - 1) = Nil)
        /\ g.size[l] - 1 \in Nat
    <2>0. g \in Heap /\ Len(q) \in Nat /\ g.head[l] = At(q, 1) /\ g.size[l] = Len(q)
      BY Ends, Listed
    <2>1. /\ Len(q) # 0 /\ 1 \in 1 .. Len(q) /\ 0 \notin 1 .. Len(q) /\ 1 + 1 = 2
          /\ (2 \in 1 .. Len(q) <=> Len(q) # 1) /\ (Len(q) = 1 => Len(q) - 1 = 0)
      <3>1. Len(q) # 0
        BY <2>0 DEF At
      <3>2. \A x \in Nat : x # 0 => /\ 1 \in 1 .. x /\ 0 \notin 1 .. x /\ 1 + 1 = 2
                                    /\ (2 \in 1 .. x <=> x # 1) /\ (x = 1 => x - 1 = 0)
        OBVIOUS
      <3>3. QED BY <2>0, <3>1, <3>2
    <2>2. n \in Node /\ n = q[1] /\ n = At(q, 1) /\ d = At(q, 2) /\ d \in Node \union {Nil}
      BY <2>0, <2>1, Ends
    <2>3. d = Nil <=> Len(q) = 1
      BY <2>0, <2>1, <2>2, Ends
    <2>4. At(q, 0) = Nil
      BY <2>1 DEF At
    <2>5. QED BY <2>0, <2>1, <2>2, <2>3, <2>4
  <1> HIDE DEF q
  <1>2. h.next = [g.next EXCEPT ![n] = Nil]
    BY <1>1 DEF PopFrontNode, Heap
  <1>3. h.prev = [m \in Node |-> IF m \in {n, d} THEN Nil ELSE g.prev[m]]
    BY <1>1 DEF PopFrontNode, Heap
  <1>4. h.owner = [g.owner EXCEPT ![n] = Nil]
    BY <1>1 DEF PopFrontNode, Heap
  <1>5. h.head = [g.head EXCEPT ![l] = d]
    BY <1>1 DEF PopFrontNode, Heap
  <1>6. h.tail = [g.tail EXCEPT ![l] = IF d = Nil THEN Nil ELSE @]
    BY <1>1 DEF PopFrontNode, Heap
  <1>7. h.size = [g.size EXCEPT ![l] = @ - 1]
    BY <1>1 DEF PopFrontNode, Heap
  <1>8. h = [f \in DOMAIN h |-> h[f]]
    BY ZenonT(30) DEF PopFrontNode
  <1>9. DOMAIN h = Fields
    BY <1>1 DEF PopFrontNode, Heap, Fields
  <1> HIDE DEF h, n, d
  <1>10. h \in Heap
    <2>1. /\ h.next \in [Node -> Node \union {Nil}] /\ h.prev \in [Node -> Node \union {Nil}]
          /\ h.owner \in [Node -> ListId \union {Nil}]
      BY <1>1, <1>2, <1>3, <1>4, HeapFields
    <2>2. /\ h.head \in [ListId -> Node \union {Nil}] /\ h.tail \in [ListId -> Node \union {Nil}]
          /\ h.size \in [ListId -> Nat]
      BY <1>1, <1>5, <1>6, <1>7, HeapFields
    <2>3. QED BY <1>8, <1>9, <2>1, <2>2, HeapBuilt
  <1>11. \A m \in Node :
          /\ m # n => h.owner[m] = g.owner[m]
          /\ m # n => h.next[m] = g.next[m]
          /\ m # n => h.prev[m] = IF m = d THEN Nil ELSE g.prev[m]
    BY <1>1, <1>2, <1>3, <1>4, HeapFields
  <1>12. \A r \in ListId :
          /\ h.head[r] = IF r = l THEN d ELSE g.head[r]
          /\ h.tail[r] = IF r = l /\ Len(q) = 1 THEN Nil ELSE g.tail[r]
          /\ h.size[r] = IF r = l THEN g.size[r] - 1 ELSE g.size[r]
    BY <1>1, <1>5, <1>6, <1>7, HeapFields
  <1>13. TakeAt(g, h, l, q, 1)
    <2>1. (\A m \in Node : m # Nil) /\ 1 - 1 = 0 /\ 1 + 1 = 2
      BY NilAssumption
    <2>2. QED BY <1>1, <1>10, <1>11, <1>12, <2>1 DEF TakeAt
  <1>14. QED BY <1>13 DEF q, h

(* list_swap of two members that are not neighbours.                        *)
LEMMA SwapFields ==
  ASSUME NEW g \in Heap, NEW a \in Node, NEW b \in Node, a # b,
         g.prev[a] # a, g.next[a] # a, g.prev[b] # b, g.next[b] # b,
         g.prev[a] # b, g.next[a] # b, g.prev[b] # a, g.next[b] # a, g.owner[a] \in ListId
  PROVE  LET h == SwapNodes(g, a, b)
             l == g.owner[a] IN
         /\ h \in Heap /\ h.owner = g.owner /\ h.size = g.size
         /\ \A m \in Node :
              /\ h.next[m] = IF m = a THEN g.next[b] ELSE IF m = b THEN g.next[a]
                             ELSE IF m = g.prev[b] THEN a ELSE IF m = g.prev[a] THEN b ELSE g.next[m]
              /\ h.prev[m] = IF m = a THEN g.prev[b] ELSE IF m = b THEN g.prev[a]
                             ELSE IF m = g.next[b] THEN a ELSE IF m = g.next[a] THEN b ELSE g.prev[m]
         /\ \A r \in ListId :
              /\ h.head[r] = IF r # l THEN g.head[r] ELSE IF g.prev[b] = Nil THEN a
                             ELSE IF g.prev[a] = Nil THEN b ELSE g.head[r]
              /\ h.tail[r] = IF r # l THEN g.tail[r] ELSE IF g.next[b] = Nil THEN a
                             ELSE IF g.next[a] = Nil THEN b ELSE g.tail[r]
  <1> DEFINE h == SwapNodes(g, a, b)
             l == g.owner[a]
             nextA == [m \in Node |-> IF m = g.prev[a] THEN b ELSE g.next[m]]
             prevA == [m \in Node |-> IF m = nextA[a] THEN b ELSE g.prev[m]]
             prevB == [m \in Node |-> IF m = nextA[b] THEN a ELSE prevA[m]]
             nextB == [m \in Node |-> IF m = prevB[b] THEN a ELSE nextA[m]]
             nextC == [nextB EXCEPT ![a] = nextB[b], ![b] = nextB[a]]
             prevC == [prevB EXCEPT ![a] = prevB[b], ![b] = prevB[a]]
             head2 == [g.head EXCEPT ![l] = IF prevC[a] = Nil THEN a ELSE IF prevC[b] = Nil THEN b ELSE @]
             tail2 == [g.tail EXCEPT ![l] = IF nextC[a] = Nil THEN a ELSE IF nextC[b] = Nil THEN b ELSE @]
  <1>1. h = [g EXCEPT !.next = nextC, !.prev = prevC,
               !.tail[l] = IF nextC[a] = Nil THEN a ELSE IF nextC[b] = Nil THEN b ELSE @,
               !.head[l] = IF prevC[a] = Nil THEN a ELSE IF prevC[b] = Nil THEN b ELSE @]
    BY DEF SwapNodes
  <1> HIDE DEF h, nextC, prevC
  <1>2. h.next = nextC
    BY <1>1 DEF Heap
  <1>3. h.prev = prevC
    BY <1>1 DEF Heap
  <1>4. h.tail = tail2
    BY <1>1 DEF Heap
  <1>5. h.head = head2
    BY <1>1 DEF Heap
  <1>6. h.owner = g.owner
    BY <1>1 DEF Heap
  <1>7. h.size = g.size
    BY <1>1 DEF Heap
  <1>8. h = [f \in DOMAIN h |-> h[f]]
    BY <1>1
  <1>9. DOMAIN h = Fields
    BY <1>1 DEF Heap, Fields
  <1> HIDE DEF nextA, prevA, nextB, prevB
  <1>10. /\ \A m \in Node : nextA[m] = IF m = g.prev[a] THEN b ELSE g.next[m]
         /\ nextA[a] = g.next[a] /\ nextA[b] = g.next[b]
    BY DEF nextA
  <1>11. \A m \in Node : prevA[m] = IF m = g.next[a] THEN b ELSE g.prev[m]
    BY <1>10 DEF prevA
  <1>12. /\ \A m \in Node : prevB[m] = IF m = g.next[b] THEN a ELSE IF m = g.next[a] THEN b ELSE g.prev[m]
         /\ prevB[a] = g.prev[a] /\ prevB[b] = g.prev[b]
    BY <1>10, <1>11 DEF prevB
  <1>13. /\ \A m \in Node : nextB[m] = IF m = g.prev[b] THEN a ELSE IF m = g.prev[a] THEN b ELSE g.next[m]
         /\ nextB[a] = g.next[a] /\ nextB[b] = g.next[b]
    BY <1>10, <1>12 DEF nextB
  <1>14. /\ nextB \in [Node -> Node \union {Nil}] /\ prevB \in [Node -> Node \union {Nil}]
    <2>1. \A m \in Node : nextB[m] \in Node \union {Nil} /\ prevB[m] \in Node \union {Nil}
      BY <1>12, <1>13, HeapFields
    <2>2. nextB = [m \in Node |-> nextB[m]] /\ prevB = [m \in Node |-> prevB[m]]
      BY DEF nextB, prevB
    <2>3. QED BY <2>1, <2>2
  <1>15. /\ nextC \in [Node -> Node \union {Nil}]
         /\ \A m \in Node : nextC[m] = IF m = a THEN g.next[b] ELSE IF m = b THEN g.next[a] ELSE nextB[m]
    BY <1>13, <1>14, HeapFields DEF nextC
  <1>16. /\ prevC \in [Node -> Node \union {Nil}]
         /\ \A m \in Node : prevC[m] = IF m = a THEN g.prev[b] ELSE IF m = b THEN g.prev[a] ELSE prevB[m]
    BY <1>12, <1>14, HeapFields DEF prevC
  <1>17. /\ h.head \in [ListId -> Node \union {Nil}] /\ h.tail \in [ListId -> Node \union {Nil}]
         /\ \A r \in ListId :
              /\ h.head[r] = IF r # l THEN g.head[r] ELSE IF g.prev[b] = Nil THEN a
                             ELSE IF g.prev[a] = Nil THEN b ELSE g.head[r]
              /\ h.tail[r] = IF r # l THEN g.tail[r] ELSE IF g.next[b] = Nil THEN a
                             ELSE IF g.next[a] = Nil THEN b ELSE g.tail[r]
    <2>1. prevC[a] = g.prev[b] /\ prevC[b] = g.prev[a] /\ nextC[a] = g.next[b] /\ nextC[b] = g.next[a]
      BY <1>15, <1>16
    <2>2. QED BY <1>4, <1>5, <2>1, HeapFields
  <1>18. h \in Heap
    BY <1>2, <1>3, <1>6, <1>7, <1>8, <1>9, <1>15, <1>16, <1>17, HeapFields, HeapBuilt
  <1>19. \A m \in Node :
              /\ h.next[m] = IF m = a THEN g.next[b] ELSE IF m = b THEN g.next[a]
                             ELSE IF m = g.prev[b] THEN a ELSE IF m = g.prev[a] THEN b ELSE g.next[m]
              /\ h.prev[m] = IF m = a THEN g.prev[b] ELSE IF m = b THEN g.prev[a]
                             ELSE IF m = g.next[b] THEN a ELSE IF m = g.next[a] THEN b ELSE g.prev[m]
    <2>1. \A m \in Node : h.next[m] = IF m = a THEN g.next[b] ELSE IF m = b THEN g.next[a] ELSE nextB[m]
      BY <1>2, <1>15
    <2>2. \A m \in Node : h.prev[m] = IF m = a THEN g.prev[b] ELSE IF m = b THEN g.prev[a] ELSE prevB[m]
      BY <1>3, <1>16
    <2>3. QED BY <1>12, <1>13, <2>1, <2>2, ZenonT(30)
  <1>20. QED BY <1>6, <1>7, <1>17, <1>18, <1>19 DEF h

LEMMA SwapStep ==
  ASSUME NEW g, NEW mk, NEW s, Represents(g, mk, s), NEW l \in ListId,
         NEW i \in 1 .. Len(s[l]), NEW j \in 1 .. Len(s[l]), i # j, i + 1 # j, j + 1 # i
  PROVE  Represents(SwapNodes(g, s[l][i], s[l][j]), mk,
                    [s EXCEPT ![l] = [@ EXCEPT ![i] = s[l][j], ![j] = s[l][i]]])
  <1> DEFINE q == s[l]
             a == q[i]
             b == q[j]
             t == [q EXCEPT ![i] = b, ![j] = a]
             h == SwapNodes(g, a, b)
             u == [s EXCEPT ![l] = t]
  <1>1. g \in Heap /\ mk \subseteq Node /\ s \in [ListId -> Seq(Node)]
    BY DEF Represents
  <1>2. /\ q \in Seq(Node) /\ Distinct(q) /\ Owns(g, mk, l, q)
        /\ \A k \in 1 .. Len(q) : q[k] \in Node /\ g.owner[q[k]] = l
    BY Listed
  <1>3. /\ Len(q) \in Nat /\ g.size[l] = Len(q)
        /\ g.head[l] = At(q, 1) /\ g.tail[l] = At(q, Len(q))
        /\ \A k \in Int : At(q, k) \in Node \union {Nil} /\ (At(q, k) = Nil <=> k \notin 1 .. Len(q))
        /\ \A k \in 1 .. Len(q) :
             /\ q[k] \in Node /\ q[k] # Nil /\ At(q, k) = q[k]
             /\ g.next[q[k]] = At(q, k + 1) /\ g.prev[q[k]] = At(q, k - 1)
    BY Ends
  <1>4. i \in 1 .. Len(q) /\ j \in 1 .. Len(q) /\ i \in Int /\ j \in Int
    BY <1>3
  <1>5. s[l] = q /\ u = [s EXCEPT ![l] = t] /\ h = SwapNodes(g, a, b)
    OBVIOUS
  <1> HIDE DEF q
  <1>6. /\ a \in Node /\ b \in Node /\ a # Nil /\ b # Nil /\ a # b /\ g.owner[a] = l
        /\ g.next[a] = At(q, i + 1) /\ g.prev[a] = At(q, i - 1)
        /\ g.next[b] = At(q, j + 1) /\ g.prev[b] = At(q, j - 1)
    BY <1>2, <1>3, <1>4 DEF Distinct
  <1>7. \A k \in Int : (At(q, k) = a <=> k = i) /\ (At(q, k) = b <=> k = j)
    BY <1>2, <1>4, <1>6 DEF At, Distinct
  <1>8. \A k, m \in Int : At(q, k) = At(q, m) /\ At(q, k) # Nil => k = m
    <2> SUFFICES ASSUME NEW k \in Int, NEW m \in Int, At(q, k) = At(q, m), At(q, k) # Nil PROVE k = m
      OBVIOUS
    <2>1. k \in 1 .. Len(q) /\ m \in 1 .. Len(q)
      BY <1>3
    <2>2. q[k] = q[m]
      BY <1>3, <2>1
    <2>3. QED BY <1>2, <2>1, <2>2 DEF Distinct
  <1>9. t \in Seq(Node) /\ Len(t) = Len(q)
    <2>1. q \in [1 .. Len(q) -> Node]
      BY <1>2
    <2>2. t \in [1 .. Len(q) -> Node]
      BY <1>6, <2>1
    <2>3. DOMAIN t = 1 .. Len(q) /\ t \in Seq(Node)
      <3> HIDE DEF t
      <3>1. [1 .. Len(q) -> Node] \in {[1 .. n -> Node] : n \in Nat}
        BY <1>3
      <3>2. Seq(Node) = UNION {[1 .. n -> Node] : n \in Nat}
        BY SeqDef
      <3>3. QED BY <2>2, <3>1, <3>2
    <2>4. QED BY <1>3, <2>3, LenProperties
  <1>10. \A k \in Int : At(t, k) = IF k = i THEN b ELSE IF k = j THEN a ELSE At(q, k)
    <2>1. \A k \in 1 .. Len(q) : t[k] = IF k = i THEN b ELSE IF k = j THEN a ELSE q[k]
      <3>1. q \in [1 .. Len(q) -> Node]
        BY <1>2
      <3>2. QED BY <1>4, <3>1
    <2>2. QED BY <1>4, <1>9, <2>1 DEF At
  <1> HIDE DEF a, b, t
  <1>11. /\ g.prev[a] # a /\ g.next[a] # a /\ g.prev[b] # b /\ g.next[b] # b
         /\ g.prev[a] # b /\ g.next[a] # b /\ g.prev[b] # a /\ g.next[b] # a
    <2>1. /\ i + 1 \in Int /\ i - 1 \in Int /\ j + 1 \in Int /\ j - 1 \in Int
          /\ i + 1 # i /\ i - 1 # i /\ j + 1 # j /\ j - 1 # j /\ i - 1 # j /\ j - 1 # i
      BY <1>4
    <2>2. QED BY <1>6, <1>7, <2>1
  <1>12. /\ h \in Heap /\ h.owner = g.owner /\ h.size = g.size
         /\ \A m \in Node :
              /\ h.next[m] = IF m = a THEN g.next[b] ELSE IF m = b THEN g.next[a]
                             ELSE IF m = g.prev[b] THEN a ELSE IF m = g.prev[a] THEN b ELSE g.next[m]
              /\ h.prev[m] = IF m = a THEN g.prev[b] ELSE IF m = b THEN g.prev[a]
                             ELSE IF m = g.next[b] THEN a ELSE IF m = g.next[a] THEN b ELSE g.prev[m]
         /\ \A r \in ListId :
              /\ h.head[r] = IF r # l THEN g.head[r] ELSE IF g.prev[b] = Nil THEN a
                             ELSE IF g.prev[a] = Nil THEN b ELSE g.head[r]
              /\ h.tail[r] = IF r # l THEN g.tail[r] ELSE IF g.next[b] = Nil THEN a
                             ELSE IF g.next[a] = Nil THEN b ELSE g.tail[r]
    BY <1>1, <1>5, <1>6, <1>11, SwapFields
  <1> HIDE DEF h
  <1>13. ASSUME NEW k \in 1 .. Len(t) PROVE h.next[t[k]] = At(t, k + 1) /\ h.prev[t[k]] = At(t, k - 1)
    <2>1. /\ k \in 1 .. Len(q) /\ k \in Int /\ k + 1 \in Int /\ k - 1 \in Int
          /\ t[k] = At(t, k) /\ At(q, k) # Nil
      BY <1>3, <1>9 DEF At
    <2>2. CASE k = i
      <3>1. t[k] = b /\ k + 1 # i /\ k + 1 # j /\ k - 1 # i /\ k - 1 # j
        BY <1>4, <1>10, <2>1, <2>2
      <3>2. At(t, k + 1) = At(q, i + 1) /\ At(t, k - 1) = At(q, i - 1)
        BY <1>10, <2>1, <2>2, <3>1
      <3>3. QED BY <1>6, <1>12, <3>1, <3>2
    <2>3. CASE k = j
      <3>1. t[k] = a /\ k + 1 # i /\ k + 1 # j /\ k - 1 # i /\ k - 1 # j
        BY <1>4, <1>10, <2>1, <2>3
      <3>2. At(t, k + 1) = At(q, j + 1) /\ At(t, k - 1) = At(q, j - 1)
        BY <1>10, <2>1, <2>3, <3>1
      <3>3. QED BY <1>6, <1>12, <3>1, <3>2
    <2>4. CASE k # i /\ k # j
      <3>1. t[k] = At(q, k) /\ t[k] = q[k] /\ t[k] \in Node /\ t[k] # a /\ t[k] # b
        BY <1>3, <1>7, <1>10, <2>1, <2>4
      <3>2. (t[k] = g.prev[b] <=> k + 1 = j) /\ (t[k] = g.prev[a] <=> k + 1 = i)
        <4>1. (t[k] = At(q, j - 1) <=> k = j - 1) /\ (t[k] = At(q, i - 1) <=> k = i - 1)
          <5>1. j - 1 \in Int /\ i - 1 \in Int /\ At(q, k) # Nil /\ t[k] = At(q, k) /\ k \in Int
            BY <1>4, <2>1, <3>1
          <5>2. t[k] = At(q, j - 1) <=> k = j - 1
            BY <1>8, <5>1
          <5>3. t[k] = At(q, i - 1) <=> k = i - 1
            BY <1>8, <5>1
          <5>4. QED BY <5>2, <5>3
        <4>2. (k = j - 1 <=> k + 1 = j) /\ (k = i - 1 <=> k + 1 = i)
          BY <1>4, <2>1
        <4>3. QED BY <1>6, <4>1, <4>2
      <3>3. (t[k] = g.next[b] <=> k - 1 = j) /\ (t[k] = g.next[a] <=> k - 1 = i)
        <4>1. (t[k] = At(q, j + 1) <=> k = j + 1) /\ (t[k] = At(q, i + 1) <=> k = i + 1)
          <5>1. j + 1 \in Int /\ i + 1 \in Int /\ At(q, k) # Nil /\ t[k] = At(q, k) /\ k \in Int
            BY <1>4, <2>1, <3>1
          <5>2. t[k] = At(q, j + 1) <=> k = j + 1
            BY <1>8, <5>1
          <5>3. t[k] = At(q, i + 1) <=> k = i + 1
            BY <1>8, <5>1
          <5>4. QED BY <5>2, <5>3
        <4>2. (k = j + 1 <=> k - 1 = j) /\ (k = i + 1 <=> k - 1 = i)
          BY <1>4, <2>1
        <4>3. QED BY <1>6, <4>1, <4>2
      <3>4. h.next[t[k]] = IF k + 1 = j THEN a ELSE IF k + 1 = i THEN b ELSE At(q, k + 1)
        <4>1. g.next[t[k]] = At(q, k + 1)
          BY <1>3, <2>1, <3>1
        <4>2. h.next[t[k]] = IF t[k] = g.prev[b] THEN a ELSE IF t[k] = g.prev[a] THEN b ELSE g.next[t[k]]
          BY <1>12, <3>1
        <4>3. QED BY <3>2, <4>1, <4>2
      <3>5. h.prev[t[k]] = IF k - 1 = j THEN a ELSE IF k - 1 = i THEN b ELSE At(q, k - 1)
        <4>1. g.prev[t[k]] = At(q, k - 1)
          BY <1>3, <2>1, <3>1
        <4>2. h.prev[t[k]] = IF t[k] = g.next[b] THEN a ELSE IF t[k] = g.next[a] THEN b ELSE g.prev[t[k]]
          BY <1>12, <3>1
        <4>3. QED BY <3>3, <4>1, <4>2
      <3>6. QED BY <1>10, <2>1, <3>4, <3>5
    <2>5. QED BY <2>2, <2>3, <2>4
  <1>14. h.head[l] = At(t, 1) /\ h.tail[l] = At(t, Len(t)) /\ h.size[l] = Len(t)
    <2>1. /\ (g.prev[a] = Nil <=> i = 1) /\ (g.prev[b] = Nil <=> j = 1)
          /\ (g.next[a] = Nil <=> i = Len(q)) /\ (g.next[b] = Nil <=> j = Len(q))
      <3>1. /\ (i - 1 \notin 1 .. Len(q) <=> i = 1) /\ (j - 1 \notin 1 .. Len(q) <=> j = 1)
            /\ (i + 1 \notin 1 .. Len(q) <=> i = Len(q)) /\ (j + 1 \notin 1 .. Len(q) <=> j = Len(q))
            /\ i - 1 \in Int /\ j - 1 \in Int /\ i + 1 \in Int /\ j + 1 \in Int
        BY <1>3, <1>4
      <3>2. QED BY <1>3, <1>6, <3>1
    <2>2. h.head[l] = IF j = 1 THEN a ELSE IF i = 1 THEN b ELSE At(q, 1)
      BY <1>3, <1>12, <2>1
    <2>3. h.tail[l] = IF j = Len(q) THEN a ELSE IF i = Len(q) THEN b ELSE At(q, Len(q))
      BY <1>3, <1>12, <2>1
    <2>4. QED BY <1>3, <1>9, <1>10, <1>12, <2>2, <2>3
  <1>15. Chain(h, l, t)
    BY <1>13, <1>14 DEF Chain
  <1>16. \A k \in 1 .. Len(t) : t[k] = IF k = i THEN q[j] ELSE IF k = j THEN q[i] ELSE q[k]
    BY <1>3, <1>4, <1>9, <1>10 DEF At, a, b
  <1>17. Distinct(t)
    BY <1>2, <1>4, <1>9, <1>16 DEF Distinct
  <1>18. \A m \in Node : Has(t, m) <=> Has(q, m)
    <2>1. ASSUME NEW m \in Node, Has(t, m) PROVE Has(q, m)
      BY <1>4, <1>9, <1>16, <2>1 DEF Has
    <2>2. ASSUME NEW m \in Node, Has(q, m) PROVE Has(t, m)
      <3>1. PICK k \in 1 .. Len(q) : q[k] = m
        BY <2>2 DEF Has
      <3>2. t[i] = q[j] /\ t[j] = q[i] /\ (k # i /\ k # j => t[k] = q[k])
        BY <1>4, <1>9, <1>16
      <3>3. QED BY <1>4, <1>9, <3>1, <3>2 DEF Has
    <2>3. QED BY <2>1, <2>2
  <1>19. u \in [ListId -> Seq(Node)] /\ u[l] = t /\ \A r \in ListId \ {l} : u[r] = s[r]
    BY <1>1, <1>9
  <1>20. ASSUME NEW r \in ListId PROVE Chain(h, r, u[r]) /\ Distinct(u[r]) /\ Owns(h, mk, r, u[r])
    <2>1. CASE r = l
      <3>1. Owns(h, mk, l, t)
        BY <1>2, <1>12, <1>18 DEF Owns
      <3>2. QED BY <1>15, <1>17, <1>19, <2>1, <3>1
    <2>2. CASE r # l
      <3>1. /\ s[r] \in Seq(Node) /\ Chain(g, r, s[r]) /\ Distinct(s[r]) /\ Owns(g, mk, r, s[r])
            /\ \A k \in 1 .. Len(s[r]) : s[r][k] \in Node /\ g.owner[s[r][k]] = r
        BY Listed
      <3>2. \A k \in Int : At(q, k) # Nil => g.owner[At(q, k)] = l
        BY <1>2, <1>3
      <3>3. ASSUME NEW k \in 1 .. Len(s[r])
            PROVE  h.next[s[r][k]] = g.next[s[r][k]] /\ h.prev[s[r][k]] = g.prev[s[r][k]]
        <4>1. s[r][k] \in Node /\ s[r][k] # Nil /\ g.owner[s[r][k]] # l
          BY <2>2, <3>1, NilAssumption
        <4>2. /\ s[r][k] # a /\ s[r][k] # b /\ s[r][k] # At(q, i - 1) /\ s[r][k] # At(q, i + 1)
              /\ s[r][k] # At(q, j - 1) /\ s[r][k] # At(q, j + 1)
          BY <1>4, <1>7, <3>2, <4>1
        <4>3. QED BY <1>6, <1>12, <4>1, <4>2
      <3>4. h.head[r] = g.head[r] /\ h.tail[r] = g.tail[r] /\ h.size[r] = g.size[r]
        BY <1>12, <2>2
      <3>5. Chain(h, r, s[r])
        BY <3>1, <3>3, <3>4, ChainSame
      <3>6. Owns(h, mk, r, s[r])
        BY <1>12, <3>1 DEF Owns
      <3>7. QED BY <1>19, <2>2, <3>1, <3>5, <3>6
    <2>3. QED BY <2>1, <2>2
  <1>21. Represents(h, mk, u)
    BY <1>1, <1>12, <1>19, <1>20 DEF Represents
  <1>22. QED BY <1>5, <1>21 DEF a, b, t, h, q

----------------------------------------------------------------------------
(* foreach and its mirror image find the sequence the pointers represent.   *)
ForwardStep(h, l, f, k) ==
  IF k = 0 THEN <<>>
  ELSE LET s == f[k - 1]
           n == IF k = 1 THEN h.head[l]
                ELSE IF Len(s) < k - 1 THEN Nil ELSE h.next[s[k - 1]]
       IN IF n = Nil THEN s ELSE Append(s, n)

BackwardStep(h, l, f, k) ==
  IF k = 0 THEN <<>>
  ELSE LET s == f[k - 1]
           n == IF k = 1 THEN h.tail[l]
                ELSE IF Len(s) < k - 1 THEN Nil ELSE h.prev[s[1]]
       IN IF n = Nil THEN s ELSE <<n>> \o s

\* The first k members, and the last k.
First(q, k) == IF k < Len(q) THEN SubSeq(q, 1, k) ELSE q
Final(q, k) == IF k < Len(q) THEN SubSeq(q, Len(q) - k + 1, Len(q)) ELSE q

LEMMA ForwardTakesOne ==
  ASSUME NEW h, NEW l, NEW q \in Seq(Node), Chain(h, l, q), NEW f, NEW k \in Nat,
         k # 0 => f[k - 1] = First(q, k - 1)
  PROVE  ForwardStep(h, l, f, k) = First(q, k)
  <1>0. Len(q) \in Nat
    OBVIOUS
  <1>1. CASE k = 0
    <2>1. First(q, 0) = <<>>
      <3>1. SubSeq(q, 1, 0) = <<>>
        BY SubSeqEmpty
      <3>2. Len(q) = 0 => q = <<>>
        BY EmptySeq
      <3>3. QED BY <1>0, <3>1, <3>2 DEF First
    <2>2. QED BY <1>1, <2>1 DEF ForwardStep
  <1>2. CASE k # 0 /\ k - 1 >= Len(q)
    <2>1. f[k - 1] = q /\ First(q, k) = q
      BY <1>0, <1>2 DEF First
    <2>2. (IF k = 1 THEN h.head[l] ELSE IF Len(q) < k - 1 THEN Nil ELSE h.next[q[k - 1]]) = Nil
      <3>1. CASE k = 1
        <4>1. h.head[l] = Nil
          BY <1>0, <1>2, <3>1 DEF Chain, At
        <4>2. QED BY <3>1, <4>1
      <3>2. CASE k # 1 /\ Len(q) < k - 1
        BY <3>2
      <3>3. CASE k # 1 /\ ~(Len(q) < k - 1)
        <4>1. k - 1 = Len(q) /\ k - 1 \in 1 .. Len(q) /\ (k - 1) + 1 \notin 1 .. Len(q)
          BY <1>0, <1>2, <3>3
        <4>2. h.next[q[k - 1]] = Nil
          BY <4>1 DEF Chain, At
        <4>3. QED BY <3>3, <4>2
      <3>4. QED BY <3>1, <3>2, <3>3
    <2>3. QED BY <1>2, <2>1, <2>2 DEF ForwardStep
  <1>3. CASE k # 0 /\ k - 1 < Len(q)
    <2>1. k \in 1 .. Len(q) /\ q[k] \in Node /\ q[k] # Nil
      BY <1>0, <1>3, SeqFacts
    <2>2. /\ f[k - 1] = SubSeq(q, 1, k - 1) /\ Len(f[k - 1]) = k - 1 /\ f[k - 1] \in Seq(Node)
          /\ k # 1 => f[k - 1][k - 1] = q[k - 1]
      <3>1. f[k - 1] = SubSeq(q, 1, k - 1)
        BY <1>0, <1>3 DEF First
      <3>2. QED BY <1>0, <1>3, <2>1, <3>1
    <2>3. (IF k = 1 THEN h.head[l] ELSE IF Len(f[k - 1]) < k - 1 THEN Nil ELSE h.next[f[k - 1][k - 1]]) = q[k]
      <3>1. CASE k = 1
        BY <2>1, <3>1 DEF Chain, At
      <3>2. CASE k # 1
        <4>1. k - 1 \in 1 .. Len(q) /\ (k - 1) + 1 = k /\ ~(k - 1 < k - 1)
          BY <1>0, <1>3, <3>2
        <4>2. h.next[q[k - 1]] = q[k]
          BY <2>1, <4>1 DEF Chain, At
        <4>3. QED BY <2>2, <3>2, <4>1, <4>2
      <3>3. QED BY <3>1, <3>2
    <2>4. ForwardStep(h, l, f, k) = Append(f[k - 1], q[k])
      BY <1>3, <2>1, <2>3 DEF ForwardStep
    <2>5. Append(f[k - 1], q[k]) = SubSeq(q, 1, k)
      <3>1. SubSeq(q, 1, k) = SubSeq(q, 1, k - 1) \o <<q[k]>>
        BY <1>0, <2>1, SubSeqRecursiveSecond
      <3>2. Append(f[k - 1], q[k]) = f[k - 1] \o <<q[k]>>
        BY <2>1, <2>2, AppendIsConcat
      <3>3. QED BY <2>2, <3>1, <3>2
    <2>6. First(q, k) = SubSeq(q, 1, k)
      BY <1>0, <2>1, SubSeqFull DEF First
    <2>7. QED BY <2>4, <2>5, <2>6
  <1>4. QED BY <1>0, <1>1, <1>2, <1>3

LEMMA BackwardTakesOne ==
  ASSUME NEW h, NEW l, NEW q \in Seq(Node), Chain(h, l, q), NEW f, NEW k \in Nat,
         k # 0 => f[k - 1] = Final(q, k - 1)
  PROVE  BackwardStep(h, l, f, k) = Final(q, k)
  <1>0. Len(q) \in Nat
    OBVIOUS
  <1>1. CASE k = 0
    <2>1. Final(q, 0) = <<>>
      <3>1. SubSeq(q, Len(q) - 0 + 1, Len(q)) = <<>>
        BY <1>0, SubSeqEmpty
      <3>2. Len(q) = 0 => q = <<>>
        BY EmptySeq
      <3>3. QED BY <1>0, <3>1, <3>2 DEF Final
    <2>2. QED BY <1>1, <2>1 DEF BackwardStep
  <1>2. CASE k # 0 /\ k - 1 >= Len(q)
    <2>1. f[k - 1] = q /\ Final(q, k) = q
      BY <1>0, <1>2 DEF Final
    <2>2. (IF k = 1 THEN h.tail[l] ELSE IF Len(q) < k - 1 THEN Nil ELSE h.prev[q[1]]) = Nil
      <3>1. CASE k = 1
        <4>1. h.tail[l] = Nil
          BY <1>0, <1>2, <3>1 DEF Chain, At
        <4>2. QED BY <3>1, <4>1
      <3>2. CASE k # 1 /\ Len(q) < k - 1
        BY <3>2
      <3>3. CASE k # 1 /\ ~(Len(q) < k - 1)
        <4>1. 1 \in 1 .. Len(q) /\ 1 - 1 \notin 1 .. Len(q)
          BY <1>0, <1>2, <3>3
        <4>2. h.prev[q[1]] = Nil
          BY <4>1 DEF Chain, At
        <4>3. QED BY <3>3, <4>2
      <3>4. QED BY <3>1, <3>2, <3>3
    <2>3. QED BY <1>2, <2>1, <2>2 DEF BackwardStep
  <1>3. CASE k # 0 /\ k - 1 < Len(q)
    <2> DEFINE m == Len(q) - k + 1
    <2>1. /\ m \in 1 .. Len(q) /\ q[m] \in Node /\ q[m] # Nil /\ m \in Int
          /\ Len(q) - (k - 1) + 1 = m + 1
      BY <1>0, <1>3, SeqFacts
    <2>2. /\ f[k - 1] = SubSeq(q, m + 1, Len(q)) /\ Len(f[k - 1]) = k - 1 /\ f[k - 1] \in Seq(Node)
          /\ k # 1 => f[k - 1][1] = q[m + 1]
      <3>1. f[k - 1] = SubSeq(q, m + 1, Len(q))
        BY <1>0, <1>3, <2>1 DEF Final
      <3>2. QED BY <1>0, <1>3, <2>1, <3>1
    <2>3. (IF k = 1 THEN h.tail[l] ELSE IF Len(f[k - 1]) < k - 1 THEN Nil ELSE h.prev[f[k - 1][1]]) = q[m]
      <3>1. CASE k = 1
        <4>1. m = Len(q)
          BY <1>0, <3>1
        <4>2. QED BY <2>1, <3>1, <4>1 DEF Chain, At
      <3>2. CASE k # 1
        <4>1. m + 1 \in 1 .. Len(q) /\ (m + 1) - 1 = m /\ ~(k - 1 < k - 1)
          BY <1>0, <1>3, <3>2
        <4>2. h.prev[q[m + 1]] = q[m]
          BY <2>1, <4>1 DEF Chain, At
        <4>3. QED BY <2>2, <3>2, <4>1, <4>2
      <3>3. QED BY <3>1, <3>2
    <2>4. BackwardStep(h, l, f, k) = <<q[m]>> \o f[k - 1]
      BY <1>3, <2>1, <2>3 DEF BackwardStep
    <2>5. SubSeq(q, m, Len(q)) = <<q[m]>> \o SubSeq(q, m + 1, Len(q))
      BY <1>0, <2>1, SubSeqRecursiveFirst
    <2>6. Final(q, k) = SubSeq(q, m, Len(q))
      <3>1. CASE k < Len(q)
        BY <3>1 DEF Final
      <3>2. CASE ~(k < Len(q))
        <4>1. m = 1
          BY <1>0, <2>1, <3>2
        <4>2. QED BY <3>2, <4>1, SubSeqFull DEF Final
      <3>3. QED BY <3>1, <3>2
    <2>7. QED BY <2>2, <2>4, <2>5, <2>6
  <1>4. QED BY <1>0, <1>1, <1>2, <1>3

Below == {ss \in Nat \X Nat : ss[1] < ss[2]}

LEMMA BelowWellFounded == IsWellFoundedOn(Below, Nat)
  BY NatLessThanWellFounded DEF OpToRel, Below

LEMMA LeastExists ==
  ASSUME NEW S, S \subseteq Nat, S # {}
  PROVE  \E x \in S : \A y \in S : x <= y
  <1>1. PICK x \in S : \A y \in S : <<y, x>> \notin Below
    BY BelowWellFounded, WFMin, Zenon
  <1>2. ASSUME NEW y \in S PROVE x <= y
    <2>1. x \in Nat /\ y \in Nat
      OBVIOUS
    <2>2. y < x => <<y, x>> \in Below
      BY <2>1 DEF Below
    <2>3. QED BY <1>1, <2>1, <2>2
  <1>3. QED BY <1>2

\* No list is longer than there are nodes, so the bound of a walk is enough.
LEMMA Bounded ==
  ASSUME NEW q \in Seq(Node), Distinct(q)
  PROVE  Len(q) <= Cardinality(Node) /\ Cardinality(Node) \in Nat
  <1>1. Len(q) \in Nat /\ DOMAIN q = 1 .. Len(q) /\ q \in [1 .. Len(q) -> Node]
    OBVIOUS
  <1>2. q \in Injection(1 .. Len(q), Node)
    BY <1>1 DEF Injection, IsInjective, Distinct
  <1>3. Cardinality(1 .. Len(q)) <= Cardinality(Node)
    BY <1>2, NodesAssumption, FS_Injection
  <1>4. Cardinality(1 .. Len(q)) = IF 1 > Len(q) THEN 0 ELSE Len(q) - 1 + 1
    BY <1>1, FS_Interval
  <1>5. Cardinality(Node) \in Nat
    BY NodesAssumption, FS_CardinalityType
  <1>6. QED BY <1>1, <1>3, <1>4, <1>5

LEMMA ForwardFinds ==
  ASSUME NEW h, NEW l, NEW q \in Seq(Node), Chain(h, l, q), NEW len \in Nat, Len(q) <= len
  PROVE  Forward(h, l, len) = q
  <1> DEFINE g == [k \in 0 .. len |-> First(q, k)]
  <1>1. g = [k \in 0 .. len |-> ForwardStep(h, l, g, k)]
    <2>1. ASSUME NEW k \in 0 .. len PROVE ForwardStep(h, l, g, k) = First(q, k)
      <3>1. k \in Nat /\ (k # 0 => k - 1 \in 0 .. len)
        OBVIOUS
      <3>2. k # 0 => g[k - 1] = First(q, k - 1)
        BY <3>1
      <3> HIDE DEF g
      <3>3. QED BY <3>1, <3>2, ForwardTakesOne
    <2>2. QED BY <2>1
  <1> HIDE DEF g
  <1>2. \E f : f = [k \in 0 .. len |-> ForwardStep(h, l, f, k)] /\ Forward(h, l, len) = f[len]
    BY <1>1, Zenon DEF Forward, ForwardStep
  <1>3. PICK f : f = [k \in 0 .. len |-> ForwardStep(h, l, f, k)] /\ Forward(h, l, len) = f[len]
    BY <1>2
  <1>4. \A k \in 0 .. len : f[k] = ForwardStep(h, l, f, k)
    BY <1>3
  <1>5. \A k \in 0 .. len : f[k] = First(q, k)
    <2> DEFINE S == {k \in 0 .. len : f[k] # First(q, k)}
    <2>1. SUFFICES ASSUME S # {} PROVE FALSE
      OBVIOUS
    <2>2. PICK x \in S : \A y \in S : x <= y
      <3>1. S \subseteq Nat
        OBVIOUS
      <3> HIDE DEF S
      <3>2. QED BY <2>1, <3>1, LeastExists
    <2>3. x \in Nat /\ x \in 0 .. len /\ f[x] # First(q, x)
      OBVIOUS
    <2>4. x # 0 => f[x - 1] = First(q, x - 1)
      <3>1. x # 0 => x - 1 \in 0 .. len /\ ~(x <= x - 1)
        BY <2>3
      <3>2. QED BY <2>2, <3>1
    <2>5. f[x] = First(q, x)
      BY <1>4, <2>3, <2>4, ForwardTakesOne
    <2>6. QED BY <2>3, <2>5
  <1>6. First(q, len) = q
    BY DEF First
  <1>7. QED BY <1>3, <1>5, <1>6

LEMMA BackwardFinds ==
  ASSUME NEW h, NEW l, NEW q \in Seq(Node), Chain(h, l, q), NEW len \in Nat, Len(q) <= len
  PROVE  Backward(h, l, len) = q
  <1> DEFINE g == [k \in 0 .. len |-> Final(q, k)]
  <1>1. g = [k \in 0 .. len |-> BackwardStep(h, l, g, k)]
    <2>1. ASSUME NEW k \in 0 .. len PROVE BackwardStep(h, l, g, k) = Final(q, k)
      <3>1. k \in Nat /\ (k # 0 => k - 1 \in 0 .. len)
        OBVIOUS
      <3>2. k # 0 => g[k - 1] = Final(q, k - 1)
        BY <3>1
      <3> HIDE DEF g
      <3>3. QED BY <3>1, <3>2, BackwardTakesOne
    <2>2. QED BY <2>1
  <1> HIDE DEF g
  <1>2. \E f : f = [k \in 0 .. len |-> BackwardStep(h, l, f, k)] /\ Backward(h, l, len) = f[len]
    BY <1>1, Zenon DEF Backward, BackwardStep
  <1>3. PICK f : f = [k \in 0 .. len |-> BackwardStep(h, l, f, k)] /\ Backward(h, l, len) = f[len]
    BY <1>2
  <1>4. \A k \in 0 .. len : f[k] = BackwardStep(h, l, f, k)
    BY <1>3
  <1>5. \A k \in 0 .. len : f[k] = Final(q, k)
    <2> DEFINE S == {k \in 0 .. len : f[k] # Final(q, k)}
    <2>1. SUFFICES ASSUME S # {} PROVE FALSE
      OBVIOUS
    <2>2. PICK x \in S : \A y \in S : x <= y
      <3>1. S \subseteq Nat
        OBVIOUS
      <3> HIDE DEF S
      <3>2. QED BY <2>1, <3>1, LeastExists
    <2>3. x \in Nat /\ x \in 0 .. len /\ f[x] # Final(q, x)
      OBVIOUS
    <2>4. x # 0 => f[x - 1] = Final(q, x - 1)
      <3>1. x # 0 => x - 1 \in 0 .. len /\ ~(x <= x - 1)
        BY <2>3
      <3>2. QED BY <2>2, <3>1
    <2>5. f[x] = Final(q, x)
      BY <1>4, <2>3, <2>4, BackwardTakesOne
    <2>6. QED BY <2>3, <2>5
  <1>6. Final(q, len) = q
    BY DEF Final
  <1>7. QED BY <1>3, <1>5, <1>6

(* So the sequences that are represented are the ones a walk reads, and     *)
(* there is no more than one choice of them.                                *)
LEMMA Read ==
  ASSUME NEW h, NEW mk, NEW s, Represents(h, mk, s)
  PROVE  \A l \in ListId : Forward(h, l, Max) = s[l] /\ Backward(h, l, Max) = s[l]
  <1> SUFFICES ASSUME NEW l \in ListId
               PROVE  Forward(h, l, Max) = s[l] /\ Backward(h, l, Max) = s[l]
    OBVIOUS
  <1>1. s[l] \in Seq(Node) /\ Chain(h, l, s[l]) /\ Distinct(s[l])
    BY Listed
  <1>2. Max \in Nat /\ Len(s[l]) \in Nat /\ Len(s[l]) <= Max
    BY <1>1, Bounded, SeqFacts DEF Max
  <1>3. QED BY <1>1, <1>2, ForwardFinds, BackwardFinds

----------------------------------------------------------------------------
(* The steps of ListSeq between two families of sequences.                  *)
Puts(s, u) ==
  \E l \in ListId, n \in Node : \E i \in 1 .. Len(s[l]) + 1 :
    /\ \A r \in ListId : ~Has(s[r], n)
    /\ u = [s EXCEPT ![l] = Abstract!InsertAt(s[l], i, n)]

Takes(s, u) ==
  \E l \in ListId : \E i \in 1 .. Len(s[l]) : u = [s EXCEPT ![l] = Abstract!RemoveAt(s[l], i)]

Exchanges(s, u) ==
  \E l \in ListId : \E i, j \in 1 .. Len(s[l]) :
    i < j /\ u = [s EXCEPT ![l] = [@ EXCEPT ![i] = s[l][j], ![j] = s[l][i]]]

Moves(s, u) == Puts(s, u) \/ Takes(s, u) \/ Exchanges(s, u)

\* Where a member of a list is.
LEMMA Found ==
  ASSUME NEW g, NEW mk, NEW s, Represents(g, mk, s), NEW l \in ListId, NEW n \in Node,
         n \in mk, g.owner[n] = l
  PROVE  \E k \in 1 .. Len(s[l]) : s[l][k] = n
  BY Listed DEF Owns, Has

\* A node that does not exist or has no owner is in no list.
LEMMA NotFound ==
  ASSUME NEW g, NEW mk, NEW s, Represents(g, mk, s), NEW n \in Node,
         n \notin mk \/ g.owner[n] = Nil
  PROVE  \A r \in ListId : ~Has(s[r], n)
  BY Listed, NilAssumption DEF Owns

LEMMA LinkStep ==
  ASSUME NEW s, Represents(heap, made, s), NEW l \in ListId, NEW n \in Node,
         n \notin made \/ heap.owner[n] = Nil,
         heap' \in {AppendNode(heap, l, n), PrependNode(heap, l, n)}, made' = made \union {n}
  PROVE  \E u : Represents(heap', made', u) /\ Puts(s, u)
  <1>1. \A r \in ListId : ~Has(s[r], n)
    BY NotFound
  <1>2. Len(s[l]) \in Nat /\ heap.head[l] = At(s[l], 1)
    BY Ends
  <1>3. \E i \in 1 .. Len(s[l]) + 1 : PutAt(heap, heap', l, s[l], i, n)
    <2>1. CASE heap' = AppendNode(heap, l, n)
      <3>1. Len(s[l]) + 1 \in 1 .. Len(s[l]) + 1
        BY <1>2
      <3>2. QED BY <1>1, <2>1, <3>1, AppendPuts
    <2>2. CASE heap' = PrependNode(heap, l, n) /\ heap.head[l] = Nil
      <3>1. heap' = AppendNode(heap, l, n)
        BY <2>2 DEF PrependNode
      <3>2. QED BY <2>1, <3>1
    <2>3. CASE heap' = PrependNode(heap, l, n) /\ heap.head[l] # Nil
      <3>1. 1 \in 1 .. Len(s[l]) + 1
        BY <1>2
      <3>2. QED BY <1>1, <2>3, <3>1, PrependPuts
    <2>4. QED BY <2>1, <2>2, <2>3
  <1>4. PICK i \in 1 .. Len(s[l]) + 1 : PutAt(heap, heap', l, s[l], i, n)
    BY <1>3
  <1>5. Represents(heap', made', [s EXCEPT ![l] = Abstract!InsertAt(s[l], i, n)])
    BY <1>1, <1>4, PutStep
  <1>6. QED BY <1>1, <1>5 DEF Puts

LEMMA InsertStep ==
  ASSUME NEW s, Represents(heap, made, s), NEW l \in ListId, NEW p \in Node, NEW n \in Node, Insert(l, p, n)
  PROVE  \E u : Represents(heap', made', u) /\ Puts(s, u)
  <1>1. /\ p \in made /\ heap.owner[p] = l /\ n \notin made /\ made' = made \union {n}
        /\ heap' = InsertAfterNode(heap, l, p, n) \/ heap' = InsertBeforeNode(heap, l, p, n)
    BY DEF Insert
  <1>2. \A r \in ListId : ~Has(s[r], n)
    BY <1>1, NotFound
  <1>3. PICK k \in 1 .. Len(s[l]) : s[l][k] = p
    BY <1>1, Found
  <1>4. \E i \in 1 .. Len(s[l]) + 1 : PutAt(heap, heap', l, s[l], i, n)
    <2>1. k \in 1 .. Len(s[l]) + 1 /\ k + 1 \in 1 .. Len(s[l]) + 1
      BY Ends
    <2>2. CASE heap' = InsertAfterNode(heap, l, p, n)
      BY <1>2, <1>3, <2>1, <2>2, AfterPuts
    <2>3. CASE heap' = InsertBeforeNode(heap, l, p, n)
      BY <1>2, <1>3, <2>1, <2>3, BeforePuts
    <2>4. QED BY <1>1, <2>2, <2>3
  <1>5. PICK i \in 1 .. Len(s[l]) + 1 : PutAt(heap, heap', l, s[l], i, n)
    BY <1>4
  <1>6. Represents(heap', made', [s EXCEPT ![l] = Abstract!InsertAt(s[l], i, n)])
    BY <1>1, <1>2, <1>5, PutStep
  <1>7. QED BY <1>2, <1>6 DEF Puts

LEMMA DeleteStep ==
  ASSUME NEW s, Represents(heap, made, s), NEW l \in ListId, NEW n \in Node, Delete(l, n)
  PROVE  \E u : Represents(heap', made', u) /\ Takes(s, u)
  <1>1. /\ n \in made /\ heap.owner[n] = l
        /\ heap' = DeleteNode(heap, l, n) /\ made' = made \ {n}
    BY DEF Delete
  <1>2. PICK k \in 1 .. Len(s[l]) : s[l][k] = n
    BY <1>1, Found
  <1>3. TakeAt(heap, heap', l, s[l], k)
    BY <1>1, <1>2, DeleteTakes
  <1>4. made' \subseteq Node /\ (\A m \in Node \ {s[l][k]} : m \in made' <=> m \in made) /\ s[l][k] \notin made'
    BY <1>1, <1>2 DEF Represents
  <1>5. Represents(heap', made', [s EXCEPT ![l] = Abstract!RemoveAt(s[l], k)])
    BY <1>3, <1>4, TakeStep
  <1>6. QED BY <1>5 DEF Takes

LEMMA PopStep ==
  ASSUME NEW s, Represents(heap, made, s), NEW l \in ListId, Pop(l)
  PROVE  \E u : Represents(heap', made', u) /\ Takes(s, u)
  <1>1. /\ heap.head[l] # Nil /\ made' = made
        /\ heap' = PopBackNode(heap, l) \/ heap' = PopFrontNode(heap, l)
    BY DEF Pop
  <1>2. heap \in Heap /\ made \subseteq Node /\ Len(s[l]) \in Nat /\ heap.head[l] = At(s[l], 1) /\ heap.tail[l] = At(s[l], Len(s[l]))
    BY Ends, Listed
  <1>3. /\ 1 \in 1 .. Len(s[l]) /\ Len(s[l]) \in 1 .. Len(s[l])
        /\ s[l][1] = heap.head[l] /\ s[l][Len(s[l])] = heap.tail[l]
        /\ s[l][1] \in Node /\ s[l][Len(s[l])] \in Node
    <2>1. 1 \in 1 .. Len(s[l])
      BY <1>1, <1>2 DEF At
    <2>2. Len(s[l]) \in 1 .. Len(s[l])
      BY <1>2, <2>1
    <2>3. QED BY <1>2, <2>1, <2>2, Ends
  <1>4. \E i \in 1 .. Len(s[l]) : TakeAt(heap, heap', l, s[l], i) /\ heap'.owner[s[l][i]] = Nil
    <2>1. CASE heap' = PopBackNode(heap, l)
      <3>1. TakeAt(heap, heap', l, s[l], Len(s[l]))
        BY <1>1, <2>1, PopBackTakes
      <3>2. heap'.owner = [heap.owner EXCEPT ![heap.tail[l]] = Nil]
        BY <1>2, <2>1 DEF PopBackNode, Heap
      <3>3. heap'.owner[s[l][Len(s[l])]] = Nil
        BY <1>2, <1>3, <3>2, HeapFields
      <3>4. QED BY <1>3, <3>1, <3>3
    <2>2. CASE heap' = PopFrontNode(heap, l)
      <3>1. TakeAt(heap, heap', l, s[l], 1)
        BY <1>1, <2>2, PopFrontTakes
      <3>2. heap'.owner = [heap.owner EXCEPT ![heap.head[l]] = Nil]
        BY <1>2, <2>2 DEF PopFrontNode, Heap
      <3>3. heap'.owner[s[l][1]] = Nil
        BY <1>2, <1>3, <3>2, HeapFields
      <3>4. QED BY <1>3, <3>1, <3>3
    <2>3. QED BY <1>1, <2>1, <2>2
  <1>5. PICK i \in 1 .. Len(s[l]) : TakeAt(heap, heap', l, s[l], i) /\ heap'.owner[s[l][i]] = Nil
    BY <1>4
  <1>6. Represents(heap', made', [s EXCEPT ![l] = Abstract!RemoveAt(s[l], i)])
    BY <1>1, <1>2, <1>5, TakeStep
  <1>7. QED BY <1>6 DEF Takes

LEMMA SwapMove ==
  ASSUME NEW s, Represents(heap, made, s), NEW a \in Node, NEW b \in Node, Swap(a, b)
  PROVE  \E u : Represents(heap', made', u) /\ Exchanges(s, u)
  <1>1. /\ a \in made /\ b \in made /\ a # b
        /\ heap.owner[a] # Nil /\ heap.owner[a] = heap.owner[b]
        /\ heap.next[a] # b /\ heap.next[b] # a
        /\ heap' = SwapNodes(heap, a, b) /\ made' = made
    BY DEF Swap
  <1>2. heap.owner[a] \in ListId
    BY <1>1, HeapFields DEF Represents
  <1>3. PICK l \in ListId : heap.owner[a] = l /\ heap.owner[b] = l
    BY <1>1, <1>2
  <1>4. PICK i \in 1 .. Len(s[l]) : s[l][i] = a
    BY <1>1, <1>3, Found
  <1>5. PICK j \in 1 .. Len(s[l]) : s[l][j] = b
    BY <1>1, <1>3, Found
  <1>6. i # j /\ i + 1 # j /\ j + 1 # i /\ i \in Int /\ j \in Int
    <2>1. i \in Int /\ j \in Int /\ heap.next[a] = At(s[l], i + 1) /\ heap.next[b] = At(s[l], j + 1)
      <3>1. Len(s[l]) \in Nat
        BY Ends
      <3>2. heap.next[s[l][i]] = At(s[l], i + 1) /\ heap.next[s[l][j]] = At(s[l], j + 1)
        BY Ends
      <3>3. QED BY <1>4, <1>5, <3>1, <3>2
    <2>2. At(s[l], i) = a /\ At(s[l], j) = b
      BY <1>4, <1>5, Ends
    <2>3. QED BY <1>1, <2>1, <2>2
  <1>7. Represents(heap', made', [s EXCEPT ![l] = [@ EXCEPT ![i] = s[l][j], ![j] = s[l][i]]])
    BY <1>1, <1>4, <1>5, <1>6, SwapStep
  <1>8. [s[l] EXCEPT ![i] = s[l][j], ![j] = s[l][i]] = [s[l] EXCEPT ![j] = s[l][i], ![i] = s[l][j]]
    BY <1>6
  <1>9. CASE i < j
    BY <1>7, <1>9 DEF Exchanges
  <1>10. CASE j < i
    <2>1. Represents(heap', made', [s EXCEPT ![l] = [@ EXCEPT ![j] = s[l][i], ![i] = s[l][j]]])
      BY <1>7, <1>8
    <2>2. QED BY <1>10, <2>1 DEF Exchanges
  <1>11. QED BY <1>6, <1>9, <1>10

(* Every step of the pointers is a step of the sequences they represent.    *)
LEMMA NextMoves ==
  ASSUME NEW s, Represents(heap, made, s), [Next]_vars
  PROVE  \E u : Represents(heap', made', u) /\ (Moves(s, u) \/ u = s)
  <1>1. ASSUME NEW l \in ListId, NEW n \in Node, Push(l, n)
        PROVE  \E u : Represents(heap', made', u) /\ Moves(s, u)
    BY <1>1, LinkStep DEF Push, Moves
  <1>2. ASSUME NEW l \in ListId, NEW n \in Node, Relink(l, n)
        PROVE  \E u : Represents(heap', made', u) /\ Moves(s, u)
    <2>1. made' = made \union {n} /\ heap.owner[n] = Nil
      BY <1>2 DEF Relink
    <2>2. heap' \in {AppendNode(heap, l, n), PrependNode(heap, l, n)}
      BY <1>2 DEF Relink
    <2>3. QED BY <2>1, <2>2, LinkStep DEF Moves
  <1>3. ASSUME NEW l \in ListId, NEW n \in Node, Delete(l, n)
        PROVE  \E u : Represents(heap', made', u) /\ Moves(s, u)
    BY <1>3, DeleteStep DEF Moves
  <1>4. ASSUME NEW l \in ListId, Pop(l)
        PROVE  \E u : Represents(heap', made', u) /\ Moves(s, u)
    BY <1>4, PopStep DEF Moves
  <1>5. ASSUME NEW l \in ListId, NEW p \in Node, NEW n \in Node, Insert(l, p, n)
        PROVE  \E u : Represents(heap', made', u) /\ Moves(s, u)
    BY <1>5, InsertStep DEF Moves
  <1>6. ASSUME NEW a \in Node, NEW b \in Node, Swap(a, b)
        PROVE  \E u : Represents(heap', made', u) /\ Moves(s, u)
    BY <1>6, SwapMove DEF Moves
  <1>7. CASE UNCHANGED vars
    BY <1>7 DEF vars
  <1>8. QED BY <1>1, <1>2, <1>3, <1>4, <1>5, <1>6, <1>7 DEF Next

----------------------------------------------------------------------------
LEMMA InitRepresents == Init => Represents(heap, made, [l \in ListId |-> <<>>])
  <1> SUFFICES ASSUME Init PROVE Represents(heap, made, [l \in ListId |-> <<>>])
    OBVIOUS
  <1> DEFINE s == [l \in ListId |-> <<>>]
  <1>1. PICK o \in [Node -> ListId \union {Nil}] : heap = Empty(o)
    BY DEF Init
  <1>2. /\ heap \in Heap /\ heap.owner = o
        /\ \A l \in ListId : heap.head[l] = Nil /\ heap.tail[l] = Nil /\ heap.size[l] = 0
    BY <1>1 DEF Empty, Heap
  <1>3. made = {} /\ s \in [ListId -> Seq(Node)]
    BY DEF Init
  <1>4. \A i : At(<<>>, i) = Nil
    BY DEF At
  <1>5. ASSUME NEW l \in ListId PROVE Chain(heap, l, s[l]) /\ Distinct(s[l]) /\ Owns(heap, made, l, s[l])
    <2>1. s[l] = <<>> /\ Len(<<>>) = 0 /\ 1 .. 0 = {}
      OBVIOUS
    <2>2. QED BY <1>2, <1>3, <1>4, <2>1 DEF Chain, Distinct, Owns, Has
  <1>6. QED BY <1>2, <1>3, <1>5 DEF Represents

(* At every moment the pointers represent some sequences, whatever calls    *)
(* were made: no call cuts a list, joins two or forgets a node.             *)
THEOREM ListInvariant == Spec => []ListInv
  <1>1. Init => ListInv
    <2> SUFFICES ASSUME Init PROVE ListInv
      OBVIOUS
    <2>1. PICK s : Represents(heap, made, s)
      BY InitRepresents
    <2>2. s \in [ListId -> Seq(Node)]
      BY <2>1 DEF Represents
    <2>3. QED BY <2>1, <2>2 DEF ListInv
  <1>2. ListInv /\ [Next]_vars => ListInv'
    <2> SUFFICES ASSUME ListInv, [Next]_vars PROVE ListInv'
      OBVIOUS
    <2>1. PICK s \in [ListId -> Seq(Node)] : Represents(heap, made, s)
      BY DEF ListInv
    <2>2. PICK u : Represents(heap', made', u)
      BY <2>1, NextMoves
    <2>3. u \in [ListId -> Seq(Node)]
      BY <2>2 DEF Represents
    <2>4. QED BY <2>2, <2>3 DEF ListInv
  <1>3. QED BY <1>1, <1>2, PTL DEF Spec

LEMMA InvWellFormed == ListInv => WellFormed
  <1> SUFFICES ASSUME NEW s, Represents(heap, made, s) PROVE WellFormed
    BY DEF ListInv
  <1>1. TypeOK
    BY DEF Represents, TypeOK
  <1>2. ASSUME NEW l \in ListId
        PROVE  /\ Forward(heap, l, Max) = Backward(heap, l, Max)
               /\ Len(SeqOf(l)) = heap.size[l]
               /\ {SeqOf(l)[i] : i \in DOMAIN SeqOf(l)} = {n \in made : heap.owner[n] = l}
    <2>1. SeqOf(l) = s[l] /\ Forward(heap, l, Max) = s[l] /\ Backward(heap, l, Max) = s[l]
      BY Read DEF SeqOf
    <2>2. heap.size[l] = Len(s[l])
      BY Ends
    <2>3. s[l] \in Seq(Node) /\ DOMAIN s[l] = 1 .. Len(s[l])
      BY Listed, SeqFacts
    <2>4. {s[l][i] : i \in DOMAIN s[l]} = {n \in made : heap.owner[n] = l}
      <3>1. \A i \in DOMAIN s[l] : s[l][i] \in made /\ heap.owner[s[l][i]] = l
        BY <2>3, Listed
      <3>2. ASSUME NEW n \in made, heap.owner[n] = l PROVE \E i \in DOMAIN s[l] : s[l][i] = n
        BY <2>3, <3>2, Found DEF Represents
      <3>3. QED BY <3>1, <3>2
    <2>5. QED BY <2>1, <2>2, <2>4
  <1>3. QED BY <1>1, <1>2 DEF WellFormed

(* Forwards and backwards every list shows the same nodes, as many as its   *)
(* size says and exactly those that name it as their owner.                 *)
THEOREM ListsWellFormed == Spec => []WellFormed
  BY ListInvariant, InvWellFormed, PTL

(* The sequences the refinement maps to, before a step and after it.        *)
LEMMA WalkedIs ==
  ASSUME NEW s, Represents(heap, made, s)
  PROVE  [l \in ListId |-> SeqOf(l)] = s
  <1>1. \A l \in ListId : SeqOf(l) = s[l]
    BY Read DEF SeqOf
  <1>2. s = [l \in ListId |-> s[l]]
    BY DEF Represents
  <1>3. QED BY <1>1, <1>2

LEMMA WalkedBecomes ==
  ASSUME NEW u, Represents(heap', made', u)
  PROVE  [l \in ListId |-> SeqOf(l)]' = u
  <1>1. ASSUME NEW l \in ListId PROVE SeqOf(l)' = u[l]
    <2>1. SeqOf(l)' = Forward(heap', l, Max)
      BY DEF SeqOf, Max
    <2>2. QED BY <2>1, Read
  <1>2. u = [l \in ListId |-> u[l]]
    BY DEF Represents
  <1>3. QED BY <1>1, <1>2

LEMMA AbstractInit == Init => Abstract!Init
  <1> SUFFICES ASSUME Init PROVE Abstract!Init
    OBVIOUS
  <1>1. [l \in ListId |-> SeqOf(l)] = [l \in ListId |-> <<>>]
    BY InitRepresents, WalkedIs
  <1>2. QED BY <1>1 DEF Abstract!Init

LEMMA AbstractStep == ListInv /\ [Next]_vars => [Abstract!Next]_[l \in ListId |-> SeqOf(l)]
  <1> SUFFICES ASSUME ListInv, [Next]_vars PROVE [Abstract!Next]_[l \in ListId |-> SeqOf(l)]
    OBVIOUS
  <1>1. PICK s : Represents(heap, made, s)
    BY DEF ListInv
  <1>2. PICK u : Represents(heap', made', u) /\ (Moves(s, u) \/ u = s)
    BY <1>1, NextMoves
  <1>3. [l \in ListId |-> SeqOf(l)] = s /\ [l \in ListId |-> SeqOf(l)]' = u
    BY <1>1, <1>2, WalkedIs, WalkedBecomes
  <1>4. \A l \in ListId : s[l] \in Seq(Node) /\ DOMAIN s[l] = 1 .. Len(s[l])
    BY <1>1, Listed, SeqFacts
  <1>5. CASE Puts(s, u)
    <2>1. PICK l \in ListId, n \in Node : \E i \in 1 .. Len(s[l]) + 1 :
            /\ \A r \in ListId : ~Has(s[r], n)
            /\ u = [s EXCEPT ![l] = Abstract!InsertAt(s[l], i, n)]
      BY <1>5 DEF Puts
    <2>2. PICK i \in 1 .. Len(s[l]) + 1 :
            /\ \A r \in ListId : ~Has(s[r], n)
            /\ u = [s EXCEPT ![l] = Abstract!InsertAt(s[l], i, n)]
      BY <2>1
    <2>3. ~Abstract!Linked(n)
      BY <1>3, <1>4, <2>2 DEF Abstract!Linked, Has
    <2>4. Abstract!Put(l, i, n)
      BY <1>3, <2>2, <2>3 DEF Abstract!Put
    <2>5. QED BY <1>3, <2>4 DEF Abstract!Next
  <1>6. CASE Takes(s, u)
    <2>1. PICK l \in ListId : \E i \in 1 .. Len(s[l]) : u = [s EXCEPT ![l] = Abstract!RemoveAt(s[l], i)]
      BY <1>6 DEF Takes
    <2>2. PICK i \in 1 .. Len(s[l]) : u = [s EXCEPT ![l] = Abstract!RemoveAt(s[l], i)]
      BY <2>1
    <2>3. Abstract!Take(l, i)
      BY <1>3, <2>2 DEF Abstract!Take
    <2>4. QED BY <1>3, <1>4, <2>3 DEF Abstract!Next
  <1>7. CASE Exchanges(s, u)
    <2>1. PICK l \in ListId : \E i, j \in 1 .. Len(s[l]) :
            i < j /\ u = [s EXCEPT ![l] = [@ EXCEPT ![i] = s[l][j], ![j] = s[l][i]]]
      BY <1>7 DEF Exchanges
    <2>2. PICK i \in 1 .. Len(s[l]), j \in 1 .. Len(s[l]) :
            i < j /\ u = [s EXCEPT ![l] = [@ EXCEPT ![i] = s[l][j], ![j] = s[l][i]]]
      BY <2>1
    <2>3. Abstract!Exchange(l, i, j)
      BY <1>3, <2>2 DEF Abstract!Exchange
    <2>4. QED BY <1>3, <1>4, <2>2, <2>3 DEF Abstract!Next
  <1>8. CASE u = s
    BY <1>3, <1>8
  <1>9. QED BY <1>2, <1>5, <1>6, <1>7, <1>8 DEF Moves

(* The pointers implement sequences: each call puts a node that is nowhere  *)
(* at one place of one sequence, takes one out or exchanges two, and every  *)
(* other list stays as it was.                                              *)
THEOREM ListsImplementSequences == Spec => ImplementsSequences
  BY ListInvariant, AbstractInit, AbstractStep, PTL
     DEF Spec, ImplementsSequences, Abstract!Spec
=============================================================================
