------------------------------ MODULE FilesProof ------------------------------
(***************************************************************************)
(* Proofs about Files for every archive, device list, block size and set   *)
(* of processes, with one core in the kernel: what an open returns, which  *)
(* bytes a read delivers, and what a directory lists.                      *)
(***************************************************************************)
EXTENDS Files, TLAPS, FiniteSetTheorems, SequenceTheorems, WellFoundedInduction

----------------------------------------------------------------------------
(* Least numbers, and steps up to a number                                  *)

SmallerThan == {ss \in Nat \X Nat : ss[1] < ss[2]}

LEMMA SmallerWellFounded == IsWellFoundedOn(SmallerThan, Nat)
  BY NatLessThanWellFounded DEF OpToRel, SmallerThan

LEMMA LeastExists ==
  ASSUME NEW S, S \subseteq Nat, S # {}
  PROVE  \E x \in S : \A y \in S : x <= y
  <1>1. PICK x \in S : \A y \in S : <<y, x>> \notin SmallerThan
    BY SmallerWellFounded, WFMin, Zenon
  <1>2. ASSUME NEW y \in S PROVE x <= y
    <2>1. x \in Nat /\ y \in Nat
      OBVIOUS
    <2>2. y < x => <<y, x>> \in SmallerThan
      BY <2>1 DEF SmallerThan
    <2>3. QED BY <1>1, <2>1, <2>2
  <1>3. QED BY <1>2

\* From b upwards, one by one.
LEMMA Ladder ==
  ASSUME NEW b \in Nat, NEW n \in Nat, NEW S, b \in S,
         \A k \in b .. n : k \in S /\ k # n => k + 1 \in S
  PROVE  \A k \in b .. n : k \in S
  <1> DEFINE Bad == {k \in b .. n : k \notin S}
  <1>1. SUFFICES ASSUME Bad # {} PROVE FALSE
    OBVIOUS
  <1>2. PICK x \in Bad : \A y \in Bad : x <= y
    <2>1. Bad \subseteq Nat
      OBVIOUS
    <2> HIDE DEF Bad
    <2>2. QED BY <1>1, <2>1, LeastExists
  <1>3. x \in b .. n /\ x \notin S /\ x # b
    OBVIOUS
  <1>4. x - 1 \in b .. n /\ x - 1 # n /\ x = (x - 1) + 1 /\ ~(x <= x - 1)
    BY <1>3
  <1>5. x - 1 \in S
    BY <1>2, <1>4
  <1>6. QED BY <1>3, <1>4, <1>5

----------------------------------------------------------------------------
(* Sequences of sequences, one after the other                              *)

LEMMA MemberOf ==
  ASSUME NEW T, NEW s \in Seq(T), NEW i \in 1 .. Len(s)
  PROVE  s[i] \in T
  OBVIOUS

LEMMA Concat ==
  ASSUME NEW S, NEW s \in Seq(S), NEW t \in Seq(S)
  PROVE  /\ s \o t \in Seq(S) /\ Len(s \o t) = Len(s) + Len(t)
         /\ Len(s) \in Nat /\ Len(t) \in Nat
         /\ \A j \in 1 .. Len(s) : (s \o t)[j] = s[j]
         /\ \A j \in 1 .. Len(t) : (s \o t)[Len(s) + j] = t[j]
  <1>1. /\ s \o t \in Seq(S) /\ Len(s \o t) = Len(s) + Len(t)
        /\ Len(s) \in Nat /\ Len(t) \in Nat
    OBVIOUS
  <1>2. \A j \in 1 .. Len(s) : (s \o t)[j] = s[j]
    BY <1>1
  <1>3. \A j \in 1 .. Len(t) : (s \o t)[Len(s) + j] = t[j]
    BY <1>1
  <1>4. QED BY <1>1, <1>2, <1>3

FlatStep(ss, f, i) == IF i = 1 THEN ss[i] ELSE f[i - 1] \o ss[i]

\* f has the beginnings of the flattened sequence.
Flattens(ss, f) == \A i \in 1 .. Len(ss) : f[i] = FlatStep(ss, f, i)

LEMMA FlattenBy ==
  ASSUME NEW S, NEW ss \in Seq(S), ss # <<>>, NEW g, DOMAIN g = 1 .. Len(ss), Flattens(ss, g),
         g = [i \in 1 .. Len(ss) |-> g[i]]
  PROVE  FlattenSeq(ss) = g[Len(ss)]
  <1>0. Len(ss) \in Nat /\ Len(ss) # 0
    BY EmptySeq
  <1>1. g = [i \in 1 .. Len(ss) |-> FlatStep(ss, g, i)]
    BY DEF Flattens
  <1>2. \E f : f = [i \in 1 .. Len(ss) |-> FlatStep(ss, f, i)] /\ FlattenSeq(ss) = f[Len(ss)]
    BY <1>0, <1>1, Zenon DEF FlattenSeq, FlatStep
  <1>3. PICK f : f = [i \in 1 .. Len(ss) |-> FlatStep(ss, f, i)] /\ FlattenSeq(ss) = f[Len(ss)]
    BY <1>2
  <1>4. \A i \in 1 .. Len(ss) : f[i] = FlatStep(ss, f, i)
    BY <1>3
  <1> DEFINE Same == {i \in 1 .. Len(ss) : f[i] = g[i]}
  <1>5. 1 \in Same
    <2>1. 1 \in 1 .. Len(ss)
      BY <1>0
    <2>2. f[1] = ss[1] /\ g[1] = ss[1]
      BY <1>4, <2>1 DEF Flattens, FlatStep
    <2>3. QED BY <2>1, <2>2
  <1>6. \A i \in 1 .. Len(ss) : i \in Same /\ i # Len(ss) => i + 1 \in Same
    <2> SUFFICES ASSUME NEW i \in 1 .. Len(ss), f[i] = g[i], i # Len(ss) PROVE i + 1 \in Same
      OBVIOUS
    <2>1. i + 1 \in 1 .. Len(ss) /\ i + 1 # 1 /\ (i + 1) - 1 = i
      BY <1>0
    <2>2. f[i + 1] = f[i] \o ss[i + 1] /\ g[i + 1] = g[i] \o ss[i + 1]
      BY <1>4, <2>1 DEF Flattens, FlatStep
    <2>3. QED BY <2>1, <2>2
  <1>7. \A i \in 1 .. Len(ss) : i \in Same
    <2> HIDE DEF Same
    <2>1. QED BY <1>0, <1>5, <1>6, Ladder
  <1>8. QED BY <1>0, <1>3, <1>7

\* f has what the first i of the sequences make together.
Beginnings(S, ss, f) ==
  /\ f \in [0 .. Len(ss) -> Seq(S)] /\ f[0] = <<>>
  /\ \A i \in 1 .. Len(ss) : f[i] = f[i - 1] \o ss[i]

LEMMA BeginningsExist ==
  ASSUME NEW S, NEW ss \in Seq(Seq(S))
  PROVE  \E f : Beginnings(S, ss, f)
  <1> DEFINE Good(k, f) == /\ f \in [0 .. k -> Seq(S)] /\ f[0] = <<>>
                           /\ \A i \in 1 .. k : f[i] = f[i - 1] \o ss[i]
             K == {k \in 0 .. Len(ss) : \E f : Good(k, f)}
  <1>0. Len(ss) \in Nat
    OBVIOUS
  <1>1. 0 \in K
    <2>1. Good(0, [i \in 0 .. 0 |-> <<>>])
      OBVIOUS
    <2> HIDE DEF Good
    <2>2. QED BY <1>0, <2>1
  <1>2. ASSUME NEW k \in 0 .. Len(ss), k \in K, k # Len(ss) PROVE k + 1 \in K
    <2>1. PICK f : Good(k, f)
      BY <1>2
    <2> DEFINE g == [i \in 0 .. k + 1 |-> IF i = k + 1 THEN f[k] \o ss[k + 1] ELSE f[i]]
    <2>2. k + 1 \in 1 .. Len(ss) /\ k \in Nat
      BY <1>0, <1>2
    <2>3. ss[k + 1] \in Seq(S) /\ f[k] \in Seq(S)
      <3>1. ss[k + 1] \in Seq(S)
        BY <2>2, MemberOf
      <3>2. QED BY <2>1, <2>2, <3>1
    <2>4. f[k] \o ss[k + 1] \in Seq(S)
      BY <2>3
    <2>5. \A i \in 0 .. k + 1 : i = k + 1 \/ i \in 0 .. k
      BY <2>2
    <2>6. g \in [0 .. k + 1 -> Seq(S)]
      BY <2>1, <2>4, <2>5
    <2>7. /\ g[0] = <<>> /\ g[k + 1] = f[k] \o ss[k + 1]
          /\ \A i \in 0 .. k : g[i] = f[i]
      <3>1. \A i \in 0 .. k : g[i] = f[i]
        <4>1. \A i \in 0 .. k : i \in 0 .. k + 1 /\ i # k + 1
          BY <2>2
        <4>2. QED BY <4>1
      <3>2. g[k + 1] = f[k] \o ss[k + 1]
        <4>1. k + 1 \in 0 .. k + 1
          BY <2>2
        <4>2. QED BY <4>1
      <3>3. 0 \in 0 .. k /\ f[0] = <<>>
        BY <2>1, <2>2
      <3> HIDE DEF g
      <3>4. QED BY <3>1, <3>2, <3>3
    <2> HIDE DEF g
    <2>8. \A i \in 1 .. k + 1 : g[i] = g[i - 1] \o ss[i]
      <3> SUFFICES ASSUME NEW i \in 1 .. k + 1 PROVE g[i] = g[i - 1] \o ss[i]
        OBVIOUS
      <3>1. CASE i = k + 1
        <4>1. i - 1 = k /\ k \in 0 .. k
          BY <2>2, <3>1
        <4>2. QED BY <2>7, <3>1, <4>1
      <3>2. CASE i # k + 1
        <4>1. i \in 1 .. k /\ i \in 0 .. k /\ i - 1 \in 0 .. k
          BY <2>2, <3>2
        <4>2. QED BY <2>1, <2>7, <4>1
      <3>3. QED BY <3>1, <3>2
    <2>9. Good(k + 1, g)
      BY <2>6, <2>7, <2>8
    <2>10. k + 1 \in 0 .. Len(ss)
      BY <2>2
    <2> HIDE DEF Good
    <2>11. QED BY <2>9, <2>10
  <1>3. \A k \in 0 .. Len(ss) : k \in K
    <2> HIDE DEF K
    <2>1. QED BY <1>0, <1>1, <1>2, Ladder
  <1>4. Len(ss) \in K
    <2> HIDE DEF K
    <2>1. QED BY <1>0, <1>3
  <1>5. PICK f : Good(Len(ss), f)
    BY <1>4
  <1>6. QED BY <1>5 DEF Beginnings

LEMMA BeginningsFlatten ==
  ASSUME NEW S, NEW ss \in Seq(Seq(S)), NEW f, Beginnings(S, ss, f)
  PROVE  FlattenSeq(ss) = f[Len(ss)]
  <1>0. Len(ss) \in Nat
    OBVIOUS
  <1>1. CASE ss = <<>>
    BY <1>1 DEF Beginnings, FlattenSeq
  <1>2. CASE ss # <<>>
    <2> DEFINE g == [i \in 1 .. Len(ss) |-> f[i]]
    <2>1. Len(ss) # 0
      BY <1>2, EmptySeq
    <2>2. ASSUME NEW i \in 1 .. Len(ss) PROVE g[i] = FlatStep(ss, g, i)
      <3>1. f[i] = f[i - 1] \o ss[i]
        BY DEF Beginnings
      <3>2. CASE i = 1
        <4>1. ss[1] \in Seq(S) /\ f[0] = <<>>
          BY <3>2, MemberOf DEF Beginnings
        <4>2. f[0] \o ss[1] = ss[1]
          BY <4>1
        <4>3. f[1] = ss[1]
          <5>1. f[1] = f[0] \o ss[1]
            <6>1. i - 1 = 0
              BY <3>2
            <6>2. QED BY <3>1, <3>2, <6>1
          <5>2. QED BY <4>2, <5>1
        <4>4. g[1] = f[1]
          BY <3>2
        <4> HIDE DEF g
        <4>5. QED BY <3>2, <4>3, <4>4 DEF FlatStep
      <3>3. CASE i # 1
        <4>1. i - 1 \in 1 .. Len(ss)
          BY <1>0, <3>3
        <4>2. QED BY <3>1, <3>3, <4>1 DEF FlatStep
      <3>4. QED BY <3>2, <3>3
    <2>3. Flattens(ss, g)
      BY <2>2 DEF Flattens
    <2>4. DOMAIN g = 1 .. Len(ss) /\ g = [i \in 1 .. Len(ss) |-> g[i]]
      OBVIOUS
    <2>5. g[Len(ss)] = f[Len(ss)]
      BY <1>0, <2>1
    <2> HIDE DEF g
    <2>6. FlattenSeq(ss) = g[Len(ss)]
      BY <1>2, <2>3, <2>4, FlattenBy
    <2>7. QED BY <2>5, <2>6
  <1>3. QED BY <1>1, <1>2

\* Where the members of a flattened sequence are: each sequence begins behind
\* the ones before it.
LEMMA BeginningsGrow ==
  ASSUME NEW S, NEW ss \in Seq(Seq(S)), NEW f, Beginnings(S, ss, f),
         NEW i \in 0 .. Len(ss), NEW k \in i .. Len(ss)
  PROVE  /\ Len(f[i]) \in Nat /\ Len(f[k]) \in Nat /\ Len(f[i]) <= Len(f[k])
         /\ \A j \in 1 .. Len(f[i]) : f[k][j] = f[i][j]
  <1>0. Len(ss) \in Nat /\ i \in Nat
    OBVIOUS
  <1> DEFINE Good(m) == Len(f[i]) <= Len(f[m]) /\ \A j \in 1 .. Len(f[i]) : f[m][j] = f[i][j]
             K == {m \in i .. Len(ss) : Good(m)}
  <1>1. \A m \in 0 .. Len(ss) : f[m] \in Seq(S)
    BY DEF Beginnings
  <1>2. \A m \in 0 .. Len(ss) : Len(f[m]) \in Nat
    BY <1>1
  <1>3. i \in K
    BY <1>0, <1>2
  <1>4. ASSUME NEW m \in i .. Len(ss), m \in K, m # Len(ss) PROVE m + 1 \in K
    <2>1. m + 1 \in 1 .. Len(ss) /\ (m + 1) - 1 = m /\ m \in 0 .. Len(ss) /\ m + 1 \in i .. Len(ss)
      BY <1>0, <1>4
    <2>2. f[m + 1] = f[m] \o ss[m + 1] /\ ss[m + 1] \in Seq(S) /\ f[m] \in Seq(S)
      BY <1>1, <2>1, MemberOf DEF Beginnings
    <2>3. /\ Len(f[m + 1]) = Len(f[m]) + Len(ss[m + 1]) /\ Len(f[m]) \in Nat /\ Len(ss[m + 1]) \in Nat
          /\ \A j \in 1 .. Len(f[m]) : f[m + 1][j] = f[m][j]
      <3> DEFINE a == f[m]
                 b == ss[m + 1]
                 c == f[m + 1]
      <3>1. c = a \o b /\ a \in Seq(S) /\ b \in Seq(S)
        BY <2>2
      <3> HIDE DEF a, b, c
      <3>2. Len(c) = Len(a) + Len(b) /\ Len(a) \in Nat /\ Len(b) \in Nat /\ \A j \in 1 .. Len(a) : c[j] = a[j]
        BY <3>1, Concat
      <3>3. QED BY <3>2 DEF a, b, c
    <2>4. Good(m)
      BY <1>4
    <2>5. Len(f[i]) \in Nat
      BY <1>2
    <2>6. Good(m + 1)
      <3>1. Len(f[i]) <= Len(f[m + 1])
        <4> DEFINE a == Len(f[i])
                   b == Len(f[m])
                   c == Len(f[m + 1])
                   d == Len(ss[m + 1])
        <4>1. a \in Nat /\ b \in Nat /\ d \in Nat /\ a <= b /\ c = b + d
          BY <2>3, <2>4, <2>5
        <4> HIDE DEF a, b, c, d
        <4>2. a <= c
          BY <4>1
        <4>3. QED BY <4>2 DEF a, c
      <3>2. \A j \in 1 .. Len(f[i]) : f[m + 1][j] = f[i][j]
        <4> SUFFICES ASSUME NEW j \in 1 .. Len(f[i]) PROVE f[m + 1][j] = f[i][j]
          OBVIOUS
        <4>1. j \in 1 .. Len(f[m])
          <5> DEFINE a == Len(f[i])
                     b == Len(f[m])
          <5>1. a \in Nat /\ b \in Nat /\ a <= b /\ j \in 1 .. a
            BY <2>3, <2>4, <2>5
          <5> HIDE DEF a, b
          <5>2. j \in 1 .. b
            BY <5>1
          <5>3. QED BY <5>2 DEF b
        <4>2. QED BY <2>3, <2>4, <4>1
      <3>3. QED BY <3>1, <3>2
    <2>7. QED BY <2>1, <2>6
  <1>5. \A m \in i .. Len(ss) : m \in K
    <2> HIDE DEF K
    <2>1. QED BY <1>0, <1>3, <1>4, Ladder
  <1>6. Good(k)
    BY <1>5
  <1>7. QED BY <1>0, <1>2, <1>6

\* Where the members of the sequences are in f.
Laid(ss, f) ==
  \A i \in 1 .. Len(ss) : \A k \in i .. Len(ss) : \A j \in 1 .. Len(ss[i]) :
    /\ Len(f[i]) = Len(f[i - 1]) + Len(ss[i]) /\ Len(f[i - 1]) \in Nat /\ Len(f[k]) \in Nat
    /\ Len(f[i - 1]) + j \in 1 .. Len(f[k]) /\ f[k][Len(f[i - 1]) + j] = ss[i][j]

LEMMA BeginningsMember ==
  ASSUME NEW S, NEW ss \in Seq(Seq(S)), NEW f, Beginnings(S, ss, f)
  PROVE  Laid(ss, f)
  <1> USE DEF Laid
  <1> TAKE i \in 1 .. Len(ss)
  <1> TAKE k \in i .. Len(ss)
  <1> TAKE j \in 1 .. Len(ss[i])
  <1>0. Len(ss) \in Nat /\ i - 1 \in 0 .. Len(ss) /\ i \in 0 .. Len(ss)
    OBVIOUS
  <1>1. f[i] = f[i - 1] \o ss[i] /\ f[i - 1] \in Seq(S) /\ ss[i] \in Seq(S)
    BY <1>0, MemberOf DEF Beginnings
  <1>2. /\ Len(f[i]) = Len(f[i - 1]) + Len(ss[i]) /\ Len(f[i - 1]) \in Nat /\ Len(ss[i]) \in Nat
        /\ f[i][Len(f[i - 1]) + j] = ss[i][j]
    <2> DEFINE a == f[i - 1]
               b == ss[i]
               c == f[i]
    <2>1. c = a \o b /\ a \in Seq(S) /\ b \in Seq(S) /\ j \in 1 .. Len(b)
      BY <1>1
    <2> HIDE DEF a, b, c
    <2>2. Len(c) = Len(a) + Len(b) /\ Len(a) \in Nat /\ Len(b) \in Nat /\ c[Len(a) + j] = b[j]
      BY <2>1, Concat
    <2>3. QED BY <2>2 DEF a, b, c
  <1>3. /\ Len(f[k]) \in Nat /\ Len(f[i]) <= Len(f[k])
        /\ \A m \in 1 .. Len(f[i]) : f[k][m] = f[i][m]
    <2>1. i \in 0 .. Len(ss) /\ k \in i .. Len(ss)
      BY <1>0
    <2>2. QED BY <2>1, BeginningsGrow
  <1>4. Len(f[i - 1]) + j \in 1 .. Len(f[i]) /\ Len(f[i - 1]) + j \in 1 .. Len(f[k])
    <2> DEFINE a == Len(f[i - 1])
               b == Len(ss[i])
               c == Len(f[i])
               d == Len(f[k])
    <2>1. c = a + b /\ a \in Nat /\ b \in Nat /\ d \in Nat /\ c <= d /\ j \in 1 .. b
      BY <1>2, <1>3
    <2> HIDE DEF a, b, c, d
    <2>2. a + j \in 1 .. c /\ a + j \in 1 .. d
      BY <2>1
    <2>3. QED BY <2>2 DEF a, b, c, d
  <1>5. QED BY <1>2, <1>3, <1>4

LEMMA FlattenTyped ==
  ASSUME NEW S, NEW ss \in Seq(Seq(S))
  PROVE  FlattenSeq(ss) \in Seq(S)
  <1>1. PICK f : Beginnings(S, ss, f)
    BY BeginningsExist
  <1>2. Len(ss) \in 0 .. Len(ss)
    OBVIOUS
  <1>3. f[Len(ss)] \in Seq(S)
    BY <1>1, <1>2 DEF Beginnings
  <1>4. QED BY <1>1, <1>3, BeginningsFlatten

----------------------------------------------------------------------------
(* Blocks and addresses                                                     *)

LEMMA Division ==
  ASSUME NEW m \in Nat \ {0}, NEW q \in Int, NEW r \in 0 .. m - 1
  PROVE  (q * m + r) \div m = q /\ (q * m + r) % m = r
  <1> DEFINE x == q * m + r
             d == x \div m
             s == x % m
  <1>1. d \in Int /\ s \in 0 .. m - 1 /\ x = m * d + s
    OBVIOUS
  <1>2. m * (q - d) = s - r
    BY <1>1
  <1>3. s - r < m /\ s - r > -m
    BY <1>1
  <1>4. \A y \in Int : (y >= 1 => m * y >= m) /\ (y <= -1 => m * y <= -m)
    OBVIOUS
  <1>5. q - d = 0
    <2> DEFINE y == q - d
    <2>1. y \in Int /\ m * y < m /\ m * y > -m
      BY <1>1, <1>2, <1>3
    <2> HIDE DEF y
    <2>2. ~(y >= 1) /\ ~(y <= -1)
      <3>1. (y >= 1 => m * y >= m) /\ (y <= -1 => m * y <= -m)
        BY <1>4, <2>1
      <3>2. m * y \in Int
        BY <2>1
      <3>3. QED BY <2>1, <3>1, <3>2
    <2>3. QED BY <2>1, <2>2 DEF y
  <1>6. QED BY <1>1, <1>2, <1>5

\* The blocks of some bytes, and the step to the next header.
LEMMA BlocksSpec ==
  ASSUME NEW size \in Nat
  PROVE  /\ Blocks(size) \in Nat
         /\ (size \div BlockSize + 1) * BlockSize + (IF size % BlockSize # 0 THEN BlockSize ELSE 0)
              = (1 + Blocks(size)) * BlockSize
         /\ \A byte \in 0 .. size - 1 : byte \div BlockSize + 1 \in 1 .. Blocks(size)
  <1> DEFINE m == BlockSize
             q == size \div m
             r == size % m
  <1>1. m \in Nat \ {0}
    BY VfsAssumption DEF VfsAssumption
  <1>2. q \in Nat /\ r \in 0 .. m - 1 /\ size = q * m + r
    BY <1>1
  <1> HIDE DEF q, r
  <1>3. Blocks(size) = IF r = 0 THEN q ELSE q + 1
    <2>1. CASE r = 0
      <3>1. size + m - 1 = q * m + (m - 1) /\ m - 1 \in 0 .. m - 1
        BY <1>1, <1>2, <2>1
      <3>2. QED BY <1>1, <1>2, <2>1, <3>1, Division DEF Blocks
    <2>2. CASE r # 0
      <3>1. size + m - 1 = (q + 1) * m + (r - 1) /\ r - 1 \in 0 .. m - 1
        BY <1>1, <1>2, <2>2
      <3>2. QED BY <1>1, <1>2, <2>2, <3>1, Division DEF Blocks
    <2>3. QED BY <2>1, <2>2
  <1>4. (q + 1) * m + (IF r # 0 THEN m ELSE 0) = (1 + Blocks(size)) * m
    <2>1. (q + 1) * m + 0 = (1 + q) * m /\ (q + 1) * m + m = (1 + (q + 1)) * m
      BY <1>1, <1>2
    <2>2. CASE r = 0
      <3>1. Blocks(size) = q
        BY <1>3, <2>2
      <3>2. QED BY <2>1, <2>2, <3>1
    <2>3. CASE r # 0
      <3>1. Blocks(size) = q + 1
        BY <1>3, <2>3
      <3>2. QED BY <2>1, <2>3, <3>1
    <2>4. QED BY <2>2, <2>3
  <1>5. ASSUME NEW byte \in 0 .. size - 1 PROVE byte \div m + 1 \in 1 .. Blocks(size)
    <2> DEFINE d == byte \div m
               s == byte % m
    <2>1. d \in Nat /\ s \in 0 .. m - 1 /\ byte = d * m + s
      BY <1>1
    <2> HIDE DEF d, s
    <2>2. d <= q
      <3>1. CASE d >= q + 1
        <4>1. d * m >= (q + 1) * m
          BY <1>1, <1>2, <2>1, <3>1
        <4>2. (q + 1) * m = q * m + m /\ q * m \in Nat /\ d * m \in Nat
          BY <1>1, <1>2, <2>1
        <4>3. QED BY <1>1, <1>2, <2>1, <4>1, <4>2
      <3>2. QED BY <1>2, <2>1, <3>1
    <2>3. r = 0 => d # q
      <3> SUFFICES ASSUME r = 0, d = q PROVE FALSE
        OBVIOUS
      <3>1. byte = q * m + s /\ size = q * m + 0 /\ q * m \in Nat
        BY <1>1, <1>2, <2>1
      <3> DEFINE x == q * m
      <3>2. byte = x + s /\ size = x /\ x \in Nat
        BY <3>1
      <3> HIDE DEF x
      <3>3. QED BY <1>1, <2>1, <3>2
    <2>4. d + 1 \in 1 .. Blocks(size)
      BY <1>2, <1>3, <2>1, <2>2, <2>3
    <2>5. QED BY <2>4 DEF d
  <1>6. Blocks(size) \in Nat
    BY <1>2, <1>3
  <1>7. QED BY <1>4, <1>5, <1>6 DEF q, r

Size(m) == Archive[m].size

LEMMA ArchiveFacts ==
  /\ BlockSize \in Nat \ {0} /\ Len(Archive) \in Nat /\ DOMAIN Archive = Entry
  /\ \A m \in Entry : /\ Archive[m].name \in Paths /\ Archive[m].name # <<>>
                      /\ Archive[m].dir \in BOOLEAN /\ Size(m) \in Nat /\ Blocks(Size(m)) \in Nat
  /\ \A i, j \in Entry : Archive[i].name = Archive[j].name => i = j
  <1> DEFINE R == [name : Paths, dir : BOOLEAN, size : Nat]
  <1>1. Archive \in Seq(R) /\ BlockSize \in Nat \ {0}
    BY VfsAssumption DEF VfsAssumption
  <1> HIDE DEF R
  <1>2. Len(Archive) \in Nat /\ DOMAIN Archive = Entry /\ \A m \in Entry : Archive[m] \in R
    BY <1>1 DEF Entry
  <1>3. \A m \in Entry : /\ Archive[m].name \in Paths /\ Archive[m].dir \in BOOLEAN /\ Size(m) \in Nat
    BY <1>2 DEF R, Size
  <1>4. \A m \in Entry : Blocks(Size(m)) \in Nat
    BY <1>3, BlocksSpec
  <1>5. QED BY <1>1, <1>2, <1>3, <1>4, VfsAssumption DEF VfsAssumption

----------------------------------------------------------------------------
(* Where the members are in the image                                       *)

BlockOf == [member : Nat, block : Nat]
MemberBlocks ==
  [i \in DOMAIN Archive |->
    [b \in 1 .. 1 + Blocks(Archive[i].size) |-> [member |-> i, block |-> b - 1]]]
Places == CHOOSE f : Beginnings(BlockOf, MemberBlocks, f)

\* How many blocks are in front of a member, or of the end.
Start(m) == Len(Places[m - 1])
EndBlock == [member |-> 0, block |-> 0]

LEMMA MemberBlocksTyped ==
  /\ MemberBlocks \in Seq(Seq(BlockOf)) /\ Len(MemberBlocks) = Len(Archive)
  /\ \A m \in Entry : /\ Len(MemberBlocks[m]) = 1 + Blocks(Size(m))
                      /\ \A b \in 0 .. Blocks(Size(m)) : MemberBlocks[m][1 + b] = [member |-> m, block |-> b]
  <1> DEFINE W == Seq(BlockOf)
             B(m) == [b \in 1 .. 1 + Blocks(Size(m)) |-> [member |-> m, block |-> b - 1]]
  <1>1. Len(Archive) \in Nat /\ DOMAIN Archive = 1 .. Len(Archive) /\ Entry = 1 .. Len(Archive)
    BY ArchiveFacts DEF Entry
  <1>2. MemberBlocks = [m \in 1 .. Len(Archive) |-> B(m)]
    BY <1>1 DEF MemberBlocks, Size
  <1>3. ASSUME NEW m \in Entry
        PROVE  /\ B(m) \in W /\ Len(B(m)) = 1 + Blocks(Size(m))
               /\ \A b \in 0 .. Blocks(Size(m)) : B(m)[1 + b] = [member |-> m, block |-> b]
    <2> DEFINE n == Blocks(Size(m))
               T == BlockOf
               C == [b \in 1 .. 1 + n |-> [member |-> m, block |-> b - 1]]
    <2>1. n \in Nat /\ m \in Nat
      BY <1>1, ArchiveFacts
    <2> HIDE DEF n
    <2>2. \A b \in 1 .. 1 + n : [member |-> m, block |-> b - 1] \in T
      BY <2>1 DEF BlockOf
    <2>3. \A b \in 0 .. n : 1 + b \in 1 .. 1 + n /\ (1 + b) - 1 = b
      BY <2>1
    <2>4. \A b \in 0 .. n : C[1 + b] = [member |-> m, block |-> b]
      BY <2>3
    <2> HIDE DEF T
    <2>5. C \in [1 .. 1 + n -> T]
      BY <2>2
    <2> HIDE DEF C
    <2>6. C \in Seq(T) /\ Len(C) = 1 + n
      BY <2>1, <2>5 DEF Seq
    <2>7. C = B(m)
      BY DEF C, n
    <2> HIDE DEF B
    <2>8. QED BY <2>4, <2>6, <2>7 DEF T, n
  <1> HIDE DEF W, B
  <1>4. MemberBlocks \in [1 .. Len(Archive) -> W]
    BY <1>1, <1>2, <1>3
  <1>5. MemberBlocks \in Seq(W) /\ Len(MemberBlocks) = Len(Archive)
    BY <1>1, <1>2, <1>4 DEF Seq
  <1>6. \A m \in Entry : MemberBlocks[m] = B(m)
    BY <1>1, <1>2
  <1>7. QED BY <1>3, <1>5, <1>6 DEF W

LEMMA ImageLaid ==
  /\ Start(1) = 0 /\ Image \in Seq(BlockOf)
  /\ \A m \in 1 .. Len(Archive) + 1 : Start(m) \in Nat
  /\ \A m \in Entry : Start(m + 1) = Start(m) + 1 + Blocks(Size(m))
  /\ \A m \in Entry : \A b \in 0 .. Blocks(Size(m)) :
       /\ Start(m) + 1 + b \in 1 .. Start(Len(Archive) + 1)
       /\ Image[Start(m) + 1 + b] = [member |-> m, block |-> b]
  /\ Len(Image) = Start(Len(Archive) + 1) + 1 /\ Image[Len(Image)] = EndBlock
  <1> DEFINE n == Len(Archive)
             ss == MemberBlocks
             f == Places
             T == BlockOf
  <1>1. n \in Nat /\ Entry = 1 .. n /\ \A m \in Entry : Blocks(Size(m)) \in Nat
    BY ArchiveFacts DEF Entry
  <1>2. ss \in Seq(Seq(T)) /\ Len(ss) = n
        /\ \A m \in Entry : /\ Len(ss[m]) = 1 + Blocks(Size(m))
                            /\ \A b \in 0 .. Blocks(Size(m)) : ss[m][1 + b] = [member |-> m, block |-> b]
    BY MemberBlocksTyped
  <1>3. Beginnings(T, ss, f)
    BY <1>2, BeginningsExist DEF Places
  <1>4. FlattenSeq(ss) = f[n]
    BY <1>2, <1>3, BeginningsFlatten
  <1>5. Laid(ss, f)
    BY <1>2, <1>3, BeginningsMember
  <1>6. Image = FlattenSeq(ss) \o <<EndBlock>>
    BY DEF Image, MemberBlocks, EndBlock
  <1>7. EndBlock \in T
    BY DEF EndBlock, BlockOf
  <1> HIDE DEF n, ss, f, T
  <1>8. f \in [0 .. n -> Seq(T)] /\ f[0] = <<>>
    BY <1>2, <1>3 DEF Beginnings
  <1>9. \A m \in 1 .. n + 1 : Start(m) \in Nat
    <2> SUFFICES ASSUME NEW m \in 1 .. n + 1 PROVE Start(m) \in Nat
      OBVIOUS
    <2>1. m - 1 \in 0 .. n
      BY <1>1
    <2>2. f[m - 1] \in Seq(T)
      BY <1>8, <2>1
    <2>3. QED BY <2>2 DEF Start, f
  <1>10. Start(1) = 0
    <2>1. f[1 - 1] = <<>>
      BY <1>8
    <2>2. QED BY <2>1 DEF Start, f
  <1>11. Start(n + 1) = Len(f[n]) /\ Len(f[n]) \in Nat /\ f[n] \in Seq(T)
    <2>1. (n + 1) - 1 = n /\ n \in 0 .. n
      BY <1>1
    <2>2. QED BY <1>8, <2>1 DEF Start, f
  <1>12. /\ Image \in Seq(T) /\ Len(Image) = Start(n + 1) + 1 /\ Image[Len(Image)] = EndBlock
         /\ \A j \in 1 .. Start(n + 1) : Image[j] = f[n][j]
    <2> DEFINE e == <<EndBlock>>
    <2>1. e \in Seq(T) /\ Len(e) = 1 /\ e[1] = EndBlock /\ Image = f[n] \o e
      BY <1>4, <1>6, <1>7
    <2> HIDE DEF e
    <2>2. /\ Image \in Seq(T) /\ Len(Image) = Len(f[n]) + Len(e)
          /\ \A j \in 1 .. Len(f[n]) : Image[j] = f[n][j]
          /\ \A j \in 1 .. Len(e) : Image[Len(f[n]) + j] = e[j]
      BY <1>11, <2>1, Concat
    <2>3. QED BY <1>11, <2>1, <2>2
  <1>13. ASSUME NEW m \in Entry
         PROVE  /\ Start(m + 1) = Start(m) + 1 + Blocks(Size(m))
                /\ \A b \in 0 .. Blocks(Size(m)) :
                     /\ Start(m) + 1 + b \in 1 .. Start(n + 1)
                     /\ Image[Start(m) + 1 + b] = [member |-> m, block |-> b]
    <2>1. m \in 1 .. Len(ss) /\ n \in m .. Len(ss) /\ (m + 1) - 1 = m
      BY <1>1, <1>2
    <2>2. \A b \in 0 .. Blocks(Size(m)) : 1 + b \in 1 .. Len(ss[m])
      BY <1>1, <1>2
    <2>3. \A j \in 1 .. Len(ss[m]) :
            /\ Len(f[m]) = Len(f[m - 1]) + Len(ss[m])
            /\ Len(f[m - 1]) + j \in 1 .. Len(f[n]) /\ f[n][Len(f[m - 1]) + j] = ss[m][j]
      BY <1>5, <2>1 DEF Laid
    <2>4. Start(m) = Len(f[m - 1]) /\ Start(m + 1) = Len(f[m])
      BY <2>1 DEF Start, f
    <2>5. Start(m + 1) = Start(m) + 1 + Blocks(Size(m))
      <3>1. 0 \in 0 .. Blocks(Size(m)) /\ Start(m) \in Nat
        BY <1>1, <1>9
      <3>2. Len(f[m]) = Len(f[m - 1]) + Len(ss[m])
        BY <2>2, <2>3, <3>1
      <3> DEFINE x == Start(m)
                 y == Blocks(Size(m))
      <3>3. x \in Nat /\ y \in Nat /\ Start(m + 1) = x + (1 + y)
        BY <1>1, <1>2, <2>4, <3>1, <3>2
      <3> HIDE DEF x, y
      <3>4. Start(m + 1) = x + 1 + y
        BY <3>3
      <3>5. QED BY <3>4 DEF x, y
    <2>6. ASSUME NEW b \in 0 .. Blocks(Size(m))
          PROVE  /\ Start(m) + 1 + b \in 1 .. Start(n + 1)
                 /\ Image[Start(m) + 1 + b] = [member |-> m, block |-> b]
      <3>1. Len(f[m - 1]) + (1 + b) \in 1 .. Len(f[n]) /\ f[n][Len(f[m - 1]) + (1 + b)] = ss[m][1 + b]
        BY <2>2, <2>3
      <3>2. Start(m) + 1 + b = Len(f[m - 1]) + (1 + b)
        <4>1. Start(m) \in Nat /\ b \in Nat
          BY <1>1, <1>9
        <4> DEFINE x == Start(m)
        <4>2. x = Len(f[m - 1])
          BY <2>4
        <4>5. x \in Nat /\ b \in Nat
          BY <4>1
        <4> HIDE DEF x
        <4>3. x + 1 + b = x + (1 + b)
          BY <4>5
        <4>4. QED BY <4>2, <4>3 DEF x
      <3>3. QED BY <1>2, <1>11, <1>12, <3>1, <3>2
    <2>7. QED BY <2>5, <2>6
  <1>14. QED BY <1>9, <1>10, <1>12, <1>13 DEF n, T

\* There is nothing else in the image.
LEMMA ImageOnly ==
  \A x \in 1 .. Len(Image) - 1 :
    \E m \in Entry : \E b \in 0 .. Blocks(Size(m)) : x = Start(m) + 1 + b
  <1> DEFINE n == Len(Archive)
             Found(x) == \E m \in Entry : \E b \in 0 .. Blocks(Size(m)) : x = Start(m) + 1 + b
             K == {k \in 0 .. n : \A x \in 1 .. Start(k + 1) : Found(x)}
  <1>1. n \in Nat /\ Entry = 1 .. n /\ \A m \in Entry : Blocks(Size(m)) \in Nat
    BY ArchiveFacts DEF Entry
  <1>2. 0 \in K
    <2>1. Start(0 + 1) = 0
      BY ImageLaid
    <2>2. 1 .. Start(0 + 1) = {}
      BY <2>1
    <2>3. QED BY <1>1, <2>2
  <1>3. ASSUME NEW k \in 0 .. n, k \in K, k # n PROVE k + 1 \in K
    <2> DEFINE m == k + 1
    <2>1. m \in Entry /\ m \in 0 .. n
      BY <1>1, <1>3
    <2>2. Start(m + 1) = Start(m) + 1 + Blocks(Size(m)) /\ Start(m) \in Nat
      BY <1>1, <2>1, ImageLaid
    <2>3. ASSUME NEW x \in 1 .. Start(m + 1) PROVE Found(x)
      <3>1. CASE x \in 1 .. Start(m)
        BY <1>3, <3>1
      <3>2. CASE x \notin 1 .. Start(m)
        <4> DEFINE b == x - Start(m) - 1
        <4>1. b \in 0 .. Blocks(Size(m)) /\ x = Start(m) + 1 + b
          <5> DEFINE y == Start(m)
                     z == Blocks(Size(m))
          <5>1. y \in Nat /\ z \in Nat /\ x \in 1 .. y + 1 + z /\ x \notin 1 .. y
            BY <1>1, <2>1, <2>2, <3>2
          <5> HIDE DEF y, z
          <5>2. x - y - 1 \in 0 .. z /\ x = y + 1 + (x - y - 1)
            BY <5>1
          <5>3. QED BY <5>2 DEF y, z
        <4>2. QED BY <2>1, <4>1
      <3>3. QED BY <3>1, <3>2
    <2> HIDE DEF Found
    <2>4. QED BY <2>1, <2>3
  <1>4. \A k \in 0 .. n : k \in K
    <2> HIDE DEF K, n
    <2>1. QED BY <1>1, <1>2, <1>3, Ladder
  <1>5. Len(Image) - 1 = Start(n + 1)
    <2>1. Len(Image) = Start(n + 1) + 1 /\ Start(n + 1) \in Nat
      BY <1>1, ImageLaid
    <2>2. QED BY <2>1
  <1>6. n \in K
    BY <1>1, <1>4
  <1> HIDE DEF Found
  <1>7. QED BY <1>5, <1>6 DEF Found

LEMMA ImageFacts ==
  /\ Len(Image) \in Nat \ {0}
  /\ \A m \in Entry : \A b \in 0 .. Blocks(Size(m)) :
       /\ Start(m) + 1 + b \in 1 .. Len(Image) - 1
       /\ Image[Start(m) + 1 + b] = [member |-> m, block |-> b]
  /\ \A x \in 1 .. Len(Image) : x = Len(Image) <=> Image[x].member = 0
  <1>1. Len(Archive) \in Nat /\ Entry = 1 .. Len(Archive)
    BY ArchiveFacts DEF Entry
  <1>2. Len(Image) = Start(Len(Archive) + 1) + 1 /\ Start(Len(Archive) + 1) \in Nat
    BY <1>1, ImageLaid
  <1>3. Len(Image) \in Nat \ {0} /\ Len(Image) - 1 = Start(Len(Archive) + 1)
    BY <1>2
  <1>4. \A m \in Entry : \A b \in 0 .. Blocks(Size(m)) :
          /\ Start(m) + 1 + b \in 1 .. Len(Image) - 1
          /\ Image[Start(m) + 1 + b] = [member |-> m, block |-> b]
    <2>1. 1 .. Len(Image) - 1 = 1 .. Start(Len(Archive) + 1)
      BY <1>3
    <2>2. QED BY <2>1, ImageLaid, Zenon
  <1>5. ASSUME NEW x \in 1 .. Len(Image), x # Len(Image) PROVE Image[x].member # 0
    <2>1. x \in 1 .. Len(Image) - 1
      BY <1>3, <1>5
    <2>2. PICK m \in Entry : \E b \in 0 .. Blocks(Size(m)) : x = Start(m) + 1 + b
      BY <2>1, ImageOnly
    <2>3. PICK b \in 0 .. Blocks(Size(m)) : x = Start(m) + 1 + b
      BY <2>2
    <2>4. Image[Start(m) + 1 + b] = [member |-> m, block |-> b]
      BY <1>4, Zenon
    <2>5. Image[x].member = m
      BY <2>3, <2>4
    <2>6. QED BY <1>1, <2>5
  <1>6. Image[Len(Image)].member = 0
    BY ImageLaid DEF EndBlock
  <1>7. QED BY <1>3, <1>4, <1>5, <1>6

\* A header is found where its member starts.
LEMMA HeaderOfStart ==
  ASSUME NEW m \in Entry
  PROVE  HeaderOf(m) = Start(m) * BlockSize
  <1> DEFINE P(x) == Image[x] = [member |-> m, block |-> 0]
             c == CHOOSE x \in DOMAIN Image : P(x)
  <1>1. DOMAIN Image = 1 .. Len(Image) /\ Len(Image) \in Nat
    BY ImageLaid
  <1>2. 0 \in 0 .. Blocks(Size(m)) /\ Start(m) \in Nat
    <2>1. m \in 1 .. Len(Archive) + 1 /\ Blocks(Size(m)) \in Nat
      BY ArchiveFacts DEF Entry
    <2>2. QED BY <2>1, ImageLaid
  <1>3. Start(m) + 1 \in DOMAIN Image /\ P(Start(m) + 1)
    <2>1. Start(m) + 1 + 0 = Start(m) + 1
      BY <1>2
    <2>2. Start(m) + 1 + 0 \in 1 .. Len(Image) - 1 /\ Image[Start(m) + 1 + 0] = [member |-> m, block |-> 0]
      BY <1>2, ImageFacts
    <2>3. Start(m) + 1 \in 1 .. Len(Image)
      BY <1>1, <2>1, <2>2
    <2>4. QED BY <1>1, <2>1, <2>2, <2>3
  <1>4. c \in DOMAIN Image /\ P(c)
    BY <1>3
  <1>5. ASSUME NEW x \in DOMAIN Image, P(x) PROVE x = Start(m) + 1
    <2>1. m # 0
      BY DEF Entry
    <2>2. x \in 1 .. Len(Image) - 1
      <3>1. x # Len(Image)
        BY <1>1, <1>5, <2>1, ImageFacts
      <3>2. QED BY <1>1, <3>1
    <2>7. PICK k \in Entry : \E b \in 0 .. Blocks(Size(k)) : x = Start(k) + 1 + b
      BY <2>2, ImageOnly
    <2>3. PICK b \in 0 .. Blocks(Size(k)) : x = Start(k) + 1 + b
      BY <2>7
    <2>4. Image[x] = [member |-> k, block |-> b]
      BY <2>3, ImageFacts
    <2>5. k = m /\ b = 0
      BY <1>5, <2>4
    <2>6. QED BY <1>2, <2>3, <2>5
  <1>6. c = Start(m) + 1
    BY <1>4, <1>5
  <1>7. HeaderOf(m) = c * BlockSize - BlockSize
    BY DEF HeaderOf
  <1> HIDE DEF c
  <1>8. BlockSize \in Nat
    BY ArchiveFacts
  <1>9. QED BY <1>2, <1>6, <1>7, <1>8

\* The block an address is in.
LEMMA AddressBlock ==
  ASSUME NEW x \in 1 .. Len(Image), NEW o \in 0 .. BlockSize - 1
  PROVE  /\ (x - 1) * BlockSize + o \in Address
         /\ BlockAt((x - 1) * BlockSize + o) = Image[x]
         /\ ((x - 1) * BlockSize + o) % BlockSize = o
  <1> DEFINE m == BlockSize
             q == x - 1
             a == q * m + o
             n == Len(Image)
  <1>1. m \in Nat \ {0} /\ n \in Nat /\ q \in Nat /\ x \in 1 .. n
    BY ArchiveFacts, ImageFacts
  <1>2. a \div m = q /\ a % m = o
    <2>1. m \in Nat \ {0} /\ q \in Nat /\ o \in 0 .. m - 1
      BY <1>1
    <2> HIDE DEF m, q
    <2>2. QED BY <2>1, Division
  <1>3. BlockAt(a) = Image[x]
    BY <1>1, <1>2 DEF BlockAt
  <1>4. a \in 0 .. n * m - 1
    <2>1. \A y \in Nat : y >= 0 => y * m >= 0 /\ y * m \in Nat
      BY <1>1
    <2>2. n - x \in Nat /\ n * m = q * m + m + (n - x) * m
      BY <1>1
    <2>3. (n - x) * m >= 0 /\ (n - x) * m \in Nat /\ q * m \in Nat
      BY <1>1, <2>1, <2>2
    <2> DEFINE u == q * m
               v == (n - x) * m
               w == n * m
    <2>4. u \in Nat /\ v \in Nat /\ w = u + m + v
      BY <2>2, <2>3
    <2> HIDE DEF u, v, w
    <2>5. u + o \in 0 .. w - 1
      BY <1>1, <2>4
    <2>6. QED BY <2>5 DEF u, w
  <1>5. QED BY <1>2, <1>3, <1>4 DEF Address

LEMMA AddressOf ==
  ASSUME NEW a \in Address
  PROVE  \E x \in 1 .. Len(Image) : \E o \in 0 .. BlockSize - 1 :
           a = (x - 1) * BlockSize + o /\ BlockAt(a) = Image[x]
  <1> DEFINE m == BlockSize
             q == a \div m
             o == a % m
             n == Len(Image)
  <1>1. m \in Nat \ {0} /\ n \in Nat \ {0} /\ a \in 0 .. n * m - 1
    BY ArchiveFacts, ImageFacts DEF Address
  <1>2. q \in Nat /\ o \in 0 .. m - 1 /\ a = q * m + o
    BY <1>1
  <1>3. BlockAt(a) = Image[q + 1]
    BY DEF BlockAt
  <1> HIDE DEF q, o
  <1>4. q < n
    <2> SUFFICES ASSUME q >= n PROVE FALSE
      BY <1>1, <1>2
    <2>1. q * m >= n * m /\ q * m \in Nat /\ n * m \in Nat
      BY <1>1, <1>2
    <2> DEFINE u == q * m
               w == n * m
    <2>2. u >= w /\ u \in Nat /\ w \in Nat /\ a \in 0 .. w - 1 /\ a = u + o
      BY <1>1, <1>2, <2>1
    <2> HIDE DEF u, w
    <2>3. QED BY <1>1, <1>2, <2>2
  <1>5. q + 1 \in 1 .. n /\ (q + 1) - 1 = q
    BY <1>1, <1>2, <1>4
  <1>6. QED BY <1>2, <1>3, <1>5

----------------------------------------------------------------------------
(* From header to header                                                    *)

At(m) == Start(m) * BlockSize

LEMMA StartFacts ==
  /\ Len(Archive) \in Nat /\ Entry = 1 .. Len(Archive)
  /\ \A m \in 1 .. Len(Archive) + 1 : Start(m) \in Nat /\ Start(m) + 1 \in 1 .. Len(Image)
  /\ \A m \in Entry : Start(m) + 1 # Len(Image) /\ Image[Start(m) + 1] = [member |-> m, block |-> 0]
  /\ Start(Len(Archive) + 1) + 1 = Len(Image)
  <1> DEFINE n == Len(Archive)
  <1>1. n \in Nat /\ Entry = 1 .. n
    BY ArchiveFacts DEF Entry
  <1>2. Start(n + 1) + 1 = Len(Image) /\ Len(Image) \in Nat \ {0}
    BY ImageLaid, ImageFacts
  <1>3. \A m \in 1 .. n + 1 : Start(m) \in Nat
    BY ImageLaid
  <1>4. ASSUME NEW m \in Entry
        PROVE  Start(m) + 1 \in 1 .. Len(Image) - 1 /\ Image[Start(m) + 1] = [member |-> m, block |-> 0]
    <2>1. 0 \in 0 .. Blocks(Size(m)) /\ Start(m) + 1 + 0 = Start(m) + 1
      <3>1. Blocks(Size(m)) \in Nat
        BY ArchiveFacts
      <3>2. Start(m) \in Nat
        BY <1>1, <1>3
      <3>3. QED BY <3>1, <3>2
    <2>2. Start(m) + 1 + 0 \in 1 .. Len(Image) - 1 /\ Image[Start(m) + 1 + 0] = [member |-> m, block |-> 0]
      BY <2>1, ImageFacts, Zenon
    <2>3. QED BY <2>1, <2>2
  <1>5. ASSUME NEW m \in 1 .. n + 1 PROVE Start(m) + 1 \in 1 .. Len(Image)
    <2>1. CASE m \in Entry
      <3>1. Start(m) + 1 \in 1 .. Len(Image) - 1
        BY <1>4, <2>1
      <3>2. QED BY <1>2, <3>1
    <2>2. CASE m \notin Entry
      <3>1. m = n + 1
        BY <1>1, <2>2
      <3>2. QED BY <1>2, <3>1
    <2>3. QED BY <2>1, <2>2
  <1>6. ASSUME NEW m \in Entry PROVE Start(m) + 1 # Len(Image)
    <2> DEFINE z == Start(m) + 1
               l == Len(Image)
    <2>1. z \in 1 .. l - 1 /\ l \in Nat
      BY <1>2, <1>4
    <2> HIDE DEF z, l
    <2>2. z # l
      BY <2>1
    <2>3. QED BY <2>2 DEF z, l
  <1>7. QED BY <1>1, <1>2, <1>3, <1>4, <1>5, <1>6

LEMMA NextInside ==
  ASSUME NEW a \in Address, ~AtEnd(a)
  PROVE  NextHeader(a) \in Address /\ NextHeader(a) > a
  <1> DEFINE w == BlockSize
             n == Len(Image)
  <1>1. w \in Nat \ {0} /\ n \in Nat \ {0} /\ a \in Nat
    BY ArchiveFacts, ImageFacts DEF Address
  <1>2. PICK x \in 1 .. n : \E o \in 0 .. w - 1 : a = (x - 1) * w + o /\ BlockAt(a) = Image[x]
    BY AddressOf
  <1>3. PICK o \in 0 .. w - 1 : a = (x - 1) * w + o /\ BlockAt(a) = Image[x]
    BY <1>2
  <1>4. x \in 1 .. n - 1
    <2>1. Image[x].member # 0
      BY <1>3 DEF AtEnd
    <2>2. x # n
      BY <2>1, ImageFacts
    <2>3. QED BY <1>1, <2>2
  <1>5. PICK k \in Entry : \E b \in 0 .. Blocks(Size(k)) : x = Start(k) + 1 + b
    BY <1>4, ImageOnly
  <1>6. PICK b \in 0 .. Blocks(Size(k)) : x = Start(k) + 1 + b
    BY <1>5
  <1>7. BlockAt(a) = [member |-> k, block |-> b]
    <2>1. Image[Start(k) + 1 + b] = [member |-> k, block |-> b]
      BY ImageFacts, Zenon
    <2>2. QED BY <1>3, <1>6, <2>1
  <1>8. k \in 1 .. Len(Archive) + 1 /\ Start(k) \in Nat /\ Size(k) \in Nat /\ Blocks(Size(k)) \in Nat
    <2>1. k \in 1 .. Len(Archive) + 1
      BY ArchiveFacts DEF Entry
    <2>2. QED BY <2>1, StartFacts, ArchiveFacts
  <1>9. CASE b = 0
    <2> DEFINE s == Size(k)
               c == 1 + Blocks(Size(k))
    <2>1. Header(a) = Archive[k]
      BY <1>7, <1>9 DEF Header
    <2>2. NextHeader(a) = a + (s \div w + 1) * w + (IF s % w # 0 THEN w ELSE 0)
      BY <2>1 DEF NextHeader, Size
    <2>3. (s \div w + 1) * w + (IF s % w # 0 THEN w ELSE 0) = c * w
      BY <1>8, BlocksSpec
    <2>4. s \div w \in Nat /\ c \in Nat \ {0} /\ s % w \in Nat
      <3>1. c \in Nat \ {0} /\ s \in Nat
        BY <1>8
      <3> HIDE DEF s, c
      <3>2. QED BY <1>1, <3>1
    <2>5. NextHeader(a) = a + c * w
      <3> DEFINE u == (s \div w + 1) * w
                 v == IF s % w # 0 THEN w ELSE 0
      <3>1. u \in Nat /\ v \in Nat /\ u + v = c * w
        BY <1>1, <2>3, <2>4
      <3>2. NextHeader(a) = a + u + v
        BY <2>2
      <3> HIDE DEF u, v, c
      <3>3. QED BY <1>1, <3>1, <3>2
    <2>6. Start(k + 1) + 1 \in 1 .. n /\ Start(k + 1) = Start(k) + c
      <3>1. k + 1 \in 1 .. Len(Archive) + 1 /\ Start(k + 1) = Start(k) + 1 + Blocks(Size(k))
        BY StartFacts, ImageLaid
      <3>2. Start(k + 1) + 1 \in 1 .. n
        BY <3>1, StartFacts
      <3> DEFINE z == Start(k)
                 e == Blocks(Size(k))
      <3>3. z \in Nat /\ e \in Nat /\ Start(k + 1) = z + 1 + e
        BY <1>8, <3>1
      <3> HIDE DEF z, e
      <3>4. Start(k + 1) = z + (1 + e)
        BY <3>3
      <3>5. QED BY <3>2, <3>4 DEF z, e
    <2> DEFINE y == Start(k + 1) + 1
    <2>7. y \in 1 .. n /\ (y - 1) * w + o = a + c * w
      <3> DEFINE z == Start(k)
      <3>1. z \in Nat /\ x = z + 1 + 0 /\ y = (z + c) + 1 /\ y \in 1 .. n
        BY <1>6, <1>8, <1>9, <2>6
      <3> HIDE DEF y, z, c
      <3>2. x - 1 = z /\ y - 1 = z + c
        BY <2>4, <3>1
      <3>3. (z + c) * w = z * w + c * w
        BY <1>1, <2>4, <3>2
      <3>4. z * w \in Nat /\ c * w \in Nat
        BY <1>1, <2>4, <3>2
      <3>5. a = z * w + o /\ (y - 1) * w = z * w + c * w
        BY <1>3, <3>2, <3>3
      <3> DEFINE t == z * w
                 d == c * w
      <3>6. a = t + o /\ (y - 1) * w = t + d /\ t \in Nat /\ d \in Nat
        BY <3>4, <3>5
      <3> HIDE DEF t, d
      <3>7. (y - 1) * w + o = a + d
        BY <1>1, <3>6
      <3>8. QED BY <3>1, <3>7 DEF d
    <2>8. c * w > 0 /\ c * w \in Nat
      BY <1>1, <2>4
    <2> HIDE DEF y, c, s
    <2>9. (y - 1) * w + o \in Address
      BY <2>7, AddressBlock
    <2>10. QED BY <1>1, <2>5, <2>7, <2>8, <2>9
  <1>10. CASE b # 0
    <2>1. Header(a) = Junk
      BY <1>7, <1>10 DEF Header
    <2>2. 0 \div w = 0 /\ 0 % w = 0
      BY <1>1
    <2>3. NextHeader(a) = a + (0 \div w + 1) * w + 0
      BY <2>1, <2>2 DEF NextHeader, Junk
    <2>4. NextHeader(a) = a + w
      BY <1>1, <2>2, <2>3
    <2> DEFINE y == x + 1
    <2>5. y \in 1 .. n /\ (y - 1) * w + o = a + w
      <3>1. (x - 1) * w \in Nat /\ y - 1 = (x - 1) + 1
        BY <1>1, <1>4
      <3>2. ((x - 1) + 1) * w = (x - 1) * w + w
        BY <1>1, <1>4
      <3>3. QED BY <1>1, <1>3, <1>4, <3>1, <3>2
    <2> HIDE DEF y
    <2>6. (y - 1) * w + o \in Address
      BY <2>5, AddressBlock
    <2>7. QED BY <1>1, <2>4, <2>5, <2>6
  <1>11. QED BY <1>9, <1>10

\* What is at the address of a header, and of the end.
LEMMA AtFacts ==
  /\ At(1) = 0
  /\ \A m \in 1 .. Len(Archive) + 1 : At(m) \in Address
  /\ \A m \in Entry : /\ HeaderOf(m) = At(m) /\ ~AtEnd(At(m)) /\ Header(At(m)) = Archive[m]
                      /\ NextHeader(At(m)) = At(m + 1)
  /\ AtEnd(At(Len(Archive) + 1))
  <1> DEFINE n == Len(Archive)
             w == BlockSize
  <1>1. n \in Nat /\ Entry = 1 .. n /\ w \in Nat \ {0}
    BY ArchiveFacts DEF Entry
  <1>2. At(1) = 0
    BY <1>1, ImageLaid DEF At
  <1>3. ASSUME NEW m \in 1 .. n + 1
        PROVE  At(m) \in Address /\ BlockAt(At(m)) = Image[Start(m) + 1]
    <2> DEFINE x == Start(m) + 1
    <2>1. x \in 1 .. Len(Image) /\ Start(m) \in Nat /\ x - 1 = Start(m) /\ 0 \in 0 .. w - 1
      BY <1>1, StartFacts
    <2>2. (x - 1) * w + 0 = At(m)
      BY <1>1, <2>1 DEF At
    <2> HIDE DEF x
    <2>3. (x - 1) * w + 0 \in Address /\ BlockAt((x - 1) * w + 0) = Image[x]
      BY <2>1, AddressBlock
    <2>4. QED BY <2>2, <2>3 DEF x
  <1>4. AtEnd(At(n + 1))
    <2>1. n + 1 \in 1 .. n + 1
      BY <1>1
    <2>2. BlockAt(At(n + 1)) = Image[Start(n + 1) + 1]
      BY <1>3, <2>1
    <2>3. Image[Start(n + 1) + 1] = EndBlock
      BY StartFacts, ImageLaid
    <2>4. QED BY <2>2, <2>3 DEF AtEnd, EndBlock
  <1>5. ASSUME NEW m \in Entry
        PROVE  /\ HeaderOf(m) = At(m) /\ ~AtEnd(At(m)) /\ Header(At(m)) = Archive[m]
               /\ NextHeader(At(m)) = At(m + 1)
    <2>1. m \in 1 .. n + 1 /\ m # 0
      BY <1>1
    <2>2. BlockAt(At(m)) = [member |-> m, block |-> 0]
      BY <1>3, <2>1, StartFacts
    <2>3. ~AtEnd(At(m)) /\ Header(At(m)) = Archive[m]
      BY <2>1, <2>2 DEF AtEnd, Header
    <2>4. NextHeader(At(m)) = At(m + 1)
      <3> DEFINE s == Size(m)
                 c == 1 + Blocks(Size(m))
                 z == Start(m)
      <3>1. s \in Nat /\ c \in Nat \ {0} /\ z \in Nat /\ s \div w \in Nat /\ s % w \in Nat
        <4>1. s \in Nat /\ Blocks(Size(m)) \in Nat
          BY ArchiveFacts
        <4>2. z \in Nat
          BY <2>1, StartFacts
        <4>3. c \in Nat \ {0}
          BY <4>1
        <4> HIDE DEF s, c, z
        <4>4. QED BY <1>1, <4>1, <4>2, <4>3
      <3>2. NextHeader(At(m)) = At(m) + (s \div w + 1) * w + (IF s % w # 0 THEN w ELSE 0)
        BY <2>3 DEF NextHeader, Size
      <3>3. (s \div w + 1) * w + (IF s % w # 0 THEN w ELSE 0) = c * w
        BY <3>1, BlocksSpec
      <3>4. Start(m + 1) = z + c
        <4>1. Start(m + 1) = Start(m) + 1 + Blocks(Size(m))
          BY ImageLaid
        <4>2. Start(m + 1) = z + 1 + Blocks(Size(m)) /\ Blocks(Size(m)) \in Nat
          BY <4>1, ArchiveFacts
        <4> HIDE DEF z
        <4>3. QED BY <3>1, <4>2
      <3> DEFINE u == (s \div w + 1) * w
                 v == IF s % w # 0 THEN w ELSE 0
                 t == z * w
      <3>5. u \in Nat /\ v \in Nat /\ t \in Nat /\ u + v = c * w
        <4>1. u + v = c * w
          BY <3>3
        <4>2. v \in Nat
          BY <1>1
        <4> HIDE DEF s, c, z, v
        <4>3. u \in Nat /\ t \in Nat
          BY <1>1, <3>1
        <4>4. QED BY <4>1, <4>2, <4>3
      <3>6. NextHeader(At(m)) = t + u + v
        BY <3>2 DEF At
      <3> HIDE DEF u, v, c, z
      <3>7. (z + c) * w = z * w + c * w /\ c * w \in Nat
        BY <1>1, <3>1
      <3> HIDE DEF t
      <3>8. NextHeader(At(m)) = t + c * w
        BY <3>5, <3>6, <3>7
      <3>9. QED BY <3>4, <3>7, <3>8 DEF At, t
    <2>5. HeaderOf(m) = At(m)
      BY HeaderOfStart DEF At
    <2>6. QED BY <2>3, <2>4, <2>5
  <1>6. QED BY <1>2, <1>3, <1>4, <1>5

----------------------------------------------------------------------------
(* Walks: every step leads further, up to an address where it stops         *)

Further(N, Stop, next) ==
  \A a \in 0 .. N - 1 : a \notin Stop => next[a] \in 0 .. N - 1 /\ next[a] > a

WalkStep(f, a, Stop, head, next) == IF a \in Stop THEN <<>> ELSE head[a] \o f[next[a]]

\* f is the function of a walk from some address on.
WalkFrom(f, b, N, Stop, head, next) ==
  f = [a \in b .. N - 1 |-> WalkStep(f, a, Stop, head, next)]

LEMMA WalkExists ==
  ASSUME NEW N \in Nat, NEW Stop, NEW head, NEW next, Further(N, Stop, next)
  PROVE  \E f : WalkFrom(f, 0, N, Stop, head, next)
  <1> DEFINE Good(k, f) == WalkFrom(f, N - k, N, Stop, head, next)
             K == {k \in 0 .. N : \E f : Good(k, f)}
  <1>1. 0 \in K
    <2> DEFINE f == [a \in {} |-> <<>>]
    <2>1. N - 0 .. N - 1 = {}
      OBVIOUS
    <2>2. f = [a \in N - 0 .. N - 1 |-> WalkStep(f, a, Stop, head, next)]
      BY <2>1
    <2> HIDE DEF f
    <2>3. WalkFrom(f, N - 0, N, Stop, head, next)
      BY <2>2 DEF WalkFrom
    <2>4. QED BY <2>3
  <1>2. ASSUME NEW k \in 0 .. N, k \in K, k # N PROVE k + 1 \in K
    <2>8. PICK f : Good(k, f)
      BY <1>2
    <2>1. f = [a \in N - k .. N - 1 |-> WalkStep(f, a, Stop, head, next)]
      BY <2>8 DEF WalkFrom
    <2> DEFINE b == N - (k + 1)
               g == [a \in b .. N - 1 |-> WalkStep(f, a, Stop, head, next)]
    <2>2. b \in 0 .. N - 1 /\ N - k = b + 1
      BY <1>2
    <2> DEFINE D == N - k .. N - 1
    <2>3. DOMAIN f = D
      BY <2>1
    <2>4. ASSUME NEW a \in D PROVE g[a] = f[a]
      <3>1. a \in b .. N - 1
        BY <2>2
      <3>2. g[a] = WalkStep(f, a, Stop, head, next)
        BY <3>1
      <3>3. f[a] = WalkStep(f, a, Stop, head, next)
        BY <2>1
      <3>4. QED BY <3>2, <3>3
    <2>5. ASSUME NEW a \in b .. N - 1
          PROVE  WalkStep(f, a, Stop, head, next) = WalkStep(g, a, Stop, head, next)
      <3>1. CASE a \in Stop
        BY <3>1 DEF WalkStep
      <3>2. CASE a \notin Stop
        <4>1. next[a] \in 0 .. N - 1 /\ next[a] > a
          <5>1. a \in 0 .. N - 1
            BY <2>2
          <5>2. QED BY <3>2, <5>1 DEF Further
        <4>2. next[a] \in D
          BY <2>2, <4>1
        <4>3. g[next[a]] = f[next[a]]
          BY <2>4, <4>2
        <4>4. QED BY <4>3 DEF WalkStep
      <3>3. QED BY <3>1, <3>2
    <2>6. g = [a \in b .. N - 1 |-> WalkStep(g, a, Stop, head, next)]
      <3> DEFINE h == [a \in b .. N - 1 |-> WalkStep(g, a, Stop, head, next)]
      <3>1. \A a \in b .. N - 1 : WalkStep(f, a, Stop, head, next) = WalkStep(g, a, Stop, head, next)
        BY <2>5
      <3>2. g = h
        BY <3>1, Zenon
      <3>3. QED BY <3>2
    <2> HIDE DEF g
    <2>7. Good(k + 1, g)
      BY <2>6 DEF WalkFrom
    <2>9. k + 1 \in 0 .. N
      BY <1>2
    <2>10. QED BY <2>7, <2>9
  <1>3. N \in K
    <2>1. \A k \in 0 .. N : k \in K => k \in K /\ (k # N => k + 1 \in K)
      BY <1>2
    <2> HIDE DEF K
    <2>2. \A k \in 0 .. N : k \in K
      BY <1>1, <1>2, Ladder
    <2>3. N \in 0 .. N
      OBVIOUS
    <2>4. QED BY <2>2, <2>3, Zenon
  <1>4. PICK f : Good(N, f)
    BY <1>3
  <1>5. N - N = 0
    OBVIOUS
  <1>6. WalkFrom(f, 0, N, Stop, head, next)
    BY <1>4, <1>5
  <1>7. QED BY <1>6

\* The walks of the code.
Headers(f) == f = [a \in Address |-> IF AtEnd(a) THEN <<>> ELSE <<a>> \o f[NextHeader(a)]]
Listed(d, f) ==
  f = [a \in Address |->
        IF AtEnd(a) \/ ~IsPrefix(Header(d).name, Header(a).name) THEN <<>>
        ELSE (IF a = d THEN <<>> ELSE <<a>>) \o f[NextHeader(a)]]

LEMMA HeadersExist == \E f : Headers(f) /\ \A start : ParseTar(start) = f[start]
  <1> DEFINE N == Len(Image) * BlockSize
             Stop == {a \in Address : AtEnd(a)}
             head == [a \in Address |-> <<a>>]
             next == [a \in Address |-> NextHeader(a)]
  <1>1. N \in Nat /\ Address = 0 .. N - 1
    <2>1. Len(Image) \in Nat /\ BlockSize \in Nat
      BY ArchiveFacts, ImageFacts
    <2>2. QED BY <2>1 DEF Address
  <1>2. Further(N, Stop, next)
    <2> SUFFICES ASSUME NEW a \in 0 .. N - 1, a \notin Stop PROVE next[a] \in 0 .. N - 1 /\ next[a] > a
      BY DEF Further
    <2>1. a \in Address /\ ~AtEnd(a)
      BY <1>1
    <2>2. NextHeader(a) \in Address /\ NextHeader(a) > a
      BY <2>1, NextInside
    <2>3. next[a] = NextHeader(a)
      BY <2>1
    <2>4. QED BY <1>1, <2>2, <2>3
  <1>10. \E f : WalkFrom(f, 0, N, Stop, head, next)
    <2> HIDE DEF N, Stop, head, next
    <2>1. N \in Nat
      BY <1>1
    <2>2. QED BY <1>2, <2>1, WalkExists
  <1>3. PICK f : f = [a \in 0 .. N - 1 |-> WalkStep(f, a, Stop, head, next)]
    <2> HIDE DEF N, Stop, head, next
    <2>1. QED BY <1>10 DEF WalkFrom
  <1>4. \A a \in Address : WalkStep(f, a, Stop, head, next)
                             = IF AtEnd(a) THEN <<>> ELSE <<a>> \o f[NextHeader(a)]
    BY DEF WalkStep
  <1>5. f = [a \in Address |-> IF AtEnd(a) THEN <<>> ELSE <<a>> \o f[NextHeader(a)]]
    <2> DEFINE h == [a \in Address |-> WalkStep(f, a, Stop, head, next)]
               e == [a \in Address |-> IF AtEnd(a) THEN <<>> ELSE <<a>> \o f[NextHeader(a)]]
    <2>1. f = h
      BY <1>1, <1>3
    <2>2. h = e
      BY <1>4, Zenon
    <2>3. QED BY <2>1, <2>2
  <1>6. Headers(f)
    BY <1>5 DEF Headers
  <1> DEFINE w == CHOOSE g : Headers(g)
  <1>7. Headers(w)
    BY <1>6
  <1>8. \A start : ParseTar(start) = w[start]
    BY Zenon DEF ParseTar, Headers
  <1>9. QED BY <1>7, <1>8

LEMMA ListedExist ==
  ASSUME NEW d
  PROVE  \E f : Listed(d, f) /\ Members(d) = f[d]
  <1> DEFINE N == Len(Image) * BlockSize
             Ends(a) == AtEnd(a) \/ ~IsPrefix(Header(d).name, Header(a).name)
             Stop == {a \in Address : Ends(a)}
             head == [a \in Address |-> IF a = d THEN <<>> ELSE <<a>>]
             next == [a \in Address |-> NextHeader(a)]
  <1>1. N \in Nat /\ Address = 0 .. N - 1
    <2>1. Len(Image) \in Nat /\ BlockSize \in Nat
      BY ArchiveFacts, ImageFacts
    <2>2. QED BY <2>1 DEF Address
  <1>2. Further(N, Stop, next)
    <2> SUFFICES ASSUME NEW a \in 0 .. N - 1, a \notin Stop PROVE next[a] \in 0 .. N - 1 /\ next[a] > a
      BY DEF Further
    <2>1. a \in Address /\ ~AtEnd(a)
      BY <1>1
    <2>2. NextHeader(a) \in Address /\ NextHeader(a) > a
      BY <2>1, NextInside
    <2>3. next[a] = NextHeader(a)
      BY <2>1
    <2>4. QED BY <1>1, <2>2, <2>3
  <1>10. \E f : WalkFrom(f, 0, N, Stop, head, next)
    <2> HIDE DEF N, Stop, head, next
    <2>1. N \in Nat
      BY <1>1
    <2>2. QED BY <1>2, <2>1, WalkExists
  <1>3. PICK f : f = [a \in 0 .. N - 1 |-> WalkStep(f, a, Stop, head, next)]
    <2> HIDE DEF N, Stop, head, next
    <2>1. QED BY <1>10 DEF WalkFrom
  <1>4. \A a \in Address : WalkStep(f, a, Stop, head, next)
          = IF Ends(a) THEN <<>> ELSE (IF a = d THEN <<>> ELSE <<a>>) \o f[NextHeader(a)]
    <2> HIDE DEF Ends
    <2> SUFFICES ASSUME NEW a \in Address
                 PROVE  WalkStep(f, a, Stop, head, next)
                          = IF Ends(a) THEN <<>> ELSE (IF a = d THEN <<>> ELSE <<a>>) \o f[NextHeader(a)]
      BY Zenon
    <2>1. (a \in Stop <=> Ends(a)) /\ head[a] = (IF a = d THEN <<>> ELSE <<a>>) /\ next[a] = NextHeader(a)
      OBVIOUS
    <2> HIDE DEF Stop, head, next
    <2>2. QED BY <2>1, Zenon DEF WalkStep
  <1>5. f = [a \in Address |-> IF Ends(a) THEN <<>> ELSE (IF a = d THEN <<>> ELSE <<a>>) \o f[NextHeader(a)]]
    <2> DEFINE h == [a \in Address |-> WalkStep(f, a, Stop, head, next)]
               e == [a \in Address |-> IF Ends(a) THEN <<>> ELSE (IF a = d THEN <<>> ELSE <<a>>) \o f[NextHeader(a)]]
    <2>1. f = h
      BY <1>1, <1>3
    <2> HIDE DEF Ends
    <2>2. h = e
      BY <1>4, Zenon
    <2>3. QED BY <2>1, <2>2
  <1>6. Listed(d, f)
    BY <1>5, Zenon DEF Listed
  <1> DEFINE w == CHOOSE g : Listed(d, g)
  <1>7. Listed(d, w)
    BY <1>6
  <1>8. Members(d) = w[d]
    BY Zenon DEF Members, Listed
  <1>9. QED BY <1>7, <1>8

----------------------------------------------------------------------------
(* What the walks find                                                      *)

\* Headers that follow each other.
Chain(m, j) == [i \in 1 .. j |-> At(m + i - 1)]

LEMMA Chained ==
  ASSUME NEW j \in Nat, NEW m \in Entry, m + j <= Len(Archive)
  PROVE  <<At(m)>> \o Chain(m + 1, j) = Chain(m, j + 1)
  <1> DEFINE n == Len(Archive)
             A == Address
             s == <<At(m)>>
             t == Chain(m + 1, j)
             u == Chain(m, j + 1)
             S(q) == q \in Seq(A)
  <1>1. n \in Nat /\ m \in 1 .. n /\ \A k \in 1 .. n + 1 : At(k) \in A
    BY AtFacts, StartFacts
  <1>2. S(s) /\ Len(s) = 1 /\ s[1] = At(m)
    <2>1. At(m) \in A
      BY <1>1
    <2> HIDE DEF A
    <2>2. QED BY <2>1
  <1>3. t \in [1 .. j -> A]
    <2>1. \A i \in 1 .. j : At((m + 1) + i - 1) \in A
      <3> SUFFICES ASSUME NEW i \in 1 .. j PROVE At((m + 1) + i - 1) \in A
        OBVIOUS
      <3>1. (m + 1) + i - 1 \in 1 .. n + 1
        BY <1>1
      <3>2. QED BY <1>1, <3>1
    <2> HIDE DEF A
    <2>2. QED BY <2>1 DEF Chain
  <1>4. u \in [1 .. j + 1 -> A]
    <2>1. \A i \in 1 .. j + 1 : At(m + i - 1) \in A
      <3> SUFFICES ASSUME NEW i \in 1 .. j + 1 PROVE At(m + i - 1) \in A
        OBVIOUS
      <3>1. m + i - 1 \in 1 .. n + 1
        BY <1>1
      <3>2. QED BY <1>1, <3>1
    <2> HIDE DEF A
    <2>2. QED BY <2>1 DEF Chain
  <1>5. S(t) /\ Len(t) = j /\ S(u) /\ Len(u) = j + 1
    <2> HIDE DEF A, t, u
    <2>1. j + 1 \in Nat
      OBVIOUS
    <2>2. QED BY <1>3, <1>4, <2>1 DEF Seq
  <1> DEFINE v == s \o t
  <1>6. /\ S(v) /\ Len(v) = 1 + j /\ v[1] = At(m)
        /\ \A i \in 1 .. j : v[1 + i] = t[i]
    <2> HIDE DEF A, t, s
    <2>1. /\ s \o t \in Seq(A) /\ Len(s \o t) = Len(s) + Len(t)
          /\ \A i \in 1 .. Len(s) : (s \o t)[i] = s[i]
          /\ \A i \in 1 .. Len(t) : (s \o t)[Len(s) + i] = t[i]
      <3>1. s \in Seq(A) /\ t \in Seq(A)
        BY <1>2, <1>5
      <3> HIDE DEF S, v, u
      <3>2. QED BY <3>1, Concat
    <2>2. QED BY <1>2, <1>5, <2>1
  <1>7. ASSUME NEW i \in 1 .. j + 1 PROVE v[i] = u[i]
    <2>1. CASE i = 1
      <3>1. m + 1 - 1 = m
        BY <1>1
      <3>2. u[1] = At(m + 1 - 1)
        BY DEF Chain
      <3> HIDE DEF u, v
      <3>3. QED BY <1>6, <2>1, <3>1, <3>2
    <2>2. CASE i # 1
      <3> DEFINE k == i - 1
      <3>1. k \in 1 .. j /\ i = 1 + k /\ (m + 1) + k - 1 = m + i - 1
        BY <1>1, <2>2
      <3>2. u[i] = At(m + i - 1)
        BY DEF Chain
      <3>3. t[k] = At((m + 1) + k - 1)
        BY <3>1 DEF Chain
      <3> HIDE DEF u, v, t, k
      <3>4. QED BY <1>6, <3>1, <3>2, <3>3
    <2>3. QED BY <2>1, <2>2
  <1>8. v = u
    <2> HIDE DEF A, u, v
    <2>1. v \in Seq(A) /\ u \in Seq(A) /\ Len(v) = j + 1 /\ Len(u) = j + 1
      BY <1>5, <1>6
    <2>2. \A i \in 1 .. Len(v) : v[i] = u[i]
      BY <1>7, <2>1
    <2>3. QED BY <2>1, <2>2, SeqEqual
  <1>9. QED BY <1>8

LEMMA ChainEmpty == \A m : Chain(m, 0) = <<>>
  BY DEF Chain

\* The ram disk's root lists every member.
LEMMA ParsedTar == ParseTar(0) = [m \in Entry |-> HeaderOf(m)]
  <1> DEFINE n == Len(Archive)
  <1>1. n \in Nat /\ Entry = 1 .. n
    BY StartFacts
  <1>2. PICK f : Headers(f) /\ \A start : ParseTar(start) = f[start]
    BY HeadersExist
  <1>3. \A a \in Address : f[a] = IF AtEnd(a) THEN <<>> ELSE <<a>> \o f[NextHeader(a)]
    BY <1>2 DEF Headers
  <1> DEFINE J == {j \in 0 .. n : f[At(n + 1 - j)] = Chain(n + 1 - j, j)}
  <1>4. 0 \in J
    <2>1. n + 1 - 0 = n + 1 /\ n + 1 \in 1 .. n + 1
      BY <1>1
    <2>2. At(n + 1) \in Address /\ AtEnd(At(n + 1))
      BY <2>1, AtFacts
    <2>3. f[At(n + 1)] = <<>>
      BY <1>3, <2>2
    <2>4. QED BY <1>1, <2>1, <2>3, ChainEmpty
  <1>5. ASSUME NEW j \in 0 .. n, j \in J, j # n PROVE j + 1 \in J
    <2> DEFINE m == n - j
    <2>1. m \in Entry /\ m + 1 = n + 1 - j /\ m = n + 1 - (j + 1) /\ m + j = n /\ m \in 1 .. n + 1
      BY <1>1, <1>5
    <2>2. f[At(m + 1)] = Chain(m + 1, j)
      BY <1>5, <2>1
    <2> HIDE DEF m
    <2>3. At(m) \in Address /\ ~AtEnd(At(m)) /\ NextHeader(At(m)) = At(m + 1)
      BY <2>1, AtFacts
    <2>4. f[At(m)] = <<At(m)>> \o f[At(m + 1)]
      BY <1>3, <2>3
    <2>5. m + j <= Len(Archive) /\ j \in Nat
      BY <1>1, <2>1
    <2>6. f[At(m)] = Chain(m, j + 1)
      BY <2>1, <2>2, <2>4, <2>5, Chained
    <2>7. j + 1 \in 0 .. n
      BY <1>1, <1>5
    <2>8. QED BY <2>1, <2>6, <2>7
  <1>6. n \in J
    <2> HIDE DEF J, n
    <2>1. \A k \in 0 .. n : k \in J
      BY <1>1, <1>4, <1>5, Ladder
    <2>2. n \in 0 .. n
      BY <1>1
    <2>3. QED BY <2>1, <2>2, Zenon
  <1>7. n + 1 - n = 1
    BY <1>1
  <1>8. f[At(1)] = Chain(1, n)
    BY <1>6, <1>7
  <1>9. ParseTar(0) = Chain(1, n)
    BY <1>2, <1>8, AtFacts
  <1>10. Chain(1, n) = [m \in Entry |-> HeaderOf(m)]
    <2>1. \A i \in Entry : At(1 + i - 1) = HeaderOf(i)
      <3> SUFFICES ASSUME NEW i \in Entry PROVE At(1 + i - 1) = HeaderOf(i)
        OBVIOUS
      <3>1. 1 + i - 1 = i
        BY <1>1
      <3>2. QED BY <3>1, AtFacts
    <2>2. QED BY <1>1, <2>1, Zenon DEF Chain
  <1>11. QED BY <1>9, <1>10

LEMMA PrefixEnds ==
  ASSUME NEW d \in Entry, NEW m \in Entry
  PROVE  IsPrefix(Archive[d].name, Archive[m].name) <=> m = d \/ m \in Below(Archive[d].name)
  <1>1. Archive[d].name = Archive[m].name => d = m
    BY ArchiveFacts
  <1>2. IsPrefix(Archive[d].name, Archive[d].name)
    <2> DEFINE s == Archive[d].name
    <2>1. s \in Paths
      BY ArchiveFacts
    <2> HIDE DEF s
    <2>2. Len(s) \in Nat
      BY <2>1 DEF Paths
    <2>3. QED BY <2>2 DEF IsPrefix
  <1>3. QED BY <1>1, <1>2 DEF Below, IsStrictPrefix

\* A directory with what is in it right behind it is listed in that order.
LEMMA MembersBehind ==
  ASSUME NEW d \in Entry, NEW c \in 0 .. Len(Archive) - d, Below(Archive[d].name) = d + 1 .. d + c
  PROVE  Members(HeaderOf(d)) = [k \in 1 .. c |-> HeaderOf(d + k)]
  <1> DEFINE n == Len(Archive)
             e == d + c + 1
             P(m) == IsPrefix(Archive[d].name, Archive[m].name)
  <1>1. n \in Nat /\ Entry = 1 .. n /\ d \in Nat /\ c \in Nat /\ e \in Nat /\ e <= n + 1 /\ d >= 1
    BY StartFacts
  <1>2. PICK f : Listed(At(d), f) /\ Members(At(d)) = f[At(d)]
    BY ListedExist
  <1>3. Header(At(d)) = Archive[d] /\ HeaderOf(d) = At(d)
    BY AtFacts
  <1>4. \A a \in Address :
          f[a] = IF AtEnd(a) \/ ~IsPrefix(Archive[d].name, Header(a).name) THEN <<>>
                 ELSE (IF a = At(d) THEN <<>> ELSE <<a>>) \o f[NextHeader(a)]
    BY <1>2, <1>3 DEF Listed
  <1>5. ASSUME NEW m \in Entry
        PROVE  f[At(m)] = IF P(m) THEN (IF m = d THEN <<>> ELSE <<At(m)>>) \o f[At(m + 1)] ELSE <<>>
    <2>1. m \in 1 .. n + 1
      BY <1>1
    <2>2. At(m) \in Address /\ ~AtEnd(At(m)) /\ Header(At(m)) = Archive[m] /\ NextHeader(At(m)) = At(m + 1)
      BY <2>1, AtFacts
    <2>3. At(m) = At(d) <=> m = d
      BY <1>3, <2>2, ArchiveFacts
    <2>4. f[At(m)] = IF ~P(m) THEN <<>>
                     ELSE (IF At(m) = At(d) THEN <<>> ELSE <<At(m)>>) \o f[At(m + 1)]
      BY <1>4, <2>2
    <2> HIDE DEF P
    <2>5. QED BY <2>3, <2>4
  <1>6. \A m \in Entry : P(m) <=> m \in d .. d + c
    <2> SUFFICES ASSUME NEW m \in Entry PROVE P(m) <=> m \in d .. d + c
      OBVIOUS
    <2>1. P(m) <=> m = d \/ m \in d + 1 .. d + c
      BY PrefixEnds
    <2> HIDE DEF P
    <2>2. QED BY <1>1, <2>1
  <1> DEFINE J == {j \in 0 .. c : f[At(e - j)] = Chain(e - j, j)}
  <1>7. 0 \in J
    <2>1. e - 0 = e /\ e \in 1 .. n + 1
      BY <1>1
    <2>2. f[At(e)] = <<>>
      <3>1. CASE e = n + 1
        <4>1. At(e) \in Address /\ AtEnd(At(e))
          BY <2>1, <3>1, AtFacts
        <4>2. QED BY <1>4, <4>1
      <3>2. CASE e # n + 1
        <4>1. e \in Entry /\ e \notin d .. d + c
          BY <1>1, <2>1, <3>2
        <4>2. ~P(e)
          BY <1>6, <4>1
        <4> HIDE DEF P, e
        <4>3. QED BY <1>5, <4>1, <4>2
      <3>3. QED BY <3>1, <3>2
    <2>3. 0 \in 0 .. c
      BY <1>1
    <2> HIDE DEF e
    <2>4. QED BY <2>1, <2>2, <2>3, ChainEmpty
  <1>8. ASSUME NEW j \in 0 .. c, j \in J, j # c PROVE j + 1 \in J
    <2> DEFINE m == d + c - j
    <2>1. /\ m \in Entry /\ m \in d .. d + c /\ m # d
          /\ m + 1 = e - j /\ m = e - (j + 1) /\ m + j <= n /\ j \in Nat /\ j + 1 \in 0 .. c
      BY <1>1, <1>8
    <2>2. f[At(m + 1)] = Chain(m + 1, j)
      <3> HIDE DEF e, m
      <3>1. QED BY <1>8, <2>1
    <2>3. P(m)
      BY <1>6, <2>1
    <2> HIDE DEF m, P
    <2>4. f[At(m)] = <<At(m)>> \o f[At(m + 1)]
      BY <1>5, <2>1, <2>3
    <2>5. f[At(m)] = Chain(m, j + 1)
      BY <2>1, <2>2, <2>4, Chained
    <2> HIDE DEF e
    <2>6. QED BY <2>1, <2>5
  <1>9. f[At(d + 1)] = Chain(d + 1, c)
    <2>1. \A k \in 0 .. c : k \in J
      <3> HIDE DEF J
      <3>1. QED BY <1>1, <1>7, <1>8, Ladder
    <2>2. c \in 0 .. c /\ e - c = d + 1
      BY <1>1
    <2>3. c \in J
      BY <2>1, <2>2, Zenon
    <2>4. QED BY <2>2, <2>3
  <1>10. Chain(d + 1, c) = [k \in 1 .. c |-> HeaderOf(d + k)]
    <2>1. \A k \in 1 .. c : At((d + 1) + k - 1) = HeaderOf(d + k)
      <3> SUFFICES ASSUME NEW k \in 1 .. c PROVE At((d + 1) + k - 1) = HeaderOf(d + k)
        OBVIOUS
      <3>1. (d + 1) + k - 1 = d + k /\ d + k \in Entry
        BY <1>1
      <3>2. QED BY <3>1, AtFacts
    <2>2. QED BY <2>1, Zenon DEF Chain
  <1>11. <<>> \o Chain(d + 1, c) = Chain(d + 1, c)
    <2> DEFINE s == Chain(d + 1, c)
               A == Address
    <2>1. \A k \in 1 .. c : At((d + 1) + k - 1) \in A
      <3> SUFFICES ASSUME NEW k \in 1 .. c PROVE At((d + 1) + k - 1) \in A
        OBVIOUS
      <3>1. (d + 1) + k - 1 \in 1 .. n + 1
        BY <1>1
      <3>2. QED BY <3>1, AtFacts
    <2> HIDE DEF A
    <2>2. s \in [1 .. c -> A]
      BY <2>1 DEF Chain
    <2> HIDE DEF s
    <2>3. s \in Seq(A)
      BY <1>1, <2>2 DEF Seq
    <2>4. <<>> \o s = s
      BY <2>3
    <2>5. QED BY <2>4 DEF s
  <1>12. f[At(d)] = <<>> \o f[At(d + 1)]
    <2>1. P(d)
      BY <1>1, <1>6
    <2> HIDE DEF P
    <2>2. QED BY <1>5, <2>1
  <1>13. Members(HeaderOf(d)) = f[At(d)]
    BY <1>2, <1>3
  <1>14. QED BY <1>9, <1>10, <1>11, <1>12, <1>13, Zenon

\* Where there is something to be listed, and what a walk from d may list.
Listable == {a \in Address : ~AtEnd(a)}
NamedFrom(d) == {a \in Listable : IsPrefix(Header(d).name, Header(a).name)}

LEMMA MembersTyped ==
  ASSUME NEW d \in Address
  PROVE  Members(d) \in Seq(NamedFrom(d))
  <1> DEFINE N == Len(Image) * BlockSize
             Ends(a) == AtEnd(a) \/ ~IsPrefix(Header(d).name, Header(a).name)
             T(s) == s \in Seq(NamedFrom(d))
  <1>1. N \in Nat /\ Address = 0 .. N - 1
    <2>1. Len(Image) \in Nat /\ BlockSize \in Nat
      BY ArchiveFacts, ImageFacts
    <2>2. QED BY <2>1 DEF Address
  <1>2. PICK f : Listed(d, f) /\ Members(d) = f[d]
    BY ListedExist
  <1>3. \A a \in Address : f[a] = IF Ends(a) THEN <<>> ELSE (IF a = d THEN <<>> ELSE <<a>>) \o f[NextHeader(a)]
    BY <1>2 DEF Listed
  <1> DEFINE J == {j \in 0 .. N : \A a \in N - j .. N - 1 : T(f[a])}
  <1> HIDE DEF N
  <1>4. 0 \in J
    <2>1. N - 0 .. N - 1 = {} /\ 0 \in 0 .. N
      BY <1>1
    <2>2. QED BY <2>1
  <1>5. ASSUME NEW j \in 0 .. N, j \in J, j # N PROVE j + 1 \in J
    <2> DEFINE a == N - (j + 1)
    <2>1. /\ a \in Address /\ a \in Nat /\ j + 1 \in 0 .. N
          /\ \A b \in Address : b > a => b \in N - j .. N - 1
          /\ \A b \in N - (j + 1) .. N - 1 : b = a \/ b \in N - j .. N - 1
      <3>1. a = N - (j + 1) /\ N \in Nat /\ j \in Nat /\ j < N
        BY <1>1, <1>5
      <3> HIDE DEF a
      <3>2. a \in 0 .. N - 1 /\ a \in Nat /\ j + 1 \in 0 .. N
        BY <3>1
      <3>3. ASSUME NEW b \in Address, b > a PROVE b \in N - j .. N - 1
        <4>1. b \in 0 .. N - 1
          BY <1>1, <3>3
        <4>2. QED BY <3>1, <3>3, <4>1
      <3>4. ASSUME NEW b \in N - (j + 1) .. N - 1 PROVE b = a \/ b \in N - j .. N - 1
        BY <3>1
      <3>5. a \in Address
        BY <1>1, <3>2
      <3>6. QED BY <3>2, <3>3, <3>4, <3>5
    <2> HIDE DEF a
    <2>2. T(f[a])
      <3>1. CASE Ends(a)
        <4>1. f[a] = <<>>
          BY <1>3, <2>1, <3>1
        <4>2. QED BY <4>1
      <3>2. CASE ~Ends(a)
        <4>1. ~AtEnd(a) /\ a \in NamedFrom(d)
          BY <2>1, <3>2 DEF Listable, NamedFrom
        <4>2. NextHeader(a) \in Address /\ NextHeader(a) > a
          BY <2>1, <4>1, NextInside
        <4>3. T(f[NextHeader(a)])
          <5>1. NextHeader(a) \in N - j .. N - 1
            BY <2>1, <4>2
          <5> HIDE DEF T
          <5>2. QED BY <1>5, <5>1
        <4> DEFINE s == IF a = d THEN <<>> ELSE <<a>>
                   t == f[NextHeader(a)]
        <4>4. T(s)
          <5>1. CASE a = d
            BY <5>1
          <5>2. CASE a # d
            BY <4>1, <5>2
          <5>3. QED BY <5>1, <5>2
        <4>5. f[a] = s \o t
          <5> HIDE DEF Ends
          <5>1. QED BY <1>3, <2>1, <3>2
        <4> HIDE DEF s
        <4>6. t \in Seq(NamedFrom(d)) /\ s \in Seq(NamedFrom(d))
          BY <4>3, <4>4
        <4> HIDE DEF t
        <4>7. s \o t \in Seq(NamedFrom(d))
          BY <4>6, Concat
        <4>8. QED BY <4>5, <4>7
      <3>3. QED BY <3>1, <3>2
    <2> HIDE DEF T
    <2>3. \A b \in N - (j + 1) .. N - 1 : T(f[b])
      <3>1. ASSUME NEW b \in N - (j + 1) .. N - 1 PROVE T(f[b])
        BY <1>5, <2>1, <2>2
      <3>2. QED BY <3>1
    <2>4. QED BY <2>1, <2>3
  <1>6. N \in J
    <2> HIDE DEF J
    <2>1. \A k \in 0 .. N : k \in J
      BY <1>1, <1>4, <1>5, Ladder
    <2>2. N \in 0 .. N
      BY <1>1
    <2>3. QED BY <2>1, <2>2, Zenon
  <1>7. T(f[d])
    <2>1. N - N = 0 /\ d \in N - N .. N - 1
      BY <1>1
    <2> HIDE DEF T
    <2>2. QED BY <1>6, <2>1
  <1>8. QED BY <1>2, <1>7

LEMMA ListableNamed ==
  ASSUME NEW a \in Listable
  PROVE  Header(a).name \in Paths
  <1>1. PICK x \in 1 .. Len(Image) : \E o \in 0 .. BlockSize - 1 : a = (x - 1) * BlockSize + o /\ BlockAt(a) = Image[x]
    BY AddressOf DEF Listable
  <1>2. BlockAt(a) = Image[x] /\ Image[x].member # 0
    BY <1>1 DEF Listable, AtEnd
  <1>3. x \in 1 .. Len(Image) - 1
    BY <1>2, ImageFacts
  <1>4. PICK k \in Entry : \E b \in 0 .. Blocks(Size(k)) : x = Start(k) + 1 + b
    BY <1>3, ImageOnly
  <1>5. PICK b \in 0 .. Blocks(Size(k)) : x = Start(k) + 1 + b
    BY <1>4
  <1>6. BlockAt(a) = [member |-> k, block |-> b]
    <2>1. Image[Start(k) + 1 + b] = [member |-> k, block |-> b]
      BY ImageFacts, Zenon
    <2>2. QED BY <1>2, <1>5, <2>1
  <1>7. CASE b = 0
    BY <1>6, <1>7, ArchiveFacts DEF Header
  <1>8. CASE b # 0
    <2>1. Header(a) = Junk
      BY <1>6, <1>8 DEF Header
    <2>2. QED BY <2>1 DEF Junk, Paths
  <1>9. QED BY <1>7, <1>8

----------------------------------------------------------------------------
(* The tree of mount points                                                 *)

Ancestors(path) == {SubSeq(path, 1, k) : k \in 0 .. Len(path)}

LEMMA PathFacts ==
  ASSUME NEW p \in Paths
  PROVE  /\ Len(p) \in Nat /\ SubSeq(p, 1, Len(p)) = p /\ SubSeq(p, 1, 0) = <<>>
         /\ (Len(p) = 0 <=> p = <<>>)
         /\ \A k \in 0 .. Len(p) : /\ SubSeq(p, 1, k) \in Paths /\ Len(SubSeq(p, 1, k)) = k
                                   /\ \A i \in 1 .. k : SubSeq(p, 1, k)[i] = p[i]
  <1>1. Len(p) \in Nat /\ p \in Seq(STRING)
    BY DEF Paths
  <1>2. SubSeq(p, 1, Len(p)) = p /\ SubSeq(p, 1, 0) = <<>>
    BY <1>1
  <1>3. Len(p) = 0 <=> p = <<>>
    BY <1>1
  <1>4. ASSUME NEW k \in 0 .. Len(p)
        PROVE  /\ SubSeq(p, 1, k) \in Paths /\ Len(SubSeq(p, 1, k)) = k
               /\ \A i \in 1 .. k : SubSeq(p, 1, k)[i] = p[i]
    BY <1>1 DEF Paths
  <1>5. QED BY <1>1, <1>2, <1>3, <1>4

LEMMA PrefixFacts ==
  ASSUME NEW p \in Paths
  PROVE  /\ p \in Ancestors(p) /\ <<>> \in Ancestors(p)
         /\ \A q \in Paths : q \in Ancestors(p) <=> IsPrefix(q, p)
         /\ \A q \in Ancestors(p) : q \in Paths /\ (q # <<>> => p # <<>> /\ q[1] = p[1])
  <1>1. Len(p) \in Nat /\ SubSeq(p, 1, Len(p)) = p /\ SubSeq(p, 1, 0) = <<>>
    BY PathFacts
  <1>6. \A k \in 0 .. Len(p) : SubSeq(p, 1, k) \in Ancestors(p)
    BY Zenon DEF Ancestors
  <1>2. p \in Ancestors(p) /\ <<>> \in Ancestors(p)
    <2>1. 0 \in 0 .. Len(p) /\ Len(p) \in 0 .. Len(p)
      BY <1>1
    <2>2. QED BY <1>1, <1>6, <2>1, Zenon
  <1>3. ASSUME NEW q \in Paths PROVE q \in Ancestors(p) <=> IsPrefix(q, p)
    <2>1. Len(q) \in Nat /\ SubSeq(q, 1, Len(q)) = q
      BY PathFacts
    <2>2. ASSUME IsPrefix(q, p) PROVE q \in Ancestors(p)
      <3>1. Len(q) \in 0 .. Len(p) /\ q = SubSeq(p, 1, Len(q))
        BY <1>1, <2>1, <2>2 DEF IsPrefix
      <3>2. QED BY <1>6, <3>1
    <2>3. ASSUME q \in Ancestors(p) PROVE IsPrefix(q, p)
      <3>1. PICK k \in 0 .. Len(p) : q = SubSeq(p, 1, k)
        BY <2>3 DEF Ancestors
      <3>2. Len(q) = k
        BY <3>1, PathFacts
      <3>3. QED BY <1>1, <2>1, <3>1, <3>2 DEF IsPrefix
    <2>4. QED BY <2>2, <2>3
  <1>4. ASSUME NEW q \in Ancestors(p) PROVE q \in Paths /\ (q # <<>> => p # <<>> /\ q[1] = p[1])
    <2>1. PICK k \in 0 .. Len(p) : q = SubSeq(p, 1, k)
      BY DEF Ancestors
    <2>2. q \in Paths /\ Len(q) = k /\ \A i \in 1 .. k : q[i] = p[i]
      BY <2>1, PathFacts
    <2>3. ASSUME q # <<>> PROVE p # <<>> /\ q[1] = p[1]
      <3>1. k # 0
        BY <2>2, <2>3, PathFacts
      <3>2. 1 \in 1 .. k /\ Len(p) # 0
        BY <1>1, <3>1
      <3>3. QED BY <2>2, <3>2, PathFacts
    <2>4. QED BY <2>2, <2>3
  <1>5. QED BY <1>2, <1>3, <1>4

\* Mounting where nothing is mounted.
LEMMA Mapped ==
  ASSUME NEW t, NEW path \in Paths, NEW node
  PROVE  /\ DOMAIN MountNode(t, path, node) = DOMAIN t \union Ancestors(path)
         /\ \A q \in DOMAIN t \union Ancestors(path) : q # path =>
              MountNode(t, path, node)[q] = IF q \in DOMAIN t THEN t[q] ELSE NoNode
         /\ path \notin DOMAIN t \/ t[path] = NoNode => MountNode(t, path, node)[path] = node
  <1> DEFINE D == DOMAIN t \union Ancestors(path)
             c == [p \in D |-> IF p \in DOMAIN t THEN t[p] ELSE NoNode]
  <1>1. CreateMapping(t, path) = c
    BY DEF CreateMapping, Ancestors
  <1>2. MountNode(t, path, node) = IF c[path] = NoNode THEN [c EXCEPT ![path] = node] ELSE c
    BY <1>1 DEF MountNode
  <1>3. path \in D
    BY PrefixFacts
  <1>4. c[path] = IF path \in DOMAIN t THEN t[path] ELSE NoNode
    BY <1>3
  <1>5. DOMAIN c = D /\ \A q \in D : c[q] = IF q \in DOMAIN t THEN t[q] ELSE NoNode
    OBVIOUS
  <1> HIDE DEF D, c
  <1>6. QED BY <1>2, <1>3, <1>4, <1>5 DEF D

\* The deepest mount point on a path.
LEMMA Deepest ==
  ASSUME NEW t, NEW path \in Paths, <<>> \in DOMAIN t
  PROVE  /\ MountPoint(t, path) \in 0 .. Len(path)
         /\ SubSeq(path, 1, MountPoint(t, path)) \in DOMAIN t
         /\ \A j \in MountPoint(t, path) + 1 .. Len(path) : SubSeq(path, 1, j) \notin DOMAIN t
  <1> DEFINE l == Len(path)
             Q(k) == SubSeq(path, 1, k) \in DOMAIN t
             S == {x \in 0 .. l : Q(l - x)}
  <1>1. l \in Nat /\ Q(0)
    BY PathFacts
  <1> HIDE DEF Q, l
  <1>2. l \in S
    <2>1. l \in 0 .. l /\ l - l = 0
      BY <1>1
    <2>2. QED BY <1>1, <2>1
  <1>3. PICK x \in S : \A y \in S : x <= y
    <2>1. S \subseteq Nat
      OBVIOUS
    <2> HIDE DEF S
    <2>2. S # {}
      BY <1>2
    <2>3. QED BY <2>1, <2>2, LeastExists
  <1> DEFINE k == l - x
  <1>4. k \in 0 .. l /\ Q(k)
    BY <1>1, <1>3
  <1>5. ASSUME NEW j \in k + 1 .. l PROVE ~Q(j)
    <2>1. l - j \in 0 .. l /\ l - (l - j) = j /\ ~(x <= l - j)
      BY <1>1, <1>4
    <2>2. Q(j) => l - j \in S
      BY <2>1
    <2>3. QED BY <1>3, <2>1, <2>2
  <1> HIDE DEF k
  <1>6. \E z \in 0 .. l : Q(z) /\ \A j \in z + 1 .. l : ~Q(j)
    BY <1>4, <1>5
  <1>7. MountPoint(t, path) = CHOOSE z \in 0 .. l : Q(z) /\ \A j \in z + 1 .. l : ~Q(j)
    BY DEF MountPoint, Q, l
  <1>8. /\ MountPoint(t, path) \in 0 .. l /\ Q(MountPoint(t, path))
        /\ \A j \in MountPoint(t, path) + 1 .. l : ~Q(j)
    BY <1>6, <1>7, Zenon
  <1>9. QED BY <1>8 DEF Q, l

LEMMA OpenMapped ==
  ASSUME NEW t, NEW path \in Paths, NEW dir, <<>> \in DOMAIN t, path \in DOMAIN t
  PROVE  Open(t, path, dir) = IF t[path] = NoNode THEN VfsNode ELSE t[path]
  <1> DEFINE k == MountPoint(t, path)
             l == Len(path)
  <1>1. k \in 0 .. l /\ \A j \in k + 1 .. l : SubSeq(path, 1, j) \notin DOMAIN t
    BY Deepest
  <1>2. l \in Nat /\ SubSeq(path, 1, l) = path
    BY PathFacts
  <1> HIDE DEF k, l
  <1>3. k = l
    <2>1. l \notin k + 1 .. l
      BY <1>1, <1>2
    <2>2. QED BY <1>1, <1>2, <2>1
  <1>4. QED BY <1>2, <1>3 DEF Open, k, l

\* The member of that name, or none.
RootNode == Node("initrd", 0, 0, [m \in Entry |-> HeaderOf(m)])
Found(path, dir) ==
  IF MemberNamed(path, dir) = {} THEN NoNode
  ELSE LET m == CHOOSE m \in MemberNamed(path, dir) : TRUE
       IN IF dir THEN Node("dir", Archive[m].size, HeaderOf(m), <<>>)
          ELSE Node("ram", Archive[m].size, HeaderOf(m) + BlockSize, <<>>)

LEMMA InitrdOpens ==
  ASSUME NEW path, NEW dir
  PROVE  InitrdOpen(RootNode, path, dir) = Found(path, dir)
  <1> DEFINE files == [m \in Entry |-> HeaderOf(m)]
             I == {i \in 1 .. Len(files) : Header(files[i]).name = path /\ Header(files[i]).dir = dir}
             i == IF I # {} THEN Min(I) ELSE 0
             a == files[i]
  <1>1. Entry = 1 .. Len(Archive) /\ Len(Archive) \in Nat
    BY StartFacts
  <1>2. Len(files) = Len(Archive)
    BY <1>1
  <1>3. \A m \in Entry : files[m] = HeaderOf(m) /\ Header(files[m]) = Archive[m]
    BY AtFacts
  <1>4. RootNode.files = files
    BY DEF RootNode, Node
  <1> HIDE DEF files
  <1>5. I = MemberNamed(path, dir)
    BY <1>1, <1>2, <1>3 DEF MemberNamed
  <1>6. InitrdOpen(RootNode, path, dir)
          = IF i = 0 THEN NoNode
            ELSE IF dir THEN Node("dir", Header(a).size, a, <<>>)
            ELSE Node("ram", Header(a).size, a + BlockSize, <<>>)
    BY <1>4, Zenon DEF InitrdOpen, SelectInSeq
  <1> HIDE DEF I
  <1>7. CASE I = {}
    BY <1>5, <1>6, <1>7 DEF Found
  <1>8. CASE I # {}
    <2> DEFINE m == CHOOSE m \in MemberNamed(path, dir) : TRUE
    <2>1. m \in I /\ m \in MemberNamed(path, dir)
      BY <1>5, <1>8
    <2>2. I \subseteq Nat
      BY <1>1, <1>5 DEF MemberNamed
    <2>3. i \in I
      <3>1. \E x \in I : \A y \in I : x <= y
        BY <1>8, <2>2, LeastExists
      <3>2. i = CHOOSE x \in I : \A y \in I : x <= y
        BY <1>8 DEF Min
      <3>3. QED BY <3>1, <3>2
    <2> HIDE DEF m, i
    <2>4. i \in Entry /\ m \in Entry /\ Archive[i].name = path /\ Archive[m].name = path
      BY <1>5, <2>1, <2>3 DEF MemberNamed
    <2>5. i = m
      BY <2>4, ArchiveFacts
    <2>6. i # 0
      BY <1>1, <2>4
    <2>7. a = HeaderOf(m) /\ Header(a) = Archive[m]
      BY <1>3, <2>4, <2>5
    <2> HIDE DEF a
    <2>8. InitrdOpen(RootNode, path, dir) = IF dir THEN Node("dir", Archive[m].size, HeaderOf(m), <<>>)
                                      ELSE Node("ram", Archive[m].size, HeaderOf(m) + BlockSize, <<>>)
      BY <1>6, <2>6, <2>7
    <2>9. QED BY <1>5, <1>8, <2>8, Zenon DEF Found, m
  <1>9. QED BY <1>7, <1>8

\* What a member of the ram disk's directory reports is named.
LEMMA EntriesNamed ==
  ASSUME NEW m \in Entry
  PROVE  /\ Members(HeaderOf(m)) \in Seq(Listable)
         /\ \A k \in 1 .. Len(Members(HeaderOf(m))) :
              Header(Members(HeaderOf(m))[k]).name \in Paths \ {<<>>}
  <1> DEFINE d == HeaderOf(m)
             e == Members(d)
             T == NamedFrom(d)
  <1>1. d \in Address /\ Header(d) = Archive[m]
    <2>1. m \in 1 .. Len(Archive) + 1
      BY StartFacts
    <2>2. QED BY <2>1, AtFacts
  <1>2. e \in Seq(T)
    BY <1>1, MembersTyped
  <1>3. Archive[m].name \in Paths /\ Len(Archive[m].name) # 0 /\ Len(Archive[m].name) \in Nat
    <2>1. Archive[m].name \in Paths /\ Archive[m].name # <<>>
      BY ArchiveFacts
    <2>2. QED BY <2>1, PathFacts
  <1>4. \A a \in T : a \in Listable /\ Header(a).name \in Paths \ {<<>>}
    <2> SUFFICES ASSUME NEW a \in T PROVE a \in Listable /\ Header(a).name \in Paths \ {<<>>}
      OBVIOUS
    <2>1. a \in Listable /\ IsPrefix(Archive[m].name, Header(a).name)
      BY <1>1 DEF NamedFrom
    <2>2. Header(a).name \in Paths
      BY <2>1, ListableNamed
    <2>3. Header(a).name # <<>>
      <3>1. Len(Archive[m].name) <= Len(Header(a).name)
        BY <2>1 DEF IsPrefix
      <3>2. Len(Header(a).name) # 0
        BY <1>3, <2>2, <3>1, PathFacts
      <3>3. QED BY <2>2, <3>2, PathFacts
    <2>4. QED BY <2>1, <2>2, <2>3
  <1> HIDE DEF d, e, T
  <1>5. \A k \in 1 .. Len(e) : e[k] \in T
    BY <1>2
  <1>6. e \in Seq(Listable)
    <2>1. T \subseteq Listable
      BY <1>4
    <2>2. Len(e) \in Nat /\ e \in [1 .. Len(e) -> T]
      BY <1>2
    <2>3. e \in [1 .. Len(e) -> Listable]
      BY <2>1, <2>2
    <2>4. QED BY <2>2, <2>3 DEF Seq
  <1>7. QED BY <1>4, <1>5, <1>6 DEF d, e

----------------------------------------------------------------------------
(* What is mounted                                                          *)

MountPaths == {d.path : d \in Mounts}

\* The node of a mount point.
NodeOf(q) ==
  IF q = Ram0 THEN RamDisk ELSE Node((CHOOSE d \in Mounts : d.path = q).kind, 0, 0, <<>>)

\* The tree when the paths of M are mounted, and something at its root.
TreeOf(M, root, t) ==
  /\ DOMAIN t = {<<>>} \union UNION {Ancestors(q) : q \in M}
  /\ \A q \in DOMAIN t : t[q] = IF q \in M THEN NodeOf(q) ELSE IF q = <<>> THEN root ELSE NoNode

LEMMA DeviceFacts ==
  /\ Len(Devices) \in Nat /\ DOMAIN Devices = 1 .. Len(Devices)
  /\ \A i \in DOMAIN Devices :
       /\ Devices[i].path \in Paths /\ Devices[i].path # <<>> /\ Devices[i].path # Ram0
       /\ Devices[i].kind \in {"log", "terminal", "null", "zero"}
       /\ NodeOf(Devices[i].path) = Node(Devices[i].kind, 0, 0, <<>>)
  /\ \A i, j \in DOMAIN Devices : Devices[i].path = Devices[j].path => i = j
  /\ Ram0 \in Paths /\ Ram0 # <<>> /\ NodeOf(Ram0) = RamDisk
  /\ MountPaths = {Devices[i].path : i \in DOMAIN Devices} \union {Ram0}
  <1> DEFINE R == [path : Paths, kind : {"log", "terminal", "null", "zero"}]
  <1>1. Devices \in Seq(R)
    BY VfsAssumption DEF VfsAssumption
  <1> HIDE DEF R
  <1>2. Len(Devices) \in Nat /\ DOMAIN Devices = 1 .. Len(Devices) /\ \A i \in DOMAIN Devices : Devices[i] \in R
    BY <1>1
  <1>3. \A i \in DOMAIN Devices : /\ Devices[i].path \in Paths
                                  /\ Devices[i].kind \in {"log", "terminal", "null", "zero"}
    BY <1>2 DEF R
  <1>4. \A i \in DOMAIN Devices : Devices[i].path # <<>>
    BY VfsAssumption DEF VfsAssumption
  <1>5. \A i, j \in DOMAIN Devices : Devices[i].path = Devices[j].path => i = j
    BY VfsAssumption DEF VfsAssumption
  <1>6. \A i \in DOMAIN Devices : Devices[i].path # Ram0
    BY FilesAssumption DEF FilesAssumption
  <1>7. Ram0 \in Paths /\ Ram0 # <<>> /\ NodeOf(Ram0) = RamDisk
    <2>1. Ram0 \in Paths
      BY FilesAssumption DEF FilesAssumption
    <2>2. Ram0 # <<>>
      BY DEF Ram0
    <2>3. QED BY <2>1, <2>2 DEF NodeOf
  <1>8. MountPaths = {Devices[i].path : i \in DOMAIN Devices} \union {Ram0}
    <2> DEFINE r == [path |-> Ram0, kind |-> "ram"]
               S == {Devices[i] : i \in DOMAIN Devices}
    <2>1. r.path = Ram0
      OBVIOUS
    <2>2. Mounts = S \union {r}
      BY DEF Mounts
    <2> HIDE DEF r
    <2>3. ASSUME NEW q \in MountPaths
          PROVE  q \in {Devices[i].path : i \in DOMAIN Devices} \union {Ram0}
      <3>1. PICK d \in Mounts : q = d.path
        BY DEF MountPaths
      <3>2. CASE d = r
        BY <2>1, <3>1, <3>2
      <3>3. CASE d # r
        <4>1. PICK i \in DOMAIN Devices : d = Devices[i]
          BY <2>2, <3>3
        <4>2. QED BY <3>1, <4>1
      <3>4. QED BY <3>2, <3>3
    <2>4. Ram0 \in MountPaths
      BY <2>1, <2>2 DEF MountPaths
    <2>5. ASSUME NEW i \in DOMAIN Devices PROVE Devices[i].path \in MountPaths
      BY <2>2 DEF MountPaths
    <2>6. QED BY <2>3, <2>4, <2>5
  <1>9. ASSUME NEW i \in DOMAIN Devices
        PROVE  NodeOf(Devices[i].path) = Node(Devices[i].kind, 0, 0, <<>>)
    <2> DEFINE q == Devices[i].path
               d == CHOOSE d \in Mounts : d.path = q
    <2>1. Devices[i] \in Mounts
      BY DEF Mounts
    <2>2. d \in Mounts /\ d.path = q
      BY <2>1
    <2> HIDE DEF d
    <2>3. PICK j \in DOMAIN Devices : d = Devices[j]
      <3>1. d # [path |-> Ram0, kind |-> "ram"]
        BY <1>6, <2>2
      <3>2. QED BY <2>2, <3>1 DEF Mounts
    <2>4. j = i
      BY <1>5, <2>2, <2>3
    <2>5. NodeOf(q) = Node(d.kind, 0, 0, <<>>)
      BY <1>6, Zenon DEF NodeOf, d
    <2>6. QED BY <2>3, <2>4, <2>5
  <1>10. QED BY <1>2, <1>3, <1>4, <1>5, <1>6, <1>7, <1>8, <1>9

LEMMA NodeFacts ==
  /\ RootNode \in NodeType /\ VfsNode \in NodeType /\ NoNode \notin NodeType
  /\ RootNode.kind = "initrd"
  /\ \A q \in MountPaths : NodeOf(q) \in NodeType /\ NodeOf(q).kind \notin {"initrd", "dir", "vfs"}
                           /\ (q # Ram0 => NodeOf(q).kind # "ram")
  <1>1. RootNode \in NodeType /\ RootNode.kind = "initrd"
    <2> DEFINE f == [m \in Entry |-> HeaderOf(m)]
    <2>1. \A m \in Entry : HeaderOf(m) \in Nat
      <3> SUFFICES ASSUME NEW m \in Entry PROVE HeaderOf(m) \in Nat
        OBVIOUS
      <3>1. m \in 1 .. Len(Archive) + 1
        BY StartFacts
      <3>2. QED BY <3>1, AtFacts DEF Address
    <2>2. f \in [1 .. Len(Archive) -> Nat] /\ Len(Archive) \in Nat
      BY <2>1, StartFacts
    <2> HIDE DEF f
    <2>3. f \in Seq(Nat)
      BY <2>2 DEF Seq
    <2>4. RootNode = [kind |-> "initrd", size |-> 0, meta |-> 0, files |-> f]
      BY DEF RootNode, Node, f
    <2>5. QED BY <2>3, <2>4 DEF NodeType, Kinds
  <1>2. VfsNode \in NodeType
    BY DEF VfsNode, Node, NodeType, Kinds
  <1>3. NoNode \notin NodeType
    BY VfsAssumption DEF VfsAssumption
  <1>4. RamDisk \in NodeType /\ RamDisk.kind = "ram"
    <2> DEFINE l == Len(Image) * BlockSize
    <2>1. l \in Nat
      <3>1. Len(Image) \in Nat /\ BlockSize \in Nat
        BY ArchiveFacts, ImageFacts
      <3>2. QED BY <3>1
    <2>2. RamDisk = [kind |-> "ram", size |-> l, meta |-> 0, files |-> <<>>]
      BY DEF RamDisk, Node
    <2> HIDE DEF l
    <2>3. QED BY <2>1, <2>2 DEF NodeType, Kinds
  <1>5. ASSUME NEW q \in MountPaths
        PROVE  NodeOf(q) \in NodeType /\ NodeOf(q).kind \notin {"initrd", "dir", "vfs"}
               /\ (q # Ram0 => NodeOf(q).kind # "ram")
    <2>1. CASE q = Ram0
      BY <1>4, <2>1, DeviceFacts
    <2>2. CASE q # Ram0
      <3>1. PICK i \in DOMAIN Devices : q = Devices[i].path
        BY <2>2, DeviceFacts
      <3>2. Devices[i].kind \in {"log", "terminal", "null", "zero"}
            /\ NodeOf(q) = Node(Devices[i].kind, 0, 0, <<>>)
        BY <3>1, DeviceFacts
      <3>3. QED BY <3>2 DEF Node, NodeType, Kinds
    <2>3. QED BY <2>1, <2>2
  <1>6. QED BY <1>1, <1>2, <1>3, <1>5

LEMMA MountPathFacts == \A q \in MountPaths : q \in Paths /\ q # <<>>
  BY DeviceFacts

\* One mount more.
LEMMA TreeGrows ==
  ASSUME NEW M, M \subseteq MountPaths, NEW root, NEW t, TreeOf(M, root, t),
         NEW path \in MountPaths, path \notin M
  PROVE  TreeOf(M \union {path}, root, MountNode(t, path, NodeOf(path)))
  <1> DEFINE u == MountNode(t, path, NodeOf(path))
             N == M \union {path}
  <1>1. path \in Paths /\ path # <<>>
    BY MountPathFacts
  <1>2. /\ DOMAIN t = {<<>>} \union UNION {Ancestors(q) : q \in M}
        /\ \A q \in DOMAIN t : t[q] = IF q \in M THEN NodeOf(q) ELSE IF q = <<>> THEN root ELSE NoNode
    BY DEF TreeOf
  <1>3. /\ DOMAIN u = DOMAIN t \union Ancestors(path)
        /\ \A q \in DOMAIN t \union Ancestors(path) : q # path =>
             u[q] = IF q \in DOMAIN t THEN t[q] ELSE NoNode
        /\ path \notin DOMAIN t \/ t[path] = NoNode => u[path] = NodeOf(path)
    BY <1>1, Mapped
  <1> HIDE DEF u
  <1>4. DOMAIN u = {<<>>} \union UNION {Ancestors(q) : q \in N}
    BY <1>2, <1>3
  <1>5. u[path] = NodeOf(path)
    BY <1>1, <1>2, <1>3
  <1>6. ASSUME NEW q \in DOMAIN u
        PROVE  u[q] = IF q \in N THEN NodeOf(q) ELSE IF q = <<>> THEN root ELSE NoNode
    <2>1. CASE q = path
      BY <1>5, <2>1
    <2>2. CASE q # path
      <3>1. u[q] = IF q \in DOMAIN t THEN t[q] ELSE NoNode
        BY <1>3, <2>2
      <3>2. q \in N <=> q \in M
        BY <2>2
      <3>3. CASE q \in DOMAIN t
        BY <1>2, <3>1, <3>2, <3>3
      <3>4. CASE q \notin DOMAIN t
        <4>1. q # <<>>
          BY <1>2, <3>4
        <4>2. q \notin M
          <5>1. q \in M => q \in Ancestors(q)
            BY MountPathFacts, PrefixFacts
          <5>2. QED BY <1>2, <3>4, <5>1
        <4>3. QED BY <3>1, <3>2, <3>4, <4>1, <4>2
      <3>5. QED BY <3>3, <3>4
    <2>3. QED BY <2>1, <2>2
  <1>7. QED BY <1>4, <1>6 DEF TreeOf, u

\* The root, when nothing is mounted there.
LEMMA RootMounted ==
  ASSUME NEW M, M \subseteq MountPaths, NEW root, NEW t, TreeOf(M, NoNode, t)
  PROVE  TreeOf(M, root, MountNode(t, <<>>, root))
  <1> DEFINE u == MountNode(t, <<>>, root)
  <1>1. <<>> \in Paths /\ <<>> \notin M
    BY MountPathFacts DEF Paths
  <1>2. /\ DOMAIN t = {<<>>} \union UNION {Ancestors(q) : q \in M}
        /\ \A q \in DOMAIN t : t[q] = IF q \in M THEN NodeOf(q) ELSE IF q = <<>> THEN NoNode ELSE NoNode
    BY DEF TreeOf
  <1>3. /\ DOMAIN u = DOMAIN t \union Ancestors(<<>>)
        /\ \A q \in DOMAIN t \union Ancestors(<<>>) : q # <<>> =>
             u[q] = IF q \in DOMAIN t THEN t[q] ELSE NoNode
        /\ <<>> \notin DOMAIN t \/ t[<<>>] = NoNode => u[<<>>] = root
    BY <1>1, Mapped
  <1> HIDE DEF u
  <1>4. Ancestors(<<>>) = {<<>>}
    <2>1. \A q \in Ancestors(<<>>) : q = <<>>
      BY <1>1, PrefixFacts
    <2>2. <<>> \in Ancestors(<<>>)
      BY <1>1, PrefixFacts
    <2>3. QED BY <2>1, <2>2
  <1>5. DOMAIN u = DOMAIN t
    BY <1>2, <1>3, <1>4
  <1>6. u[<<>>] = root
    BY <1>1, <1>2, <1>3
  <1>7. ASSUME NEW q \in DOMAIN u
        PROVE  u[q] = IF q \in M THEN NodeOf(q) ELSE IF q = <<>> THEN root ELSE NoNode
    <2>1. CASE q = <<>>
      BY <1>1, <1>6, <2>1
    <2>2. CASE q # <<>>
      <3>1. u[q] = t[q]
        BY <1>3, <1>5, <2>2
      <3>2. QED BY <1>2, <1>5, <2>2, <3>1
    <2>3. QED BY <2>1, <2>2
  <1>8. QED BY <1>2, <1>5, <1>7 DEF TreeOf, u

\* Boot over, an open gives what the path names.
LEMMA OpenPromised ==
  ASSUME NEW t, TreeOf(MountPaths, RootNode, t), NEW path \in Paths, NEW dir
  PROVE  Open(t, path, dir) = Promised(path, dir)
  <1>1. /\ DOMAIN t = {<<>>} \union UNION {Ancestors(q) : q \in MountPaths}
        /\ \A q \in DOMAIN t : t[q] = IF q \in MountPaths THEN NodeOf(q) ELSE IF q = <<>> THEN RootNode ELSE NoNode
    BY DEF TreeOf
  <1>2. (\E d \in Mounts : d.path = path) <=> path \in MountPaths
    BY DEF MountPaths
  <1>3. <<>> \in DOMAIN t /\ <<>> \notin MountPaths
    BY <1>1, MountPathFacts
  <1>4. CASE path \in MountPaths
    <2>1. path \in DOMAIN t
      <3>1. path \in Ancestors(path)
        BY PrefixFacts
      <3>2. QED BY <1>1, <1>4, <3>1
    <2>2. t[path] = NodeOf(path) /\ NodeOf(path) # NoNode
      BY <1>1, <1>4, <2>1, NodeFacts
    <2>3. Open(t, path, dir) = NodeOf(path)
      BY <1>3, <2>1, <2>2, OpenMapped
    <2>4. Promised(path, dir) = NodeOf(path)
      BY <1>2, <1>4, Zenon DEF Promised, NodeOf
    <2>5. QED BY <2>3, <2>4
  <1>5. CASE path \notin MountPaths /\ path = <<>>
    <2>1. t[path] = RootNode /\ RootNode # NoNode
      BY <1>1, <1>3, <1>5, NodeFacts
    <2>2. Open(t, path, dir) = RootNode
      BY <1>3, <1>5, <2>1, OpenMapped
    <2>3. Promised(path, dir) = RootNode
      BY <1>2, <1>5, Zenon DEF Promised, RootNode
    <2>4. QED BY <2>2, <2>3
  <1>6. ASSUME path \notin MountPaths, path # <<>>
        PROVE  path \in DOMAIN t <=> \E d \in Mounts : IsStrictPrefix(path, d.path)
    <2>1. path \in DOMAIN t <=> \E q \in MountPaths : path \in Ancestors(q)
      BY <1>1, <1>6
    <2>2. \A q \in MountPaths : path \in Ancestors(q) <=> IsStrictPrefix(path, q)
      BY <1>6, MountPathFacts, PrefixFacts DEF IsStrictPrefix
    <2>3. QED BY <2>1, <2>2 DEF MountPaths
  <1>7. CASE path \notin MountPaths /\ path # <<>> /\ path \in DOMAIN t
    <2>1. t[path] = NoNode
      BY <1>1, <1>7
    <2>2. Open(t, path, dir) = VfsNode
      BY <1>3, <1>7, <2>1, OpenMapped
    <2>3. Promised(path, dir) = VfsNode
      BY <1>2, <1>6, <1>7, Zenon DEF Promised
    <2>4. QED BY <2>2, <2>3
  <1>8. CASE path \notin MountPaths /\ path # <<>> /\ path \notin DOMAIN t
    <2> DEFINE k == MountPoint(t, path)
               l == Len(path)
               mount == t[SubSeq(path, 1, k)]
               Shared == \E d \in Mounts : d.path[1] = path[1]
    <2>1. /\ k \in 0 .. l /\ SubSeq(path, 1, k) \in DOMAIN t
          /\ \A j \in k + 1 .. l : SubSeq(path, 1, j) \notin DOMAIN t
      BY <1>3, Deepest
    <2>2. l \in Nat /\ SubSeq(path, 1, l) = path /\ SubSeq(path, 1, 0) = <<>>
      BY PathFacts
    <2>3. Open(t, path, dir) = IF k = l THEN IF mount = NoNode THEN VfsNode ELSE mount
                               ELSE IF mount # NoNode /\ mount.kind = "initrd"
                               THEN InitrdOpen(mount, SubSeq(path, k + 1, l), dir)
                               ELSE NoNode
      BY Zenon DEF Open
    <2>4. Promised(path, dir) = IF Shared THEN NoNode ELSE Found(path, dir)
      <3>1. ~(\E d \in Mounts : d.path = path) /\ ~(\E d \in Mounts : IsStrictPrefix(path, d.path))
        BY <1>2, <1>6, <1>8
      <3>2. Promised(path, dir) =
              IF MemberNamed(path, dir) = {} \/ (\E d \in Mounts : d.path[1] = path[1]) THEN NoNode
              ELSE LET m == CHOOSE m \in MemberNamed(path, dir) : TRUE
                   IN IF dir THEN Node("dir", Archive[m].size, HeaderOf(m), <<>>)
                      ELSE Node("ram", Archive[m].size, HeaderOf(m) + BlockSize, <<>>)
        BY <1>8, <3>1, Zenon DEF Promised
      <3>3. QED BY <3>2, Zenon DEF Found
    <2> HIDE DEF k, l
    <2>5. k # l
      BY <1>8, <2>1, <2>2
    <2>6. CASE k = 0
      <3>1. mount = RootNode
        BY <1>1, <1>3, <2>2, <2>6
      <3>2. SubSeq(path, k + 1, l) = path
        BY <2>2, <2>6
      <3>3. Open(t, path, dir) = InitrdOpen(RootNode, path, dir)
        <4>1. mount # NoNode /\ mount.kind = "initrd"
          BY <3>1, NodeFacts
        <4> HIDE DEF mount
        <4>2. QED BY <2>3, <2>5, <3>1, <3>2, <4>1
      <3>4. ~Shared
        <4> SUFFICES ASSUME NEW d \in Mounts, d.path[1] = path[1] PROVE FALSE
          OBVIOUS
        <4> DEFINE q == d.path
        <4>1. q \in MountPaths /\ q \in Paths /\ Len(q) \in Nat /\ Len(q) # 0
          <5>1. q \in MountPaths
            BY DEF MountPaths
          <5>2. q \in Paths /\ q # <<>>
            BY <5>1, MountPathFacts
          <5>3. QED BY <5>1, <5>2, PathFacts
        <4>2. 1 \in 0 .. Len(q) /\ 1 \in 0 .. l /\ 1 \in k + 1 .. l
          BY <2>1, <2>2, <2>5, <2>6, <4>1
        <4> HIDE DEF q
        <4>3. SubSeq(q, 1, 1) \in Ancestors(q)
          BY <4>2 DEF Ancestors
        <4>4. /\ SubSeq(q, 1, 1) \in Paths /\ Len(SubSeq(q, 1, 1)) = 1 /\ SubSeq(q, 1, 1)[1] = q[1]
              /\ SubSeq(path, 1, 1) \in Paths /\ Len(SubSeq(path, 1, 1)) = 1 /\ SubSeq(path, 1, 1)[1] = path[1]
          <5>1. 1 \in 1 .. 1
            OBVIOUS
          <5>2. SubSeq(q, 1, 1) \in Paths /\ Len(SubSeq(q, 1, 1)) = 1 /\ SubSeq(q, 1, 1)[1] = q[1]
            BY <4>1, <4>2, <5>1, PathFacts
          <5>3. SubSeq(path, 1, 1) \in Paths /\ Len(SubSeq(path, 1, 1)) = 1 /\ SubSeq(path, 1, 1)[1] = path[1]
            BY <4>2, <5>1, PathFacts DEF l
          <5>4. QED BY <5>2, <5>3
        <4> DEFINE a == SubSeq(q, 1, 1)
                   b == SubSeq(path, 1, 1)
        <4>5. a = b
          <5>1. a \in Seq(STRING) /\ b \in Seq(STRING) /\ Len(a) = 1 /\ Len(b) = 1 /\ a[1] = b[1]
            BY <4>4 DEF Paths, q
          <5> HIDE DEF a, b
          <5>2. \A i \in 1 .. Len(a) : a[i] = b[i]
            BY <5>1
          <5>3. QED BY <5>1, <5>2, SeqEqual
        <4>6. a \in DOMAIN t
          BY <1>1, <4>1, <4>3
        <4>7. b \notin DOMAIN t
          BY <2>1, <4>2
        <4>8. QED BY <4>5, <4>6, <4>7
      <3>5. QED BY <2>4, <3>3, <3>4, InitrdOpens
    <2>7. CASE k # 0
      <3> DEFINE a == SubSeq(path, 1, k)
      <3>1. a # <<>> /\ a[1] = path[1]
        <4>1. Len(a) = k /\ 1 \in 1 .. k /\ \A i \in 1 .. k : a[i] = path[i]
          BY <2>1, <2>2, <2>7, PathFacts DEF l
        <4>2. a # <<>>
          <5> HIDE DEF a
          <5>1. QED BY <2>7, <4>1
        <4>3. QED BY <4>1, <4>2
      <3>2. a \in DOMAIN t
        BY <2>1
      <3> HIDE DEF a
      <3>3. PICK q \in MountPaths : a \in Ancestors(q)
        BY <1>1, <3>1, <3>2
      <3>4. q[1] = path[1]
        <4>1. q \in Paths
          BY MountPathFacts
        <4>2. QED BY <3>1, <3>3, <4>1, PrefixFacts
      <3>5. Shared
        BY <3>4 DEF MountPaths
      <3>6. mount = NoNode \/ mount.kind # "initrd"
        <4>1. t[a] = IF a \in MountPaths THEN NodeOf(a) ELSE NoNode
          BY <1>1, <3>1, <3>2
        <4>2. QED BY <4>1, NodeFacts DEF a
      <3> HIDE DEF mount
      <3>7. QED BY <2>3, <2>4, <2>5, <3>5, <3>6
    <2>8. QED BY <2>6, <2>7
  <1>9. QED BY <1>4, <1>5, <1>7, <1>8

----------------------------------------------------------------------------
(* The inductive invariant                                                  *)

MountedAt(s) ==
  {Devices[i].path : i \in {i \in DOMAIN Devices : i <= s}} \union {q \in {Ram0} : s >= Mounting}

BootInv ==
  /\ stage \in 0 .. Running
  /\ TreeOf(MountedAt(stage), IF stage >= Spawning THEN RootNode ELSE NoNode, tree)
  /\ callbacks = IF stage >= Loading THEN {"initrd"} ELSE {}
  /\ stage # Running => DOMAIN fds = {}

\* The name readdir is to return.
NameAt(d, k) == Header(EntriesOf(d.node)[k]).name

\* A call in progress has the first names of its string, and strtok's place is
\* behind them.
CallRight(p, c) ==
  /\ p \in DOMAIN fds
  /\ c.names = SubSeq(c.string, 1, Len(c.names)) /\ Len(c.names) <= Len(c.string)
  /\ c.first => c.names = <<>>
  /\ ~c.first => backup = [owner |-> p, behind |-> Len(c.names)]
  /\ c.op = "readdir" =>
       /\ c.fd \in DOMAIN fds[p]
       /\ fds[p][c.fd].index < MaxIndex /\ fds[p][c.fd].index < Len(EntriesOf(fds[p][c.fd].node))
       /\ c.string = NameAt(fds[p][c.fd], fds[p][c.fd].index + 1)

CallInv ==
  /\ call \in [Process -> Splitting \union {NoCall}]
  /\ backup \in Place \union {NoString, Freed}
  /\ \A p, q \in InKernel : p = q
  /\ \A p \in InKernel : CallRight(p, call[p])

DescType ==
  [node : NodeType, offset : Int, asked : [path : Paths, dir : BOOLEAN], start : Int,
   data : Seq(Int), index : 0 .. MaxIndex, listed : Seq(STRING)]

FileRight(d) ==
  d.node.kind = "ram" /\ d.asked.path # Ram0 =>
    /\ d.offset = d.start + Len(d.data)
    /\ d.data # <<>> => d.start >= 0 /\ d.offset <= d.node.size
    /\ \A k \in DOMAIN d.data : d.data[k] = d.node.meta + d.start + k - 1

DirRight(d) ==
  LET n == Len(EntriesOf(d.node)) IN
  d.node.kind = "dir" =>
    d.listed = [k \in 1 .. (IF d.index < n THEN d.index ELSE n) |-> Last(NameAt(d, k))]

DescRight(d) ==
  /\ d \in DescType /\ d.node = Promised(d.asked.path, d.asked.dir)
  /\ FileRight(d) /\ DirRight(d)

FdsInv ==
  /\ DOMAIN fds \subseteq Process /\ fds \in [DOMAIN fds -> Seq(DescType)]
  /\ \A p \in DOMAIN fds : \A i \in DOMAIN fds[p] : DescRight(fds[p][i])

IInv == BootInv /\ CallInv /\ FdsInv

----------------------------------------------------------------------------
(* What can be opened                                                       *)

IsFile(path, node) ==
  \E m \in Entry : /\ MemberNamed(path, FALSE) = {m}
                   /\ node.size = Size(m) /\ node.meta = HeaderOf(m) + BlockSize
IsDirectory(path, node) ==
  \E m \in Entry : Archive[m].name = path /\ Archive[m].dir /\ node.meta = HeaderOf(m)

LEMMA FoundTyped ==
  ASSUME NEW path \in Paths, NEW dir \in BOOLEAN, Found(path, dir) # NoNode
  PROVE  /\ Found(path, dir) \in NodeType /\ Found(path, dir).kind \in {"ram", "dir"}
         /\ Found(path, dir).kind = "ram" => IsFile(path, Found(path, dir))
         /\ Found(path, dir).kind = "dir" => IsDirectory(path, Found(path, dir))
  <1> DEFINE S == MemberNamed(path, dir)
             m == CHOOSE m \in S : TRUE
             node == Found(path, dir)
  <1>1. S # {}
    BY DEF Found
  <1>2. m \in S
    BY <1>1
  <1>3. node = IF dir THEN Node("dir", Archive[m].size, HeaderOf(m), <<>>)
               ELSE Node("ram", Archive[m].size, HeaderOf(m) + BlockSize, <<>>)
    BY <1>1, Zenon DEF Found
  <1> HIDE DEF m, node
  <1>4. m \in Entry /\ Archive[m].name = path /\ Archive[m].dir = dir
    BY <1>2 DEF MemberNamed
  <1>5. S = {m}
    BY <1>2, <1>4, ArchiveFacts DEF MemberNamed
  <1>6. HeaderOf(m) \in Nat /\ Size(m) \in Nat /\ BlockSize \in Nat
    <2>1. m \in 1 .. Len(Archive) + 1
      BY <1>4, StartFacts
    <2>2. QED BY <1>4, <2>1, AtFacts, ArchiveFacts DEF Address
  <1>7. CASE dir
    <2>1. node = [kind |-> "dir", size |-> Size(m), meta |-> HeaderOf(m), files |-> <<>>]
      BY <1>3, <1>7 DEF Node, Size
    <2>2. node \in NodeType
      BY <1>6, <2>1 DEF NodeType, Kinds
    <2>3. node.kind = "dir" /\ IsDirectory(path, node)
      BY <1>4, <1>7, <2>1 DEF IsDirectory
    <2>4. QED BY <2>2, <2>3 DEF node
  <1>8. CASE ~dir
    <2>1. node = [kind |-> "ram", size |-> Size(m), meta |-> HeaderOf(m) + BlockSize, files |-> <<>>]
      BY <1>3, <1>8 DEF Node, Size
    <2>2. HeaderOf(m) + BlockSize \in Nat
      BY <1>6
    <2>3. node \in NodeType
      BY <1>6, <2>1, <2>2 DEF NodeType, Kinds
    <2>4. dir = FALSE
      BY <1>8
    <2>5. node.kind = "ram" /\ IsFile(path, node)
      BY <1>4, <1>5, <2>1, <2>4 DEF IsFile
    <2>6. QED BY <2>3, <2>5 DEF node
  <1>9. QED BY <1>7, <1>8

LEMMA PromisedTyped ==
  ASSUME NEW path \in Paths, NEW dir \in BOOLEAN, Promised(path, dir) # NoNode
  PROVE  /\ Promised(path, dir) \in NodeType
         /\ Promised(path, dir).kind = "ram" /\ path # Ram0 => IsFile(path, Promised(path, dir))
         /\ Promised(path, dir).kind = "dir" => IsDirectory(path, Promised(path, dir))
  <1> DEFINE node == Promised(path, dir)
  <1>1. CASE path \in MountPaths
    <2>1. \E d \in Mounts : d.path = path
      BY <1>1 DEF MountPaths
    <2>2. node = NodeOf(path)
      BY <2>1, Zenon DEF Promised, NodeOf
    <2> HIDE DEF node
    <2>3. QED BY <1>1, <2>2, NodeFacts DEF node
  <1>2. CASE path \notin MountPaths
    <2>1. ~(\E d \in Mounts : d.path = path)
      BY <1>2 DEF MountPaths
    <2>2. node = IF path = <<>> THEN RootNode
                 ELSE IF \E d \in Mounts : IsStrictPrefix(path, d.path) THEN VfsNode
                 ELSE IF MemberNamed(path, dir) = {} \/ (\E d \in Mounts : d.path[1] = path[1]) THEN NoNode
                 ELSE Found(path, dir)
      <3>1. node = IF path = <<>> THEN RootNode
                 ELSE IF \E d \in Mounts : IsStrictPrefix(path, d.path) THEN VfsNode
                 ELSE IF MemberNamed(path, dir) = {} \/ (\E d \in Mounts : d.path[1] = path[1]) THEN NoNode
                 ELSE LET m == CHOOSE m \in MemberNamed(path, dir) : TRUE
                   IN IF dir THEN Node("dir", Archive[m].size, HeaderOf(m), <<>>)
                      ELSE Node("ram", Archive[m].size, HeaderOf(m) + BlockSize, <<>>)
        BY <2>1, Zenon DEF Promised, RootNode
      <3> DEFINE None == MemberNamed(path, dir) = {}
                 X == LET m == CHOOSE m \in MemberNamed(path, dir) : TRUE
                   IN IF dir THEN Node("dir", Archive[m].size, HeaderOf(m), <<>>)
                      ELSE Node("ram", Archive[m].size, HeaderOf(m) + BlockSize, <<>>)
      <3>2. Found(path, dir) = IF None THEN NoNode ELSE X
        BY Zenon DEF Found
      <3>3. node = IF path = <<>> THEN RootNode
                 ELSE IF \E d \in Mounts : IsStrictPrefix(path, d.path) THEN VfsNode
                 ELSE IF None \/ (\E d \in Mounts : d.path[1] = path[1]) THEN NoNode ELSE X
        BY <3>1
      <3> HIDE DEF node, None, X
      <3>4. node = IF path = <<>> THEN RootNode
                 ELSE IF \E d \in Mounts : IsStrictPrefix(path, d.path) THEN VfsNode
                 ELSE IF None \/ (\E d \in Mounts : d.path[1] = path[1]) THEN NoNode ELSE Found(path, dir)
        BY <3>2, <3>3
      <3>5. QED BY <3>4, Zenon DEF None
    <2> HIDE DEF node
    <2>3. CASE node = RootNode
      BY <2>3, NodeFacts DEF node
    <2>4. CASE node = VfsNode
      BY <2>4, NodeFacts DEF node, VfsNode, Node
    <2>5. CASE node = Found(path, dir)
      <3>1. Found(path, dir) # NoNode
        BY <2>5 DEF node
      <3>2. QED BY <2>5, <3>1, FoundTyped DEF node
    <2>6. QED BY <2>2, <2>3, <2>4, <2>5 DEF node
  <1>3. QED BY <1>1, <1>2

\* What a directory descriptor has to list.
LEMMA EntriesTyped ==
  ASSUME NEW path \in Paths, NEW dir \in BOOLEAN, NEW node, node = Promised(path, dir), node \in NodeType
  PROVE  /\ Len(EntriesOf(node)) \in Nat
         /\ \A k \in 1 .. Len(EntriesOf(node)) : Header(EntriesOf(node)[k]).name \in Paths \ {<<>>}
         /\ Len(EntriesOf(node)) # 0 => node.kind = "dir"
  <1>1. CASE node.kind = "dir"
    <2>1. IsDirectory(path, node)
      BY <1>1, NodeFacts, PromisedTyped
    <2>2. PICK m \in Entry : node.meta = HeaderOf(m)
      BY <2>1 DEF IsDirectory
    <2>3. EntriesOf(node) = Members(HeaderOf(m))
      BY <1>1, <2>2 DEF EntriesOf
    <2> DEFINE e == Members(HeaderOf(m))
    <2>4. e \in Seq(Listable) /\ \A k \in 1 .. Len(e) : Header(e[k]).name \in Paths \ {<<>>}
      BY EntriesNamed
    <2> HIDE DEF e
    <2>5. QED BY <1>1, <2>3, <2>4 DEF e
  <1>2. CASE node.kind # "dir"
    <2>1. EntriesOf(node) = <<>>
      BY <1>2 DEF EntriesOf
    <2>2. QED BY <2>1
  <1>3. QED BY <1>1, <1>2

\* A descriptor just opened.
LEMMA OpenedRight ==
  ASSUME NEW path \in Paths, NEW dir \in BOOLEAN, NEW asked, asked = [path |-> path, dir |-> dir],
         NEW node, node = Promised(path, dir), node # NoNode
  PROVE  DescRight(Descriptor(node, asked))
  <1> DEFINE d == Descriptor(node, asked)
  <1>1. node \in NodeType
    BY PromisedTyped
  <1>2. d = [node |-> node, offset |-> 0, asked |-> asked, start |-> 0, data |-> <<>>, index |-> 0, listed |-> <<>>]
    BY DEF Descriptor
  <1>3. MaxIndex \in Nat
    BY FilesAssumption DEF FilesAssumption
  <1> HIDE DEF d
  <1>4. d \in DescType
    BY <1>1, <1>2, <1>3 DEF DescType
  <1>5. /\ d.node = node /\ d.asked.path = path /\ d.asked.dir = dir /\ d.offset = 0 /\ d.start = 0
        /\ d.data = <<>> /\ d.index = 0 /\ d.listed = <<>>
    BY <1>2
  <1>6. FileRight(d)
    <2>1. Len(d.data) = 0 /\ DOMAIN d.data = {}
      BY <1>5
    <2>2. QED BY <1>5, <2>1 DEF FileRight
  <1>7. DirRight(d)
    <2> DEFINE n == Len(EntriesOf(d.node))
               r == IF d.index < n THEN d.index ELSE n
    <2>1. n \in Nat
      BY <1>1, <1>5, EntriesTyped
    <2> HIDE DEF n
    <2>2. r = 0
      BY <1>5, <2>1
    <2> HIDE DEF r
    <2>3. d.listed = [k \in 1 .. r |-> Last(NameAt(d, k))]
      BY <1>5, <2>2
    <2>4. QED BY <2>3, Zenon DEF DirRight, n, r
  <1>8. QED BY <1>4, <1>5, <1>6, <1>7 DEF DescRight, d

----------------------------------------------------------------------------
(* The boot                                                                 *)

RootAt(s) == IF s >= Spawning THEN RootNode ELSE NoNode

LEMMA StageFacts ==
  /\ Len(Devices) \in Nat /\ Registering = Len(Devices) /\ Loading = Registering + 1
  /\ Mounting = Registering + 2 /\ Spawning = Registering + 3 /\ Running = Registering + 4
  BY DeviceFacts DEF Registering, Loading, Mounting, Spawning, Running

LEMMA MountedFacts ==
  ASSUME NEW s \in 0 .. Running
  PROVE  /\ MountedAt(s) \subseteq MountPaths
         /\ s < Registering => /\ Devices[s + 1].path \in MountPaths \ MountedAt(s)
                               /\ MountedAt(s + 1) = MountedAt(s) \union {Devices[s + 1].path}
         /\ s = Registering => MountedAt(s + 1) = MountedAt(s)
         /\ s = Loading => Ram0 \in MountPaths \ MountedAt(s) /\ MountedAt(s + 1) = MountedAt(s) \union {Ram0}
         /\ s >= Mounting => MountedAt(s) = MountPaths
  <1> DEFINE n == Len(Devices)
             P(i) == Devices[i].path
             D(x) == {i \in DOMAIN Devices : i <= x}
             R(x) == {q \in {Ram0} : x >= Mounting}
  <1>1. n \in Nat /\ DOMAIN Devices = 1 .. n /\ s \in 0 .. n + 4 /\ s \in Nat
    BY DeviceFacts, StageFacts
  <1>2. /\ \A i \in 1 .. n : P(i) \in MountPaths /\ P(i) # Ram0
        /\ \A i, j \in 1 .. n : P(i) = P(j) => i = j
        /\ Ram0 \in MountPaths /\ MountPaths = {P(i) : i \in 1 .. n} \union {Ram0}
    BY <1>1, DeviceFacts
  <1>3. \A x : MountedAt(x) = {P(i) : i \in D(x)} \union R(x)
    BY DEF MountedAt
  <1> HIDE DEF P
  <1>4. MountedAt(s) \subseteq MountPaths
    BY <1>1, <1>2, <1>3
  <1>5. ASSUME s < Registering
        PROVE  /\ Devices[s + 1].path \in MountPaths \ MountedAt(s)
               /\ MountedAt(s + 1) = MountedAt(s) \union {Devices[s + 1].path}
    <2>1. s + 1 \in 1 .. n /\ ~(s >= Mounting) /\ ~(s + 1 >= Mounting) /\ D(s + 1) = D(s) \union {s + 1} /\ s + 1 \notin D(s)
      <3>1. s + 1 \in 1 .. n /\ ~(s >= Mounting) /\ ~(s + 1 >= Mounting)
        BY <1>1, <1>5, StageFacts
      <3>2. \A x : D(x) = {i \in 1 .. n : i <= x}
        BY <1>1
      <3> HIDE DEF n, D
      <3>3. {i \in 1 .. n : i <= s + 1} = {i \in 1 .. n : i <= s} \union {s + 1}
        BY <1>1, <3>1
      <3>4. s + 1 \notin {i \in 1 .. n : i <= s}
        BY <1>1
      <3>5. QED BY <3>1, <3>2, <3>3, <3>4
    <2>2. R(s) = {} /\ R(s + 1) = {}
      BY <2>1
    <2>3. D(s) \subseteq 1 .. n
      BY <1>1
    <2> DEFINE A == D(s)
               z == s + 1
    <2> HIDE DEF D, R
    <2>4. MountedAt(s + 1) = {P(i) : i \in A \union {z}} /\ MountedAt(s) = {P(i) : i \in A}
      BY <1>3, <2>1, <2>2
    <2>5. z \in 1 .. n /\ z \notin A /\ A \subseteq 1 .. n
      BY <2>1, <2>3
    <2> HIDE DEF A, z
    <2>6. P(z) \in MountPaths \ MountedAt(s)
      BY <1>2, <2>4, <2>5
    <2>7. MountedAt(s + 1) = MountedAt(s) \union {P(z)}
      BY <2>4
    <2>8. QED BY <2>6, <2>7 DEF P, z
  <1>6. ASSUME s = Registering PROVE MountedAt(s + 1) = MountedAt(s)
    <2>1. ~(s >= Mounting) /\ ~(s + 1 >= Mounting) /\ D(s + 1) = D(s)
      BY <1>1, <1>6, StageFacts
    <2>2. R(s) = {} /\ R(s + 1) = {}
      BY <2>1
    <2> HIDE DEF D, R
    <2>3. QED BY <1>3, <2>1, <2>2
  <1>7. ASSUME s = Loading
        PROVE  Ram0 \in MountPaths \ MountedAt(s) /\ MountedAt(s + 1) = MountedAt(s) \union {Ram0}
    <2>1. ~(s >= Mounting) /\ s + 1 >= Mounting /\ D(s + 1) = 1 .. n /\ D(s) = 1 .. n
      BY <1>1, <1>7, StageFacts
    <2>2. R(s) = {} /\ R(s + 1) = {Ram0}
      BY <2>1
    <2> HIDE DEF D, R
    <2>3. MountedAt(s) = {P(i) : i \in 1 .. n} /\ MountedAt(s + 1) = {P(i) : i \in 1 .. n} \union {Ram0}
      BY <1>3, <2>1, <2>2
    <2>4. QED BY <1>2, <2>3
  <1>8. ASSUME s >= Mounting PROVE MountedAt(s) = MountPaths
    <2>1. D(s) = 1 .. n
      BY <1>1, <1>8, StageFacts
    <2>2. R(s) = {Ram0}
      BY <1>8
    <2> HIDE DEF D, R
    <2>3. QED BY <1>2, <1>3, <2>1, <2>2
  <1>9. QED BY <1>4, <1>5, <1>6, <1>7, <1>8

LEMMA NotSplitting ==
  /\ NoCall \notin Splitting /\ NoString \notin Place /\ Freed \notin Place /\ NoString # Freed
  <1>1. NoCall \notin Splitting /\ {NoString, Freed} \cap Place = {} /\ NoString # Freed
    BY FilesAssumption DEF FilesAssumption
  <1>2. QED BY <1>1

LEMMA InitRight == ASSUME Init PROVE IInv
  <1>1. /\ stage = 0 /\ tree = EmptyTree /\ callbacks = {} /\ backup = NoString
        /\ call = [p \in Process |-> NoCall] /\ fds = [p \in {} |-> <<>>]
    BY DEF Init
  <1>2. DOMAIN fds = {} /\ InKernel = {}
    BY <1>1 DEF InKernel
  <1>3. 0 \in 0 .. Running /\ ~(0 >= Spawning) /\ ~(0 >= Loading) /\ ~(0 >= Mounting)
    BY StageFacts
  <1>4. MountedAt(0) = {}
    <2>1. {i \in DOMAIN Devices : i <= 0} = {}
      BY DeviceFacts
    <2>2. {q \in {Ram0} : 0 >= Mounting} = {}
      BY <1>3
    <2>3. QED BY <2>1, <2>2 DEF MountedAt
  <1>5. TreeOf({}, NoNode, EmptyTree)
    BY DEF TreeOf, EmptyTree
  <1>6. BootInv
    BY <1>1, <1>2, <1>3, <1>4, <1>5 DEF BootInv
  <1>7. CallInv
    BY <1>1, <1>2 DEF CallInv
  <1>8. FdsInv
    <2>1. fds \in [DOMAIN fds -> Seq(DescType)]
      BY <1>1
    <2>2. QED BY <1>2, <2>1 DEF FdsInv
  <1>9. QED BY <1>6, <1>7, <1>8 DEF IInv

\* As long as the kernel boots, there are no processes and no calls.
LEMMA Booting ==
  ASSUME IInv, stage # Running
  PROVE  DOMAIN fds = {} /\ InKernel = {}
  BY DEF IInv, BootInv, CallInv, CallRight

LEMMA QuietKept ==
  ASSUME IInv, stage # Running, UNCHANGED <<backup, call, fds>>
  PROVE  CallInv' /\ FdsInv' /\ DOMAIN fds' = {}
  <1>1. DOMAIN fds = {} /\ InKernel = {}
    BY Booting
  <1>2. InKernel' = {}
    BY <1>1 DEF InKernel
  <1>3. CallInv'
    BY <1>2 DEF IInv, CallInv
  <1>4. FdsInv'
    BY <1>1 DEF IInv, FdsInv
  <1>5. QED BY <1>1, <1>3, <1>4

LEMMA BootStepRight ==
  ASSUME IInv, BootStep
  PROVE  IInv'
  <1>1. stage \in 0 .. Running /\ stage \in Nat /\ TreeOf(MountedAt(stage), RootAt(stage), tree)
        /\ callbacks = IF stage >= Loading THEN {"initrd"} ELSE {}
    BY StageFacts DEF IInv, BootInv, RootAt
  <1>2. MountedAt(stage) \subseteq MountPaths
    BY <1>1, MountedFacts
  <1>3. ASSUME MountDevice PROVE IInv'
    <2> DEFINE path == Devices[stage + 1].path
    <2>1. /\ stage < Registering /\ stage' = stage + 1 /\ callbacks' = callbacks
          /\ tree' = MountNode(tree, path, Node(Devices[stage + 1].kind, 0, 0, <<>>))
          /\ UNCHANGED <<backup, call, fds>>
      BY <1>3 DEF MountDevice, Boot
    <2>2. /\ stage + 1 \in 0 .. Running /\ stage # Running /\ stage + 1 \in DOMAIN Devices
          /\ ~(stage >= Spawning) /\ ~(stage + 1 >= Spawning) /\ ~(stage >= Loading) /\ ~(stage + 1 >= Loading)
      BY <1>1, <2>1, StageFacts, DeviceFacts
    <2>3. path \in MountPaths \ MountedAt(stage) /\ MountedAt(stage + 1) = MountedAt(stage) \union {path}
      BY <1>1, <2>1, MountedFacts
    <2>4. NodeOf(path) = Node(Devices[stage + 1].kind, 0, 0, <<>>)
      BY <2>2, DeviceFacts
    <2> HIDE DEF path
    <2>5. tree' = MountNode(tree, path, NodeOf(path))
      BY <2>1, <2>4
    <2>6. TreeOf(MountedAt(stage + 1), RootAt(stage), tree')
      <3>1. TreeOf(MountedAt(stage) \union {path}, RootAt(stage), MountNode(tree, path, NodeOf(path)))
        BY <1>1, <1>2, <2>3, TreeGrows
      <3>2. QED BY <2>3, <2>5, <3>1
    <2>7. CallInv' /\ FdsInv' /\ DOMAIN fds' = {}
      BY <2>1, <2>2, QuietKept
    <2>8. BootInv'
      BY <1>1, <2>1, <2>2, <2>6, <2>7 DEF BootInv, RootAt
    <2>9. QED BY <2>7, <2>8 DEF IInv
  <1>4. ASSUME RegisterInitrd PROVE IInv'
    <2>1. /\ stage = Registering /\ stage' = stage + 1 /\ callbacks' = callbacks \union {"initrd"}
          /\ UNCHANGED <<tree, backup, call, fds>>
      BY <1>4, StageFacts DEF RegisterInitrd, Boot
    <2>2. /\ stage + 1 \in 0 .. Running /\ stage # Running
          /\ ~(stage >= Spawning) /\ ~(stage + 1 >= Spawning) /\ ~(stage >= Loading) /\ stage + 1 >= Loading
      BY <1>1, <2>1, StageFacts
    <2>3. MountedAt(stage + 1) = MountedAt(stage)
      BY <1>1, <2>1, MountedFacts
    <2>4. CallInv' /\ FdsInv' /\ DOMAIN fds' = {}
      BY <2>1, <2>2, QuietKept
    <2>5. BootInv'
      BY <1>1, <2>1, <2>2, <2>3, <2>4 DEF BootInv, RootAt
    <2>6. QED BY <2>4, <2>5 DEF IInv
  <1>5. ASSUME LoadRamDisk PROVE IInv'
    <2>1. /\ stage = Loading /\ stage' = stage + 1 /\ callbacks' = callbacks
          /\ tree' = MountNode(tree, Ram0, NodeOf(Ram0))
          /\ UNCHANGED <<backup, call, fds>>
      <3>1. stage = Loading /\ stage' = Mounting /\ tree' = MountNode(tree, Ram0, RamDisk)
            /\ callbacks' = callbacks /\ UNCHANGED <<backup, call, fds>>
        BY <1>5 DEF LoadRamDisk, Boot
      <3>2. Mounting = Loading + 1
        BY StageFacts
      <3>3. NodeOf(Ram0) = RamDisk
        BY DeviceFacts
      <3>4. QED BY <3>1, <3>2, <3>3
    <2>2. /\ stage + 1 \in 0 .. Running /\ stage # Running
          /\ ~(stage >= Spawning) /\ ~(stage + 1 >= Spawning) /\ stage >= Loading /\ stage + 1 >= Loading
      BY <1>1, <2>1, StageFacts
    <2>3. Ram0 \in MountPaths \ MountedAt(stage) /\ MountedAt(stage + 1) = MountedAt(stage) \union {Ram0}
      BY <1>1, <2>1, MountedFacts
    <2>4. TreeOf(MountedAt(stage + 1), RootAt(stage), tree')
      <3>1. TreeOf(MountedAt(stage) \union {Ram0}, RootAt(stage), MountNode(tree, Ram0, NodeOf(Ram0)))
        BY <1>1, <1>2, <2>3, TreeGrows
      <3>2. QED BY <2>1, <2>3, <3>1
    <2>5. CallInv' /\ FdsInv' /\ DOMAIN fds' = {}
      BY <2>1, <2>2, QuietKept
    <2>6. BootInv'
      BY <1>1, <2>1, <2>2, <2>4, <2>5 DEF BootInv, RootAt
    <2>7. QED BY <2>5, <2>6 DEF IInv
  <1>6. ASSUME MountRoot PROVE IInv'
    <2>1. /\ stage = Mounting /\ stage' = stage + 1 /\ callbacks' = callbacks
          /\ tree' = Mount(tree, <<>>, Ram0, "initrd", callbacks)
          /\ UNCHANGED <<backup, call, fds>>
      <3>1. stage = Mounting /\ stage' = Spawning /\ tree' = Mount(tree, <<>>, Ram0, "initrd", callbacks)
            /\ callbacks' = callbacks /\ UNCHANGED <<backup, call, fds>>
        BY <1>6 DEF MountRoot, Boot
      <3>2. Spawning = Mounting + 1
        BY StageFacts
      <3>3. QED BY <3>1, <3>2
    <2>2. /\ stage + 1 \in 0 .. Running /\ stage # Running
          /\ ~(stage >= Spawning) /\ stage + 1 >= Spawning /\ stage >= Loading /\ stage + 1 >= Loading
          /\ stage >= Mounting /\ stage + 1 >= Mounting
      BY <1>1, <2>1, StageFacts
    <2>3. MountedAt(stage) = MountPaths /\ MountedAt(stage + 1) = MountPaths
      BY <1>1, <2>2, MountedFacts
    <2>4. TreeOf(MountPaths, NoNode, tree)
      BY <1>1, <2>2, <2>3 DEF RootAt
    <2>5. Open(tree, Ram0, FALSE) = RamDisk /\ RamDisk # NoNode
      <3>1. Ram0 \in MountPaths /\ Ram0 \in Paths /\ NodeOf(Ram0) = RamDisk
        BY DeviceFacts
      <3>2. Ram0 \in Ancestors(Ram0)
        BY <3>1, PrefixFacts
      <3>3. Ram0 \in DOMAIN tree /\ <<>> \in DOMAIN tree
        BY <2>4, <3>1, <3>2 DEF TreeOf
      <3>4. tree[Ram0] = RamDisk
        BY <2>4, <3>1, <3>3 DEF TreeOf
      <3>5. RamDisk # NoNode
        BY <3>1, NodeFacts
      <3>6. QED BY <3>1, <3>3, <3>4, <3>5, OpenMapped
    <2>6. tree' = MountNode(tree, <<>>, RootNode)
      <3>1. Initrd(RamDisk) = RootNode
        <4>1. RamDisk.meta = 0
          BY DEF RamDisk, Node
        <4>2. QED BY <4>1, ParsedTar DEF Initrd, RootNode
      <3>2. "initrd" \in callbacks
        BY <1>1, <2>2
      <3>3. QED BY <2>1, <2>5, <3>1, <3>2 DEF Mount
    <2>7. TreeOf(MountPaths, RootNode, tree')
      <3>1. TreeOf(MountPaths, RootNode, MountNode(tree, <<>>, RootNode))
        BY <2>4, RootMounted
      <3>2. QED BY <2>6, <3>1
    <2>8. CallInv' /\ FdsInv' /\ DOMAIN fds' = {}
      BY <2>1, <2>2, QuietKept
    <2>9. BootInv'
      BY <1>1, <2>1, <2>2, <2>3, <2>7, <2>8 DEF BootInv
    <2>10. QED BY <2>8, <2>9 DEF IInv
  <1>7. ASSUME SpawnInit PROVE IInv'
    <2> DEFINE asked == [path |-> Log, dir |-> FALSE]
               log == Descriptor(Open(tree, Log, FALSE), asked)
    <2>1. /\ stage = Spawning /\ stage' = stage + 1 /\ fds' = [p \in {InitProcess} |-> <<log, log, log>>]
          /\ backup' = Freed /\ UNCHANGED <<tree, callbacks, call>>
      <3>1. /\ stage = Spawning /\ stage' = Running /\ fds' = [p \in {InitProcess} |-> <<log, log, log>>]
            /\ backup' = Freed /\ UNCHANGED <<tree, callbacks, call>>
        BY <1>7 DEF SpawnInit, Boot
      <3>2. Running = Spawning + 1
        BY StageFacts
      <3>3. QED BY <3>1, <3>2
    <2>2. /\ stage + 1 \in 0 .. Running /\ stage # Running /\ stage + 1 = Running
          /\ stage >= Spawning /\ stage + 1 >= Spawning /\ stage >= Loading /\ stage + 1 >= Loading
          /\ stage >= Mounting /\ stage + 1 >= Mounting
      BY <1>1, <2>1, StageFacts
    <2>3. MountedAt(stage) = MountPaths /\ MountedAt(stage + 1) = MountPaths
      BY <1>1, <2>2, MountedFacts
    <2>4. TreeOf(MountPaths, RootNode, tree)
      BY <1>1, <2>2, <2>3 DEF RootAt
    <2>5. DescRight(log)
      <3>1. PICK i \in DOMAIN Devices : Devices[i].path = Log
        BY FilesAssumption DEF FilesAssumption
      <3>2. Log \in Paths /\ Log \in MountPaths
        BY <3>1, DeviceFacts
      <3>3. Open(tree, Log, FALSE) = Promised(Log, FALSE)
        BY <2>4, <3>2, OpenPromised
      <3>4. Promised(Log, FALSE) # NoNode
        <4>1. \E d \in Mounts : d.path = Log
          BY <3>2 DEF MountPaths
        <4>2. Promised(Log, FALSE) = NodeOf(Log)
          BY <4>1, Zenon DEF Promised, NodeOf
        <4>3. QED BY <3>2, <4>2, NodeFacts
      <3>5. FALSE \in BOOLEAN
        OBVIOUS
      <3> HIDE DEF asked
      <3>6. DescRight(Descriptor(Promised(Log, FALSE), asked))
        BY <3>2, <3>4, <3>5, OpenedRight DEF asked
      <3>7. QED BY <3>3, <3>6
    <2> HIDE DEF log
    <2>6. FdsInv'
      <3>1. log \in DescType
        BY <2>5 DEF DescRight
      <3> DEFINE three == <<log, log, log>>
      <3>2. three \in Seq(DescType) /\ \A i \in DOMAIN three : three[i] = log
        <4> HIDE DEF DescType
        <4>1. QED BY <3>1
      <3> HIDE DEF three
      <3>3. DOMAIN fds' = {InitProcess} /\ fds'[InitProcess] = three /\ fds' = [p \in {InitProcess} |-> three]
        BY <2>1 DEF three
      <3>4. fds' \in [DOMAIN fds' -> Seq(DescType)]
        BY <3>2, <3>3
      <3>5. InitProcess \in Process
        BY FilesAssumption DEF FilesAssumption
      <3>6. \A p \in DOMAIN fds' : \A i \in DOMAIN fds'[p] : DescRight(fds'[p][i])
        BY <2>5, <3>2, <3>3
      <3>7. QED BY <3>3, <3>4, <3>5, <3>6 DEF FdsInv
    <2>7. CallInv'
      <3>1. InKernel' = {}
        BY <2>1, <2>2, Booting DEF InKernel
      <3>2. backup' \in Place \union {NoString, Freed}
        BY <2>1
      <3>3. QED BY <2>1, <3>1, <3>2 DEF CallInv, IInv
    <2>8. BootInv'
      BY <1>1, <2>1, <2>2, <2>3, <2>4 DEF BootInv
    <2>9. QED BY <2>6, <2>7, <2>8 DEF IInv
  <1>8. QED BY <1>3, <1>4, <1>5, <1>6, <1>7 DEF BootStep

----------------------------------------------------------------------------
(* One core in the kernel                                                   *)

LEMMA RunningTree ==
  ASSUME IInv, DOMAIN fds # {}
  PROVE  stage = Running /\ TreeOf(MountPaths, RootNode, tree)
  <1>1. stage = Running
    BY DEF IInv, BootInv
  <1>2. Running \in 0 .. Running /\ Running >= Mounting /\ Running >= Spawning
    BY StageFacts
  <1>3. MountedAt(Running) = MountPaths
    BY <1>2, MountedFacts
  <1>4. QED BY <1>1, <1>2, <1>3 DEF IInv, BootInv

LEMMA BootKept ==
  ASSUME IInv, DOMAIN fds # {}, UNCHANGED <<stage, tree, callbacks>>
  PROVE  BootInv'
  BY RunningTree DEF IInv, BootInv

LEMMA Occupied ==
  ASSUME Cores = 1, IInv, NEW p \in Process, Enter(p)
  PROVE  InKernel = {}
  <1>1. Cardinality(InKernel) < 1
    BY DEF Enter
  <1>2. ASSUME NEW q \in InKernel PROVE FALSE
    <2>1. InKernel = {q}
      BY DEF IInv, CallInv
    <2>2. Cardinality(InKernel) = 1
      BY <2>1, FS_Singleton
    <2>3. QED BY <1>1, <2>2
  <1>3. QED BY <1>2

\* A call that starts.
LEMMA ParseStarts ==
  ASSUME CallInv, InKernel = {}, NEW p \in Process \cap DOMAIN fds, UNCHANGED <<backup, fds>>,
         NEW op \in {"open", "readdir"}, NEW fd \in Nat, NEW path \in Paths, NEW dir \in BOOLEAN,
         Parse(p, op, fd, path, dir),
         op = "readdir" =>
           /\ fd \in DOMAIN fds[p]
           /\ fds[p][fd].index < MaxIndex /\ fds[p][fd].index < Len(EntriesOf(fds[p][fd].node))
           /\ path = NameAt(fds[p][fd], fds[p][fd].index + 1)
  PROVE  CallInv'
  <1> DEFINE c == [op |-> op, fd |-> fd, string |-> path, dir |-> dir, names |-> <<>>, first |-> TRUE]
  <1>1. call \in [Process -> Splitting \union {NoCall}] /\ \A q \in Process : call[q] = NoCall
    BY DEF CallInv, InKernel
  <1>2. call' = [call EXCEPT ![p] = c]
    BY DEF Parse
  <1>3. c \in Splitting
    BY DEF Splitting
  <1>4. /\ c.op = op /\ c.fd = fd /\ c.string = path /\ c.names = <<>> /\ c.first
    OBVIOUS
  <1> HIDE DEF c
  <1>5. call' \in [Process -> Splitting \union {NoCall}] /\ call'[p] = c /\ \A q \in Process : q # p => call'[q] = NoCall
    BY <1>1, <1>2, <1>3
  <1>6. InKernel' = {p}
    BY <1>3, <1>5, NotSplitting DEF InKernel
  <1>7. CallRight(p, c)'
    <2>1. c' = c /\ op' = op
      BY DEF c
    <2>2. c.names = SubSeq(c.string, 1, Len(c.names)) /\ Len(c.names) <= Len(c.string)
      <3>1. Len(c.names) = 0 /\ SubSeq(path, 1, 0) = <<>> /\ Len(path) \in Nat
        BY <1>4, PathFacts
      <3>2. QED BY <1>4, <3>1
    <2>3. c.op = "readdir" =>
            /\ c.fd \in DOMAIN fds[p]
            /\ fds[p][c.fd].index < MaxIndex /\ fds[p][c.fd].index < Len(EntriesOf(fds[p][c.fd].node))
            /\ c.string = NameAt(fds[p][c.fd], fds[p][c.fd].index + 1)
      BY <1>4
    <2>4. QED BY <1>4, <2>2, <2>3 DEF CallRight
  <1>8. \A q \in InKernel' : CallRight(q, call[q])'
    BY <1>5, <1>6, <1>7
  <1>9. backup' \in Place \union {NoString, Freed}
    BY DEF CallInv
  <1>10. QED BY <1>5, <1>6, <1>8, <1>9 DEF CallInv

\* What strtok finds for the only call in the kernel.
LEMMA StrtokRight ==
  ASSUME CallInv, NEW p \in InKernel
  PROVE  /\ call[p] \in Splitting /\ CallRight(p, call[p])
         /\ Len(call[p].names) < Len(call[p].string) =>
              /\ call[p].string[Len(call[p].names) + 1] \in STRING \ {NoName}
              /\ Strtok(p) = {[name |-> call[p].string[Len(call[p].names) + 1],
                               backup |-> [owner |-> p, behind |-> Len(call[p].names) + 1]]}
         /\ Len(call[p].names) >= Len(call[p].string) =>
              Strtok(p) = {[name |-> NoName, backup |-> backup]}
  <1> DEFINE c == call[p]
             n == Len(c.names)
             from == IF c.first THEN [owner |-> p, behind |-> 0] ELSE backup
             place == [owner |-> p, behind |-> n]
  <1>1. p \in Process /\ c \in Splitting /\ CallRight(p, c)
    BY DEF CallInv, InKernel
  <1>2. c.names \in Seq(STRING) /\ c.string \in Seq(STRING) /\ c.first \in BOOLEAN
    BY <1>1 DEF Splitting, Paths
  <1>3. n \in Nat /\ Len(c.string) \in Nat
    BY <1>2
  <1>4. from = place
    <2>1. CASE c.first
      <3>1. c.names = <<>>
        BY <1>1, <2>1 DEF CallRight
      <3>2. n = 0
        BY <3>1
      <3>3. QED BY <2>1, <3>2
    <2>2. CASE ~c.first
      BY <1>1, <2>2 DEF CallRight
    <2>3. QED BY <2>1, <2>2
  <1>5. place \in Place
    BY <1>1, <1>3 DEF Place
  <1>6. place # Freed /\ place.owner = p /\ place.behind = n
    BY <1>5, NotSplitting
  <1>7. Strtok(p) = IF from = Freed THEN {[name |-> x, backup |-> Freed] : x \in Names \union {NoName}}
                    ELSE IF from.behind < Len(call[from.owner].string)
                    THEN {[name |-> call[from.owner].string[from.behind + 1],
                           backup |-> [from EXCEPT !.behind = @ + 1]]}
                    ELSE {[name |-> NoName, backup |-> backup]}
    BY Zenon DEF Strtok
  <1>8. [place EXCEPT !.behind = @ + 1] = [owner |-> p, behind |-> n + 1]
    OBVIOUS
  <1>9. Strtok(p) = IF n < Len(c.string)
                    THEN {[name |-> c.string[n + 1], backup |-> [owner |-> p, behind |-> n + 1]]}
                    ELSE {[name |-> NoName, backup |-> backup]}
    <2> HIDE DEF place, from
    <2>1. Strtok(p) = IF place.behind < Len(call[place.owner].string)
                      THEN {[name |-> call[place.owner].string[place.behind + 1],
                             backup |-> [place EXCEPT !.behind = @ + 1]]}
                      ELSE {[name |-> NoName, backup |-> backup]}
      BY <1>4, <1>6, <1>7, Zenon
    <2>2. QED BY <1>6, <1>8, <2>1
  <1>10. n < Len(c.string) => c.string[n + 1] \in STRING \ {NoName}
    <2> SUFFICES ASSUME n < Len(c.string) PROVE c.string[n + 1] \in STRING \ {NoName}
      OBVIOUS
    <2>1. n + 1 \in 1 .. Len(c.string)
      BY <1>3
    <2>2. c.string[n + 1] \in STRING
      BY <1>2, <2>1, MemberOf
    <2>3. NoName \notin STRING
      BY FilesAssumption DEF FilesAssumption
    <2>4. QED BY <2>2, <2>3
  <1> HIDE DEF n
  <1>11. n >= Len(c.string) => ~(n < Len(c.string))
    BY <1>3
  <1>12. QED BY <1>1, <1>9, <1>10, <1>11 DEF n

LEMMA FdsKept ==
  ASSUME FdsInv, UNCHANGED fds
  PROVE  FdsInv'
  BY DEF FdsInv

LEMMA StartOpenRight ==
  ASSUME Cores = 1, IInv, NEW p \in Process, NEW asked \in Asks[p], StartOpen(p, asked)
  PROVE  IInv'
  <1>1. InKernel = {}
    BY Occupied DEF StartOpen
  <1>2. p \in DOMAIN fds /\ UNCHANGED <<stage, tree, callbacks, backup, fds>>
        /\ Parse(p, "open", 0, asked.path, asked.dir)
    BY DEF StartOpen, Enter
  <1>3. asked.path \in Paths /\ asked.dir \in BOOLEAN
    <2>1. asked \in [path : Paths, dir : BOOLEAN]
      BY FilesAssumption DEF FilesAssumption
    <2>2. QED BY <2>1
  <1>4. CallInv'
    <2>1. CallInv /\ "open" \in {"open", "readdir"} /\ "open" # "readdir" /\ 0 \in Nat /\ p \in Process \cap DOMAIN fds
      BY <1>2 DEF IInv
    <2>2. QED BY <1>1, <1>2, <1>3, <2>1, ParseStarts
  <1>5. QED BY <1>2, <1>4, BootKept, FdsKept DEF IInv

LEMMA NextNameRight ==
  ASSUME IInv, NEW p \in Process, NextName(p)
  PROVE  IInv'
  <1> DEFINE c == call[p]
             n == Len(c.names)
             x == c.string[n + 1]
             next == [c EXCEPT !.names = Append(c.names, x), !.first = FALSE]
  <1>1. p \in InKernel /\ UNCHANGED <<stage, tree, callbacks, fds>>
    BY DEF NextName, InKernel
  <1>2. PICK result \in Strtok(p) :
          /\ result.name # NoName /\ backup' = result.backup
          /\ call' = [call EXCEPT ![p].names = Append(@, result.name), ![p].first = FALSE]
    BY DEF NextName
  <1>3. CallInv /\ c \in Splitting /\ CallRight(p, c)
    BY <1>1, StrtokRight DEF IInv
  <1>4. c.names \in Seq(STRING) /\ c.string \in Seq(STRING) /\ n \in Nat /\ Len(c.string) \in Nat
    BY <1>3 DEF Splitting, Paths
  <1>5. n < Len(c.string)
    <2>1. ASSUME n >= Len(c.string) PROVE FALSE
      <3>1. Strtok(p) = {[name |-> NoName, backup |-> backup]}
        BY <1>1, <1>3, <2>1, StrtokRight
      <3>2. QED BY <1>2, <3>1
    <2>2. QED BY <1>4, <2>1
  <1>6. x \in STRING /\ result = [name |-> x, backup |-> [owner |-> p, behind |-> n + 1]]
    <2>1. x \in STRING \ {NoName} /\ Strtok(p) = {[name |-> x, backup |-> [owner |-> p, behind |-> n + 1]]}
      BY <1>1, <1>3, <1>5, StrtokRight
    <2>2. QED BY <1>2, <2>1
  <1>7. backup' = [owner |-> p, behind |-> n + 1] /\ call' = [call EXCEPT ![p] = next]
    <2>1. result.name = x /\ result.backup = [owner |-> p, behind |-> n + 1]
      BY <1>6
    <2>2. p \in DOMAIN call
      BY <1>3 DEF CallInv
    <2>3. call' = [call EXCEPT ![p].names = Append(@, x), ![p].first = FALSE]
      BY <1>2, <2>1
    <2> HIDE DEF x
    <2>4. QED BY <1>2, <2>1, <2>2, <2>3
  <1>16. PICK e : e = next
    OBVIOUS
  <1>8. /\ e \in Splitting /\ e.names = Append(c.names, x) /\ e.first = FALSE
        /\ e.op = c.op /\ e.fd = c.fd /\ e.string = c.string
    <2>1. Append(c.names, x) \in Seq(STRING)
      BY <1>4, <1>6
    <2> DEFINE a == Append(c.names, x)
    <2> HIDE DEF a, x, c
    <2>2. /\ next \in Splitting /\ next.names = a /\ next.first = FALSE
          /\ next.op = c.op /\ next.fd = c.fd /\ next.string = c.string
      BY <1>3, <2>1 DEF Splitting, a
    <2> HIDE DEF next
    <2>3. QED BY <1>16, <2>2 DEF a, x, c
  <1>9. e.names = SubSeq(e.string, 1, n + 1) /\ Len(e.names) = n + 1
    <2> DEFINE a == c.names
               s == c.string
    <2>1. a \in Seq(STRING) /\ s \in Seq(STRING) /\ a = SubSeq(s, 1, n) /\ n < Len(s)
      BY <1>3, <1>4, <1>5 DEF CallRight
    <2>2. Append(SubSeq(s, 1, n), s[n + 1]) = SubSeq(s, 1, n + 1)
      <3> DEFINE u == Append(SubSeq(s, 1, n), s[n + 1])
                 v == SubSeq(s, 1, n + 1)
      <3>1. SubSeq(s, 1, n) \in Seq(STRING) /\ Len(SubSeq(s, 1, n)) = n /\ \A k \in 1 .. n : SubSeq(s, 1, n)[k] = s[k]
        BY <1>4, <2>1
      <3>2. v \in Seq(STRING) /\ Len(v) = n + 1 /\ \A k \in 1 .. n + 1 : v[k] = s[k]
        BY <1>4, <2>1
      <3>3. u \in Seq(STRING) /\ Len(u) = n + 1 /\ \A k \in 1 .. n + 1 : u[k] = s[k]
        <4> DEFINE b == SubSeq(s, 1, n)
        <4>1. s[n + 1] \in STRING
          BY <1>6
        <4>2. b \in Seq(STRING) /\ Len(b) = n /\ \A k \in 1 .. n : b[k] = s[k]
          BY <3>1
        <4> HIDE DEF b, s, n
        <4>3. Append(b, s[n + 1]) \in Seq(STRING) /\ Len(Append(b, s[n + 1])) = n + 1
              /\ \A k \in 1 .. n + 1 : Append(b, s[n + 1])[k] = s[k]
          BY <1>4, <4>1, <4>2
        <4>4. QED BY <4>3 DEF b
      <3> HIDE DEF u, v
      <3>4. u = v
        BY <3>2, <3>3, SeqEqual
      <3>5. QED BY <3>4 DEF u, v
    <2>3. Len(SubSeq(s, 1, n + 1)) = n + 1
      BY <1>4, <2>1
    <2>4. e.names = Append(a, s[n + 1]) /\ e.string = s
      BY <1>8
    <2> HIDE DEF a, s, n
    <2>5. QED BY <2>1, <2>2, <2>3, <2>4
  <1> HIDE DEF next, x
  <1>10. /\ call' \in [Process -> Splitting \union {NoCall}] /\ call'[p] = e
         /\ \A q \in Process : q # p => call'[q] = call[q]
    <2>1. call \in [Process -> Splitting \union {NoCall}]
      BY <1>3 DEF CallInv
    <2>2. call' = [call EXCEPT ![p] = e]
      BY <1>7, <1>16
    <2>3. QED BY <1>8, <2>1, <2>2
  <1>11. InKernel' = {p}
    <2>1. InKernel = {p}
      BY <1>1, <1>3 DEF CallInv
    <2>2. e # NoCall
      BY <1>8, NotSplitting
    <2>3. QED BY <1>10, <2>1, <2>2 DEF InKernel
  <1>12. CallRight(p, call[p])'
    <2>1. CallRight(p, e)'
      <3>1. e.names = SubSeq(e.string, 1, Len(e.names)) /\ Len(e.names) <= Len(e.string)
        BY <1>4, <1>5, <1>8, <1>9
      <3>2. backup' = [owner |-> p, behind |-> Len(e.names)]
        BY <1>7, <1>9
      <3>3. QED BY <1>1, <1>3, <1>8, <3>1, <3>2 DEF CallRight
    <2>2. QED BY <1>10, <2>1
  <1>13. CallInv'
    <2>1. backup' \in Place
      BY <1>4, <1>7 DEF Place
    <2>2. \A q \in InKernel' : CallRight(q, call[q])'
      BY <1>11, <1>12
    <2>3. QED BY <1>10, <1>11, <2>1, <2>2 DEF CallInv
  <1>14. DOMAIN fds # {}
    BY <1>3 DEF CallRight
  <1>15. QED BY <1>1, <1>13, <1>14, BootKept, FdsKept DEF IInv

\* path_parse is over, and has found all the names.
LEMMA EndParseRight ==
  ASSUME IInv, NEW p \in Process, NEW op, EndParse(p, op)
  PROVE  /\ p \in InKernel /\ call[p].op = op /\ call[p].names = call[p].string
         /\ call[p] \in Splitting /\ CallRight(p, call[p])
         /\ CallInv' /\ BootInv'
  <1> DEFINE c == call[p]
  <1>1. p \in InKernel /\ c.op = op /\ UNCHANGED <<stage, tree, callbacks>>
    BY DEF EndParse, InKernel
  <1>2. CallInv /\ c \in Splitting /\ CallRight(p, c)
    BY <1>1, StrtokRight DEF IInv
  <1>3. c.names \in Seq(STRING) /\ c.string \in Paths /\ Len(c.names) \in Nat /\ Len(c.string) \in Nat
    BY <1>2 DEF Splitting, Paths
  <1>4. c.names = c.string
    <2>1. Len(c.names) >= Len(c.string)
      <3>1. ASSUME Len(c.names) < Len(c.string) PROVE FALSE
        <4> DEFINE x == c.string[Len(c.names) + 1]
                   b == [owner |-> p, behind |-> Len(c.names) + 1]
        <4>1. x \in STRING \ {NoName} /\ Strtok(p) = {[name |-> x, backup |-> b]}
          BY <1>1, <1>2, <3>1, StrtokRight
        <4>2. \E result \in Strtok(p) : result.name = NoName
          BY DEF EndParse
        <4> HIDE DEF x, b
        <4>3. QED BY <4>1, <4>2
      <3>2. QED BY <1>3, <3>1
    <2>2. Len(c.names) = Len(c.string) /\ c.names = SubSeq(c.string, 1, Len(c.names))
      BY <1>2, <1>3, <2>1 DEF CallRight
    <2>3. QED BY <1>3, <2>2, PathFacts
  <1>5. call' = [call EXCEPT ![p] = NoCall] /\ call \in [Process -> Splitting \union {NoCall}]
    BY <1>2 DEF EndParse, CallInv
  <1>6. call' \in [Process -> Splitting \union {NoCall}] /\ InKernel' = {}
    <2>1. \A q \in InKernel : q = p
      BY <1>1, <1>2 DEF CallInv
    <2>2. call' \in [Process -> Splitting \union {NoCall}] /\ call'[p] = NoCall /\ \A q \in Process : q # p => call'[q] = call[q]
      BY <1>5
    <2>3. QED BY <2>1, <2>2 DEF InKernel
  <1>7. backup' \in Place \union {NoString, Freed}
    <2>1. backup' \in {backup, Freed}
      BY DEF EndParse
    <2>2. QED BY <1>2, <2>1 DEF CallInv
  <1>8. CallInv'
    BY <1>6, <1>7 DEF CallInv
  <1>9. DOMAIN fds # {}
    BY <1>2 DEF CallRight
  <1>10. BootInv'
    BY <1>1, <1>9, BootKept
  <1>11. QED BY <1>1, <1>2, <1>4, <1>8, <1>10

\* What k_fs_open returns, and the descriptor that comes of it.
LEMMA FinishOpenGives ==
  ASSUME IInv, NEW p \in Process, FinishOpen(p)
  PROVE  LET asked    == [path |-> call[p].string, dir |-> call[p].dir]
             promised == Promised(asked.path, asked.dir)
         IN /\ asked \in [path : Paths, dir : BOOLEAN] /\ p \in DOMAIN fds
            /\ fds' = IF promised = NoNode THEN fds
                      ELSE [fds EXCEPT ![p] = Append(fds[p], Descriptor(promised, asked))]
  <1> DEFINE c == call[p]
             asked == [path |-> c.string, dir |-> c.dir]
  <1>1. EndParse(p, "open")
    BY DEF FinishOpen
  <1>2. c \in Splitting /\ CallRight(p, c) /\ c.names = c.string
    BY <1>1, EndParseRight
  <1>3. c.string \in Paths /\ c.dir \in BOOLEAN /\ p \in DOMAIN fds
    BY <1>2 DEF Splitting, CallRight
  <1>4. Open(tree, c.names, c.dir) = Promised(c.string, c.dir)
    <2>1. TreeOf(MountPaths, RootNode, tree)
      BY <1>3, RunningTree
    <2>2. QED BY <1>2, <1>3, <2>1, OpenPromised
  <1>5. fds' = LET node == Open(tree, c.names, c.dir)
               IN IF node = NoNode THEN fds
                  ELSE [fds EXCEPT ![p] = Append(@, Descriptor(node, asked))]
    BY Zenon DEF FinishOpen
  <1>6. fds' = IF Promised(c.string, c.dir) = NoNode THEN fds
               ELSE [fds EXCEPT ![p] = Append(fds[p], Descriptor(Promised(c.string, c.dir), asked))]
    <2> HIDE DEF c, asked
    <2>1. QED BY <1>3, <1>4, <1>5
  <1>7. asked \in [path : Paths, dir : BOOLEAN] /\ asked.path = c.string /\ asked.dir = c.dir
    BY <1>3
  <1> HIDE DEF c, asked
  <1>8. /\ asked \in [path : Paths, dir : BOOLEAN] /\ p \in DOMAIN fds
        /\ fds' = IF Promised(asked.path, asked.dir) = NoNode THEN fds
                  ELSE [fds EXCEPT ![p] = Append(fds[p], Descriptor(Promised(asked.path, asked.dir), asked))]
    BY <1>3, <1>6, <1>7
  <1>9. QED BY <1>8 DEF asked, c

LEMMA FinishOpenRight ==
  ASSUME IInv, NEW p \in Process, FinishOpen(p)
  PROVE  IInv'
  <1>1. PICK asked \in [path : Paths, dir : BOOLEAN] : asked = [path |-> call[p].string, dir |-> call[p].dir]
    BY FinishOpenGives
  <1> DEFINE promised == Promised(asked.path, asked.dir)
             d == Descriptor(promised, asked)
  <1>2. p \in DOMAIN fds /\ fds' = IF promised = NoNode THEN fds ELSE [fds EXCEPT ![p] = Append(fds[p], d)]
    BY <1>1, FinishOpenGives
  <1>3. CallInv' /\ BootInv'
    BY EndParseRight DEF FinishOpen
  <1>4. FdsInv'
    <2>1. CASE promised = NoNode
      BY <1>2, <2>1, FdsKept DEF IInv
    <2>2. CASE promised # NoNode
      <3>1. DescRight(d)
        <4>1. asked = [path |-> asked.path, dir |-> asked.dir] /\ asked.path \in Paths /\ asked.dir \in BOOLEAN
          OBVIOUS
        <4>2. QED BY <2>2, <4>1, OpenedRight
      <3>2. d \in DescType
        BY <3>1 DEF DescRight
      <3> HIDE DEF d, promised
      <3>3. fds \in [DOMAIN fds -> Seq(DescType)] /\ DOMAIN fds \subseteq Process /\ fds[p] \in Seq(DescType)
        BY <1>2 DEF IInv, FdsInv
      <3> DEFINE a == Append(fds[p], d)
      <3>4. /\ a \in Seq(DescType) /\ DOMAIN a = 1 .. Len(fds[p]) + 1 /\ a[Len(fds[p]) + 1] = d
            /\ \A i \in 1 .. Len(fds[p]) : a[i] = fds[p][i]
            /\ DOMAIN fds[p] = 1 .. Len(fds[p]) /\ Len(fds[p]) \in Nat
        <4> DEFINE s == fds[p]
                   T == DescType
        <4>1. s \in Seq(T) /\ d \in T
          BY <3>2, <3>3
        <4> HIDE DEF s, T
        <4>2. /\ Append(s, d) \in Seq(T) /\ DOMAIN Append(s, d) = 1 .. Len(s) + 1 /\ Append(s, d)[Len(s) + 1] = d
              /\ \A i \in 1 .. Len(s) : Append(s, d)[i] = s[i]
              /\ DOMAIN s = 1 .. Len(s) /\ Len(s) \in Nat
          BY <4>1
        <4>3. QED BY <4>2 DEF s, T
      <3> HIDE DEF a
      <3>5. fds' = [fds EXCEPT ![p] = a]
        BY <1>2, <2>2 DEF a
      <3>6. fds' \in [DOMAIN fds -> Seq(DescType)] /\ DOMAIN fds' = DOMAIN fds /\ fds'[p] = a
            /\ \A q \in DOMAIN fds : q # p => fds'[q] = fds[q]
        BY <1>2, <3>3, <3>4, <3>5
      <3>7. \A i \in DOMAIN a : DescRight(a[i])
        <4> SUFFICES ASSUME NEW i \in DOMAIN a PROVE DescRight(a[i])
          OBVIOUS
        <4>1. CASE i = Len(fds[p]) + 1
          BY <3>1, <3>4, <4>1
        <4>2. CASE i # Len(fds[p]) + 1
          <5>1. i \in 1 .. Len(fds[p])
            BY <3>4, <4>2
          <5>2. DescRight(fds[p][i])
            BY <1>2, <3>4, <5>1 DEF IInv, FdsInv
          <5>3. QED BY <3>4, <5>1, <5>2
        <4>3. QED BY <4>1, <4>2
      <3>8. \A q \in DOMAIN fds' : \A i \in DOMAIN fds'[q] : DescRight(fds'[q][i])
        BY <3>6, <3>7 DEF IInv, FdsInv
      <3>9. QED BY <3>3, <3>6, <3>8 DEF FdsInv
    <2>3. QED BY <2>1, <2>2
  <1>5. QED BY <1>3, <1>4 DEF IInv

\* One descriptor changes.
LEMMA DescChanged ==
  ASSUME FdsInv, NEW p \in DOMAIN fds, NEW i \in DOMAIN fds[p], NEW d, DescRight(d),
         fds' = [fds EXCEPT ![p] = [fds[p] EXCEPT ![i] = d]]
  PROVE  FdsInv' /\ DOMAIN fds' = DOMAIN fds /\ \A q \in DOMAIN fds : q # p => fds'[q] = fds[q]
  <1>1. fds \in [DOMAIN fds -> Seq(DescType)] /\ DOMAIN fds \subseteq Process /\ fds[p] \in Seq(DescType)
    BY DEF FdsInv
  <1>2. d \in DescType
    BY DEF DescRight
  <1> DEFINE a == [fds[p] EXCEPT ![i] = d]
  <1>3. a \in Seq(DescType) /\ DOMAIN a = DOMAIN fds[p] /\ a[i] = d
        /\ \A j \in DOMAIN fds[p] : j # i => a[j] = fds[p][j]
    <2> DEFINE s == fds[p]
               T == DescType
    <2>1. s \in Seq(T) /\ d \in T /\ i \in DOMAIN s
      BY <1>1, <1>2
    <2> HIDE DEF s, T
    <2>2. /\ [s EXCEPT ![i] = d] \in Seq(T) /\ DOMAIN [s EXCEPT ![i] = d] = DOMAIN s /\ [s EXCEPT ![i] = d][i] = d
          /\ \A j \in DOMAIN s : j # i => [s EXCEPT ![i] = d][j] = s[j]
      BY <2>1
    <2>3. QED BY <2>2 DEF s, T
  <1> HIDE DEF a
  <1>4. fds' = [fds EXCEPT ![p] = a]
    BY DEF a
  <1>5. fds' \in [DOMAIN fds -> Seq(DescType)] /\ DOMAIN fds' = DOMAIN fds /\ fds'[p] = a
        /\ \A q \in DOMAIN fds : q # p => fds'[q] = fds[q]
    BY <1>1, <1>3, <1>4
  <1>6. \A j \in DOMAIN a : DescRight(a[j])
    BY <1>3 DEF FdsInv
  <1>7. \A q \in DOMAIN fds' : \A j \in DOMAIN fds'[q] : DescRight(fds'[q][j])
    BY <1>5, <1>6 DEF FdsInv
  <1>8. QED BY <1>1, <1>5, <1>7 DEF FdsInv

\* What a system call of one step does to the rest.
LEMMA UseKept ==
  ASSUME Cores = 1, IInv, NEW p \in Process, Enter(p), UNCHANGED <<backup, call>>
  PROVE  p \in DOMAIN fds /\ BootInv' /\ CallInv'
  <1>1. InKernel = {} /\ p \in DOMAIN fds /\ UNCHANGED <<stage, tree, callbacks>>
    BY Occupied DEF Enter
  <1>2. InKernel' = {}
    BY <1>1 DEF InKernel
  <1>3. CallInv'
    BY <1>2 DEF IInv, CallInv
  <1>4. QED BY <1>1, <1>3, BootKept

LEMMA DescFacts ==
  ASSUME FdsInv, NEW p \in DOMAIN fds, NEW i \in DOMAIN fds[p]
  PROVE  DescRight(fds[p][i]) /\ fds[p][i] \in DescType
  BY DEF FdsInv, DescRight

----------------------------------------------------------------------------
(* What the calls do to a descriptor                                        *)

LEMMA DescFields ==
  ASSUME NEW d, DescRight(d)
  PROVE  /\ d \in DescType /\ d.node \in NodeType /\ d.offset \in Int /\ d.start \in Int
         /\ d.data \in Seq(Int) /\ d.index \in 0 .. MaxIndex /\ d.listed \in Seq(STRING)
         /\ d.asked.path \in Paths /\ d.asked.dir \in BOOLEAN
         /\ d.node.size \in Nat /\ d.node.meta \in Nat /\ MaxIndex \in Nat
         /\ Len(EntriesOf(d.node)) \in Nat
         /\ \A k \in 1 .. Len(EntriesOf(d.node)) : NameAt(d, k) \in Paths \ {<<>>}
         /\ Len(EntriesOf(d.node)) # 0 => d.node.kind = "dir"
  <1>1. d \in DescType /\ d.node = Promised(d.asked.path, d.asked.dir)
    BY DEF DescRight
  <1>2. /\ d.node \in NodeType /\ d.offset \in Int /\ d.start \in Int
        /\ d.data \in Seq(Int) /\ d.index \in 0 .. MaxIndex /\ d.listed \in Seq(STRING)
        /\ d.asked.path \in Paths /\ d.asked.dir \in BOOLEAN
    BY <1>1 DEF DescType
  <1>3. d.node.size \in Nat /\ d.node.meta \in Nat
    BY <1>2 DEF NodeType
  <1>4. MaxIndex \in Nat
    BY FilesAssumption DEF FilesAssumption
  <1>5. /\ Len(EntriesOf(d.node)) \in Nat
        /\ \A k \in 1 .. Len(EntriesOf(d.node)) : Header(EntriesOf(d.node)[k]).name \in Paths \ {<<>>}
        /\ Len(EntriesOf(d.node)) # 0 => d.node.kind = "dir"
    BY <1>1, <1>2, EntriesTyped
  <1>6. QED BY <1>1, <1>2, <1>3, <1>4, <1>5 DEF NameAt

LEMMA DirSame ==
  ASSUME NEW d, NEW e, DirRight(d), e.node = d.node, e.index = d.index, e.listed = d.listed
  PROVE  DirRight(e)
  <1>1. \A k : NameAt(e, k) = NameAt(d, k)
    BY DEF NameAt
  <1> DEFINE n == Len(EntriesOf(d.node))
             r == IF d.index < n THEN d.index ELSE n
  <1>2. d.node.kind = "dir" => d.listed = [k \in 1 .. r |-> Last(NameAt(d, k))]
    BY Zenon DEF DirRight
  <1>3. r = IF e.index < Len(EntriesOf(e.node)) THEN e.index ELSE Len(EntriesOf(e.node))
    OBVIOUS
  <1> HIDE DEF n, r
  <1>4. e.node.kind = "dir" => e.listed = [k \in 1 .. r |-> Last(NameAt(e, k))]
    BY <1>1, <1>2
  <1>5. QED BY <1>3, <1>4, Zenon DEF DirRight

\* The addresses a read copies.
Copied(base, size, offset, bytes) ==
  /\ bytes \in Seq(Int)
  /\ Len(bytes) # 0 => offset >= 0 /\ offset + Len(bytes) <= size
  /\ \A k \in 1 .. Len(bytes) : bytes[k] = base + offset + k - 1

LEMMA RamReadSpec ==
  ASSUME NEW node \in NodeType, NEW offset \in Int, NEW n \in Nat
  PROVE  Copied(node.meta, node.size, offset, RamRead(node, offset, n))
  <1> DEFINE l == node.size
             b == node.meta
             m == IF offset + n > l THEN l - offset ELSE n
             f == [k \in 1 .. m |-> b + offset + k - 1]
             bytes == RamRead(node, offset, n)
  <1>1. l \in Nat /\ b \in Nat
    BY DEF NodeType
  <1>2. bytes = IF offset < 0 \/ offset > l THEN <<>> ELSE f
    BY DEF RamRead
  <1>3. CASE offset < 0 \/ offset > l
    <2>1. bytes = <<>>
      BY <1>2, <1>3
    <2> HIDE DEF bytes
    <2>2. bytes \in Seq(Int) /\ Len(bytes) = 0
      BY <2>1
    <2>3. QED BY <2>2 DEF bytes, Copied
  <1>4. CASE ~(offset < 0 \/ offset > l)
    <2>1. bytes = f
      BY <1>2, <1>4
    <2> HIDE DEF l, b, bytes
    <2>2. m \in Nat /\ offset >= 0 /\ offset + m <= l
      BY <1>1, <1>4
    <2> HIDE DEF m
    <2>3. f \in [1 .. m -> Int]
      BY <1>1, <2>2
    <2>4. \A k \in 1 .. m : f[k] = b + offset + k - 1
      OBVIOUS
    <2> HIDE DEF f
    <2>5. f \in Seq(Int) /\ Len(f) = m
      BY <2>2, <2>3 DEF Seq
    <2>6. QED BY <2>1, <2>2, <2>4, <2>5 DEF bytes, l, b, Copied
  <1>5. QED BY <1>3, <1>4

\* What has been delivered from some place on.
Delivered(s, a, b, l) ==
  /\ s # <<>> => a >= 0 /\ a + Len(s) <= l
  /\ \A k \in DOMAIN s : s[k] = b + a + k - 1

LEMMA DeliveredOn ==
  ASSUME NEW s \in Seq(Int), NEW t \in Seq(Int), NEW a \in Int, NEW b \in Nat, NEW l \in Nat,
         Delivered(s, a, b, l), Copied(b, l, a + Len(s), t)
  PROVE  Delivered(s \o t, a, b, l)
  <1> DEFINE x == Len(s)
             y == Len(t)
             u == s \o t
  <1>1. /\ u \in Seq(Int) /\ Len(u) = x + y /\ x \in Nat /\ y \in Nat
        /\ \A k \in 1 .. x : u[k] = s[k]
        /\ \A k \in 1 .. y : u[x + k] = t[k]
    BY Concat
  <1>11. DOMAIN s = 1 .. x
    OBVIOUS
  <1>2. /\ s # <<>> => a >= 0 /\ a + x <= l
        /\ \A k \in 1 .. x : s[k] = b + a + k - 1
    BY <1>11, Zenon DEF Delivered
  <1>3. y # 0 => a + x >= 0 /\ a + x + y <= l
    BY Zenon DEF Copied
  <1>4. \A k \in 1 .. y : t[k] = b + (a + x) + k - 1
    BY Zenon DEF Copied
  <1>5. s = <<>> <=> x = 0
    OBVIOUS
  <1> HIDE DEF x, y, u
  <1>6. u # <<>> <=> x + y # 0
    BY <1>1
  <1>7. u # <<>> => a >= 0 /\ a + Len(u) <= l
    <2>1. x \in Nat /\ y \in Nat /\ Len(u) = x + y
      BY <1>1
    <2>2. x # 0 => a >= 0 /\ a + x <= l
      BY <1>2, <1>5
    <2>3. x + y # 0 => a >= 0 /\ a + (x + y) <= l
      <3>1. CASE y = 0
        BY <2>1, <2>2, <3>1
      <3>2. CASE y # 0 /\ x = 0
        BY <1>3, <2>1, <3>2
      <3>3. CASE y # 0 /\ x # 0
        BY <1>3, <2>1, <2>2, <3>3
      <3>4. QED BY <3>1, <3>2, <3>3
    <2>4. QED BY <1>6, <2>1, <2>3
  <1>8. ASSUME NEW k \in 1 .. x + y PROVE u[k] = b + a + k - 1
    <2>1. CASE k \in 1 .. x
      BY <1>1, <1>2, <2>1
    <2>2. CASE k \notin 1 .. x
      <3> DEFINE j == k - x
      <3>1. j \in 1 .. y /\ k = x + j
        BY <1>1, <2>2
      <3> HIDE DEF j
      <3>2. u[x + j] = b + (a + x) + j - 1
        BY <1>1, <1>4, <3>1
      <3>3. b + (a + x) + j - 1 = b + a + k - 1
        BY <1>1, <3>1
      <3>4. QED BY <3>1, <3>2, <3>3
    <2>3. QED BY <2>1, <2>2
  <1>9. DOMAIN u = 1 .. x + y
    BY <1>1
  <1>10. QED BY <1>7, <1>8, <1>9 DEF Delivered, u

LEMMA FileSplit ==
  ASSUME NEW d, d.start \in Int, d.data \in Seq(Int)
  PROVE  FileRight(d) <=>
           (d.node.kind = "ram" /\ d.asked.path # Ram0 =>
             d.offset = d.start + Len(d.data) /\ Delivered(d.data, d.start, d.node.meta, d.node.size))
  BY DEF FileRight, Delivered

\* Bytes that follow what has been delivered.
LEMMA ReadOn ==
  ASSUME NEW d, DescRight(d), NEW n \in Nat, NEW bytes, NEW count \in Nat, NEW e,
         bytes = (IF d.node.kind = "ram" THEN RamRead(d.node, d.offset, n) ELSE <<>>),
         count = (IF d.node.kind = "zero" THEN n ELSE Len(bytes)),
         e = [d EXCEPT !.offset = d.offset + count, !.data = d.data \o bytes]
  PROVE  DescRight(e)
  <1> DEFINE T == DescType
             data == d.data \o bytes
             to == d.offset + count
  <1>1. /\ d \in DescType /\ d.node \in NodeType /\ d.offset \in Int /\ d.start \in Int /\ d.data \in Seq(Int)
        /\ d.node = Promised(d.asked.path, d.asked.dir) /\ FileRight(d) /\ DirRight(d)
        /\ d.node.size \in Nat /\ d.node.meta \in Nat
    BY DescFields DEF DescRight
  <1>2. bytes \in Seq(Int) /\ (d.node.kind = "ram" => Copied(d.node.meta, d.node.size, d.offset, bytes))
    <2>1. CASE d.node.kind = "ram"
      <3>1. bytes = RamRead(d.node, d.offset, n)
        BY <2>1
      <3>2. Copied(d.node.meta, d.node.size, d.offset, bytes)
        BY <1>1, <3>1, RamReadSpec
      <3>3. QED BY <3>2 DEF Copied
    <2>2. CASE d.node.kind # "ram"
      <3>1. bytes = <<>>
        BY <2>2
      <3>4. <<>> \in Seq(Int)
        OBVIOUS
      <3>2. bytes \in Seq(Int)
        BY <3>1, <3>4, Zenon
      <3>3. QED BY <2>2, <3>2
    <2>3. QED BY <2>1, <2>2
  <1>3. data \in Seq(Int)
    <2> DEFINE s == d.data
    <2>1. s \in Seq(Int)
      BY <1>1
    <2> HIDE DEF s
    <2>2. s \o bytes \in Seq(Int)
      BY <1>2, <2>1, Concat, Zenon
    <2>3. QED BY <2>2 DEF s
  <1>4. to \in Int
    BY <1>1
  <1> HIDE DEF data, to
  <1>5. e = [d EXCEPT !.offset = to, !.data = data]
    BY DEF data, to
  <1>6. e \in DescType
    BY <1>1, <1>3, <1>4, <1>5 DEF DescType
  <1>7. /\ e.node = d.node /\ e.offset = to /\ e.asked = d.asked /\ e.start = d.start /\ e.data = data
        /\ e.index = d.index /\ e.listed = d.listed
    BY <1>1, <1>5 DEF DescType
  <1>8. DirRight(e)
    BY <1>1, <1>7, DirSame
  <1>9. FileRight(e)
    <2> SUFFICES ASSUME d.node.kind = "ram", d.asked.path # Ram0
                 PROVE  to = d.start + Len(data) /\ Delivered(data, d.start, d.node.meta, d.node.size)
      BY <1>1, <1>3, <1>7, FileSplit
    <2>1. d.offset = d.start + Len(d.data) /\ Delivered(d.data, d.start, d.node.meta, d.node.size)
      BY <1>1, FileSplit
    <2> DEFINE t == d.data
               a == d.start
               b == d.node.meta
               l == d.node.size
               o == d.offset
               y == Len(bytes)
    <2>2. to = o + y
      BY DEF to
    <2>3. /\ t \in Seq(Int) /\ a \in Int /\ b \in Nat /\ l \in Nat /\ o = a + Len(t) /\ Delivered(t, a, b, l)
      BY <1>1, <2>1
    <2>4. Copied(b, l, o, bytes)
      BY <1>2
    <2> HIDE DEF t, a, b, l, o
    <2>5. Copied(b, l, a + Len(t), bytes)
      BY <2>3, <2>4
    <2>6. Delivered(t \o bytes, a, b, l)
      BY <1>2, <2>3, <2>5, DeliveredOn
    <2>7. to = a + Len(t \o bytes)
      <3>1. Len(t \o bytes) = Len(t) + Len(bytes) /\ Len(t) \in Nat /\ Len(bytes) \in Nat
        BY <1>2, <2>3, Concat, Zenon
      <3>2. QED BY <2>2, <2>3, <3>1
    <2>8. QED BY <2>6, <2>7 DEF t, a, b, l, data
  <1>10. QED BY <1>1, <1>6, <1>7, <1>8, <1>9 DEF DescRight

LEMMA ReadRight ==
  ASSUME Cores = 1, IInv, NEW p \in Process, NEW i, NEW n \in ReadSizes, Read(p, i, n)
  PROVE  IInv'
  <1> DEFINE node == fds[p][i].node
             ram == IF node.kind = "ram" THEN RamRead(node, fds[p][i].offset, n) ELSE <<>>
             count == IF node.kind = "zero" THEN n ELSE Len(ram)
  <1>1. /\ Enter(p) /\ i \in DOMAIN fds[p] /\ UNCHANGED <<backup, call>>
        /\ fds' = [fds EXCEPT ![p][i].offset = @ + count, ![p][i].data = @ \o ram]
    BY DEF Read, Use
  <1>2. p \in DOMAIN fds /\ BootInv' /\ CallInv'
    BY <1>1, UseKept
  <1>3. FdsInv /\ n \in Nat
    BY FilesAssumption DEF IInv, FilesAssumption
  <1>4. PICK d : d = fds[p][i]
    OBVIOUS
  <1>5. DescRight(d) /\ d.offset \in Int /\ d.node \in NodeType
    BY <1>1, <1>2, <1>3, <1>4, DescFacts, DescFields
  <1>6. PICK bytes : bytes = ram
    OBVIOUS
  <1>7. PICK c : c = count
    OBVIOUS
  <1>8. /\ bytes = (IF d.node.kind = "ram" THEN RamRead(d.node, d.offset, n) ELSE <<>>)
        /\ c = (IF d.node.kind = "zero" THEN n ELSE Len(bytes))
    BY <1>4, <1>6, <1>7
  <1>9. c \in Nat
    <2>1. Len(bytes) \in Nat
      <3>1. CASE d.node.kind = "ram"
        BY <1>3, <1>5, <1>8, <3>1, RamReadSpec DEF Copied
      <3>2. CASE d.node.kind # "ram"
        BY <1>8, <3>2
      <3>3. QED BY <3>1, <3>2
    <2>2. QED BY <1>3, <1>8, <2>1
  <1>10. PICK e : e = [d EXCEPT !.offset = d.offset + c, !.data = d.data \o bytes]
    OBVIOUS
  <1>11. DescRight(e)
    BY <1>3, <1>5, <1>8, <1>9, <1>10, ReadOn, Zenon
  <1>12. fds' = [fds EXCEPT ![p] = [fds[p] EXCEPT ![i] = e]]
    <2> HIDE DEF count, ram
    <2>1. fds' = [fds EXCEPT ![p][i].offset = @ + c, ![p][i].data = @ \o bytes]
      BY <1>1, <1>6, <1>7
    <2>2. QED BY <1>1, <1>2, <1>4, <1>10, <2>1
  <1>13. FdsInv'
    <2>1. FdsInv /\ p \in DOMAIN fds /\ i \in DOMAIN fds[p]
      BY <1>1, <1>2, <1>3
    <2>2. QED BY <1>11, <1>12, <2>1, DescChanged, Zenon
  <1>14. QED BY <1>2, <1>13 DEF IInv

LEMMA WriteRight ==
  ASSUME Cores = 1, IInv, NEW p \in Process, NEW i, NEW n \in ReadSizes, Write(p, i, n)
  PROVE  IInv'
  <1> DEFINE count == IF fds[p][i].node.kind \in {"log", "terminal", "zero"} THEN n ELSE 0
  <1>1. /\ Enter(p) /\ i \in DOMAIN fds[p] /\ UNCHANGED <<backup, call>>
        /\ fds' = [fds EXCEPT ![p][i].offset = @ + count]
    BY DEF Write, Use
  <1>2. p \in DOMAIN fds /\ BootInv' /\ CallInv'
    BY <1>1, UseKept
  <1>3. FdsInv /\ n \in Nat
    BY FilesAssumption DEF IInv, FilesAssumption
  <1>4. PICK d : d = fds[p][i]
    OBVIOUS
  <1>5. /\ DescRight(d) /\ d.offset \in Int /\ d.start \in Int /\ d.data \in Seq(Int) /\ d \in DescType
        /\ d.node = Promised(d.asked.path, d.asked.dir) /\ FileRight(d) /\ DirRight(d)
    <2>1. DescRight(d)
      BY <1>1, <1>2, <1>3, <1>4, DescFacts
    <2>2. QED BY <2>1, DescFields DEF DescRight
  <1>6. PICK c : c = count
    OBVIOUS
  <1>7. c \in Nat /\ (d.node.kind = "ram" => c = 0)
    BY <1>3, <1>4, <1>6
  <1>8. PICK to : to = d.offset + c
    OBVIOUS
  <1>9. PICK e : e = [d EXCEPT !.offset = to]
    OBVIOUS
  <1>10. to \in Int /\ (d.node.kind = "ram" => to = d.offset)
    BY <1>5, <1>7, <1>8
  <1>11. e \in DescType
    BY <1>5, <1>9, <1>10 DEF DescType
  <1>12. /\ e.node = d.node /\ e.offset = to /\ e.asked = d.asked /\ e.start = d.start /\ e.data = d.data
         /\ e.index = d.index /\ e.listed = d.listed
    BY <1>5, <1>9 DEF DescType
  <1>13. DescRight(e)
    <2>1. FileRight(e)
      BY <1>5, <1>10, <1>12, FileSplit
    <2>2. DirRight(e)
      BY <1>5, <1>12, DirSame
    <2>3. QED BY <1>5, <1>11, <1>12, <2>1, <2>2 DEF DescRight
  <1>14. fds' = [fds EXCEPT ![p] = [fds[p] EXCEPT ![i] = e]]
    <2> HIDE DEF count
    <2>1. fds' = [fds EXCEPT ![p][i].offset = @ + c]
      BY <1>1, <1>6
    <2>2. QED BY <1>1, <1>2, <1>4, <1>8, <1>9, <2>1
  <1>15. FdsInv'
    <2>1. FdsInv /\ p \in DOMAIN fds /\ i \in DOMAIN fds[p]
      BY <1>1, <1>2, <1>3
    <2>2. QED BY <1>13, <1>14, <2>1, DescChanged, Zenon
  <1>16. QED BY <1>2, <1>15 DEF IInv

LEMMA NoneYet == ASSUME NEW T PROVE <<>> \in Seq(T)
  OBVIOUS

LEMMA SeekRight ==
  ASSUME Cores = 1, IInv, NEW p \in Process, NEW i, NEW by \in SeekOffsets,
         NEW origin \in {"set", "cur", "end"}, Seek(p, i, origin, by)
  PROVE  IInv'
  <1> DEFINE base == CASE origin = "set" -> 0
                       [] origin = "cur" -> fds[p][i].offset
                       [] origin = "end" -> fds[p][i].node.size
             target == base + by
  <1>1. /\ Enter(p) /\ i \in DOMAIN fds[p] /\ UNCHANGED <<backup, call>>
        /\ fds' = [fds EXCEPT ![p][i].offset = target, ![p][i].start = target, ![p][i].data = <<>>]
    BY Zenon DEF Seek, Use
  <1>2. p \in DOMAIN fds /\ BootInv' /\ CallInv'
    BY <1>1, UseKept
  <1>3. FdsInv /\ by \in Int
    BY FilesAssumption DEF IInv, FilesAssumption
  <1>4. PICK d : d = fds[p][i]
    OBVIOUS
  <1>5. /\ DescRight(d) /\ d.offset \in Int /\ d.node.size \in Nat /\ d \in DescType
        /\ d.node = Promised(d.asked.path, d.asked.dir) /\ DirRight(d)
    <2>1. DescRight(d)
      BY <1>1, <1>2, <1>3, <1>4, DescFacts
    <2>2. QED BY <2>1, DescFields DEF DescRight
  <1>6. base \in Int
    <2>1. CASE origin = "set"
      BY <2>1
    <2>2. CASE origin = "cur"
      BY <1>4, <1>5, <2>2
    <2>3. CASE origin = "end"
      BY <1>4, <1>5, <2>3
    <2>4. QED BY <2>1, <2>2, <2>3
  <1> HIDE DEF base
  <1>7. PICK to : to = target
    OBVIOUS
  <1>8. to \in Int
    BY <1>3, <1>6, <1>7
  <1> HIDE DEF target
  <1>9. PICK none : none = <<>> /\ none \in Seq(Int)
    BY NoneYet, Zenon
  <1>10. PICK e : e = [d EXCEPT !.offset = to, !.start = to, !.data = none]
    OBVIOUS
  <1>11. e \in DescType
    <2>1. none \in Seq(Int)
      BY <1>9
    <2>2. QED BY <1>5, <1>8, <1>10, <2>1 DEF DescType
  <1>12. /\ e.node = d.node /\ e.offset = to /\ e.asked = d.asked /\ e.start = to /\ e.data = none
         /\ e.index = d.index /\ e.listed = d.listed
    BY <1>5, <1>10 DEF DescType
  <1>13. DescRight(e)
    <2>1. FileRight(e)
      <3>1. Len(e.data) = 0 /\ DOMAIN e.data = {} /\ to = to + 0
        BY <1>8, <1>9, <1>12
      <3>2. e.data = <<>>
        BY <1>9, <1>12
      <3>3. QED BY <1>12, <3>1, <3>2 DEF FileRight
    <2>2. DirRight(e)
      BY <1>5, <1>12, DirSame
    <2>3. QED BY <1>5, <1>11, <1>12, <2>1, <2>2 DEF DescRight
  <1>14. fds' = [fds EXCEPT ![p] = [fds[p] EXCEPT ![i] = e]]
    <2>1. fds' = [fds EXCEPT ![p][i].offset = to, ![p][i].start = to, ![p][i].data = none]
      BY <1>1, <1>7, <1>9
    <2>2. fds' = [fds EXCEPT ![p] = [fds[p] EXCEPT ![i] =
                   [fds[p][i] EXCEPT !.offset = to, !.start = to, !.data = none]]]
      <3>1. \A f, g : p \in DOMAIN f /\ i \in DOMAIN f[p] =>
              (g = [f EXCEPT ![p][i].offset = to, ![p][i].start = to, ![p][i].data = none] =>
                 g = [f EXCEPT ![p] = [f[p] EXCEPT ![i] =
                       [f[p][i] EXCEPT !.offset = to, !.start = to, !.data = none]]])
        <4> SUFFICES ASSUME NEW f, NEW g, p \in DOMAIN f, i \in DOMAIN f[p],
                     g = [f EXCEPT ![p][i].offset = to, ![p][i].start = to, ![p][i].data = none]
                     PROVE  g = [f EXCEPT ![p] = [f[p] EXCEPT ![i] =
                       [f[p][i] EXCEPT !.offset = to, !.start = to, !.data = none]]]
          BY Zenon
        <4> QED OBVIOUS
      <3>2. p \in DOMAIN fds /\ i \in DOMAIN fds[p]
        BY <1>1, <1>2
      <3>3. QED BY <2>1, <3>1, <3>2, Zenon
    <2>3. QED BY <1>4, <1>10, <2>2, Zenon
  <1>15. FdsInv'
    <2>1. FdsInv /\ p \in DOMAIN fds /\ i \in DOMAIN fds[p]
      BY <1>1, <1>2, <1>3
    <2>2. QED BY <1>13, <1>14, <2>1, DescChanged, Zenon
  <1>16. QED BY <1>2, <1>15 DEF IInv

\* Directories.
LEMMA ReaddirEndRight ==
  ASSUME Cores = 1, IInv, NEW p \in Process, NEW i, ReaddirEnd(p, i)
  PROVE  IInv'
  <1>1. /\ Enter(p) /\ i \in DOMAIN fds[p] /\ UNCHANGED <<backup, call>>
        /\ fds[p][i].index >= Len(EntriesOf(fds[p][i].node)) /\ fds[p][i].index < MaxIndex
        /\ fds' = [fds EXCEPT ![p][i].index = @ + 1]
    BY DEF ReaddirEnd, Use
  <1>2. p \in DOMAIN fds /\ BootInv' /\ CallInv' /\ FdsInv
    BY <1>1, UseKept DEF IInv
  <1>3. PICK d : d = fds[p][i]
    OBVIOUS
  <1>4. /\ DescRight(d) /\ d.start \in Int /\ d.data \in Seq(Int) /\ d \in DescType /\ d.index \in 0 .. MaxIndex
        /\ d.node = Promised(d.asked.path, d.asked.dir) /\ FileRight(d) /\ DirRight(d)
        /\ MaxIndex \in Nat /\ Len(EntriesOf(d.node)) \in Nat
    <2>1. DescRight(d)
      BY <1>1, <1>2, <1>3, DescFacts
    <2>2. QED BY <2>1, DescFields DEF DescRight
  <1>5. PICK x : x = d.index + 1
    OBVIOUS
  <1>6. PICK e : e = [d EXCEPT !.index = x]
    OBVIOUS
  <1>7. x \in 0 .. MaxIndex
    BY <1>1, <1>3, <1>4, <1>5
  <1>8. e \in DescType
    BY <1>4, <1>6, <1>7 DEF DescType
  <1>9. /\ e.node = d.node /\ e.offset = d.offset /\ e.asked = d.asked /\ e.start = d.start /\ e.data = d.data
        /\ e.index = x /\ e.listed = d.listed
    BY <1>4, <1>6 DEF DescType
  <1>10. DescRight(e)
    <2>1. FileRight(e)
      BY <1>4, <1>9, FileSplit
    <2>2. DirRight(e)
      <3> DEFINE n == Len(EntriesOf(d.node))
                 r == IF d.index < n THEN d.index ELSE n
                 q == IF e.index < Len(EntriesOf(e.node)) THEN e.index ELSE Len(EntriesOf(e.node))
      <3>1. r = n /\ q = n
        BY <1>1, <1>3, <1>4, <1>5, <1>9
      <3>2. \A k : NameAt(e, k) = NameAt(d, k)
        BY <1>9 DEF NameAt
      <3>3. d.node.kind = "dir" => d.listed = [k \in 1 .. r |-> Last(NameAt(d, k))]
        BY <1>4, Zenon DEF DirRight
      <3> HIDE DEF r, q, n
      <3>4. e.node.kind = "dir" => e.listed = [k \in 1 .. q |-> Last(NameAt(e, k))]
        BY <1>9, <3>1, <3>2, <3>3
      <3>5. QED BY <3>4, Zenon DEF DirRight, q
    <2>3. QED BY <1>4, <1>8, <1>9, <2>1, <2>2 DEF DescRight
  <1>11. fds' = [fds EXCEPT ![p] = [fds[p] EXCEPT ![i] = e]]
    BY <1>1, <1>2, <1>3, <1>5, <1>6
  <1>12. FdsInv'
    <2>1. p \in DOMAIN fds /\ i \in DOMAIN fds[p] /\ FdsInv
      BY <1>1, <1>2
    <2>2. QED BY <1>10, <1>11, <2>1, DescChanged, Zenon
  <1>13. QED BY <1>2, <1>12 DEF IInv

LEMMA StartReaddirRight ==
  ASSUME Cores = 1, IInv, NEW p \in Process, NEW i \in Nat, StartReaddir(p, i)
  PROVE  IInv'
  <1> DEFINE d == fds[p][i]
             name == NameAt(d, d.index + 1)
  <1>1. /\ Enter(p) /\ i \in DOMAIN fds[p] /\ d.index < MaxIndex /\ d.index < Len(EntriesOf(d.node))
        /\ Parse(p, "readdir", i, name, FALSE)
        /\ UNCHANGED <<backup, fds>>
    BY DEF StartReaddir, NameAt
  <1>2. InKernel = {} /\ p \in DOMAIN fds /\ UNCHANGED <<stage, tree, callbacks>>
    BY <1>1, Occupied DEF Enter
  <1>3. name \in Paths
    <2>1. DescRight(d)
      BY <1>1, <1>2, DescFacts DEF IInv
    <2>2. /\ d.index \in 0 .. MaxIndex /\ MaxIndex \in Nat /\ Len(EntriesOf(d.node)) \in Nat
          /\ \A k \in 1 .. Len(EntriesOf(d.node)) : NameAt(d, k) \in Paths \ {<<>>}
      <3>1. \A dd : DescRight(dd) =>
              /\ dd.index \in 0 .. MaxIndex /\ MaxIndex \in Nat /\ Len(EntriesOf(dd.node)) \in Nat
              /\ \A k \in 1 .. Len(EntriesOf(dd.node)) : NameAt(dd, k) \in Paths \ {<<>>}
        BY DescFields
      <3> HIDE DEF d
      <3>2. QED BY <2>1, <3>1
    <2>3. d.index + 1 \in 1 .. Len(EntriesOf(d.node))
      BY <1>1, <2>2
    <2> HIDE DEF d
    <2>4. QED BY <2>2, <2>3
  <1>4. PICK path \in Paths : path = name
    BY <1>3
  <1>5. CallInv'
    <2>1. /\ CallInv /\ "readdir" \in {"open", "readdir"} /\ p \in Process \cap DOMAIN fds /\ FALSE \in BOOLEAN
          /\ Parse(p, "readdir", i, path, FALSE)
          /\ i \in DOMAIN fds[p] /\ fds[p][i].index < MaxIndex /\ fds[p][i].index < Len(EntriesOf(fds[p][i].node))
          /\ path = NameAt(fds[p][i], fds[p][i].index + 1)
      BY <1>1, <1>2, <1>4 DEF IInv
    <2>2. QED BY <1>1, <1>2, <2>1, ParseStarts
  <1>6. QED BY <1>1, <1>2, <1>5, BootKept, FdsKept DEF IInv

LEMMA Appended ==
  ASSUME NEW T, NEW s \in Seq(T), NEW x \in T
  PROVE  Append(s, x) \in Seq(T)
  OBVIOUS

LEMMA FinishReaddirRight ==
  ASSUME IInv, NEW p \in Process, FinishReaddir(p)
  PROVE  IInv'
  <1> DEFINE c == call[p]
  <1>1. /\ EndParse(p, "readdir")
        /\ fds' = [fds EXCEPT ![p][c.fd].index = @ + 1, ![p][c.fd].listed = Append(@, Last(c.names))]
    BY DEF FinishReaddir
  <1>2. /\ c.op = "readdir" /\ c.names = c.string /\ CallRight(p, c) /\ CallInv' /\ BootInv'
    BY <1>1, EndParseRight
  <1>3. PICK i : i = c.fd
    OBVIOUS
  <1>4. PICK d : d = fds[p][i]
    OBVIOUS
  <1>5. /\ p \in DOMAIN fds /\ i \in DOMAIN fds[p] /\ d.index < MaxIndex /\ d.index < Len(EntriesOf(d.node))
        /\ c.string = NameAt(d, d.index + 1)
    BY <1>2, <1>3, <1>4 DEF CallRight
  <1>6. /\ DescRight(d) /\ d.start \in Int /\ d.data \in Seq(Int) /\ d \in DescType /\ d.index \in 0 .. MaxIndex
        /\ d.node = Promised(d.asked.path, d.asked.dir) /\ FileRight(d) /\ DirRight(d) /\ d.listed \in Seq(STRING)
        /\ MaxIndex \in Nat /\ Len(EntriesOf(d.node)) \in Nat /\ d.node.kind = "dir"
        /\ \A k \in 1 .. Len(EntriesOf(d.node)) : NameAt(d, k) \in Paths \ {<<>>}
    <2>1. DescRight(d)
      BY <1>4, <1>5, DescFacts DEF IInv
    <2>2. /\ d.index \in 0 .. MaxIndex /\ Len(EntriesOf(d.node)) \in Nat
          /\ (Len(EntriesOf(d.node)) # 0 => d.node.kind = "dir")
      BY <2>1, DescFields
    <2>3. d.node.kind = "dir"
      BY <1>5, <2>2
    <2>4. QED BY <2>1, <2>3, DescFields DEF DescRight
  <1>7. PICK x : x = d.index + 1
    OBVIOUS
  <1>8. PICK name : name = Last(c.names)
    OBVIOUS
  <1>9. x \in 0 .. MaxIndex /\ x \in 1 .. Len(EntriesOf(d.node)) /\ name = Last(NameAt(d, x))
    BY <1>2, <1>5, <1>6, <1>7, <1>8
  <1>10. name \in STRING
    <2> DEFINE s == NameAt(d, x)
    <2>1. s \in Paths /\ s # <<>>
      BY <1>6, <1>9
    <2>2. name = s[Len(s)]
      BY <1>9 DEF Last
    <2> HIDE DEF s
    <2>3. s \in Seq(STRING) /\ Len(s) \in 1 .. Len(s)
      BY <2>1 DEF Paths
    <2>4. QED BY <2>2, <2>3, MemberOf
  <1>11. PICK list : list = Append(d.listed, name)
    OBVIOUS
  <1>12. list \in Seq(STRING)
    <2> DEFINE l == d.listed
    <2>1. l \in Seq(STRING) /\ list = Append(l, name)
      BY <1>6, <1>11
    <2> HIDE DEF l
    <2>2. QED BY <1>10, <2>1, Appended, Zenon
  <1>13. PICK e : e = [d EXCEPT !.index = x, !.listed = list]
    OBVIOUS
  <1>14. e \in DescType
    BY <1>6, <1>9, <1>12, <1>13 DEF DescType
  <1>15. /\ e.node = d.node /\ e.offset = d.offset /\ e.asked = d.asked /\ e.start = d.start /\ e.data = d.data
         /\ e.index = x /\ e.listed = list
    BY <1>6, <1>13 DEF DescType
  <1>16. DirRight(e)
    <2> DEFINE n == Len(EntriesOf(d.node))
               r == IF d.index < n THEN d.index ELSE n
               q == IF e.index < Len(EntriesOf(e.node)) THEN e.index ELSE Len(EntriesOf(e.node))
               f == [k \in 1 .. r |-> Last(NameAt(d, k))]
               g == [k \in 1 .. x |-> Last(NameAt(d, k))]
    <2>1. r = x - 1 /\ q = x /\ x \in Nat /\ x - 1 \in Nat
      BY <1>5, <1>6, <1>7, <1>9, <1>15
    <2>2. d.listed = f
      BY <1>6, Zenon DEF DirRight
    <2> HIDE DEF n, r, q
    <2>3. Append(f, name) = g
      <3> DEFINE T == STRING
                 z == x - 1
                 a == Append(f, name)
      <3>1. f \in Seq(T) /\ Len(f) = z /\ \A k \in 1 .. z : f[k] = Last(NameAt(d, k))
        <4>1. f \in Seq(T)
          BY <1>6, <2>2
        <4>2. DOMAIN f = 1 .. z /\ \A k \in 1 .. z : f[k] = Last(NameAt(d, k))
          BY <2>1
        <4> HIDE DEF f
        <4>3. Len(f) = z
          BY <2>1, <4>1, <4>2
        <4>4. QED BY <4>1, <4>2, <4>3
      <3> HIDE DEF f
      <3>2. a \in Seq(T) /\ Len(a) = x /\ \A k \in 1 .. x : a[k] = Last(NameAt(d, k))
        <4>1. /\ a \in Seq(T) /\ Len(a) = z + 1 /\ a[z + 1] = name
              /\ \A k \in 1 .. z : a[k] = f[k]
          <5> DEFINE zz == z
          <5>1. f \in Seq(T) /\ name \in T /\ Len(f) = zz /\ zz \in Nat
            BY <1>10, <2>1, <3>1
          <5> HIDE DEF T, z, zz
          <5>2. QED BY <5>1 DEF zz
        <4>2. z + 1 = x
          BY <2>1
        <4>3. \A k \in 1 .. x : a[k] = Last(NameAt(d, k))
          <5> SUFFICES ASSUME NEW k \in 1 .. x PROVE a[k] = Last(NameAt(d, k))
            OBVIOUS
          <5>1. CASE k = x
            BY <1>9, <4>1, <4>2, <5>1
          <5>2. CASE k # x
            <6>1. k \in 1 .. z
              BY <2>1, <5>2
            <6>2. QED BY <3>1, <4>1, <6>1
          <5>3. QED BY <5>1, <5>2
        <4>4. QED BY <4>1, <4>2, <4>3
      <3> HIDE DEF a
      <3>3. a = [k \in 1 .. x |-> a[k]]
        <4>1. DOMAIN a = 1 .. x
          BY <3>2
        <4>2. a = [k \in DOMAIN a |-> a[k]]
          BY <3>2
        <4>3. QED BY <4>1, <4>2
      <3>4. a = g
        BY <3>2, <3>3
      <3>5. QED BY <3>4 DEF a
    <2>4. \A k : NameAt(e, k) = NameAt(d, k)
      BY <1>15 DEF NameAt
    <2>5. e.listed = g
      BY <1>11, <1>15, <2>2, <2>3
    <2>6. e.listed = [k \in 1 .. q |-> Last(NameAt(e, k))]
      BY <2>1, <2>4, <2>5
    <2>7. QED BY <2>6, Zenon DEF DirRight, q
  <1>17. DescRight(e)
    <2>1. FileRight(e)
      BY <1>6, <1>15, FileSplit
    <2>2. QED BY <1>6, <1>14, <1>15, <1>16, <2>1 DEF DescRight
  <1>18. fds' = [fds EXCEPT ![p] = [fds[p] EXCEPT ![i] = e]]
    <2>1. fds' = [fds EXCEPT ![p][i].index = @ + 1, ![p][i].listed = Append(@, name)]
      BY <1>1, <1>3, <1>8
    <2>2. QED BY <1>4, <1>5, <1>7, <1>11, <1>13, <2>1
  <1>19. FdsInv'
    <2>1. p \in DOMAIN fds /\ i \in DOMAIN fds[p] /\ FdsInv
      BY <1>5 DEF IInv
    <2>2. QED BY <1>17, <1>18, <2>1, DescChanged, Zenon
  <1>20. QED BY <1>2, <1>19 DEF IInv

LEMMA RewinddirRight ==
  ASSUME IInv, NEW p \in DOMAIN fds, NEW i, Rewinddir(p, i)
  PROVE  IInv'
  <1>1. /\ i \in DOMAIN fds[p] /\ call[p] = NoCall /\ UNCHANGED <<stage, tree, callbacks, backup, call>>
        /\ fds' = [fds EXCEPT ![p][i].index = 0, ![p][i].listed = <<>>]
    BY DEF Rewinddir
  <1>2. PICK d : d = fds[p][i]
    OBVIOUS
  <1>3. /\ d.start \in Int /\ d.data \in Seq(Int) /\ d \in DescType
        /\ d.node = Promised(d.asked.path, d.asked.dir) /\ FileRight(d)
        /\ MaxIndex \in Nat /\ Len(EntriesOf(d.node)) \in Nat
    <2>1. DescRight(d)
      BY <1>1, <1>2, DescFacts DEF IInv
    <2>2. QED BY <2>1, DescFields DEF DescRight
  <1>4. PICK none : none = <<>> /\ none \in Seq(STRING)
    BY NoneYet, Zenon
  <1>5. PICK e : e = [d EXCEPT !.index = 0, !.listed = none]
    OBVIOUS
  <1>6. e \in DescType
    <2>1. none \in Seq(STRING) /\ 0 \in 0 .. MaxIndex
      BY <1>3, <1>4
    <2>2. QED BY <1>3, <1>5, <2>1 DEF DescType
  <1>7. /\ e.node = d.node /\ e.offset = d.offset /\ e.asked = d.asked /\ e.start = d.start /\ e.data = d.data
        /\ e.index = 0 /\ e.listed = none
    BY <1>3, <1>5 DEF DescType
  <1>8. DescRight(e)
    <2>1. FileRight(e)
      BY <1>3, <1>7, FileSplit
    <2>2. DirRight(e)
      <3> DEFINE q == IF e.index < Len(EntriesOf(e.node)) THEN e.index ELSE Len(EntriesOf(e.node))
      <3>1. q = 0
        BY <1>3, <1>7
      <3> HIDE DEF q
      <3>2. 1 .. q = {}
        BY <3>1
      <3>3. e.listed = [k \in 1 .. q |-> Last(NameAt(e, k))]
        <4>1. [k \in 1 .. q |-> Last(NameAt(e, k))] = [k \in {} |-> Last(NameAt(e, k))]
          BY <3>2
        <4>2. <<>> = [k \in {} |-> Last(NameAt(e, k))]
          OBVIOUS
        <4>3. QED BY <1>4, <1>7, <4>1, <4>2, Zenon
      <3>4. QED BY <3>3, Zenon DEF DirRight, q
    <2>3. QED BY <1>3, <1>6, <1>7, <2>1, <2>2 DEF DescRight
  <1>9. fds' = [fds EXCEPT ![p] = [fds[p] EXCEPT ![i] = e]]
    <2>1. fds' = [fds EXCEPT ![p][i].index = 0, ![p][i].listed = none]
      BY <1>1, <1>4
    <2>2. QED BY <1>1, <1>2, <1>5, <2>1
  <1>10. FdsInv' /\ DOMAIN fds' = DOMAIN fds /\ \A q \in DOMAIN fds : q # p => fds'[q] = fds[q]
    <2>1. p \in DOMAIN fds /\ i \in DOMAIN fds[p] /\ FdsInv
      BY <1>1 DEF IInv
    <2>2. QED BY <1>8, <1>9, <2>1, DescChanged, Zenon
  <1>11. BootInv'
    BY <1>1, BootKept
  <1>12. CallInv'
    <2>1. InKernel' = InKernel /\ CallInv
      BY <1>1 DEF InKernel, IInv
    <2>2. ASSUME NEW q \in InKernel PROVE CallRight(q, call[q])'
      <3>1. CallRight(q, call[q]) /\ q # p
        BY <1>1, <2>1 DEF CallInv, InKernel
      <3>2. q \in DOMAIN fds
        BY <3>1 DEF CallRight
      <3>3. q \in DOMAIN fds' /\ fds'[q] = fds[q] /\ backup' = backup /\ call' = call
        BY <1>1, <1>10, <3>1, <3>2
      <3>4. QED BY <3>1, <3>3 DEF CallRight
    <2>3. QED BY <1>1, <2>1, <2>2 DEF CallInv
  <1>13. QED BY <1>10, <1>11, <1>12 DEF IInv

LEMMA ForkRight ==
  ASSUME Cores = 1, IInv, NEW p \in Process, Fork(p)
  PROVE  IInv'
  <1>1. Enter(p) /\ UNCHANGED <<backup, call>>
    BY DEF Fork
  <1>2. BootInv' /\ CallInv' /\ FdsInv
    BY <1>1, UseKept DEF IInv
  <1>3. PICK child \in Process \ DOMAIN fds :
          fds' = [q \in DOMAIN fds \union {child} |-> IF q = child THEN <<>> ELSE fds[q]]
    BY DEF Fork
  <1>4. FdsInv'
    <2>1. DOMAIN fds' = DOMAIN fds \union {child} /\ DOMAIN fds \union {child} \subseteq Process
      BY <1>2, <1>3 DEF FdsInv
    <2>2. fds'[child] = <<>> /\ \A q \in DOMAIN fds : fds'[q] = fds[q]
      BY <1>3
    <2>3. <<>> \in Seq(DescType) /\ DOMAIN <<>> = {}
      BY NoneYet
    <2>4. \A q \in DOMAIN fds' : fds'[q] \in Seq(DescType)
      BY <1>2, <2>1, <2>2, <2>3 DEF FdsInv
    <2>5. fds' = [q \in DOMAIN fds' |-> fds'[q]]
      BY <1>3
    <2>6. fds' \in [DOMAIN fds' -> Seq(DescType)]
      BY <2>4, <2>5, Zenon
    <2>7. \A q \in DOMAIN fds' : \A i \in DOMAIN fds'[q] : DescRight(fds'[q][i])
      BY <1>2, <2>1, <2>2, <2>3 DEF FdsInv
    <2>8. QED BY <2>1, <2>6, <2>7 DEF FdsInv, DescRight, DirRight, FileRight, NameAt
  <1>5. QED BY <1>2, <1>4 DEF IInv

----------------------------------------------------------------------------
(* The invariant and what follows from it                                   *)

LEMMA NextRight == ASSUME Cores = 1, IInv, [Next]_vars PROVE IInv'
  <1>1. CASE UNCHANGED vars
    BY <1>1 DEF vars, IInv, BootInv, CallInv, CallRight, FdsInv, InKernel, TreeOf, NodeOf,
                DescRight, DirRight, FileRight, NameAt
  <1>2. CASE BootStep
    BY <1>2, BootStepRight
  <1>3. ASSUME NEW p \in Process, NEW asked \in Asks[p], StartOpen(p, asked) PROVE IInv'
    BY <1>3, StartOpenRight
  <1>4. ASSUME NEW p \in Process, NextName(p) PROVE IInv'
    BY <1>4, NextNameRight
  <1>5. ASSUME NEW p \in Process, FinishOpen(p) PROVE IInv'
    BY <1>5, FinishOpenRight
  <1>6. ASSUME NEW p \in Process, FinishReaddir(p) PROVE IInv'
    BY <1>6, FinishReaddirRight
  <1>7. ASSUME NEW p \in Process, Fork(p) PROVE IInv'
    BY <1>7, ForkRight
  <1>8. DOMAIN fds \subseteq Process
    BY DEF IInv, FdsInv
  <1>9. ASSUME NEW p \in DOMAIN fds, NEW i, NEW n \in ReadSizes, Read(p, i, n) PROVE IInv'
    BY <1>8, <1>9, ReadRight
  <1>10. ASSUME NEW p \in DOMAIN fds, NEW i, NEW n \in ReadSizes, Write(p, i, n) PROVE IInv'
    BY <1>8, <1>10, WriteRight
  <1>11. ASSUME NEW p \in DOMAIN fds, NEW i, NEW by \in SeekOffsets, NEW origin \in {"set", "cur", "end"},
                Seek(p, i, origin, by)
         PROVE  IInv'
    BY <1>8, <1>11, SeekRight
  <1>12. ASSUME NEW p \in DOMAIN fds, NEW i \in 1 .. MaxFds[InitProcess], StartReaddir(p, i) PROVE IInv'
    <2>1. MaxFds[InitProcess] \in Nat
      BY FilesAssumption DEF FilesAssumption
    <2>2. i \in Nat /\ p \in Process
      BY <1>8, <2>1
    <2>3. QED BY <1>12, <2>2, StartReaddirRight
  <1>13. ASSUME NEW p \in DOMAIN fds, NEW i, ReaddirEnd(p, i) PROVE IInv'
    BY <1>8, <1>13, ReaddirEndRight
  <1>14. ASSUME NEW p \in DOMAIN fds, NEW i, Rewinddir(p, i) PROVE IInv'
    BY <1>14, RewinddirRight
  <1>15. QED
    BY <1>1, <1>2, <1>3, <1>4, <1>5, <1>6, <1>7, <1>9, <1>10, <1>11, <1>12, <1>13, <1>14, Zenon DEF Next

\* With one core in the kernel, splitting a path is never interrupted, the mount
\* points are those of the boot, and every descriptor is what its path promises
\* (strtok's static place, k_fs_open, sys_read, __initrd_readdir).
THEOREM Inductive == Cores = 1 => (Spec => []IInv)
  <1> SUFFICES ASSUME Cores = 1 PROVE Spec => []IInv
    OBVIOUS
  <1>1. Init => IInv
    BY InitRight
  <1>2. IInv /\ [Next]_vars => IInv'
    BY NextRight
  <1>3. QED BY <1>1, <1>2, PTL DEF Spec

LEMMA Typed == ASSUME Cores = 1, IInv PROVE TypeOK
  <1> DEFINE root == IF stage >= Spawning THEN RootNode ELSE NoNode
             M == MountedAt(stage)
  <1>1. BootInv /\ CallInv /\ FdsInv
    BY DEF IInv
  <1>2. stage \in 0 .. Running /\ TreeOf(M, root, tree) /\ callbacks \subseteq {"initrd"}
    BY <1>1 DEF BootInv
  <1>3. M \subseteq MountPaths
    BY <1>2, MountedFacts
  <1>4. \A q \in MountPaths : NodeOf(q).kind \in Kinds
    BY NodeFacts DEF NodeType
  <1>5. root = NoNode \/ root.kind \in Kinds
    BY NodeFacts DEF NodeType
  <1> HIDE DEF M, root
  <1>6. <<>> \in DOMAIN tree
    BY <1>2 DEF TreeOf
  <1>7. \A path \in DOMAIN tree : tree[path] = NoNode \/ tree[path].kind \in Kinds
    <2> SUFFICES ASSUME NEW path \in DOMAIN tree PROVE tree[path] = NoNode \/ tree[path].kind \in Kinds
      OBVIOUS
    <2>1. tree[path] = IF path \in M THEN NodeOf(path) ELSE IF path = <<>> THEN root ELSE NoNode
      BY <1>2, Zenon DEF TreeOf
    <2>2. CASE path \in M
      BY <1>3, <1>4, <2>1, <2>2
    <2>3. CASE path \notin M
      BY <1>5, <2>1, <2>3
    <2>4. QED BY <2>2, <2>3
  <1>8. backup \in {NoString, Freed} \/ backup \in Place
    BY <1>1 DEF CallInv
  <1>9. DOMAIN fds \subseteq Process
    BY <1>1 DEF FdsInv
  <1>10. Cardinality(InKernel) <= Cores
    <2>1. CASE InKernel = {}
      BY <2>1, FS_EmptySet
    <2>2. CASE InKernel # {}
      <3>1. PICK p : p \in InKernel
        BY <2>2
      <3>2. InKernel = {p}
        BY <1>1, <3>1 DEF CallInv
      <3>3. QED BY <3>2, FS_Singleton
    <2>3. QED BY <2>1, <2>2
  <1>11. \A p \in InKernel : p \in DOMAIN fds /\ call[p].op \in {"open", "readdir"}
    <2> SUFFICES ASSUME NEW p \in InKernel PROVE p \in DOMAIN fds /\ call[p].op \in {"open", "readdir"}
      OBVIOUS
    <2>1. call[p] \in Splitting /\ CallRight(p, call[p])
      BY <1>1 DEF CallInv, InKernel
    <2>2. QED BY <2>1 DEF CallRight, Splitting
  <1>12. \A p \in DOMAIN fds : \A i \in DOMAIN fds[p] :
           /\ fds[p][i].node # NoNode /\ fds[p][i].node.kind \in Kinds
           /\ fds[p][i].offset \in Int /\ fds[p][i].index \in 0 .. MaxIndex
    <2> SUFFICES ASSUME NEW p \in DOMAIN fds, NEW i \in DOMAIN fds[p]
                 PROVE  /\ fds[p][i].node # NoNode /\ fds[p][i].node.kind \in Kinds
                        /\ fds[p][i].offset \in Int /\ fds[p][i].index \in 0 .. MaxIndex
      OBVIOUS
    <2>1. PICK d : d = fds[p][i]
      OBVIOUS
    <2>2. d.node \in NodeType /\ d.offset \in Int /\ d.index \in 0 .. MaxIndex
      BY <1>1, <2>1, DescFacts, DescFields
    <2>3. d.node # NoNode /\ d.node.kind \in Kinds
      BY <2>2, NodeFacts DEF NodeType
    <2>4. QED BY <2>1, <2>2, <2>3
  <1>13. QED BY <1>2, <1>6, <1>7, <1>8, <1>9, <1>10, <1>11, <1>12 DEF TypeOK

\* The byte of a file that an address behind its header holds.
LEMMA FileByte ==
  ASSUME NEW m \in Entry, NEW byte \in 0 .. Size(m) - 1, NEW a,
         a = HeaderOf(m) + BlockSize + byte
  PROVE  /\ BlockAt(a) = [member |-> m, block |-> byte \div BlockSize + 1]
         /\ a % BlockSize = byte % BlockSize
  <1> DEFINE B == BlockSize
             st == Start(m)
             s == Size(m)
             b == byte \div B + 1
             o == byte % B
  <1>1. B \in Nat \ {0} /\ s \in Nat /\ byte \in Nat
    BY ArchiveFacts
  <1>2. st \in Nat
    BY StartFacts
  <1>3. b \in 1 .. Blocks(s) /\ Blocks(s) \in Nat
    BY <1>1, BlocksSpec
  <1>4. st + 1 + b \in 1 .. Start(Len(Archive) + 1) /\ Image[st + 1 + b] = [member |-> m, block |-> b]
    <2>1. b \in 0 .. Blocks(s)
      BY <1>3
    <2> HIDE DEF b, s, st
    <2>2. \A c \in 0 .. Blocks(s) : st + 1 + c \in 1 .. Start(Len(Archive) + 1)
                                     /\ Image[st + 1 + c] = [member |-> m, block |-> c]
      BY ImageLaid DEF s, st
    <2>3. QED BY <2>1, <2>2
  <1>5. st + 1 + b \in 1 .. Len(Image)
    <2> DEFINE e == Start(Len(Archive) + 1)
               l == Len(Image)
    <2>1. l = e + 1 /\ e \in Nat
      <3>1. Len(Archive) + 1 \in 1 .. Len(Archive) + 1
        BY StartFacts
      <3>2. QED BY <3>1, ImageLaid, StartFacts
    <2> HIDE DEF e, l, b, st
    <2>2. st + 1 + b \in 1 .. e
      BY <1>4 DEF e
    <2>3. st + 1 + b \in 1 .. l
      BY <2>1, <2>2
    <2>4. QED BY <2>3 DEF l
  <1>6. o \in 0 .. B - 1 /\ byte = B * (b - 1) + o /\ b \in Nat
    BY <1>1
  <1>7. HeaderOf(m) = st * B
    BY HeaderOfStart
  <1> HIDE DEF b, o, st, s
  <1>8. a = ((st + 1 + b) - 1) * B + o
    <2>1. a = st * B + B + (B * (b - 1) + o)
      BY <1>6, <1>7
    <2>2. ((st + 1 + b) - 1) * B = st * B + B + B * (b - 1)
      BY <1>1, <1>2, <1>6
    <2> DEFINE x == st * B
               y == B * (b - 1)
               z == ((st + 1 + b) - 1) * B
    <2>3. x \in Int /\ y \in Int /\ z \in Int /\ o \in Int /\ B \in Int
      BY <1>1, <1>2, <1>6
    <2> HIDE DEF x, y, z
    <2>4. a = x + B + (y + o) /\ z = x + B + y
      BY <2>1, <2>2 DEF x, y, z
    <2>5. a = z + o
      BY <2>3, <2>4
    <2>6. QED BY <2>5 DEF z
  <1>9. BlockAt(a) = Image[st + 1 + b] /\ a % B = o
    <2> DEFINE x == st + 1 + b
    <2>1. x \in 1 .. Len(Image) /\ o \in 0 .. B - 1 /\ a = (x - 1) * B + o
      <3>1. x \in 1 .. Len(Image)
        BY <1>5, Zenon
      <3>2. o \in 0 .. B - 1
        BY <1>6
      <3>3. a = (x - 1) * B + o
        BY <1>8, Zenon
      <3>4. QED BY <3>1, <3>2, <3>3
    <2> HIDE DEF x, B
    <2>2. BlockAt((x - 1) * BlockSize + o) = Image[x] /\ ((x - 1) * BlockSize + o) % BlockSize = o
      BY <2>1, AddressBlock DEF B
    <2>3. QED BY <2>1, <2>2 DEF x, B
  <1>10. QED BY <1>4, <1>9 DEF b, o

\* What a directory lists, as the model's reader sees it.
LEMMA NthOf ==
  ASSUME NEW a \in Nat, NEW n \in Nat, NEW k \in 1 .. n
  PROVE  Nth(a + 1 .. a + n, k) = a + k
  <1> DEFINE S == a + 1 .. a + n
             C(x) == Cardinality({j \in S : j <= x})
  <1>1. \A x \in S : C(x) = x - a
    <2> SUFFICES ASSUME NEW x \in S PROVE C(x) = x - a
      OBVIOUS
    <2>1. x \in Int /\ a + 1 \in Int /\ a + 1 <= x
      OBVIOUS
    <2>2. {j \in S : j <= x} = a + 1 .. x
      OBVIOUS
    <2>3. Cardinality(a + 1 .. x) = x - (a + 1) + 1
      BY <2>1, FS_Interval
    <2>4. C(x) = Cardinality(a + 1 .. x)
      BY <2>2, Zenon
    <2> HIDE DEF C
    <2>5. QED BY <2>1, <2>3, <2>4
  <1>2. a + k \in S
    OBVIOUS
  <1> HIDE DEF C
  <1>3. \A x \in S : C(x) = k <=> x = a + k
    BY <1>1
  <1>4. (CHOOSE x \in S : C(x) = k) = a + k
    <2> HIDE DEF S
    <2>1. QED BY <1>2, <1>3
  <1>5. QED BY <1>4 DEF Nth, C

LEMMA FilesInOrder == ASSUME Cores = 1, IInv PROVE ReadsInOrder
  <1>1. ASSUME NEW d, DescRight(d), NEW m \in MemberNamed(d.asked.path, FALSE), d.node.kind = "ram",
               d.asked.path # Ram0
        PROVE  /\ d.offset = d.start + Len(d.data)
               /\ d.data # <<>> => d.start >= 0 /\ d.offset <= Archive[m].size
               /\ \A k \in DOMAIN d.data :
                    LET byte == d.start + k - 1 IN
                    /\ BlockAt(d.data[k]) = [member |-> m, block |-> byte \div BlockSize + 1]
                    /\ d.data[k] % BlockSize = byte % BlockSize
    <2>1. /\ d.node = Promised(d.asked.path, d.asked.dir) /\ d.node \in NodeType /\ FileRight(d)
          /\ d.start \in Int /\ d.data \in Seq(Int) /\ d.asked.path \in Paths /\ d.asked.dir \in BOOLEAN
      BY <1>1, DescFields DEF DescRight
    <2>2. IsFile(d.asked.path, d.node)
      BY <1>1, <2>1, NodeFacts, PromisedTyped
    <2>3. m \in Entry /\ d.node.size = Size(m) /\ d.node.meta = HeaderOf(m) + BlockSize
      BY <2>2 DEF IsFile, MemberNamed
    <2>4. Size(m) \in Nat /\ Size(m) = Archive[m].size
      BY <2>3, ArchiveFacts DEF Size
    <2>5. /\ d.offset = d.start + Len(d.data)
          /\ d.data # <<>> => d.start >= 0 /\ d.offset <= Size(m)
          /\ \A k \in DOMAIN d.data : d.data[k] = HeaderOf(m) + BlockSize + d.start + k - 1
      BY <1>1, <2>1, <2>3 DEF FileRight
    <2>6. ASSUME NEW k \in DOMAIN d.data, NEW byte, byte = d.start + k - 1
          PROVE  /\ BlockAt(d.data[k]) = [member |-> m, block |-> byte \div BlockSize + 1]
                 /\ d.data[k] % BlockSize = byte % BlockSize
      <3> DEFINE l == Len(d.data)
                 s == Size(m)
                 st == d.start
                 h == HeaderOf(m) + BlockSize
                 a == d.data[k]
      <3>1. l \in Nat /\ k \in 1 .. l /\ d.data # <<>>
        BY <2>1
      <3>2. st >= 0 /\ st + l <= s /\ st \in Int /\ s \in Nat
        BY <2>1, <2>4, <2>5, <3>1
      <3>3. h \in Int
        <4>1. m \in 1 .. Len(Archive) + 1
          BY <2>3, StartFacts
        <4>2. HeaderOf(m) \in Nat
          BY <2>3, <4>1, AtFacts DEF Address
        <4>3. QED BY <4>2, ArchiveFacts
      <3>4. a = h + st + k - 1
        BY <2>5
      <3>5. byte = st + k - 1
        BY <2>6
      <3> HIDE DEF l, s, st, h, a
      <3>6. byte \in 0 .. s - 1 /\ a = h + byte
        BY <3>1, <3>2, <3>3, <3>4, <3>5
      <3>7. byte \in 0 .. Size(m) - 1 /\ a = HeaderOf(m) + BlockSize + byte
        BY <3>6 DEF s, h
      <3>8. /\ BlockAt(a) = [member |-> m, block |-> byte \div BlockSize + 1]
            /\ a % BlockSize = byte % BlockSize
        BY <2>3, <3>7, FileByte
      <3>9. QED BY <3>8 DEF a
    <2>7. QED BY <2>4, <2>5, <2>6
  <1>2. \A p \in DOMAIN fds : \A i \in DOMAIN fds[p] : DescRight(fds[p][i])
    BY DescFacts DEF IInv
  <1>3. QED BY <1>1, <1>2, Typed DEF ReadsInOrder

LEMMA EachOnce == ASSUME IInv, TarOrder PROVE ListsEachOnce
  <1>1. ASSUME NEW d, DescRight(d), d.node.kind = "dir", NEW n, n = Cardinality(Below(d.asked.path))
        PROVE  d.listed = [k \in 1 .. (IF d.index < n THEN d.index ELSE n)
                             |-> Last(Archive[Nth(Below(d.asked.path), k)].name)]
    <2>1. /\ d.node = Promised(d.asked.path, d.asked.dir) /\ d.node \in NodeType /\ DirRight(d)
          /\ d.asked.path \in Paths /\ d.asked.dir \in BOOLEAN
          /\ d.index \in 0 .. MaxIndex /\ MaxIndex \in Nat
      BY <1>1, DescFields DEF DescRight
    <2>2. PICK m \in Entry : Archive[m].name = d.asked.path /\ Archive[m].dir /\ d.node.meta = HeaderOf(m)
      BY <1>1, <2>1, NodeFacts, PromisedTyped DEF IsDirectory
    <2>3. PICK c \in 0 .. Len(Archive) - m : Below(Archive[m].name) = m + 1 .. m + c
      BY <2>2 DEF TarOrder
    <2>4. m \in Nat /\ c \in Nat /\ Len(Archive) \in Nat /\ \A k \in 1 .. c : m + k \in Entry
      BY <2>2, <2>3, StartFacts
    <2>5. n = c
      BY <1>1, <2>2, <2>3, <2>4, FS_Interval
    <2>6. EntriesOf(d.node) = [k \in 1 .. c |-> HeaderOf(m + k)]
      <3>1. EntriesOf(d.node) = Members(HeaderOf(m))
        BY <1>1, <2>2 DEF EntriesOf
      <3>2. Members(HeaderOf(m)) = [k \in 1 .. c |-> HeaderOf(m + k)]
        BY <2>2, <2>3, MembersBehind
      <3>3. QED BY <3>1, <3>2, Zenon
    <2>7. Len(EntriesOf(d.node)) = c
      BY <2>4, <2>6
    <2>8. \A k \in 1 .. c : NameAt(d, k) = Archive[Nth(Below(d.asked.path), k)].name
      <3> SUFFICES ASSUME NEW k \in 1 .. c PROVE NameAt(d, k) = Archive[Nth(Below(d.asked.path), k)].name
        OBVIOUS
      <3>1. NameAt(d, k) = Header(HeaderOf(m + k)).name
        BY <2>6 DEF NameAt
      <3>2. Header(HeaderOf(m + k)) = Archive[m + k]
        BY <2>4, AtFacts
      <3>3. Nth(Below(d.asked.path), k) = m + k
        BY <2>2, <2>3, <2>4, NthOf
      <3>4. QED BY <3>1, <3>2, <3>3
    <2> DEFINE r == IF d.index < n THEN d.index ELSE n
    <2>9. r \in 0 .. c
      BY <2>1, <2>4, <2>5
    <2>10. d.listed = [k \in 1 .. r |-> Last(NameAt(d, k))]
      BY <1>1, <2>1, <2>5, <2>7 DEF DirRight
    <2> HIDE DEF r
    <2>11. \A k \in 1 .. r : k \in 1 .. c
      BY <2>4, <2>9
    <2>12. [k \in 1 .. r |-> Last(NameAt(d, k))]
             = [k \in 1 .. r |-> Last(Archive[Nth(Below(d.asked.path), k)].name)]
      BY <2>8, <2>11
    <2>13. QED BY <2>10, <2>12, Zenon DEF r
  <1>2. \A p \in DOMAIN fds : \A i \in DOMAIN fds[p] : DescRight(fds[p][i])
    BY DescFacts DEF IInv
  <1>3. QED BY <1>1, <1>2 DEF ListsEachOnce

\* What a descriptor of a file has delivered since the last seek is the file's
\* own bytes from there on (__ram_read, sys_read, k_process_open_file), whatever
\* else the processes do, as long as one core at a time splits a path.
THEOREM DeliversInOrder == Cores = 1 => (Spec => []ReadsInOrder)
  <1> SUFFICES ASSUME Cores = 1 PROVE Spec => []ReadsInOrder
    OBVIOUS
  <1>1. IInv => ReadsInOrder
    BY FilesInOrder
  <1>2. Spec => []IInv
    BY Inductive
  <1>3. QED BY <1>1, <1>2, PTL

\* In an archive tar has written, a directory is listed completely, each entry
\* below it once and in order (__initrd_readdir, readdir of the library).
THEOREM ListsInOrder == Cores = 1 /\ TarOrder => (Spec => []ListsEachOnce)
  <1> SUFFICES ASSUME Cores = 1, TarOrder PROVE Spec => []ListsEachOnce
    OBVIOUS
  <1>1. IInv => ListsEachOnce
    BY EachOnce
  <1>2. Spec => []IInv
    BY Inductive
  <1>3. QED BY <1>1, <1>2, PTL

\* A call stops splitting a path only when path_parse returns.
LEMMA OpenEnds ==
  ASSUME IInv, [Next]_vars, NEW p \in Process, call[p] # NoCall, call'[p] = NoCall, call[p].op = "open"
  PROVE  FinishOpen(p)
  <1>1. call' # call /\ call \in [Process -> Splitting \union {NoCall}]
    BY DEF IInv, CallInv
  <1>2. ~BootStep
    BY <1>1 DEF BootStep, MountDevice, RegisterInitrd, LoadRamDisk, MountRoot, SpawnInit, Boot
  <1>3. \A q, op, fd, path, dir : call[q] = NoCall => ~Parse(q, op, fd, path, dir)
    <2> SUFFICES ASSUME NEW q, NEW op, NEW fd, NEW path, NEW dir, call[q] = NoCall,
                        Parse(q, op, fd, path, dir)
                 PROVE  FALSE
      OBVIOUS
    <2>1. q # p
      OBVIOUS
    <2>2. call'[p] = call[p]
      BY <1>1, <2>1 DEF Parse
    <2>3. QED BY <2>2
  <1>4. ASSUME NEW q \in Process, NEW asked, StartOpen(q, asked) PROVE FALSE
    BY <1>3, <1>4 DEF StartOpen, Enter
  <1>5. ASSUME NEW q \in Process, NextName(q) PROVE FALSE
    <2>1. PICK r \in Strtok(q) :
            r.name # NoName /\ call' = [call EXCEPT ![q].names = Append(@, r.name), ![q].first = FALSE]
      BY <1>5 DEF NextName
    <2>2. call[q] # NoCall
      BY <1>5 DEF NextName
    <2>3. q = p
      <3>1. CASE q # p
        <4>1. call'[p] = call[p]
          BY <1>1, <2>1, <3>1
        <4>2. QED BY <4>1
      <3>2. QED BY <3>1
    <2> DEFINE c == call[p]
    <2>4. CallInv /\ p \in InKernel
      BY DEF IInv, InKernel
    <2>5. c \in Splitting /\ r.name \in STRING
      <3>1. c \in Splitting /\ r \in Strtok(p) /\ CallRight(p, c)
        BY <1>1, <2>1, <2>3, <2>4 DEF CallInv
      <3>2. CASE Len(c.names) < Len(c.string)
        <4>1. PICK x \in STRING \ {NoName} :
                Strtok(p) = {[name |-> x, backup |-> [owner |-> p, behind |-> Len(c.names) + 1]]}
          BY <2>4, <3>2, StrtokRight
        <4>2. r.name = x
          BY <3>1, <4>1
        <4>3. QED BY <3>1, <4>1, <4>2
      <3>3. CASE Len(c.names) >= Len(c.string)
        <4>1. Strtok(p) = {[name |-> NoName, backup |-> backup]}
          BY <2>4, <3>3, StrtokRight
        <4>2. QED BY <2>1, <3>1, <4>1
      <3>4. Len(c.names) \in Nat /\ Len(c.string) \in Nat
        BY <3>1 DEF Splitting, Paths
      <3>5. QED BY <3>2, <3>3, <3>4
    <2> HIDE DEF c
    <2>6. PICK e : e = [c EXCEPT !.names = Append(@, r.name), !.first = FALSE]
      OBVIOUS
    <2>7. e \in Splitting
      <3>1. c.names \in Seq(STRING)
        BY <2>5 DEF Splitting
      <3>2. PICK names : names = Append(c.names, r.name)
        OBVIOUS
      <3>3. names \in Seq(STRING)
        BY <2>5, <3>1, <3>2, Appended, Zenon
      <3>4. e = [c EXCEPT !.names = names, !.first = FALSE]
        BY <2>6, <3>2
      <3>5. QED BY <2>5, <3>3, <3>4 DEF Splitting
    <2>8. call'[p] = e
      BY <1>1, <2>1, <2>3, <2>6 DEF c
    <2>9. QED BY <2>7, <2>8, NotSplitting
  <1>6. ASSUME NEW q \in Process, FinishOpen(q) PROVE q = p
    <2>1. call' = [call EXCEPT ![q] = NoCall]
      BY <1>6 DEF FinishOpen, EndParse
    <2>2. QED BY <1>1, <2>1
  <1>7. ASSUME NEW q \in Process, FinishReaddir(q) PROVE FALSE
    <2>1. call' = [call EXCEPT ![q] = NoCall] /\ call[q].op = "readdir"
      BY <1>7 DEF FinishReaddir, EndParse
    <2>2. QED BY <1>1, <2>1
  <1>8. ASSUME NEW q \in Process, Fork(q) PROVE FALSE
    BY <1>1, <1>8 DEF Fork
  <1>9. ASSUME NEW q, NEW i, NEW n, Read(q, i, n) \/ Write(q, i, n) PROVE FALSE
    BY <1>1, <1>9 DEF Read, Write, Use
  <1>10. ASSUME NEW q, NEW i, NEW by, NEW origin, Seek(q, i, origin, by) PROVE FALSE
    BY <1>1, <1>10 DEF Seek, Use
  <1>11. ASSUME NEW q, NEW i, StartReaddir(q, i) PROVE FALSE
    BY <1>3, <1>11 DEF StartReaddir, Enter
  <1>12. ASSUME NEW q, NEW i, ReaddirEnd(q, i) \/ Rewinddir(q, i) PROVE FALSE
    BY <1>1, <1>12 DEF ReaddirEnd, Use, Rewinddir
  <1>13. QED
    BY <1>1, <1>2, <1>4, <1>5, <1>6, <1>7, <1>8, <1>9, <1>10, <1>11, <1>12 DEF Next, vars

\* What OpenReturns says of a step.
OpenGives ==
  \A p \in Process :
    call[p] # NoCall /\ call'[p] = NoCall /\ call[p].op = "open" =>
      LET asked    == [path |-> call[p].string, dir |-> call[p].dir]
          promised == Promised(asked.path, asked.dir)
      IN fds'[p] = IF promised = NoNode THEN fds[p]
                   ELSE Append(fds[p], Descriptor(promised, asked))

\* An open returns what the path names, or an error when nothing has that name
\* (path_parse, __get_mountpoint, __initrd_open, k_process_open_file), as long as
\* one core at a time splits a path: with two it does not.
THEOREM OpensRight == Cores = 1 => (Spec => OpenReturns)
  <1> SUFFICES ASSUME Cores = 1 PROVE Spec => OpenReturns
    OBVIOUS
  <1>1. IInv /\ [Next]_vars => OpenGives
    <2> SUFFICES ASSUME IInv, [Next]_vars, NEW p \in Process,
                        call[p] # NoCall, call'[p] = NoCall, call[p].op = "open"
                 PROVE  LET asked    == [path |-> call[p].string, dir |-> call[p].dir]
                            promised == Promised(asked.path, asked.dir)
                        IN fds'[p] = IF promised = NoNode THEN fds[p]
                                     ELSE Append(fds[p], Descriptor(promised, asked))
      BY DEF OpenGives
    <2>1. FinishOpen(p)
      BY OpenEnds
    <2> DEFINE asked    == [path |-> call[p].string, dir |-> call[p].dir]
               promised == Promised(asked.path, asked.dir)
    <2>2. /\ p \in DOMAIN fds
          /\ fds' = IF promised = NoNode THEN fds
                    ELSE [fds EXCEPT ![p] = Append(fds[p], Descriptor(promised, asked))]
      BY <2>1, FinishOpenGives
    <2> HIDE DEF promised, asked
    <2>3. fds'[p] = IF promised = NoNode THEN fds[p]
                    ELSE Append(fds[p], Descriptor(promised, asked))
      BY <2>2
    <2>4. QED BY <2>3 DEF promised, asked
  <1>2. Spec => []IInv
    BY Inductive
  <1>3. QED BY <1>1, <1>2, PTL DEF Spec, OpenReturns, OpenGives
=============================================================================
