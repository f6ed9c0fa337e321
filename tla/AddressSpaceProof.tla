--------------------------- MODULE AddressSpaceProof ---------------------------
(***************************************************************************)
(* Proofs about AddressSpace, for every number of processes, frames,       *)
(* indices and levels.                                                     *)
(***************************************************************************)
EXTENDS AddressSpace, TLAPS, FiniteSetTheorems

----------------------------------------------------------------------------
(* Numbers                                                                  *)

LEMMA Numbers ==
  /\ NFrames \in Nat \ {0} /\ NIndex \in Nat \ {0} /\ Levels \in Nat \ {0}
  /\ Frame = 1 .. NFrames /\ Frame \subseteq Nat /\ Index \subseteq Int /\ Index \subseteq Nat
  BY PagingAssumption DEF Frame, Index

Smaller == {ss \in Nat \X Nat : ss[1] < ss[2]}

LEMMA LeastExists ==
  ASSUME NEW S, S \subseteq Nat, S # {}
  PROVE  \E x \in S : \A y \in S : x <= y
  <1>1. IsWellFoundedOn(Smaller, Nat)
    BY NatLessThanWellFounded DEF OpToRel, Smaller
  <1>2. PICK x \in S : \A y \in S : <<y, x>> \notin Smaller
    BY <1>1, WFMin, Zenon
  <1>3. ASSUME NEW y \in S PROVE x <= y
    <2>1. x \in Nat /\ y \in Nat
      OBVIOUS
    <2>2. y < x => <<y, x>> \in Smaller
      BY <2>1 DEF Smaller
    <2>3. QED BY <1>2, <2>1, <2>2
  <1>4. QED BY <1>3

\* What holds at the first number and goes on holding, holds up to the last.
LEMMA Ladder ==
  ASSUME NEW b \in Nat, NEW n \in Nat, NEW S, b \in S,
         \A k \in b .. n : k \in S /\ k # n => k + 1 \in S
  PROVE  \A k \in b .. n : k \in S
  <1> DEFINE Bad == {k \in b .. n : k \notin S}
  <1>1. SUFFICES ASSUME Bad # {} PROVE FALSE
    OBVIOUS
  <1>2. PICK x \in Bad : \A y \in Bad : x <= y
    <2>1. Bad \subseteq Nat
      OBVIOUS
    <2> HIDE DEF Bad
    <2>2. QED BY <1>1, <2>1, LeastExists
  <1>3. x \in b .. n /\ x \notin S /\ x # b
    OBVIOUS
  <1>4. x - 1 \in b .. n /\ x - 1 # n /\ x = (x - 1) + 1 /\ ~(x <= x - 1)
    BY <1>3
  <1>5. x - 1 \in S
    BY <1>2, <1>4
  <1>6. QED BY <1>3, <1>4, <1>5

----------------------------------------------------------------------------
(* The frames that the manager hands out one after the other                *)

FrameRank(S, f) == Cardinality({g \in S : g < f})

LEMMA FramesFinite ==
  IsFiniteSet(Frame) /\ \A S \in SUBSET Frame : IsFiniteSet(S) /\ Cardinality(S) \in Nat
  <1>1. IsFiniteSet(Frame)
    BY Numbers, FS_Interval
  <1>2. QED BY <1>1, FS_Subset, FS_CardinalityType

LEMMA RankStep ==
  ASSUME NEW S \in SUBSET Frame, NEW n \in Nat, n + 1 < Cardinality(S),
         NEW f \in S, FrameRank(S, f) = n
  PROVE  \E h \in S : FrameRank(S, h) = n + 1
  <1> DEFINE Less == {g \in S : g < f}
             More == {g \in S : f < g}
  <1>1. S \subseteq Nat /\ IsFiniteSet(S) /\ f \in Nat
    BY FramesFinite, Numbers
  <1>2. IsFiniteSet(Less) /\ Cardinality(Less) = n /\ f \notin Less
    BY <1>1, FS_Subset DEF FrameRank
  <1>3. Cardinality(Less \union {f}) = n + 1
    <2> HIDE DEF Less
    <2>1. QED BY <1>2, FS_AddElement
  <1>4. More # {}
    <2>1. S = Less \union {f} => FALSE
      <3>1. Cardinality(S) \in Nat
        BY FramesFinite
      <3> HIDE DEF Less
      <3>2. QED BY <1>3, <3>1
    <2>2. More = {} => S = Less \union {f}
      <3>1. \A g \in S : g < f \/ f < g \/ g = f
        BY <1>1
      <3>2. More = {} => \A g \in S : ~(f < g)
        OBVIOUS
      <3>3. QED BY <3>1, <3>2
    <2>3. QED BY <2>1, <2>2
  <1>5. PICK h \in More : \A y \in More : h <= y
    <2>1. More \subseteq Nat
      BY <1>1
    <2> HIDE DEF More
    <2>2. QED BY <1>4, <2>1, LeastExists
  <1>6. h \in S /\ {g \in S : g < h} = Less \union {f}
    <2>1. h \in S /\ h \in Nat /\ f < h
      BY <1>1, <1>5
    <2>2. \A g \in S : g < h <=> g < f \/ g = f
      <3>1. TAKE g \in S
      <3>2. g \in Nat /\ (f < g => h <= g)
        BY <1>1, <1>5
      <3>3. QED BY <1>1, <2>1, <3>2
    <2>3. QED BY <2>1, <2>2
  <1>7. QED BY <1>3, <1>6 DEF FrameRank

(* There is a frame with each rank that a set of frames has room for, and a *)
(* rank tells which.                                                        *)
LEMMA NthIs ==
  ASSUME NEW S \in SUBSET Frame, NEW n \in Nat, n < Cardinality(S)
  PROVE  Nth(S, n) \in S /\ FrameRank(S, Nth(S, n)) = n
  <1> DEFINE Has == {k \in Nat : \E f \in S : FrameRank(S, f) = k}
  <1>1. Cardinality(S) \in Nat /\ S \subseteq Nat /\ IsFiniteSet(S)
    BY FramesFinite, Numbers
  <1>2. 0 \in Has
    <2>1. S # {}
      BY <1>1, FS_EmptySet
    <2>2. PICK f \in S : \A g \in S : f <= g
      BY <1>1, <2>1, LeastExists
    <2>3. {g \in S : g < f} = {}
      <3>1. \A g \in S : ~(g < f)
        BY <1>1, <2>2
      <3>2. QED BY <3>1
    <2>4. FrameRank(S, f) = 0
      BY <2>3, FS_EmptySet DEF FrameRank
    <2>5. QED BY <2>4
  <1>3. \A k \in 0 .. n : k \in Has /\ k # n => k + 1 \in Has
    <2>1. SUFFICES ASSUME NEW k \in 0 .. n, k \in Has, k # n PROVE k + 1 \in Has
      OBVIOUS
    <2>2. k \in Nat /\ k + 1 < Cardinality(S)
      BY <1>1, <2>1
    <2>3. PICK f \in S : FrameRank(S, f) = k
      BY <2>1
    <2>4. QED BY <2>2, <2>3, RankStep
  <1> HIDE DEF Has
  <1>4. n \in Has
    BY <1>2, <1>3, Ladder
  <1>5. \E f \in S : Cardinality({g \in S : g < f}) = n
    BY <1>4 DEF Has, FrameRank
  <1>6. QED BY <1>5 DEF Nth, FrameRank

LEMMA LowestFree ==
  ASSUME NEW S \in SUBSET Frame, S # {}
  PROVE  Nth(S, 0) \in S
  <1>1. IsFiniteSet(S) /\ Cardinality(S) \in Nat
    BY FramesFinite
  <1>2. Cardinality(S) # 0
    BY <1>1, FS_EmptySet
  <1>3. QED BY <1>1, <1>2, NthIs

----------------------------------------------------------------------------
(* Paths                                                                    *)

LEMMA PrefixIs ==
  ASSUME NEW q \in Prefix
  PROVE  /\ Len(q) \in 1 .. Levels /\ Len(q) \in Nat \ {0} /\ q \in [1 .. Len(q) -> Index]
         /\ q \in Seq(Index) /\ q # <<>> /\ 1 \in 1 .. Len(q) /\ Len(q) \in 1 .. Len(q)
  <1>1. PICK k \in 1 .. Levels : q \in [1 .. k -> Index]
    BY DEF Prefix
  <1>2. k \in Nat \ {0}
    BY Numbers
  <1>3. q \in Seq(Index) /\ Len(q) = k
    BY <1>1, <1>2
  <1>4. QED BY <1>1, <1>2, <1>3

LEMMA PrefixFrom ==
  ASSUME NEW k \in 1 .. Levels, NEW q \in [1 .. k -> Index]
  PROVE  q \in Prefix /\ Len(q) = k /\ q \in Seq(Index)
  <1>1. k \in Nat
    BY Numbers
  <1>2. Len(q) = k /\ q \in Seq(Index)
    BY <1>1
  <1>3. q \in Prefix
    BY DEF Prefix
  <1>4. QED BY <1>2, <1>3

LEMMA AddressIs ==
  ASSUME NEW a \in Address
  PROVE  a \in Prefix /\ Len(a) = Levels /\ a[1] \in Index
  <1>1. Levels \in 1 .. Levels /\ 1 \in 1 .. Levels
    BY Numbers
  <1>2. QED BY <1>1, PrefixFrom DEF Address

\* The path without its last index, and its beginnings.
Cut(q, k) == [j \in 1 .. k |-> q[j]]
Up(q) == Cut(q, Len(q) - 1)

LEMMA CutIs ==
  ASSUME NEW q \in Prefix, NEW k \in 1 .. Len(q)
  PROVE  /\ Cut(q, k) \in Prefix /\ Len(Cut(q, k)) = k
         /\ \A j \in 1 .. k : Cut(q, k)[j] = q[j]
         /\ Cut(q, k)[1] = q[1] /\ Cut(q, k)[k] = q[k]
         /\ k # 1 => Up(Cut(q, k)) = Cut(q, k - 1) /\ k - 1 \in 1 .. Len(q)
         /\ Cut(q, Len(q)) = q
  <1>1. k \in Nat /\ 1 <= k /\ k <= Len(q) /\ Len(q) \in Nat /\ Len(q) <= Levels /\ Levels \in Nat
        /\ q \in [1 .. Len(q) -> Index]
    BY PrefixIs, Numbers
  <1>2. \A j \in 1 .. k : j \in 1 .. Len(q)
    BY <1>1
  <1>3. Cut(q, k) \in [1 .. k -> Index] /\ k \in 1 .. Levels
    BY <1>1, <1>2 DEF Cut
  <1>4. Cut(q, k) \in Prefix /\ Len(Cut(q, k)) = k
    BY <1>3, PrefixFrom
  <1>5. \A j \in 1 .. k : Cut(q, k)[j] = q[j]
    BY DEF Cut
  <1>6. 1 \in 1 .. k /\ k \in 1 .. k
    BY <1>1
  <1>7. k # 1 => Up(Cut(q, k)) = Cut(q, k - 1) /\ k - 1 \in 1 .. Len(q)
    <2>1. SUFFICES ASSUME k # 1 PROVE Up(Cut(q, k)) = Cut(q, k - 1) /\ k - 1 \in 1 .. Len(q)
      OBVIOUS
    <2>2. k - 1 \in 1 .. Len(q) /\ \A j \in 1 .. k - 1 : j \in 1 .. k
      BY <1>1, <2>1
    <2>3. Up(Cut(q, k)) = [j \in 1 .. k - 1 |-> Cut(q, k)[j]]
      BY <1>4 DEF Up, Cut
    <2>4. Up(Cut(q, k)) = [j \in 1 .. k - 1 |-> q[j]]
      BY <1>5, <2>2, <2>3
    <2>5. QED BY <2>2, <2>4 DEF Cut
  <1>8. Cut(q, Len(q)) = q
    BY <1>1 DEF Cut
  <1>9. QED BY <1>4, <1>5, <1>6, <1>7, <1>8

LEMMA UpIs ==
  ASSUME NEW q \in Prefix, Len(q) # 1
  PROVE  /\ Up(q) \in Prefix /\ Len(Up(q)) = Len(q) - 1 /\ Up(q)[1] = q[1]
         /\ Len(q) - 1 \in 1 .. Len(q) /\ Up(q) = Cut(q, Len(q) - 1)
         /\ \A k \in 1 .. Len(q) - 1 : Cut(Up(q), k) = Cut(q, k) /\ Up(q)[k] = q[k]
  <1>1. Len(q) - 1 \in 1 .. Len(q) /\ Len(q) \in Nat
    <2>1. PICK n \in Nat \ {0} : n = Len(q)
      BY PrefixIs
    <2>2. QED BY <2>1
  <1>2. \A k \in 1 .. Len(q) - 1 : Up(q)[k] = q[k] /\ \A j \in 1 .. k : j \in 1 .. Len(q) - 1
    BY <1>1 DEF Up, Cut
  <1>3. \A k \in 1 .. Len(q) - 1 : Cut(Up(q), k) = Cut(q, k)
    BY <1>2 DEF Cut
  <1>4. QED BY <1>1, <1>2, <1>3, CutIs DEF Up

LEMMA AppendIs ==
  ASSUME NEW n \in Nat, NEW s \in [1 .. n -> Index], NEW i \in Index
  PROVE  /\ Append(s, i) \in [1 .. n + 1 -> Index]
         /\ Append(s, i)[n + 1] = i /\ \A j \in 1 .. n : Append(s, i)[j] = s[j]
  <1>1. s \in Seq(Index) /\ Len(s) = n
    OBVIOUS
  <1>2. Append(s, i) \in Seq(Index) /\ Len(Append(s, i)) = n + 1
    BY <1>1
  <1>3. Append(s, i)[n + 1] = i /\ \A j \in 1 .. n : Append(s, i)[j] = s[j]
    BY <1>1
  <1> DEFINE r == Append(s, i)
  <1>4. r \in Seq(Index) /\ Len(r) = n + 1
    BY <1>2
  <1> HIDE DEF r
  <1>5. r \in [1 .. n + 1 -> Index]
    BY <1>4
  <1>6. QED BY <1>3, <1>5 DEF r

\* A path is the path above it and one index more.
LEMMA UpAppend ==
  /\ \A q \in Prefix : Len(q) # 1 => q = Append(Up(q), q[Len(q)])
  /\ \A q \in Prefix : Len(q) = 1 => q = Append(<<>>, q[Len(q)])
  /\ \A q \in Prefix, i \in Index : Len(q) < Levels =>
       /\ Append(q, i) \in Prefix /\ Len(Append(q, i)) = Len(q) + 1
       /\ Up(Append(q, i)) = q /\ Append(q, i)[1] = q[1] /\ Append(q, i)[Len(q) + 1] = i
  /\ \A i \in Index : /\ Append(<<>>, i) \in Prefix /\ Len(Append(<<>>, i)) = 1
                      /\ Append(<<>>, i)[1] = i
  <1>1. ASSUME NEW q \in Prefix, Len(q) # 1 PROVE q = Append(Up(q), q[Len(q)])
    <2>1. PICK n \in Nat : n = Len(q) /\ n - 1 \in Nat /\ q \in [1 .. n -> Index]
      BY <1>1, PrefixIs
    <2>2. Up(q) \in [1 .. n - 1 -> Index] /\ \A j \in 1 .. n - 1 : Up(q)[j] = q[j]
      BY <1>1, <2>1, UpIs, PrefixIs
    <2>3. q[n] \in Index /\ (n - 1) + 1 = n
      BY <2>1, PrefixIs
    <2>4. PICK r : r = Append(Up(q), q[n])
      OBVIOUS
    <2>5. /\ r \in [1 .. n -> Index] /\ r[n] = q[n]
          /\ \A j \in 1 .. n - 1 : r[j] = Up(q)[j]
      <3>1. PICK x : x = Up(q) /\ x \in [1 .. n - 1 -> Index]
        BY <2>2
      <3>2. /\ Append(x, q[n]) \in [1 .. (n - 1) + 1 -> Index] /\ Append(x, q[n])[(n - 1) + 1] = q[n]
            /\ \A j \in 1 .. n - 1 : Append(x, q[n])[j] = x[j]
        <4>1. n - 1 \in Nat /\ q[n] \in Index
          BY <2>1, <2>3
        <4>2. QED BY <3>1, <4>1, AppendIs
      <3>3. QED BY <2>3, <2>4, <3>1, <3>2
    <2>6. \A j \in 1 .. n : r[j] = q[j]
      <3>1. \A j \in 1 .. n : j = n \/ j \in 1 .. n - 1
        OBVIOUS
      <3>2. QED BY <2>2, <2>5, <3>1
    <2>7. r = q
      BY <2>1, <2>5, <2>6
    <2>8. QED BY <2>1, <2>4, <2>7
  <1>2. ASSUME NEW q \in Prefix, Len(q) = 1 PROVE q = Append(<<>>, q[Len(q)])
    <2>1. q \in [1 .. 1 -> Index]
      BY <1>2, PrefixIs
    <2>2. QED BY <1>2, <2>1
  <1>3. ASSUME NEW q \in Prefix, NEW i \in Index, Len(q) < Levels
        PROVE  /\ Append(q, i) \in Prefix /\ Len(Append(q, i)) = Len(q) + 1
               /\ Up(Append(q, i)) = q /\ Append(q, i)[1] = q[1] /\ Append(q, i)[Len(q) + 1] = i
    <2>1. PICK n \in Nat \ {0} : n = Len(q) /\ q \in [1 .. n -> Index] /\ n + 1 \in 1 .. Levels
      BY <1>3, PrefixIs, Numbers
    <2>2. Append(q, i) \in [1 .. n + 1 -> Index] /\ \A j \in 1 .. n : Append(q, i)[j] = q[j]
      BY <2>1, AppendIs
    <2>3. Append(q, i)[n + 1] = i
      BY <2>1, AppendIs
    <2>4. Append(q, i) \in Prefix /\ Len(Append(q, i)) = n + 1
      BY <2>1, <2>2, PrefixFrom
    <2>5. Up(Append(q, i)) = [j \in 1 .. n |-> Append(q, i)[j]]
      BY <2>1, <2>4 DEF Up, Cut
    <2>6. Up(Append(q, i)) = q
      BY <2>1, <2>2, <2>5
    <2>7. 1 \in 1 .. n
      BY <2>1
    <2>8. QED BY <2>1, <2>2, <2>3, <2>4, <2>6, <2>7
  <1>4. ASSUME NEW i \in Index
        PROVE  /\ Append(<<>>, i) \in Prefix /\ Len(Append(<<>>, i)) = 1
               /\ Append(<<>>, i)[1] = i
    <2>1. Append(<<>>, i) \in [1 .. 1 -> Index] /\ 1 \in 1 .. Levels
      BY Numbers
    <2>2. Append(<<>>, i)[1] = i
      OBVIOUS
    <2>3. QED BY <2>1, <2>2, PrefixFrom
  <1>5. QED BY <1>1, <1>2, <1>3, <1>4

----------------------------------------------------------------------------
(* The order in which clone comes to the paths, and the frames they get     *)

LEMMA IndexAtIs ==
  ASSUME NEW q \in Prefix
  PROVE  /\ \A k : IndexAt(q, k) \in Int
         /\ \A k \in 1 .. Len(q) : IndexAt(q, k) = q[k] /\ q[k] >= 0
         /\ \A k : k \notin 1 .. Len(q) => IndexAt(q, k) = -1
  <1>1. \A k \in 1 .. Len(q) : q[k] \in Nat
    BY PrefixIs, Numbers
  <1>2. QED BY <1>1 DEF IndexAt

LEMMA SameIndices ==
  ASSUME NEW q \in Prefix, NEW p \in Prefix,
         \A k \in 1 .. Levels : IndexAt(q, k) = IndexAt(p, k)
  PROVE  q = p
  <1>1. PICK n \in Nat \ {0} : n = Len(q) /\ n <= Levels /\ q \in [1 .. n -> Index]
    BY PrefixIs, Numbers
  <1>2. PICK l \in Nat \ {0} : l = Len(p) /\ l <= Levels /\ p \in [1 .. l -> Index]
    BY PrefixIs, Numbers
  <1>3. ~(n < l)
    <2>1. n < l => l \in 1 .. Levels /\ l \in 1 .. l /\ l \notin 1 .. n
      BY <1>1, <1>2, Numbers
    <2>2. n < l => IndexAt(p, l) >= 0 /\ IndexAt(q, l) = -1
      BY <1>1, <1>2, <2>1, IndexAtIs
    <2>3. QED BY <2>1, <2>2
  <1>4. ~(l < n)
    <2>1. l < n => n \in 1 .. Levels /\ n \in 1 .. n /\ n \notin 1 .. l
      BY <1>1, <1>2, Numbers
    <2>2. l < n => IndexAt(q, n) >= 0 /\ IndexAt(p, n) = -1
      BY <1>1, <1>2, <2>1, IndexAtIs
    <2>3. QED BY <2>1, <2>2
  <1>5. l = n
    BY <1>3, <1>4
  <1>6. \A k \in 1 .. n : q[k] = p[k]
    <2>1. \A k \in 1 .. n : k \in 1 .. Levels
      BY <1>1, Numbers
    <2>2. \A k \in 1 .. n : IndexAt(q, k) = q[k] /\ IndexAt(p, k) = p[k]
      BY <1>1, <1>2, <1>5, IndexAtIs
    <2>3. QED BY <2>1, <2>2
  <1>7. QED BY <1>1, <1>2, <1>5, <1>6

LEMMA BeforeOrder ==
  /\ \A q \in Prefix : ~Before(q, q)
  /\ \A q, p \in Prefix : q # p => Before(q, p) \/ Before(p, q)
  /\ \A q, p, r \in Prefix : Before(q, p) /\ Before(p, r) => Before(q, r)
  <1>1. \A q \in Prefix : ~Before(q, q)
    BY IndexAtIs DEF Before
  <1>2. ASSUME NEW q \in Prefix, NEW p \in Prefix, q # p PROVE Before(q, p) \/ Before(p, q)
    <2> DEFINE S == {k \in 1 .. Levels : IndexAt(q, k) # IndexAt(p, k)}
    <2>1. S # {} /\ S \subseteq Nat
      BY <1>2, SameIndices
    <2>2. PICK k \in S : \A j \in S : k <= j
      BY <2>1, LeastExists
    <2>3. k \in 1 .. Levels /\ IndexAt(q, k) # IndexAt(p, k)
      BY <2>2
    <2>4. \A j \in 1 .. k - 1 : IndexAt(q, j) = IndexAt(p, j)
      <3>1. \A j \in 1 .. k - 1 : j \in 1 .. Levels /\ ~(k <= j)
        BY <2>3, Numbers
      <3>2. QED BY <2>2, <3>1
    <2>5. IndexAt(q, k) < IndexAt(p, k) \/ IndexAt(p, k) < IndexAt(q, k)
      BY <2>3, IndexAtIs
    <2>6. QED BY <2>3, <2>4, <2>5 DEF Before
  <1>3. ASSUME NEW q \in Prefix, NEW p \in Prefix, NEW r \in Prefix, Before(q, p), Before(p, r)
        PROVE  Before(q, r)
    <2>1. PICK i \in 1 .. Levels : /\ \A j \in 1 .. i - 1 : IndexAt(q, j) = IndexAt(p, j)
                                   /\ IndexAt(q, i) < IndexAt(p, i)
      BY <1>3 DEF Before
    <2>2. PICK k \in 1 .. Levels : /\ \A j \in 1 .. k - 1 : IndexAt(p, j) = IndexAt(r, j)
                                   /\ IndexAt(p, k) < IndexAt(r, k)
      BY <1>3 DEF Before
    <2>3. i \in Nat /\ k \in Nat /\ 1 <= i /\ 1 <= k
      BY <2>1, <2>2, Numbers
    <2>4. /\ \A j : IndexAt(q, j) \in Int /\ IndexAt(p, j) \in Int /\ IndexAt(r, j) \in Int
      BY IndexAtIs
    <2>5. CASE i <= k
      <3>1. \A j \in 1 .. i - 1 : j \in 1 .. k - 1
        BY <2>3, <2>5
      <3>2. \A j \in 1 .. i - 1 : IndexAt(q, j) = IndexAt(r, j)
        BY <2>1, <2>2, <3>1
      <3>3. i = k \/ i \in 1 .. k - 1
        BY <2>3, <2>5
      <3>4. IndexAt(p, i) = IndexAt(r, i) \/ IndexAt(p, i) < IndexAt(r, i)
        BY <2>2, <3>3
      <3>5. IndexAt(q, i) < IndexAt(r, i)
        BY <2>1, <2>4, <3>4
      <3>6. QED BY <3>2, <3>5 DEF Before
    <2>6. CASE k < i
      <3>1. (\A j \in 1 .. k - 1 : j \in 1 .. i - 1) /\ k \in 1 .. i - 1
        BY <2>3, <2>6
      <3>2. \A j \in 1 .. k - 1 : IndexAt(q, j) = IndexAt(r, j)
        BY <2>1, <2>2, <3>1
      <3>3. IndexAt(q, k) = IndexAt(p, k)
        BY <2>1, <3>1
      <3>4. IndexAt(q, k) < IndexAt(r, k)
        BY <2>2, <3>3
      <3>5. QED BY <3>2, <3>4 DEF Before
    <2>7. QED BY <2>3, <2>5, <2>6
  <1>4. QED BY <1>1, <1>2, <1>3

(* Each path gets a free frame of its own.                                  *)
LEMMA FreshIs ==
  ASSUME NEW m, m.free \in SUBSET Frame, NEW Paths \in SUBSET Prefix, IsFiniteSet(Paths),
         Cardinality(Paths) <= Cardinality(m.free)
  PROVE  /\ \A p \in Paths : FreshFrame(m, Paths, p) \in m.free
         /\ \A p, q \in Paths : FreshFrame(m, Paths, p) = FreshFrame(m, Paths, q) => p = q
  <1> DEFINE Less(p) == {q \in Paths : Before(q, p)}
  <1>1. Cardinality(Paths) \in Nat /\ Cardinality(m.free) \in Nat
    BY FramesFinite, FS_CardinalityType
  <1>2. ASSUME NEW p \in Paths
        PROVE  IsFiniteSet(Less(p)) /\ Cardinality(Less(p)) \in Nat /\ Cardinality(Less(p)) < Cardinality(Paths)
    <2>1. p \notin Less(p) /\ Less(p) \in SUBSET Paths
      BY BeforeOrder
    <2> HIDE DEF Less
    <2>2. IsFiniteSet(Less(p)) /\ Cardinality(Less(p)) <= Cardinality(Paths)
          /\ (Cardinality(Paths) = Cardinality(Less(p)) => Paths = Less(p))
      BY <2>1, FS_Subset
    <2>3. Cardinality(Less(p)) \in Nat
      BY <2>2, FS_CardinalityType
    <2>4. QED BY <1>1, <2>1, <2>2, <2>3
  <1>3. ASSUME NEW p \in Paths, NEW q \in Paths, Before(p, q)
        PROVE  Cardinality(Less(p)) < Cardinality(Less(q))
    <2>1. Less(p) \in SUBSET Less(q) /\ p \in Less(q) /\ p \notin Less(p)
      BY <1>3, BeforeOrder
    <2> HIDE DEF Less
    <2>2. Cardinality(Less(p)) <= Cardinality(Less(q))
          /\ (Cardinality(Less(q)) = Cardinality(Less(p)) => Less(q) = Less(p))
      BY <1>2, <2>1, FS_Subset
    <2>3. QED BY <1>2, <2>1, <2>2
  <1>4. \A p \in Paths : FreshFrame(m, Paths, p) = Nth(m.free, Cardinality(Less(p)))
    BY DEF FreshFrame
  <1> HIDE DEF Less
  <1>5. \A p \in Paths : /\ FreshFrame(m, Paths, p) \in m.free
                         /\ FrameRank(m.free, FreshFrame(m, Paths, p)) = Cardinality(Less(p))
    <2>1. TAKE p \in Paths
    <2>2. Cardinality(Less(p)) \in Nat /\ Cardinality(Less(p)) < Cardinality(m.free)
      BY <1>1, <1>2
    <2>3. QED BY <1>4, <2>2, NthIs
  <1>6. ASSUME NEW p \in Paths, NEW q \in Paths,
               FreshFrame(m, Paths, p) = FreshFrame(m, Paths, q)
        PROVE  p = q
    <2>1. Cardinality(Less(p)) = Cardinality(Less(q))
      BY <1>5, <1>6
    <2>2. ~Before(p, q) /\ ~Before(q, p)
      BY <1>2, <1>3, <2>1
    <2>3. QED BY <2>2, BeforeOrder
  <1>7. QED BY <1>5, <1>6

----------------------------------------------------------------------------
(* The walk down the tables                                                 *)

WayStep(m, s, q, w, k) ==
  IF k = 1 THEN m.tab[s][q[1]]
  ELSE IF Present(w[k - 1]) THEN m.tab[w[k - 1].to][q[k]] ELSE NoEntry

WalksTo(m, s, q, n, w) == w = [k \in 1 .. n |-> WayStep(m, s, q, w, k)]

LEMMA WayFound ==
  ASSUME NEW m, NEW s, NEW q, NEW n \in Nat
  PROVE  \E w : WalksTo(m, s, q, n, w)
  <1> DEFINE S == {j \in 0 .. n : \E w : WalksTo(m, s, q, j, w)}
  <1>1. 0 \in S
    <2>1. WalksTo(m, s, q, 0, [k \in 1 .. 0 |-> 0])
      BY DEF WalksTo
    <2>2. QED BY <2>1
  <1>2. \A j \in 0 .. n : j \in S /\ j # n => j + 1 \in S
    <2>1. SUFFICES ASSUME NEW j \in 0 .. n, j \in S, j # n PROVE j + 1 \in S
      OBVIOUS
    <2>2. PICK w : WalksTo(m, s, q, j, w)
      BY <2>1
    <2> DEFINE Rung(k) == WayStep(m, s, q, w, k)
    <2>3. PICK v : v = [k \in 1 .. j + 1 |-> IF k = j + 1 THEN Rung(k) ELSE w[k]]
      OBVIOUS
    <2>4. \A k \in 1 .. j + 1 : k # 1 => k - 1 \in 1 .. j /\ v[k - 1] = w[k - 1]
      <3>1. \A k \in 1 .. j + 1 : k # 1 => k - 1 \in 1 .. j /\ k - 1 # j + 1 /\ k - 1 \in 1 .. j + 1
        OBVIOUS
      <3>2. QED BY <2>3, <3>1
    <2>5. \A k \in 1 .. j + 1 : WayStep(m, s, q, v, k) = WayStep(m, s, q, w, k)
      BY <2>4 DEF WayStep
    <2>6. \A k \in 1 .. j : w[k] = WayStep(m, s, q, w, k)
      BY <2>2 DEF WalksTo
    <2>7. \A k \in 1 .. j + 1 : v[k] = WayStep(m, s, q, v, k)
      <3>1. \A k \in 1 .. j + 1 : k = j + 1 \/ k \in 1 .. j
        OBVIOUS
      <3>2. QED BY <2>3, <2>5, <2>6, <3>1
    <2>8. v = [k \in 1 .. j + 1 |-> v[k]]
      BY <2>3
    <2>9. v = [k \in 1 .. j + 1 |-> WayStep(m, s, q, v, k)]
      BY <2>7, <2>8
    <2>10. WalksTo(m, s, q, j + 1, v) /\ j + 1 \in 0 .. n
      BY <2>1, <2>9 DEF WalksTo
    <2>11. QED BY <2>10
  <1> HIDE DEF S
  <1>3. n \in S
    BY <1>1, <1>2, Ladder
  <1>4. QED BY <1>3 DEF S

LEMMA WayIs ==
  ASSUME NEW m, NEW s, NEW q \in Prefix
  PROVE  \A k \in 1 .. Len(q) : Way(m, s, q)[k] = WayStep(m, s, q, Way(m, s, q), k)
  <1>1. Len(q) \in Nat
    BY PrefixIs
  <1>2. \E w : WalksTo(m, s, q, Len(q), w)
    BY <1>1, WayFound
  <1>3. WalksTo(m, s, q, Len(q), Way(m, s, q))
    BY <1>2, Zenon DEF WalksTo, WayStep, Way
  <1> DEFINE w == Way(m, s, q)
  <1>4. w = [k \in 1 .. Len(q) |-> WayStep(m, s, q, w, k)]
    BY <1>3 DEF WalksTo
  <1> HIDE DEF w
  <1>5. \A k \in 1 .. Len(q) : w[k] = WayStep(m, s, q, w, k)
    BY <1>4
  <1>6. QED BY <1>5 DEF w

\* The entry at the end of a path.
Ent(m, s, q) == Way(m, s, q)[Len(q)]

LEMMA WayCut ==
  ASSUME NEW m, NEW s, NEW q \in Prefix, NEW k \in 1 .. Len(q)
  PROVE  Way(m, s, q)[k] = Ent(m, s, Cut(q, k))
  <1>1. PICK p : p = Cut(q, k)
    OBVIOUS
  <1>2. /\ p \in Prefix /\ Len(p) = k /\ \A j \in 1 .. k : p[j] = q[j]
        /\ k \in Nat /\ 1 <= k /\ 1 \in 1 .. k /\ k \in 1 .. k
    BY <1>1, CutIs, PrefixIs
  <1>3. PICK v : v = Way(m, s, q)
    OBVIOUS
  <1>4. PICK w : w = Way(m, s, p)
    OBVIOUS
  <1>5. \A j \in 1 .. k : j \in 1 .. Len(q)
    BY PrefixIs
  <1> DEFINE S == {j \in 1 .. k : v[j] = w[j]}
  <1>6. \A j \in 1 .. k : v[j] = WayStep(m, s, q, v, j) /\ w[j] = WayStep(m, s, p, w, j)
    BY <1>2, <1>3, <1>4, <1>5, WayIs
  <1>7. 1 \in S
    BY <1>2, <1>6 DEF WayStep
  <1>8. \A j \in 1 .. k : j \in S /\ j # k => j + 1 \in S
    <2>1. SUFFICES ASSUME NEW j \in 1 .. k, v[j] = w[j], j # k PROVE j + 1 \in S
      OBVIOUS
    <2>2. j + 1 \in 1 .. k /\ j + 1 # 1 /\ (j + 1) - 1 = j
      BY <1>2, <2>1
    <2>3. v[j + 1] = WayStep(m, s, q, v, j + 1) /\ w[j + 1] = WayStep(m, s, p, w, j + 1)
          /\ p[j + 1] = q[j + 1]
      BY <1>2, <1>6, <2>2
    <2>4. QED BY <2>1, <2>2, <2>3 DEF WayStep
  <1> HIDE DEF S
  <1>9. \A j \in 1 .. k : j \in S
    BY <1>2, <1>7, <1>8, Ladder
  <1>10. v[k] = w[k]
    BY <1>2, <1>9 DEF S
  <1>11. QED BY <1>1, <1>2, <1>3, <1>4, <1>10 DEF Ent

LEMMA EntIs ==
  ASSUME NEW m, NEW s, NEW q \in Prefix
  PROVE  /\ Len(q) = 1 => Ent(m, s, q) = m.tab[s][q[1]]
         /\ Len(q) # 1 => Ent(m, s, q) =
              IF Present(Ent(m, s, Up(q))) THEN m.tab[Ent(m, s, Up(q)).to][q[Len(q)]] ELSE NoEntry
  <1>1. Len(q) \in 1 .. Len(q) /\ (Len(q) # 1 => Len(q) - 1 \in 1 .. Len(q))
    BY PrefixIs, UpIs
  <1>2. Ent(m, s, q) = WayStep(m, s, q, Way(m, s, q), Len(q))
    BY <1>1, WayIs DEF Ent
  <1>3. Len(q) # 1 => Way(m, s, q)[Len(q) - 1] = Ent(m, s, Up(q))
    BY <1>1, WayCut DEF Up
  <1>4. QED BY <1>2, <1>3 DEF WayStep

LEMMA TargetIs ==
  ASSUME NEW m, NEW s, NEW q
  PROVE  Target(m, s, q) = Ent(m, s, q).to
  BY DEF Target, Ent

\* A walk that gets to the end is there on the way.
LEMMA PresentUp ==
  ASSUME NEW m, NEW s, NEW q \in Prefix, Present(Ent(m, s, q))
  PROVE  Len(q) # 1 => Present(Ent(m, s, Up(q)))
  <1>1. ~Present(NoEntry)
    BY DEF Present, NoEntry
  <1>2. QED BY <1>1, EntIs

\* Two walks that go through the same entries are the same walk.
LEMMA SameWay ==
  ASSUME NEW m, NEW s, NEW n, NEW t, NEW q \in Prefix,
         \A k \in 1 .. Len(q) : Ent(m, s, Cut(q, k)) = Ent(n, t, Cut(q, k))
  PROVE  \A k \in 1 .. Len(q) : Way(m, s, q)[k] = Way(n, t, q)[k]
  BY WayCut

UsedBy(e) == Present(e) /\ e.user

LEMMA UserPathsIs ==
  ASSUME NEW m, NEW s
  PROVE  /\ UserPaths(m, s) \subseteq Prefix
         /\ \A q \in Prefix : q \in UserPaths(m, s) <=>
              \A k \in 1 .. Len(q) : UsedBy(Ent(m, s, Cut(q, k)))
         /\ \A q \in Prefix : q \in UserPaths(m, s) <=>
              UsedBy(Ent(m, s, q)) /\ (Len(q) # 1 => Up(q) \in UserPaths(m, s))
         /\ \A a \in Address : Readable(m, s, a) <=> a \in UserPaths(m, s)
  <1>1. UserPaths(m, s) \subseteq Prefix
    BY DEF UserPaths
  <1>2. \A q \in Prefix : q \in UserPaths(m, s) <=>
              \A k \in 1 .. Len(q) : UsedBy(Ent(m, s, Cut(q, k)))
    BY WayCut DEF UserPaths, UsedBy
  <1>3. ASSUME NEW q \in Prefix
        PROVE  q \in UserPaths(m, s) <=>
                 UsedBy(Ent(m, s, q)) /\ (Len(q) # 1 => Up(q) \in UserPaths(m, s))
    <2>1. PICK n \in Nat \ {0} : n = Len(q)
      BY PrefixIs
    <2>2. Cut(q, n) = q
      BY <2>1, CutIs, PrefixIs
    <2>3. CASE n = 1
      <3>1. \A k \in 1 .. n : k = n
        BY <2>3
      <3>2. n \in 1 .. n
        BY <2>1
      <3>3. QED BY <1>2, <2>1, <2>2, <2>3, <3>1, <3>2
    <2>4. CASE n # 1
      <3>1. /\ \A k \in 1 .. n : k = n \/ k \in 1 .. n - 1
            /\ \A k \in 1 .. n - 1 : k \in 1 .. n
            /\ n \in 1 .. n
        BY <2>1
      <3>2. Up(q) \in Prefix /\ Len(Up(q)) = n - 1 /\ \A k \in 1 .. n - 1 : Cut(Up(q), k) = Cut(q, k)
        BY <2>1, <2>4, UpIs
      <3>3. Up(q) \in UserPaths(m, s) <=> \A k \in 1 .. n - 1 : UsedBy(Ent(m, s, Cut(q, k)))
        BY <1>2, <3>2
      <3>4. QED BY <1>2, <2>1, <2>2, <2>4, <3>1, <3>3
    <2>5. QED BY <2>3, <2>4
  <1>4. ASSUME NEW a \in Address PROVE Readable(m, s, a) <=> a \in UserPaths(m, s)
    BY AddressIs DEF Readable, UserPaths
  <1>5. QED BY <1>1, <1>2, <1>3, <1>4

----------------------------------------------------------------------------
(* Memories whose tables are whole.  Every table in use has an owner, the   *)
(* space whose walks come to it, and the path on which they do; what the    *)
(* kernel's tables hold belongs to Root in all spaces.                      *)

Mem == [tab : [Table -> [Index -> Entry]], data : [Frame -> Value],
        free : SUBSET Frame, given : SUBSET Frame]

Used(m) == Frame \ (m.free \union m.given)
InUse(m, L) == L \union {Root} \union Used(m)

\* The entries that count: a process's kernel entries are copies of the root's.
Slot(m, L, t, i) == t \in InUse(m, L) /\ i \in Index /\ (t \in Process => i \notin KernelTop)

EntryFits(m, own, path, t, i) ==
  LET e == m.tab[t][i] IN
  /\ Len(path[t]) < Levels
  /\ own[t] # Root => e.user
  /\ t = Root => i \in KernelTop /\ ~e.user
  /\ \/ e.to \in Used(m) /\ own[e.to] = own[t] /\ path[e.to] = Append(path[t], i)
     \/ e.to \in Device /\ own[t] = Root /\ Len(path[t]) + 1 = Levels

Fits(m, L, own, path) ==
  /\ own \in [Table -> Space] /\ path \in [Table -> Prefix \union {<<>>}]
  /\ \A s \in Space : own[s] = s /\ path[s] = <<>>
  /\ \A t, i : Slot(m, L, t, i) /\ Present(m.tab[t][i]) => EntryFits(m, own, path, t, i)

OneEntry(m, L) ==
  \A t, i, u, j : /\ Slot(m, L, t, i) /\ Slot(m, L, u, j)
                  /\ m.tab[t][i].to \in Frame /\ m.tab[t][i].to = m.tab[u][j].to
                  => t = u /\ i = j

Base(m, L) ==
  /\ m \in Mem /\ L \subseteq Process
  /\ m.free \intersect m.given = {}
  /\ \A f \in m.free : m.tab[f] = NoTable
  /\ \A s \in L, i \in KernelTop : m.tab[s][i] = m.tab[Root][i]
  /\ OneEntry(m, L)

Good(m, L) == Base(m, L) /\ \E own, path : Fits(m, L, own, path)

\* The kernel's pages are below tables that all spaces share.
LEMMA TablesBelow == Levels # 1
  BY AddressSpaceAssumption

LEMMA Sets ==
  /\ Space = Process \union {Root} /\ Root \notin Process /\ Table = Space \union Frame
  /\ Root \in Space /\ Process \subseteq Space /\ KernelTop \subseteq Index
  /\ \A s \in Space : s \in Table /\ s \notin Frame
  /\ \A f \in Frame : f \in Table /\ f \notin Space /\ f # Nil /\ f \notin Device
  /\ Nil \notin Device
  BY PagingAssumption, AddressSpaceAssumption DEF Table

LEMMA Entries ==
  /\ NoEntry \in Entry /\ ~Present(NoEntry) /\ \A i \in Index : ~Present(NoTable[i])
  /\ NoTable \in [Index -> Entry]
  /\ \A e \in Entry : e.user \in BOOLEAN /\ e.writable \in BOOLEAN
                      /\ (Present(e) <=> e.to \in Frame \union Device)
  BY Sets DEF NoEntry, NoTable, Entry, Present

LEMMA MemIs ==
  ASSUME NEW m \in Mem
  PROVE  /\ m.tab \in [Table -> [Index -> Entry]] /\ m.data \in [Frame -> Value]
         /\ m.free \in SUBSET Frame /\ m.given \in SUBSET Frame
         /\ \A t \in Table, i \in Index : m.tab[t][i] \in Entry
  BY DEF Mem

LEMMA InUseIs ==
  ASSUME NEW m, NEW L \in SUBSET Process
  PROVE  /\ InUse(m, L) \subseteq Table /\ Used(m) \subseteq Frame /\ Used(m) \subseteq InUse(m, L)
         /\ \A s \in L : s \in InUse(m, L) /\ s \in Space /\ s # Root
         /\ Root \in InUse(m, L)
         /\ \A t, i : Slot(m, L, t, i) => t \in Table /\ i \in Index
         /\ \A f \in Used(m), i \in Index : Slot(m, L, f, i)
         /\ \A s \in L, i \in Index : i \notin KernelTop => Slot(m, L, s, i)
         /\ \A i \in Index : Slot(m, L, Root, i)
  BY Sets DEF InUse, Used, Slot

LEMMA SlotTable ==
  ASSUME NEW m, NEW L \in SUBSET Process, NEW t, NEW i, Slot(m, L, t, i)
  PROVE  t \in Table /\ i \in Index
  BY InUseIs DEF Slot

----------------------------------------------------------------------------
(* Walks through such a memory                                              *)

\* The paths of a space that its own tables lead along.
Valid(L, s, q) == q \in Prefix /\ (s = Root \/ (s \in L /\ q[1] \notin KernelTop))

Above(m, s, q) == IF Len(q) = 1 THEN s ELSE Ent(m, s, Up(q)).to
PathAbove(q) == IF Len(q) = 1 THEN <<>> ELSE Up(q)

\* The entry at the end of the path is in a table with that owner and path.
Placed(m, L, own, path, s, q) ==
  /\ Slot(m, L, Above(m, s, q), q[Len(q)])
  /\ Ent(m, s, q) = m.tab[Above(m, s, q)][q[Len(q)]]
  /\ own[Above(m, s, q)] = s /\ path[Above(m, s, q)] = PathAbove(q)

Reached(m, L, own, path, s, q) ==
  /\ Placed(m, L, own, path, s, q)
  /\ s # Root => Ent(m, s, q).user
  /\ s = Root /\ Len(q) = 1 => ~Ent(m, s, q).user
  /\ \/ Ent(m, s, q).to \in Used(m) /\ own[Ent(m, s, q).to] = s /\ path[Ent(m, s, q).to] = q
     \/ Ent(m, s, q).to \in Device /\ s = Root /\ Len(q) = Levels
  /\ s = Root => q[1] \in KernelTop

LEMMA ValidUp ==
  ASSUME NEW L, NEW s, NEW q, Valid(L, s, q), Len(q) # 1
  PROVE  Valid(L, s, Up(q)) /\ Len(Up(q)) = Len(q) - 1 /\ Len(Up(q)) < Levels
  <1>1. q \in Prefix /\ Len(Up(q)) = Len(q) - 1 /\ Up(q) \in Prefix /\ Up(q)[1] = q[1]
    BY UpIs DEF Valid
  <1>2. Len(q) \in Nat /\ Len(q) <= Levels /\ Levels \in Nat
    BY <1>1, PrefixIs, Numbers
  <1>3. QED BY <1>1, <1>2 DEF Valid

LEMMA PlacedNext ==
  ASSUME NEW m, NEW L, NEW own, NEW path, Base(m, L), Fits(m, L, own, path),
         NEW s, NEW q, Valid(L, s, q),
         Len(q) # 1 => Present(Ent(m, s, Up(q))) /\ Reached(m, L, own, path, s, Up(q))
  PROVE  Placed(m, L, own, path, s, q)
  <1>1. /\ q \in Prefix /\ L \in SUBSET Process /\ m \in Mem /\ s \in Space /\ s \in InUse(m, L)
        /\ q[Len(q)] \in Index
    BY PrefixIs, InUseIs, Sets DEF Valid, Base, InUse
  <1>2. Slot(m, L, Above(m, s, q), q[Len(q)])
    <2>1. CASE Len(q) = 1
      BY <1>1, <2>1, Sets DEF Slot, Above, Valid
    <2>2. CASE Len(q) # 1
      <3>1. Len(Up(q)) < Levels /\ Len(Up(q)) # Levels
        BY <1>1, <2>2, ValidUp, Numbers, UpIs, PrefixIs
      <3>2. Ent(m, s, Up(q)).to \in Used(m)
        BY <2>2, <3>1 DEF Reached
      <3>3. QED BY <1>1, <2>2, <3>2, InUseIs DEF Above
    <2>3. QED BY <2>1, <2>2
  <1>3. own[Above(m, s, q)] = s /\ path[Above(m, s, q)] = PathAbove(q)
    <2>1. CASE Len(q) = 1
      BY <1>1, <2>1 DEF Fits, Above, PathAbove
    <2>2. CASE Len(q) # 1
      <3>1. Len(Up(q)) < Levels /\ Len(Up(q)) # Levels
        BY <1>1, <2>2, ValidUp, Numbers, UpIs, PrefixIs
      <3>2. own[Ent(m, s, Up(q)).to] = s /\ path[Ent(m, s, Up(q)).to] = Up(q)
        BY <2>2, <3>1 DEF Reached
      <3>3. QED BY <2>2, <3>2 DEF Above, PathAbove
    <2>3. QED BY <2>1, <2>2
  <1>4. Ent(m, s, q) = m.tab[Above(m, s, q)][q[Len(q)]]
    BY <1>1, EntIs DEF Above
  <1>5. QED BY <1>2, <1>3, <1>4 DEF Placed

LEMMA PathAboveIs ==
  ASSUME NEW q \in Prefix
  PROVE  /\ Append(PathAbove(q), q[Len(q)]) = q /\ Len(PathAbove(q)) + 1 = Len(q)
         /\ Len(PathAbove(q)) < Levels
  <1>1. Append(PathAbove(q), q[Len(q)]) = q
    BY UpAppend DEF PathAbove
  <1>2. PICK n \in Nat : n = Len(q) /\ n <= Levels
    BY PrefixIs, Numbers
  <1>3. Len(<<>>) = 0
    OBVIOUS
  <1>4. n # 1 => Len(Up(q)) = n - 1
    BY <1>2, UpIs
  <1>5. Len(PathAbove(q)) + 1 = n /\ Len(PathAbove(q)) < Levels
    BY <1>2, <1>3, <1>4, Numbers DEF PathAbove
  <1>6. QED BY <1>1, <1>2, <1>5

LEMMA ReachedNext ==
  ASSUME NEW m, NEW L, NEW own, NEW path, Base(m, L), Fits(m, L, own, path),
         NEW s, NEW q, Valid(L, s, q), Present(Ent(m, s, q)),
         Len(q) # 1 => Reached(m, L, own, path, s, Up(q))
  PROVE  Reached(m, L, own, path, s, q)
  <1>1. q \in Prefix
    BY DEF Valid
  <1>2. Placed(m, L, own, path, s, q)
    BY <1>1, PresentUp, PlacedNext
  <1>3. EntryFits(m, own, path, Above(m, s, q), q[Len(q)])
    BY <1>2 DEF Fits, Placed
  <1>4. Append(PathAbove(q), q[Len(q)]) = q /\ Len(PathAbove(q)) + 1 = Len(q)
    BY <1>1, PathAboveIs
  <1>5. s = Root => q[1] \in KernelTop
    <2>1. CASE Len(q) = 1
      BY <1>3, <2>1 DEF EntryFits, Above
    <2>2. CASE Len(q) # 1
      BY <1>1, <2>2, UpIs DEF Reached
    <2>3. QED BY <2>1, <2>2
  <1>6. s = Root /\ Len(q) = 1 => ~Ent(m, s, q).user
    BY <1>2, <1>3 DEF EntryFits, Above, Placed
  <1>7. QED BY <1>2, <1>3, <1>4, <1>5, <1>6 DEF EntryFits, Reached, Placed

(* A walk that ends at an entry came through entries that count, and the    *)
(* entry leads to a frame with that owner and path, or to a device.         *)
LEMMA EntFits ==
  ASSUME NEW m, NEW L, NEW own, NEW path, Base(m, L), Fits(m, L, own, path),
         NEW s, NEW q, Valid(L, s, q), Present(Ent(m, s, q))
  PROVE  Reached(m, L, own, path, s, q)
  <1> DEFINE S == {n \in 1 .. Levels : \A p \in Prefix :
                     Len(p) = n /\ Valid(L, s, p) /\ Present(Ent(m, s, p))
                       => Reached(m, L, own, path, s, p)}
  <1>1. Levels \in Nat /\ 1 \in 1 .. Levels
    BY Numbers
  <1>2. 1 \in S
    BY <1>1, ReachedNext
  <1>3. \A n \in 1 .. Levels : n \in S /\ n # Levels => n + 1 \in S
    <2>1. SUFFICES ASSUME NEW n \in 1 .. Levels, n \in S, n # Levels PROVE n + 1 \in S
      OBVIOUS
    <2>2. n + 1 \in 1 .. Levels /\ n + 1 # 1 /\ (n + 1) - 1 = n
      BY <1>1, <2>1
    <2>3. ASSUME NEW p \in Prefix, Len(p) = n + 1, Valid(L, s, p), Present(Ent(m, s, p))
          PROVE  Reached(m, L, own, path, s, p)
      <3>1. /\ Up(p) \in Prefix /\ Len(Up(p)) = n /\ Valid(L, s, Up(p))
            /\ Present(Ent(m, s, Up(p)))
        BY <2>2, <2>3, UpIs, ValidUp, PresentUp
      <3>2. Reached(m, L, own, path, s, Up(p))
        BY <2>1, <3>1
      <3>3. QED BY <2>3, <3>2, ReachedNext
    <2>4. QED BY <2>2, <2>3
  <1> HIDE DEF S
  <1>4. \A n \in 1 .. Levels : n \in S
    BY <1>1, <1>2, <1>3, Ladder
  <1>5. q \in Prefix /\ Len(q) \in 1 .. Levels
    BY PrefixIs DEF Valid
  <1>6. QED BY <1>4, <1>5 DEF S

LEMMA PlaceIs ==
  ASSUME NEW m, NEW L, NEW own, NEW path, Base(m, L), Fits(m, L, own, path),
         NEW s, NEW q, Valid(L, s, q), Len(q) # 1 => Present(Ent(m, s, Up(q)))
  PROVE  Placed(m, L, own, path, s, q)
  BY ValidUp, EntFits, PlacedNext

\* The kernel's part is reached from every space alike.
LEMMA KernelWay ==
  ASSUME NEW m, NEW L, Base(m, L), NEW s \in L, NEW q \in Prefix, q[1] \in KernelTop
  PROVE  Ent(m, s, q) = Ent(m, Root, q)
  <1> DEFINE S == {n \in 1 .. Levels : \A p \in Prefix :
                     Len(p) = n /\ p[1] \in KernelTop => Ent(m, s, p) = Ent(m, Root, p)}
  <1>1. Levels \in Nat /\ 1 \in 1 .. Levels
    BY Numbers
  <1>2. 1 \in S
    BY <1>1, EntIs DEF Base
  <1>3. \A n \in 1 .. Levels : n \in S /\ n # Levels => n + 1 \in S
    <2>1. SUFFICES ASSUME NEW n \in 1 .. Levels, n \in S, n # Levels PROVE n + 1 \in S
      OBVIOUS
    <2>2. n + 1 \in 1 .. Levels /\ n + 1 # 1 /\ (n + 1) - 1 = n
      BY <1>1, <2>1
    <2>3. ASSUME NEW p \in Prefix, Len(p) = n + 1, p[1] \in KernelTop
          PROVE  Ent(m, s, p) = Ent(m, Root, p)
      <3>1. Up(p) \in Prefix /\ Len(Up(p)) = n /\ Up(p)[1] \in KernelTop
        BY <2>2, <2>3, UpIs
      <3>2. Ent(m, s, Up(p)) = Ent(m, Root, Up(p))
        BY <2>1, <3>1
      <3>3. Len(p) # 1
        BY <2>2, <2>3
      <3>4. \A t : Ent(m, t, p) = IF Present(Ent(m, t, Up(p)))
                                 THEN m.tab[Ent(m, t, Up(p)).to][p[Len(p)]] ELSE NoEntry
        BY <3>3, EntIs
      <3>5. QED BY <3>2, <3>4
    <2>4. QED BY <2>2, <2>3
  <1> HIDE DEF S
  <1>4. \A n \in 1 .. Levels : n \in S
    BY <1>1, <1>2, <1>3, Ladder
  <1>5. Len(q) \in 1 .. Levels
    BY PrefixIs
  <1>6. QED BY <1>4, <1>5 DEF S

----------------------------------------------------------------------------
(* One entry is set                                                         *)

\* In memory n an entry of memory m is e, and its frame is no longer free.
Set(m, n, t, i, e) ==
  /\ n \in Mem /\ n.data = m.data /\ n.given = m.given /\ n.free = m.free \ {e.to}
  /\ n.tab[t][i] = e
  /\ \A u \in Table, j \in Index : u # t \/ j # i => n.tab[u][j] = m.tab[u][j]

\* Nothing leads to the frame, and it holds no entries.
Untouched(m, L, f) ==
  /\ f \in Frame \ m.given /\ m.tab[f] = NoTable
  /\ \A t, i : Slot(m, L, t, i) => m.tab[t][i].to # f

\* What map_ex writes where the path q of space s has no entry yet.
Brings(m, L, s, q, e) ==
  /\ Valid(L, s, q) /\ (Len(q) # 1 => Present(Ent(m, s, Up(q)))) /\ ~Present(Ent(m, s, q))
  /\ e \in Entry /\ (s # Root => e.user)
  /\ s = Root /\ Len(q) = 1 => L = {} /\ q[1] \in KernelTop /\ ~e.user
  /\ \/ e.to \in Frame /\ Untouched(m, L, e.to)
     \/ e.to \in Device /\ s = Root /\ Len(q) = Levels

LEMMA FreeUntouched ==
  ASSUME NEW m, NEW L, Good(m, L), NEW f \in m.free
  PROVE  Untouched(m, L, f)
  <1>1. PICK own, path : Fits(m, L, own, path)
    BY DEF Good
  <1>2. m \in Mem /\ f \in Frame /\ f \notin m.given /\ m.tab[f] = NoTable
    BY MemIs DEF Good, Base
  <1>3. ASSUME NEW t, NEW i, Slot(m, L, t, i) PROVE m.tab[t][i].to # f
    <2>1. Present(m.tab[t][i]) => m.tab[t][i].to \in Used(m) \union Device
      BY <1>1, <1>3 DEF Fits, EntryFits
    <2>2. ~Present(m.tab[t][i]) => m.tab[t][i].to = Nil
      BY DEF Present
    <2>3. QED BY <1>2, <2>1, <2>2, Sets DEF Used
  <1>4. QED BY <1>2, <1>3 DEF Untouched

\* The labels of a memory with one more frame in use.
Mark(own, f, s) == [t \in Table |-> IF t \in {f} \intersect Frame THEN s ELSE own[t]]

LEMMA SetPlace ==
  ASSUME NEW m, NEW L, NEW own, NEW path, Base(m, L), Fits(m, L, own, path),
         NEW s, NEW q, NEW e, Brings(m, L, s, q, e),
         NEW n, Set(m, n, Above(m, s, q), q[Len(q)], e)
  PROVE  LET t == Above(m, s, q)
             i == q[Len(q)]
         IN /\ m \in Mem /\ n \in Mem /\ L \in SUBSET Process /\ q \in Prefix /\ s \in Space
            /\ Slot(m, L, t, i) /\ t \in Table /\ i \in Index /\ ~Present(m.tab[t][i])
            /\ own[t] = s /\ path[t] = PathAbove(q)
            /\ n.tab[t][i] = e
            /\ \A u \in Table, j \in Index : u # t \/ j # i => n.tab[u][j] = m.tab[u][j]
            /\ n.given = m.given /\ n.free = m.free \ {e.to}
            /\ e.to \in Frame => t # e.to /\ \A j \in Index : n.tab[e.to][j] = NoEntry
  <1>1. PICK t, i : t = Above(m, s, q) /\ i = q[Len(q)]
    OBVIOUS
  <1>2. Placed(m, L, own, path, s, q)
    BY PlaceIs DEF Brings
  <1>3. /\ m \in Mem /\ n \in Mem /\ L \in SUBSET Process /\ q \in Prefix /\ s \in Space
        /\ Slot(m, L, t, i) /\ t \in Table /\ i \in Index /\ ~Present(m.tab[t][i])
        /\ own[t] = s /\ path[t] = PathAbove(q)
    <2>1. L \in SUBSET Process
      BY DEF Base
    <2>2. Slot(m, L, t, i)
      BY <1>1, <1>2 DEF Placed
    <2>3. t \in Table /\ i \in Index
      BY <2>1, <2>2, InUseIs
    <2>4. q \in Prefix /\ s \in Space
      BY <2>1, Sets DEF Brings, Valid
    <2>5. ~Present(m.tab[t][i]) /\ own[t] = s /\ path[t] = PathAbove(q)
      BY <1>1, <1>2 DEF Placed, Brings
    <2>6. QED BY <2>1, <2>2, <2>3, <2>4, <2>5 DEF Base, Set
  <1>4. /\ n.tab[t][i] = e /\ \A u \in Table, j \in Index : u # t \/ j # i => n.tab[u][j] = m.tab[u][j]
        /\ n.given = m.given /\ n.free = m.free \ {e.to}
    BY <1>1 DEF Set
  <1>5. e.to \in Frame => t # e.to
    <2>1. CASE Len(q) = 1
      <3>1. t = s
        BY <1>1, <2>1 DEF Above
      <3>2. QED BY <1>3, <3>1, Sets
    <2>2. CASE Len(q) # 1
      <3>1. t = Ent(m, s, Up(q)).to /\ Valid(L, s, Up(q)) /\ Present(Ent(m, s, Up(q)))
        BY <1>1, <2>2, ValidUp DEF Above, Brings
      <3>2. Reached(m, L, own, path, s, Up(q))
        BY <3>1, EntFits
      <3>3. PICK u, j : Slot(m, L, u, j) /\ m.tab[u][j].to = t
        BY <3>1, <3>2 DEF Reached, Placed
      <3>4. QED BY <3>3, Sets DEF Brings, Untouched
    <2>3. QED BY <2>1, <2>2
  <1>6. e.to \in Frame => \A j \in Index : n.tab[e.to][j] = NoEntry
    <2>1. e.to \in Frame => e.to \in Table /\ m.tab[e.to] = NoTable
      BY Sets DEF Brings, Untouched
    <2>2. QED BY <1>4, <1>5, <2>1 DEF NoTable
  <1>7. QED BY <1>1, <1>3, <1>4, <1>5, <1>6

LEMMA SetGood ==
  ASSUME NEW m, NEW L, NEW own, NEW path, Base(m, L), Fits(m, L, own, path),
         NEW s, NEW q, NEW e, Brings(m, L, s, q, e),
         NEW n, Set(m, n, Above(m, s, q), q[Len(q)], e)
  PROVE  Base(n, L) /\ Fits(n, L, Mark(own, e.to, s), Mark(path, e.to, q))
  <1>1. PICK t, i : t = Above(m, s, q) /\ i = q[Len(q)]
    OBVIOUS
  <1>2. /\ m \in Mem /\ n \in Mem /\ L \in SUBSET Process /\ q \in Prefix /\ s \in Space
        /\ Slot(m, L, t, i) /\ t \in Table /\ i \in Index /\ ~Present(m.tab[t][i])
        /\ own[t] = s /\ path[t] = PathAbove(q)
        /\ n.tab[t][i] = e
        /\ \A u \in Table, j \in Index : u # t \/ j # i => n.tab[u][j] = m.tab[u][j]
        /\ n.given = m.given /\ n.free = m.free \ {e.to}
        /\ e.to \in Frame => t # e.to /\ \A j \in Index : n.tab[e.to][j] = NoEntry
    BY <1>1, SetPlace
  <1>3. /\ m \in Mem /\ n \in Mem /\ L \in SUBSET Process /\ q \in Prefix /\ s \in Space
        /\ Slot(m, L, t, i) /\ t \in Table /\ i \in Index /\ ~Present(m.tab[t][i])
        /\ own[t] = s /\ path[t] = PathAbove(q)
    BY <1>2
  <1>4. /\ n.tab[t][i] = e /\ \A u \in Table, j \in Index : u # t \/ j # i => n.tab[u][j] = m.tab[u][j]
        /\ n.given = m.given /\ n.free = m.free \ {e.to}
    BY <1>2
  <1>5. e.to \in Frame => t # e.to
    BY <1>2
  <1>6. e.to \in Frame => \A j \in Index : n.tab[e.to][j] = NoEntry
    BY <1>2
  <1>7. /\ Used(n) = Used(m) \union ({e.to} \intersect Frame)
        /\ InUse(n, L) = InUse(m, L) \union ({e.to} \intersect Frame)
    <2>1. e.to \in Frame => e.to \notin m.given
      BY Sets DEF Brings, Untouched
    <2>2. m.free \subseteq Frame
      BY <1>3, MemIs
    <2>3. Used(n) = Used(m) \union ({e.to} \intersect Frame)
      BY <1>4, <2>1, <2>2 DEF Used
    <2>4. QED BY <2>3 DEF InUse
  \* An entry that is there is e or one that was there before.
  <1>8. ASSUME NEW u, NEW j, Slot(n, L, u, j), Present(n.tab[u][j])
        PROVE  \/ u = t /\ j = i /\ n.tab[u][j] = e
               \/ /\ u # t \/ j # i
                  /\ Slot(m, L, u, j) /\ n.tab[u][j] = m.tab[u][j] /\ u \notin {e.to} \intersect Frame
    <2>1. u \in Table /\ j \in Index
      BY <1>3, <1>8, InUseIs
    <2>2. u \notin {e.to} \intersect Frame
      BY <1>6, <1>8, <2>1, Entries
    <2>3. Slot(m, L, u, j)
      BY <1>7, <1>8, <2>2 DEF Slot
    <2>4. QED BY <1>4, <2>1, <2>2, <2>3
  <1>9. Base(n, L)
    <2>1. n.free \intersect n.given = {}
      BY <1>4 DEF Base
    <2>2. ASSUME NEW f \in n.free PROVE n.tab[f] = NoTable
      <3>1. f \in m.free /\ f \in Frame /\ f \in Table /\ m.tab[f] = NoTable
        BY <1>3, <1>4, MemIs, Sets DEF Base
      <3>2. f # t
        BY <1>3, <3>1, Sets DEF Slot, InUse, Used
      <3>3. \A j \in Index : n.tab[f][j] = m.tab[f][j]
        BY <1>4, <3>1, <3>2
      <3>4. n.tab[f] \in [Index -> Entry] /\ m.tab[f] \in [Index -> Entry]
        BY <1>3, <3>1, MemIs
      <3>5. n.tab[f] = m.tab[f]
        BY <3>3, <3>4
      <3>6. QED BY <3>1, <3>5
    <2>3. ASSUME NEW p \in L, NEW j \in KernelTop PROVE n.tab[p][j] = n.tab[Root][j]
      <3>1. p \in Table /\ Root \in Table /\ j \in Index /\ p \in Process
        BY <1>3, Sets
      <3>2. t # Root
        <4>1. t = Root => Len(q) = 1 /\ s = Root
          <5>1. t = Root => s = Root
            BY <1>3, Sets DEF Fits
          <5>2. t = Root => path[t] = <<>>
            BY Sets DEF Fits
          <5>3. Len(q) # 1 => path[t] = Up(q) /\ Up(q) \in Prefix
            BY <1>3, UpIs DEF PathAbove
          <5>4. QED BY <5>1, <5>2, <5>3, PrefixIs
        <4>2. QED BY <4>1, <2>3 DEF Brings
      <3>3. ~(p = t /\ j = i)
        BY <1>3, <3>1 DEF Slot
      <3>4. m.tab[p][j] = m.tab[Root][j]
        BY DEF Base
      <3>5. QED BY <1>4, <3>1, <3>2, <3>3, <3>4
    <2>4. OneEntry(n, L)
      <3>1. SUFFICES ASSUME NEW u, NEW j, NEW v, NEW k, Slot(n, L, u, j), Slot(n, L, v, k),
                            n.tab[u][j].to \in Frame, n.tab[u][j].to = n.tab[v][k].to
                     PROVE  u = v /\ j = k
        BY DEF OneEntry
      <3>2. Present(n.tab[u][j]) /\ Present(n.tab[v][k])
        BY <3>1, Sets DEF Present
      <3>3. \A x, y : Slot(m, L, x, y) /\ e.to \in Frame => m.tab[x][y].to # e.to
        BY Sets DEF Brings, Untouched
      <3>4. QED BY <1>8, <3>1, <3>2, <3>3 DEF OneEntry, Base
    <2>5. QED BY <1>3, <2>1, <2>2, <2>3, <2>4 DEF Base
  <1>10. Fits(n, L, Mark(own, e.to, s), Mark(path, e.to, q))
    <2> DEFINE own2 == Mark(own, e.to, s)
               path2 == Mark(path, e.to, q)
    <2>1. own2 \in [Table -> Space] /\ path2 \in [Table -> Prefix \union {<<>>}]
      BY <1>3 DEF Mark, Fits
    <2>2. \A u \in Table : u \notin {e.to} \intersect Frame => own2[u] = own[u] /\ path2[u] = path[u]
      BY DEF Mark
    <2>3. e.to \in Frame => own2[e.to] = s /\ path2[e.to] = q
      BY Sets DEF Mark
    <2>4. \A p \in Space : p \notin {e.to} \intersect Frame /\ p \in Table
      BY Sets
    <2> HIDE DEF own2, path2
    <2>5. \A p \in Space : own2[p] = p /\ path2[p] = <<>>
      BY <2>2, <2>4 DEF Fits
    <2>6. ASSUME NEW u, NEW j, Slot(n, L, u, j), Present(n.tab[u][j])
          PROVE  EntryFits(n, own2, path2, u, j)
      <3>1. CASE u = t /\ j = i /\ n.tab[u][j] = e
        <4>1. own2[t] = s /\ path2[t] = PathAbove(q)
          BY <1>3, <1>5, <2>2
        <4>2. Append(path2[t], i) = q /\ Len(path2[t]) < Levels /\ Len(path2[t]) + 1 = Len(q)
          BY <1>1, <1>3, <4>1, PathAboveIs
        <4>3. t = Root => i \in KernelTop /\ ~e.user
          <5>1. t = Root => path[t] = <<>> /\ s = Root
            BY <1>3, Sets DEF Fits
          <5>2. Len(q) # 1 => path[t] = Up(q) /\ Up(q) # <<>>
            BY <1>3, UpIs, PrefixIs DEF PathAbove
          <5>3. t = Root => Len(q) = 1 /\ s = Root
            BY <5>1, <5>2
          <5>4. QED BY <1>1, <5>3 DEF Brings
        <4>4. e.to \in Frame => e.to \in Used(n)
          BY <1>7
        <4>5. QED BY <2>3, <3>1, <4>1, <4>2, <4>3, <4>4 DEF EntryFits, Brings
      <3>2. CASE Slot(m, L, u, j) /\ n.tab[u][j] = m.tab[u][j] /\ u \notin {e.to} \intersect Frame
        <4>1. EntryFits(m, own, path, u, j)
          BY <2>6, <3>2 DEF Fits
        <4>2. u \in Table
          BY <1>3, <3>2, InUseIs
        <4>3. own2[u] = own[u] /\ path2[u] = path[u]
          BY <2>2, <3>2, <4>2
        <4>4. m.tab[u][j].to \in Used(m) =>
                /\ own2[m.tab[u][j].to] = own[m.tab[u][j].to]
                /\ path2[m.tab[u][j].to] = path[m.tab[u][j].to]
                /\ m.tab[u][j].to \in Used(n)
          <5>1. SUFFICES ASSUME m.tab[u][j].to \in Used(m)
                         PROVE  /\ m.tab[u][j].to \notin {e.to} \intersect Frame
                                /\ m.tab[u][j].to \in Table /\ m.tab[u][j].to \in Used(n)
            BY <2>2
          <5>2. m.tab[u][j].to \in Frame
            BY <5>1 DEF Used
          <5>3. QED BY <1>7, <3>2, <5>1, <5>2, Sets DEF Brings, Untouched
        <4>5. QED BY <3>2, <4>1, <4>3, <4>4 DEF EntryFits
      <3>3. QED BY <1>8, <2>6, <3>1, <3>2
    <2>7. QED BY <2>1, <2>5, <2>6 DEF Fits, own2, path2
  <1>11. QED BY <1>9, <1>10

LEMMA SetWalkNext ==
  ASSUME NEW m, NEW L, NEW own, NEW path, Base(m, L), Fits(m, L, own, path),
         NEW s, NEW q, NEW e, Brings(m, L, s, q, e),
         NEW n, Set(m, n, Above(m, s, q), q[Len(q)], e),
         NEW r, NEW p, Valid(L, r, p),
         Len(p) # 1 => Ent(n, r, Up(p)) = IF r = s /\ Up(p) = q THEN e ELSE Ent(m, r, Up(p))
  PROVE  Ent(n, r, p) = IF r = s /\ p = q THEN e ELSE Ent(m, r, p)
  <1>1. PICK t, i : t = Above(m, s, q) /\ i = q[Len(q)]
    OBVIOUS
  <1>2. /\ L \in SUBSET Process /\ q \in Prefix /\ t \in Table /\ i \in Index
        /\ own[t] = s /\ path[t] = PathAbove(q) /\ n.tab[t][i] = e
        /\ \A u \in Table, j \in Index : u # t \/ j # i => n.tab[u][j] = m.tab[u][j]
        /\ e.to \in Frame => \A j \in Index : n.tab[e.to][j] = NoEntry
    BY <1>1, SetPlace
  <1>3. p \in Prefix /\ p[Len(p)] \in Index
    BY PrefixIs DEF Valid
  <1>4. ASSUME Placed(m, L, own, path, r, p), Ent(n, r, p) = n.tab[Above(m, r, p)][p[Len(p)]]
        PROVE  Ent(n, r, p) = IF r = s /\ p = q THEN e ELSE Ent(m, r, p)
    <2>1. PICK u, j : u = Above(m, r, p) /\ j = p[Len(p)]
      OBVIOUS
    <2>2. /\ u \in Table /\ j \in Index /\ own[u] = r /\ path[u] = PathAbove(p)
          /\ Ent(m, r, p) = m.tab[u][j]
      BY <1>2, <1>4, <2>1, InUseIs DEF Placed
    <2>3. p = Append(PathAbove(p), j) /\ q = Append(PathAbove(q), i)
      BY <1>1, <1>2, <1>3, <2>1, PathAboveIs
    <2>4. u = t /\ j = i => r = s /\ p = q
      BY <1>2, <2>2, <2>3
    <2>5. r = s /\ p = q => u = t /\ j = i
      BY <1>1, <2>1
    <2>6. QED BY <1>2, <1>4, <2>1, <2>2, <2>4, <2>5
  <1>5. CASE Len(p) = 1
    <2>1. Placed(m, L, own, path, r, p)
      BY <1>5, PlaceIs
    <2>2. Ent(n, r, p) = n.tab[Above(m, r, p)][p[Len(p)]]
      BY <1>3, <1>5, EntIs DEF Above
    <2>3. QED BY <1>4, <2>1, <2>2
  <1>6. CASE Len(p) # 1 /\ r = s /\ Up(p) = q
    <2>1. Ent(m, r, p) = NoEntry
      BY <1>3, <1>6, EntIs DEF Brings
    <2>2. p # q /\ Len(q) # Levels
      <3>1. PICK k \in Nat : k = Len(p) /\ k <= Levels
        BY <1>3, PrefixIs, Numbers
      <3>2. Len(q) = k - 1
        BY <1>3, <1>6, <3>1, UpIs
      <3>3. QED BY <3>1, <3>2, Numbers
    <2>3. Ent(n, r, p) = IF Present(e) THEN n.tab[e.to][p[Len(p)]] ELSE NoEntry
      BY <1>3, <1>6, EntIs
    <2>4. e.to \in Frame
      BY <2>2 DEF Brings
    <2>5. QED BY <1>2, <1>3, <2>1, <2>2, <2>3, <2>4
  <1>7. CASE Len(p) # 1 /\ ~(r = s /\ Up(p) = q)
    <2>1. Ent(n, r, Up(p)) = Ent(m, r, Up(p))
      BY <1>7
    <2>2. CASE Present(Ent(m, r, Up(p)))
      <3>1. Placed(m, L, own, path, r, p)
        BY <2>2, PlaceIs
      <3>2. Ent(n, r, p) = n.tab[Above(m, r, p)][p[Len(p)]]
        BY <1>3, <1>7, <2>1, <2>2, EntIs DEF Above
      <3>3. QED BY <1>4, <3>1, <3>2
    <2>3. CASE ~Present(Ent(m, r, Up(p)))
      <3>1. ~(r = s /\ p = q)
        BY <1>7, <2>3 DEF Brings
      <3>2. Ent(n, r, p) = NoEntry /\ Ent(m, r, p) = NoEntry
        BY <1>3, <1>7, <2>1, <2>3, EntIs
      <3>3. QED BY <3>1, <3>2
    <2>4. QED BY <2>2, <2>3
  <1>8. QED BY <1>5, <1>6, <1>7

(* All walks but the one to the new entry end as they did.                  *)
LEMMA SetWalks ==
  ASSUME NEW m, NEW L, NEW own, NEW path, Base(m, L), Fits(m, L, own, path),
         NEW s, NEW q, NEW e, Brings(m, L, s, q, e),
         NEW n, Set(m, n, Above(m, s, q), q[Len(q)], e)
  PROVE  \A r, p : Valid(L, r, p) =>
           Ent(n, r, p) = IF r = s /\ p = q THEN e ELSE Ent(m, r, p)
  <1> DEFINE Right(r, p) == Ent(n, r, p) = IF r = s /\ p = q THEN e ELSE Ent(m, r, p)
             S == {k \in 1 .. Levels : \A p \in Prefix, r \in Space :
                     Len(p) = k /\ Valid(L, r, p) => Right(r, p)}
  <1>1. Levels \in Nat /\ 1 \in 1 .. Levels
    BY Numbers
  <1>2. 1 \in S
    BY <1>1, SetWalkNext
  <1>3. \A k \in 1 .. Levels : k \in S /\ k # Levels => k + 1 \in S
    <2>1. SUFFICES ASSUME NEW k \in 1 .. Levels, k \in S, k # Levels PROVE k + 1 \in S
      OBVIOUS
    <2>2. k + 1 \in 1 .. Levels /\ k + 1 # 1 /\ (k + 1) - 1 = k
      BY <1>1, <2>1
    <2>3. ASSUME NEW p \in Prefix, NEW r \in Space, Len(p) = k + 1, Valid(L, r, p)
          PROVE  Right(r, p)
      <3>1. Up(p) \in Prefix /\ Len(Up(p)) = k /\ Valid(L, r, Up(p))
        BY <2>2, <2>3, UpIs, ValidUp
      <3>2. Right(r, Up(p))
        BY <2>1, <3>1
      <3>3. QED BY <2>3, <3>2, SetWalkNext
    <2>4. QED BY <2>2, <2>3
  <1> HIDE DEF S
  <1>4. \A k \in 1 .. Levels : k \in S
    BY <1>1, <1>2, <1>3, Ladder
  <1>5. ASSUME NEW r, NEW p, Valid(L, r, p) PROVE Right(r, p)
    <2>1. p \in Prefix /\ Len(p) \in 1 .. Levels /\ r \in Space
      BY <1>5, PrefixIs, Sets DEF Valid, Base
    <2>2. QED BY <1>4, <1>5, <2>1 DEF S
  <1>6. QED BY <1>5

LEMMA SetIs ==
  ASSUME NEW m \in Mem, NEW t \in Table, NEW i \in Index, NEW e \in Entry
  PROVE  Set(m, [m EXCEPT !.tab[t][i] = e, !.free = @ \ {e.to}], t, i, e)
  <1>1. PICK tb : tb = [m.tab EXCEPT ![t] = [m.tab[t] EXCEPT ![i] = e]]
    OBVIOUS
  <1>2. tb \in [Table -> [Index -> Entry]] /\ tb[t][i] = e
        /\ \A u \in Table, j \in Index : u # t \/ j # i => tb[u][j] = m.tab[u][j]
    BY <1>1, MemIs
  <1>3. PICK n : n = [m EXCEPT !.tab[t][i] = e, !.free = @ \ {e.to}]
    OBVIOUS
  <1>4. n.tab = tb /\ n.free = m.free \ {e.to} /\ n.data = m.data /\ n.given = m.given
    BY <1>1, <1>3 DEF Mem
  <1>5. n = [tab |-> n.tab, data |-> n.data, free |-> n.free, given |-> n.given]
    BY <1>3 DEF Mem
  <1>6. n \in Mem
    BY <1>2, <1>4, <1>5, MemIs DEF Mem
  <1>7. Set(m, n, t, i, e)
    BY <1>2, <1>4, <1>6 DEF Set
  <1>8. QED BY <1>3, <1>7

\* A frame that nothing leads to stays so when an entry is set to another one.
LEMMA SetUntouched ==
  ASSUME NEW m, NEW L, NEW own, NEW path, Base(m, L), Fits(m, L, own, path),
         NEW s, NEW q, NEW e, Brings(m, L, s, q, e),
         NEW n, Set(m, n, Above(m, s, q), q[Len(q)], e),
         NEW f, Untouched(m, L, f), f # e.to
  PROVE  Untouched(n, L, f)
  <1>1. PICK t, i : t = Above(m, s, q) /\ i = q[Len(q)]
    OBVIOUS
  <1>2. /\ m \in Mem /\ n \in Mem /\ L \in SUBSET Process /\ s \in Space /\ t \in Table /\ i \in Index
        /\ n.tab[t][i] = e /\ n.given = m.given /\ n.free = m.free \ {e.to}
        /\ \A u \in Table, j \in Index : u # t \/ j # i => n.tab[u][j] = m.tab[u][j]
        /\ e.to \in Frame => t # e.to /\ \A j \in Index : n.tab[e.to][j] = NoEntry
    BY <1>1, SetPlace
  <1>3. f \in Frame /\ f \notin m.given /\ m.tab[f] = NoTable /\ f \in Table
    BY Sets DEF Untouched
  <1>4. t # f
    <2>1. CASE Len(q) = 1
      <3>1. t = s
        BY <1>1, <2>1 DEF Above
      <3>2. QED BY <1>2, <1>3, <3>1, Sets
    <2>2. CASE Len(q) # 1
      <3>1. t = Ent(m, s, Up(q)).to /\ Valid(L, s, Up(q)) /\ Present(Ent(m, s, Up(q)))
        BY <1>1, <2>2, ValidUp DEF Above, Brings
      <3>2. Reached(m, L, own, path, s, Up(q))
        BY <3>1, EntFits
      <3>3. PICK u, j : Slot(m, L, u, j) /\ m.tab[u][j].to = t
        BY <3>1, <3>2 DEF Reached, Placed
      <3>4. QED BY <3>3 DEF Untouched
    <2>3. QED BY <2>1, <2>2
  <1>5. n.tab[f] = NoTable
    <2>1. \A j \in Index : n.tab[f][j] = m.tab[f][j]
      BY <1>2, <1>3, <1>4
    <2>2. n.tab[f] \in [Index -> Entry] /\ m.tab[f] \in [Index -> Entry]
      BY <1>2, <1>3, MemIs
    <2>3. QED BY <1>3, <2>1, <2>2
  <1>6. ASSUME NEW u, NEW j, Slot(n, L, u, j) PROVE n.tab[u][j].to # f
    <2>1. u \in Table /\ j \in Index
      BY <1>2, <1>6, InUseIs
    <2>2. CASE u = t /\ j = i
      BY <1>2, <2>2
    <2>3. CASE u \in {e.to} \intersect Frame
      <3>1. n.tab[u][j] = NoEntry
        BY <1>2, <2>1, <2>3
      <3>2. QED BY <1>3, <3>1, Sets DEF NoEntry
    <2>4. CASE (u # t \/ j # i) /\ u \notin {e.to} \intersect Frame
      <3>1. n.tab[u][j] = m.tab[u][j]
        BY <1>2, <2>1, <2>4
      <3>2. Slot(m, L, u, j)
        <4>1. m.free \subseteq Frame
          BY <1>2, MemIs
        <4>2. QED BY <1>2, <1>6, <2>4, <4>1 DEF Slot, InUse, Used
      <3>3. QED BY <3>1, <3>2 DEF Untouched
    <2>5. QED BY <2>2, <2>3, <2>4
  <1>7. QED BY <1>2, <1>3, <1>5, <1>6 DEF Untouched

----------------------------------------------------------------------------
(* A page is mapped                                                         *)

MapStep(w, a, phys, user, writable, k) ==
  LET e == w.m.tab[w.table][a[k]]
      to == IF k = Levels /\ phys # Nil THEN phys ELSE Nth(w.m.free, 0)
  IN IF Present(e) THEN [m |-> w.m, table |-> e.to]
     ELSE [m |-> [w.m EXCEPT
                    !.tab[w.table][a[k]] = [user |-> user, writable |-> writable, to |-> to],
                    !.free = @ \ {to}],
           table |-> to]

MapsTo(m, s, a, phys, user, writable, n, g) ==
  g = [k \in 0 .. n |-> IF k = 0 THEN [m |-> m, table |-> s]
                        ELSE MapStep(g[k - 1], a, phys, user, writable, k)]

LEMMA MapFound ==
  ASSUME NEW m, NEW s, NEW a, NEW phys, NEW user, NEW writable, NEW n \in Nat
  PROVE  \E g : MapsTo(m, s, a, phys, user, writable, n, g)
  <1> DEFINE S == {j \in 0 .. n : \E g : MapsTo(m, s, a, phys, user, writable, j, g)}
             First == [m |-> m, table |-> s]
  <1>1. 0 \in S
    <2> DEFINE g == [k \in 0 .. 0 |-> First]
    <2>1. g = [k \in 0 .. 0 |-> IF k = 0 THEN First ELSE MapStep(g[k - 1], a, phys, user, writable, k)]
      <3>1. \A k \in 0 .. 0 : k = 0
        OBVIOUS
      <3> HIDE DEF First
      <3>2. QED BY <3>1
    <2> HIDE DEF g
    <2>2. MapsTo(m, s, a, phys, user, writable, 0, g)
      BY <2>1 DEF MapsTo
    <2>3. QED BY <2>2
  <1>2. \A j \in 0 .. n : j \in S /\ j # n => j + 1 \in S
    <2>1. SUFFICES ASSUME NEW j \in 0 .. n, j \in S, j # n PROVE j + 1 \in S
      OBVIOUS
    <2>2. PICK g : MapsTo(m, s, a, phys, user, writable, j, g)
      BY <2>1
    <2> DEFINE Rung(x, k) == IF k = 0 THEN First ELSE MapStep(x, a, phys, user, writable, k)
    <2>3. /\ \A k \in 0 .. j : g[k] = Rung(g[k - 1], k)
      BY <2>2 DEF MapsTo
    <2> HIDE DEF Rung
    <2>4. PICK h : h = [k \in 0 .. j + 1 |-> IF k = j + 1 THEN Rung(g[k - 1], k) ELSE g[k]]
      OBVIOUS
    <2>5. \A k \in 0 .. j + 1 : k # 0 => k - 1 \in 0 .. j + 1 /\ k - 1 # j + 1
      OBVIOUS
    <2>6. \A k \in 0 .. j + 1 : k # 0 => h[k - 1] = g[k - 1]
      BY <2>4, <2>5
    <2>7. \A k \in 0 .. j + 1 : Rung(h[k - 1], k) = Rung(g[k - 1], k)
      BY <2>6 DEF Rung
    <2>8. \A k \in 0 .. j + 1 : h[k] = Rung(h[k - 1], k)
      <3>1. \A k \in 0 .. j + 1 : k = j + 1 \/ k \in 0 .. j
        OBVIOUS
      <3>2. QED BY <2>3, <2>4, <2>7, <3>1
    <2>9. h = [k \in 0 .. j + 1 |-> Rung(h[k - 1], k)]
      BY <2>4, <2>8
    <2>10. MapsTo(m, s, a, phys, user, writable, j + 1, h) /\ j + 1 \in 0 .. n
      BY <2>1, <2>9 DEF MapsTo, Rung
    <2>11. QED BY <2>10
  <1> HIDE DEF S
  <1>3. n \in S
    BY <1>1, <1>2, Ladder
  <1>4. QED BY <1>3 DEF S

LEMMA MapIs ==
  ASSUME NEW m, NEW s, NEW a, NEW phys, NEW user, NEW writable
  PROVE  \E g : /\ g[0] = [m |-> m, table |-> s]
                /\ \A k \in 1 .. Levels : g[k] = MapStep(g[k - 1], a, phys, user, writable, k)
                /\ MapPage(m, s, a, phys, user, writable) = g[Levels].m
  <1>1. \E g : MapsTo(m, s, a, phys, user, writable, Levels, g)
    BY Numbers, MapFound
  <1>2. \E g : /\ MapsTo(m, s, a, phys, user, writable, Levels, g)
               /\ MapPage(m, s, a, phys, user, writable) = g[Levels].m
    BY <1>1, Zenon DEF MapsTo, MapStep, MapPage
  <1>3. PICK g : /\ MapsTo(m, s, a, phys, user, writable, Levels, g)
                 /\ MapPage(m, s, a, phys, user, writable) = g[Levels].m
    BY <1>2
  <1> DEFINE Rung(x, k) == IF k = 0 THEN [m |-> m, table |-> s] ELSE MapStep(x, a, phys, user, writable, k)
  <1>4. \A k \in 0 .. Levels : g[k] = Rung(g[k - 1], k)
    BY <1>3 DEF MapsTo
  <1> HIDE DEF Rung
  <1>5. 0 \in 0 .. Levels /\ \A k \in 1 .. Levels : k \in 0 .. Levels /\ k # 0
    BY Numbers
  <1>6. g[0] = Rung(g[0 - 1], 0) /\ \A k \in 1 .. Levels : g[k] = Rung(g[k - 1], k)
    BY <1>4, <1>5
  <1>7. g[0] = [m |-> m, table |-> s]
    BY <1>6 DEF Rung
  <1>8. \A k \in 1 .. Levels : g[k] = MapStep(g[k - 1], a, phys, user, writable, k)
    BY <1>5, <1>6 DEF Rung
  <1>9. QED BY <1>3, <1>7, <1>8

\* What map_ex is called with: o is the owner of the tables it goes through.
MapCall(m, L, s, o, a, phys, user, writable) ==
  /\ Good(m, L) /\ a \in Address /\ Valid(L, o, a)
  /\ user \in BOOLEAN /\ writable \in BOOLEAN /\ (o # Root => user)
  /\ \/ s = o /\ (o = Root => L = {} /\ a[1] \in KernelTop /\ ~user)
     \/ s \in L /\ o = Root /\ a[1] \in KernelTop /\ Present(m.tab[Root][a[1]])
  /\ Cardinality(m.free) >= Levels
  /\ \/ phys = Nil
     \/ phys \in Device /\ o = Root
     \/ phys \in Frame \ m.free /\ Untouched(m, L, phys)

\* Nothing that was there before is lost, but for the entries of the path new.
Extends(m, n, L, o, New, taken) ==
  /\ Good(n, L) /\ n.data = m.data /\ n.given = m.given /\ n.free \subseteq m.free
  /\ Cardinality(n.free) >= Cardinality(m.free) - taken
  /\ \A r, p : Valid(L, r, p) /\ (r # o \/ p \notin New) => Ent(n, r, p) = Ent(m, r, p)
  /\ \A r, p : Valid(L, r, p) /\ Present(Ent(m, r, p)) => Ent(n, r, p) = Ent(m, r, p)

\* After k levels.
MapStage(m, L, s, o, a, phys, k, w) ==
  /\ Extends(m, w.m, L, o, {Cut(a, j) : j \in 1 .. k}, k)
  /\ k = 0 => w.m = m /\ w.table = s
  /\ k # 0 => Present(Ent(w.m, o, Cut(a, k))) /\ w.table = Ent(w.m, o, Cut(a, k)).to
  /\ phys \in Frame /\ k < Levels => phys \notin w.m.free /\ Untouched(w.m, L, phys)
  /\ k = Levels /\ phys # Nil /\ ~Present(Ent(m, o, a)) => w.table = phys

\* After k levels have led to memory n, an entry more leads to memory x.
OneMore(m, n, x, L, o, New, k, q, e) ==
  /\ m \in Mem /\ k \in Nat /\ Extends(m, n, L, o, New, k)
  /\ Brings(n, L, o, q, e) /\ Set(n, x, Above(n, o, q), q[Len(q)], e)

LEMMA ExtendsSet ==
  ASSUME NEW m, NEW L, NEW k, NEW o, NEW New, NEW n, NEW q, NEW e, NEW x,
         OneMore(m, n, x, L, o, New, k, q, e)
  PROVE  Extends(m, x, L, o, New \union {q}, k + 1) /\ Ent(x, o, q) = e
  <1>0. /\ m \in Mem /\ k \in Nat /\ Extends(m, n, L, o, New, k)
        /\ Brings(n, L, o, q, e) /\ Set(n, x, Above(n, o, q), q[Len(q)], e)
    BY DEF OneMore
  <1>1. PICK own, path : Fits(n, L, own, path)
    BY <1>0 DEF Extends, Good
  <1>2. Base(n, L)
    BY <1>0 DEF Extends, Good
  <1>3. Good(x, L)
    BY <1>0, <1>1, <1>2, SetGood DEF Good
  <1>4. /\ Ent(x, o, q) = e
        /\ \A r, p : Valid(L, r, p) /\ (r # o \/ p # q) => Ent(x, r, p) = Ent(n, r, p)
    <2>1. Ent(x, o, q) = e
      <3>1. Valid(L, o, q)
        BY <1>0 DEF Brings
      <3>2. QED BY <1>0, <1>1, <1>2, <3>1, SetWalks
    <2>2. ASSUME NEW r, NEW p, Valid(L, r, p), r # o \/ p # q PROVE Ent(x, r, p) = Ent(n, r, p)
      BY <1>0, <1>1, <1>2, <2>2, SetWalks
    <2>3. QED BY <2>1, <2>2
  <1>6. x.data = n.data /\ x.given = n.given /\ x.free = n.free \ {e.to}
    BY <1>0 DEF Set
  <1>7. Cardinality(x.free) >= Cardinality(m.free) - (k + 1) /\ x.free \subseteq m.free
    <2>1. n.free \in SUBSET Frame /\ m.free \in SUBSET Frame
      BY <1>0, <1>2, MemIs DEF Base
    <2>2. IsFiniteSet(n.free) /\ Cardinality(n.free) \in Nat /\ Cardinality(m.free) \in Nat
      BY <2>1, FramesFinite
    <2>3. Cardinality(n.free \ {e.to}) \in {Cardinality(n.free), Cardinality(n.free) - 1}
      BY <2>2, FS_RemoveElement
    <2>4. n.free \subseteq m.free /\ Cardinality(n.free) >= Cardinality(m.free) - k
      BY <1>0 DEF Extends
    <2>5. QED BY <1>0, <1>6, <2>2, <2>3, <2>4
  <1>8. ASSUME NEW r, NEW p, Valid(L, r, p), r # o \/ p \notin New \union {q}
        PROVE  Ent(x, r, p) = Ent(m, r, p)
    BY <1>0, <1>4, <1>8 DEF Extends
  <1>9. ASSUME NEW r, NEW p, Valid(L, r, p), Present(Ent(m, r, p))
        PROVE  Ent(x, r, p) = Ent(m, r, p)
    <2>1. Ent(n, r, p) = Ent(m, r, p)
      BY <1>0, <1>9 DEF Extends
    <2>2. r # o \/ p # q
      BY <1>0, <1>9, <2>1 DEF Brings
    <2>3. QED BY <1>4, <1>9, <2>1, <2>2
  <1>10. x.data = m.data /\ x.given = m.given
    BY <1>0, <1>6 DEF Extends
  <1>11. QED BY <1>3, <1>4, <1>7, <1>8, <1>9, <1>10 DEF Extends

LEMMA OneMoreUntouched ==
  ASSUME NEW m, NEW L, NEW k, NEW o, NEW New, NEW n, NEW q, NEW e, NEW x,
         OneMore(m, n, x, L, o, New, k, q, e), NEW f, Untouched(n, L, f), f # e.to
  PROVE  Untouched(x, L, f)
  <1>1. PICK own, path : Fits(n, L, own, path)
    BY DEF OneMore, Extends, Good
  <1>2. /\ Base(n, L) /\ Brings(n, L, o, q, e)
        /\ Set(n, x, Above(n, o, q), q[Len(q)], e)
    BY DEF OneMore, Extends, Good
  <1>3. QED BY <1>1, <1>2, SetUntouched

LEMMA MapStageFirst ==
  ASSUME NEW m, NEW L, NEW s, NEW o, NEW a, NEW phys, NEW user, NEW writable,
         MapCall(m, L, s, o, a, phys, user, writable)
  PROVE  MapStage(m, L, s, o, a, phys, 0, [m |-> m, table |-> s])
  <1>1. Cardinality(m.free) \in Nat
    BY FramesFinite, MemIs DEF MapCall, Good, Base
  <1>2. Cardinality(m.free) >= Cardinality(m.free) - 0
    BY <1>1
  <1>3. Levels # 0 /\ 0 # Levels
    BY Numbers
  <1>4. phys \in Frame => phys \notin m.free /\ Untouched(m, L, phys)
    BY Sets DEF MapCall
  <1> DEFINE w == [m |-> m, table |-> s]
  <1>5. w.m = m /\ w.table = s
    OBVIOUS
  <1> HIDE DEF w
  <1>6. Extends(m, w.m, L, o, {Cut(a, j) : j \in 1 .. 0}, 0)
    BY <1>2, <1>5 DEF MapCall, Extends
  <1>7. MapStage(m, L, s, o, a, phys, 0, w)
    BY <1>3, <1>4, <1>5, <1>6 DEF MapStage
  <1>8. QED BY <1>7 DEF w

LEMMA CutUp ==
  ASSUME NEW a \in Address, NEW k \in 1 .. Levels, NEW L, NEW o, Valid(L, o, a)
  PROVE  /\ Valid(L, o, Cut(a, k)) /\ Len(Cut(a, k)) = k /\ Cut(a, k)[k] = a[k] /\ a[k] \in Index
         /\ Cut(a, k) \in Prefix /\ Cut(a, k)[1] = a[1]
         /\ k # 1 => k - 1 \in 1 .. Levels /\ Up(Cut(a, k)) = Cut(a, k - 1)
         /\ Cut(a, Levels) = a
         /\ Cut(a, k) \notin {Cut(a, j) : j \in 1 .. k - 1}
         /\ {Cut(a, j) : j \in 1 .. k} = {Cut(a, j) : j \in 1 .. k - 1} \union {Cut(a, k)}
  <1>1. a \in Prefix /\ Len(a) = Levels
    BY AddressIs
  <1>2. /\ Cut(a, k) \in Prefix /\ Len(Cut(a, k)) = k /\ Cut(a, k)[k] = a[k] /\ Cut(a, k)[1] = a[1]
        /\ k # 1 => k - 1 \in 1 .. Levels /\ Up(Cut(a, k)) = Cut(a, k - 1)
        /\ Cut(a, Levels) = a
    BY <1>1, CutIs
  <1>3. a[k] \in Index
    BY DEF Address
  <1>4. k \in Nat /\ \A j \in 1 .. k - 1 : j \in 1 .. Levels /\ j # k
    BY Numbers
  <1>5. \A j \in 1 .. k - 1 : Len(Cut(a, j)) = j
    BY <1>1, <1>4, CutIs
  <1>6. Cut(a, k) \notin {Cut(a, j) : j \in 1 .. k - 1}
    BY <1>2, <1>4, <1>5
  <1>7. {Cut(a, j) : j \in 1 .. k} = {Cut(a, j) : j \in 1 .. k - 1} \union {Cut(a, k)}
    <2>1. \A j : j \in 1 .. k <=> j \in 1 .. k - 1 \/ j = k
      BY Numbers
    <2>2. QED BY <2>1
  <1>8. Valid(L, o, Cut(a, k))
    BY <1>2 DEF Valid
  <1>9. QED BY <1>2, <1>3, <1>6, <1>7, <1>8

LEMMA MapCallIs ==
  ASSUME NEW m, NEW L, NEW s, NEW o, NEW a, NEW phys, NEW user, NEW writable,
         MapCall(m, L, s, o, a, phys, user, writable)
  PROVE  /\ phys = Nil \/ (phys \in Device /\ o = Root) \/ phys \in Frame
         /\ s = o /\ o = Root => L = {} /\ a[1] \in KernelTop /\ ~user
         /\ s # o => s \in L /\ o = Root /\ a[1] \in KernelTop /\ Present(m.tab[Root][a[1]])
         /\ user \in BOOLEAN /\ writable \in BOOLEAN /\ (o # Root => user)
         /\ Cardinality(m.free) >= Levels
  <1>1. phys = Nil \/ (phys \in Device /\ o = Root) \/ phys \in Frame
    BY Zenon DEF MapCall
  <1>2. s = o /\ o = Root => L = {} /\ a[1] \in KernelTop /\ ~user
    <2>1. s = o /\ o = Root => s \notin L
      BY Sets DEF MapCall, Good, Base
    <2>2. QED BY <2>1 DEF MapCall
  <1>3. s # o => s \in L /\ o = Root /\ a[1] \in KernelTop /\ Present(m.tab[Root][a[1]])
    BY DEF MapCall
  <1>4. user \in BOOLEAN /\ writable \in BOOLEAN /\ (o # Root => user)
        /\ Cardinality(m.free) >= Levels
    BY DEF MapCall
  <1>5. QED BY <1>1, <1>2, <1>3, <1>4

LEMMA MapStageNext ==
  ASSUME NEW m, NEW L, NEW s, NEW o, NEW a, NEW phys, NEW user, NEW writable,
         MapCall(m, L, s, o, a, phys, user, writable),
         NEW k \in 1 .. Levels, NEW w, MapStage(m, L, s, o, a, phys, k - 1, w)
  PROVE  MapStage(m, L, s, o, a, phys, k, MapStep(w, a, phys, user, writable, k))
  <1>1. PICK q : q = Cut(a, k)
    OBVIOUS
  <1>2. PICK New : New = {Cut(a, j) : j \in 1 .. k - 1}
    OBVIOUS
  <1>3. /\ a \in Address /\ Valid(L, o, a) /\ Valid(L, o, q) /\ q \in Prefix /\ Len(q) = k
        /\ q[k] = a[k] /\ a[k] \in Index /\ q[1] = a[1]
        /\ (k # 1 => Up(q) = Cut(a, k - 1)) /\ Cut(a, Levels) = a /\ q \notin New
        /\ {Cut(a, j) : j \in 1 .. k} = New \union {q}
    BY <1>1, <1>2, CutUp DEF MapCall
  <1>4. k \in Nat /\ 1 <= k /\ k <= Levels /\ k - 1 \in Nat /\ k - 1 < Levels /\ k - 1 # Levels
        /\ (k - 1 = 0 <=> k = 1) /\ Levels \in Nat
    BY Numbers
  <1>5. PICK n : n = w.m
    OBVIOUS
  <1>6. /\ Extends(m, n, L, o, New, k - 1) /\ Good(n, L)
        /\ phys \in Frame => phys \notin n.free /\ Untouched(n, L, phys)
        /\ k = 1 => n = m /\ w.table = s
        /\ k # 1 => Present(Ent(n, o, Up(q))) /\ w.table = Ent(n, o, Up(q)).to
    BY <1>2, <1>3, <1>4, <1>5 DEF MapStage, Extends
  <1>7. n \in Mem /\ m \in Mem /\ Base(n, L) /\ L \in SUBSET Process
    BY <1>6 DEF MapCall, Good, Base
  <1>8. PICK e : e = n.tab[w.table][a[k]]
    OBVIOUS
  <1>9. \A r, p : Valid(L, r, p) /\ (r # o \/ p \notin New \union {q}) => Ent(n, r, p) = Ent(m, r, p)
    BY <1>6 DEF Extends
  <1>10. Extends(m, n, L, o, New \union {q}, k)
    <2>1. Cardinality(m.free) \in Nat /\ Cardinality(n.free) \in Nat
      BY <1>7, MemIs, FramesFinite
    <2>2. Cardinality(n.free) >= Cardinality(m.free) - (k - 1)
      BY <1>6 DEF Extends
    <2>3. Cardinality(n.free) >= Cardinality(m.free) - k
      BY <1>4, <2>1, <2>2
    <2>4. QED BY <1>6, <1>9, <2>3 DEF Extends
  <1>11. Ent(m, o, q) = Ent(n, o, q)
    BY <1>3, <1>6 DEF Extends
  \* The entry is there.
  <1>12. ASSUME Present(e), Ent(n, o, q) = e
         PROVE  MapStage(m, L, s, o, a, phys, k, MapStep(w, a, phys, user, writable, k))
    <2>1. PICK x : x = MapStep(w, a, phys, user, writable, k)
      OBVIOUS
    <2>2. x = [m |-> n, table |-> e.to]
      BY <1>5, <1>8, <1>12, <2>1 DEF MapStep
    <2>3. x.m = n /\ x.table = e.to
      BY <2>2
    <2>4. k = Levels => Present(Ent(m, o, a))
      BY <1>1, <1>3, <1>11, <1>12
    <2>5. Extends(m, x.m, L, o, {Cut(a, j) : j \in 1 .. k}, k)
      BY <1>3, <1>10, <2>3
    <2>6. Present(Ent(x.m, o, Cut(a, k))) /\ x.table = Ent(x.m, o, Cut(a, k)).to
      BY <1>1, <1>12, <2>3
    <2>7. phys \in Frame => phys \notin x.m.free /\ Untouched(x.m, L, phys)
      BY <1>6, <2>3
    <2>8. k # 0
      BY <1>4
    <2>9. MapStage(m, L, s, o, a, phys, k, x)
      BY <2>4, <2>5, <2>6, <2>7, <2>8 DEF MapStage
    <2>10. QED BY <2>1, <2>9
  <1>13. CASE k = 1 /\ s # o
    <2>1. s \in L /\ o = Root /\ a[1] \in KernelTop /\ Present(m.tab[Root][a[1]])
      BY <1>13 DEF MapCall
    <2>2. e = m.tab[s][a[1]] /\ m.tab[s][a[1]] = m.tab[Root][a[1]]
      BY <1>6, <1>7, <1>8, <1>13, <2>1 DEF Base
    <2>3. Ent(n, o, q) = m.tab[Root][a[1]]
      BY <1>3, <1>6, <1>13, <2>1, EntIs
    <2>4. QED BY <1>12, <2>1, <2>2, <2>3
  <1>14. CASE ~(k = 1 /\ s # o)
    <2>1. w.table = Above(n, o, q) /\ (k # 1 => Present(Ent(n, o, Up(q))))
      BY <1>3, <1>6, <1>14 DEF Above
    <2>2. PICK own, path : Fits(n, L, own, path)
      BY <1>6 DEF Good
    <2>3. Placed(n, L, own, path, o, q)
      BY <1>3, <1>7, <2>1, <2>2, PlaceIs
    <2>4. Ent(n, o, q) = e /\ Slot(n, L, w.table, a[k])
      BY <1>3, <1>8, <2>1, <2>3 DEF Placed
    <2>5. w.table \in Table
      <3>1. L \in SUBSET Process
        BY <1>7 DEF Base
      <3>2. QED BY <2>4, <3>1, SlotTable
    <2>6. CASE Present(e)
      BY <1>12, <2>4, <2>6
    <2>7. CASE ~Present(e)
      <3>1. PICK to : to = IF k = Levels /\ phys # Nil THEN phys ELSE Nth(n.free, 0)
        OBVIOUS
      <3>2. PICK new : new = [user |-> user, writable |-> writable, to |-> to]
        OBVIOUS
      <3>3. n.free # {} /\ Nth(n.free, 0) \in n.free
        <4>1. n.free \in SUBSET Frame /\ m.free \in SUBSET Frame
          BY <1>7, MemIs
        <4>2. Cardinality(n.free) \in Nat /\ Cardinality(m.free) \in Nat
          BY <4>1, FramesFinite
        <4>3. Cardinality(n.free) >= Cardinality(m.free) - (k - 1) /\ Cardinality(m.free) >= Levels
          BY <1>6 DEF Extends, MapCall
        <4>4. Cardinality(n.free) # 0
          BY <1>4, <4>2, <4>3
        <4>5. QED BY <4>1, <4>4, FS_EmptySet, LowestFree
      <3>4. \/ to \in Frame /\ Untouched(n, L, to)
            \/ to \in Device /\ o = Root /\ k = Levels
        <4>1. CASE k = Levels /\ phys # Nil
          <5>1. to = phys
            BY <3>1, <4>1
          <5>2. phys \in Frame \/ (phys \in Device /\ o = Root)
            BY <4>1, MapCallIs
          <5>3. QED BY <1>6, <4>1, <5>1, <5>2
        <4>2. CASE ~(k = Levels /\ phys # Nil)
          <5>1. to \in n.free
            BY <3>1, <3>3, <4>2
          <5>2. Untouched(n, L, to)
            BY <1>6, <5>1, FreeUntouched
          <5>3. QED BY <5>2 DEF Untouched
        <4>3. QED BY <4>1, <4>2
      <3>5. /\ new \in Entry /\ new.to = to /\ new.user = user /\ Present(new)
        <4>1. to \in Frame \union Device /\ to # Nil
          BY <3>4, Sets
        <4>2. user \in BOOLEAN /\ writable \in BOOLEAN
          BY DEF MapCall
        <4>3. QED BY <3>2, <4>1, <4>2 DEF Entry, Present
      <3>6. Brings(n, L, o, q, new)
        <4>1. o = Root /\ k = 1 => L = {} /\ a[1] \in KernelTop /\ ~user
          BY <1>14, MapCallIs
        <4>2. o # Root => user
          BY DEF MapCall
        <4>3. QED BY <1>3, <2>1, <2>4, <2>7, <3>4, <3>5, <4>1, <4>2 DEF Brings
      <3>7. PICK x : x = [n EXCEPT !.tab[w.table][a[k]] = new, !.free = @ \ {new.to}]
        OBVIOUS
      <3>8. Set(n, x, w.table, a[k], new)
        BY <1>3, <1>7, <2>5, <3>5, <3>7, SetIs
      <3>9. Set(n, x, Above(n, o, q), q[Len(q)], new)
        BY <1>3, <2>1, <3>8
      <3>10. /\ Extends(m, x, L, o, New \union {q}, (k - 1) + 1) /\ Ent(x, o, q) = new
             /\ \A f : Untouched(n, L, f) /\ f # to => Untouched(x, L, f)
        <4>1. PICK k0 : k0 = k - 1
          OBVIOUS
        <4>2. k0 \in Nat /\ Extends(m, n, L, o, New, k0)
          BY <1>4, <1>6, <4>1
        <4>3. OneMore(m, n, x, L, o, New, k0, q, new)
          BY <1>7, <3>6, <3>9, <4>2 DEF OneMore
        <4>4. Extends(m, x, L, o, New \union {q}, k0 + 1) /\ Ent(x, o, q) = new
          BY <4>3, ExtendsSet
        <4>5. \A f : Untouched(n, L, f) /\ f # new.to => Untouched(x, L, f)
          BY <4>3, OneMoreUntouched
        <4>6. QED BY <3>5, <4>1, <4>4, <4>5
      <3>11. PICK y : y = MapStep(w, a, phys, user, writable, k)
        OBVIOUS
      <3>12. y = [m |-> x, table |-> to]
        BY <1>5, <1>8, <2>7, <3>1, <3>2, <3>5, <3>7, <3>11 DEF MapStep
      <3>13. y.m = x /\ y.table = to
        BY <3>12
      <3>14. phys \in Frame /\ k < Levels => phys \notin x.free /\ Untouched(x, L, phys)
        <4>1. SUFFICES ASSUME phys \in Frame, k < Levels PROVE phys \notin x.free /\ Untouched(x, L, phys)
          OBVIOUS
        <4>2. phys \notin n.free /\ Untouched(n, L, phys)
          BY <1>6, <4>1
        <4>3. phys # to
          <5>1. k # Levels
            BY <1>4, <4>1
          <5>2. QED BY <3>1, <3>3, <4>2, <5>1
        <4>4. QED BY <3>5, <3>8, <3>10, <4>2, <4>3 DEF Set
      <3>15. (k - 1) + 1 = k
        BY <1>4
      <3>16. MapStage(m, L, s, o, a, phys, k, y)
        <4>1. Extends(m, y.m, L, o, {Cut(a, j) : j \in 1 .. k}, k)
          BY <1>3, <3>10, <3>13, <3>15
        <4>2. Present(Ent(y.m, o, Cut(a, k))) /\ y.table = Ent(y.m, o, Cut(a, k)).to
          BY <1>1, <3>5, <3>10, <3>13
        <4>3. phys \in Frame /\ k < Levels => phys \notin y.m.free /\ Untouched(y.m, L, phys)
          BY <3>13, <3>14
        <4>4. k = Levels /\ phys # Nil => y.table = phys
          BY <3>1, <3>13
        <4>5. k # 0
          BY <1>4
        <4>6. QED BY <4>1, <4>2, <4>3, <4>4, <4>5 DEF MapStage
      <3>17. QED BY <3>11, <3>16
    <2>8. QED BY <2>6, <2>7
  <1>15. QED BY <1>13, <1>14

(* Mapping a page keeps memory whole and every walk but those along its own *)
(* address, and leads that address somewhere.                               *)
LEMMA MapPageIs ==
  ASSUME NEW m, NEW L, NEW s, NEW o, NEW a, NEW phys, NEW user, NEW writable,
         MapCall(m, L, s, o, a, phys, user, writable)
  PROVE  LET n == MapPage(m, s, a, phys, user, writable) IN
         /\ Extends(m, n, L, o, {Cut(a, j) : j \in 1 .. Levels}, Levels)
         /\ Present(Ent(n, o, a))
         /\ phys # Nil /\ ~Present(Ent(m, o, a)) => Ent(n, o, a).to = phys
  <1>1. PICK g : /\ g[0] = [m |-> m, table |-> s]
                 /\ \A k \in 1 .. Levels : g[k] = MapStep(g[k - 1], a, phys, user, writable, k)
                 /\ MapPage(m, s, a, phys, user, writable) = g[Levels].m
    BY MapIs
  <1> DEFINE S == {k \in 0 .. Levels : MapStage(m, L, s, o, a, phys, k, g[k])}
  <1>2. Levels \in Nat /\ Levels # 0 /\ 0 \in 0 .. Levels /\ Levels \in 0 .. Levels
    BY Numbers
  <1>3. 0 \in S
    BY <1>1, <1>2, MapStageFirst
  <1>4. \A k \in 0 .. Levels : k \in S /\ k # Levels => k + 1 \in S
    <2>1. SUFFICES ASSUME NEW k \in 0 .. Levels, k \in S, k # Levels PROVE k + 1 \in S
      OBVIOUS
    <2>2. PICK j : j = k + 1 /\ j \in 1 .. Levels /\ j - 1 = k /\ j \in 0 .. Levels
      BY <1>2, <2>1
    <2>3. MapStage(m, L, s, o, a, phys, j - 1, g[j - 1])
      BY <2>1, <2>2
    <2>4. MapStage(m, L, s, o, a, phys, j, MapStep(g[j - 1], a, phys, user, writable, j))
      BY <2>2, <2>3, MapStageNext
    <2>5. MapStage(m, L, s, o, a, phys, j, g[j])
      BY <1>1, <2>2, <2>4
    <2>6. QED BY <2>2, <2>5
  <1> HIDE DEF S
  <1>5. Levels \in S
    BY <1>2, <1>3, <1>4, Ladder
  <1>6. MapStage(m, L, s, o, a, phys, Levels, g[Levels])
    BY <1>5 DEF S
  <1>7. Cut(a, Levels) = a
    <2>1. Levels \in 1 .. Levels
      BY Numbers
    <2>2. QED BY <2>1, CutUp DEF MapCall
  <1>8. QED BY <1>1, <1>2, <1>6, <1>7 DEF MapStage

----------------------------------------------------------------------------
(* Pages are mapped one after the other                                     *)

LEMMA ExtendsSelf ==
  ASSUME NEW m, NEW L, NEW o, Good(m, L)
  PROVE  Extends(m, m, L, o, {}, 0)
  <1>1. Cardinality(m.free) \in Nat
    BY FramesFinite, MemIs DEF Good, Base
  <1>2. Cardinality(m.free) >= Cardinality(m.free) - 0
    BY <1>1
  <1>3. QED BY <1>2 DEF Extends

\* Memory m has become n and then x.
Twice(m, n, x, L, o, New, More, k, j) ==
  /\ m \in Mem /\ k \in Nat /\ j \in Nat
  /\ Extends(m, n, L, o, New, k) /\ Extends(n, x, L, o, More, j)

LEMMA ExtendsTwice ==
  ASSUME NEW m, NEW n, NEW x, NEW L, NEW o, NEW New, NEW More, NEW k, NEW j,
         Twice(m, n, x, L, o, New, More, k, j)
  PROVE  Extends(m, x, L, o, New \union More, k + j)
  <1>1. /\ m \in Mem /\ k \in Nat /\ j \in Nat
        /\ Extends(m, n, L, o, New, k) /\ Extends(n, x, L, o, More, j)
    BY DEF Twice
  <1>2. /\ Good(n, L) /\ n.data = m.data /\ n.given = m.given /\ n.free \subseteq m.free
        /\ Cardinality(n.free) >= Cardinality(m.free) - k
        /\ \A r, p : Valid(L, r, p) /\ (r # o \/ p \notin New) => Ent(n, r, p) = Ent(m, r, p)
        /\ \A r, p : Valid(L, r, p) /\ Present(Ent(m, r, p)) => Ent(n, r, p) = Ent(m, r, p)
    BY <1>1 DEF Extends
  <1>3. /\ Good(x, L) /\ x.data = n.data /\ x.given = n.given /\ x.free \subseteq n.free
        /\ Cardinality(x.free) >= Cardinality(n.free) - j
        /\ \A r, p : Valid(L, r, p) /\ (r # o \/ p \notin More) => Ent(x, r, p) = Ent(n, r, p)
        /\ \A r, p : Valid(L, r, p) /\ Present(Ent(n, r, p)) => Ent(x, r, p) = Ent(n, r, p)
    BY <1>1 DEF Extends
  <1>4. Cardinality(x.free) >= Cardinality(m.free) - (k + j)
    <2>1. m.free \in SUBSET Frame /\ n.free \in SUBSET Frame /\ x.free \in SUBSET Frame
      BY <1>1, <1>2, <1>3, MemIs
    <2>2. /\ Cardinality(m.free) \in Nat /\ Cardinality(n.free) \in Nat
          /\ Cardinality(x.free) \in Nat
      BY <2>1, FramesFinite
    <2>3. QED BY <1>1, <1>2, <1>3, <2>2
  <1>5. ASSUME NEW r, NEW p, Valid(L, r, p), r # o \/ p \notin New \union More
        PROVE  Ent(x, r, p) = Ent(m, r, p)
    BY <1>2, <1>3, <1>5
  <1>6. ASSUME NEW r, NEW p, Valid(L, r, p), Present(Ent(m, r, p))
        PROVE  Ent(x, r, p) = Ent(m, r, p)
    BY <1>2, <1>3, <1>6
  <1>7. x.data = m.data /\ x.given = m.given /\ x.free \subseteq m.free
    BY <1>2, <1>3
  <1>8. QED BY <1>3, <1>4, <1>5, <1>6, <1>7 DEF Extends

PagesTo(m, s, pages, user, writable, n, g) ==
  g = [i \in 0 .. n |-> IF i = 0 THEN m ELSE MapPage(g[i - 1], s, pages[i], Nil, user, writable)]

LEMMA PagesFound ==
  ASSUME NEW m, NEW s, NEW pages, NEW user, NEW writable, NEW n \in Nat
  PROVE  \E g : PagesTo(m, s, pages, user, writable, n, g)
  <1> DEFINE S == {j \in 0 .. n : \E g : PagesTo(m, s, pages, user, writable, j, g)}
             Rung(x, k) == IF k = 0 THEN m ELSE MapPage(x, s, pages[k], Nil, user, writable)
  <1>1. 0 \in S
    <2>1. PICK g : g = [k \in 0 .. 0 |-> m]
      OBVIOUS
    <2>2. \A k \in 0 .. 0 : k = 0
      OBVIOUS
    <2>3. \A k \in 0 .. 0 : m = Rung(g[k - 1], k)
      BY <2>2
    <2> HIDE DEF Rung
    <2>4. g = [k \in 0 .. 0 |-> Rung(g[k - 1], k)]
      BY <2>1, <2>3
    <2>5. PagesTo(m, s, pages, user, writable, 0, g)
      BY <2>4 DEF PagesTo, Rung
    <2>6. 0 \in 0 .. n
      OBVIOUS
    <2>7. QED BY <2>5, <2>6
  <1>2. \A j \in 0 .. n : j \in S /\ j # n => j + 1 \in S
    <2>1. SUFFICES ASSUME NEW j \in 0 .. n, j \in S, j # n PROVE j + 1 \in S
      OBVIOUS
    <2>2. PICK g : PagesTo(m, s, pages, user, writable, j, g)
      BY <2>1
    <2>3. \A k \in 0 .. j : g[k] = Rung(g[k - 1], k)
      BY <2>2 DEF PagesTo
    <2> HIDE DEF Rung
    <2>4. PICK h : h = [k \in 0 .. j + 1 |-> IF k = j + 1 THEN Rung(g[k - 1], k) ELSE g[k]]
      OBVIOUS
    <2>5. \A k \in 0 .. j + 1 : k # 0 => k - 1 \in 0 .. j + 1 /\ k - 1 # j + 1
      OBVIOUS
    <2>6. \A k \in 0 .. j + 1 : k # 0 => h[k - 1] = g[k - 1]
      BY <2>4, <2>5
    <2>7. \A k \in 0 .. j + 1 : Rung(h[k - 1], k) = Rung(g[k - 1], k)
      BY <2>6 DEF Rung
    <2>8. \A k \in 0 .. j + 1 : h[k] = Rung(h[k - 1], k)
      <3>1. \A k \in 0 .. j + 1 : k = j + 1 \/ k \in 0 .. j
        OBVIOUS
      <3>2. QED BY <2>3, <2>4, <2>7, <3>1
    <2>9. h = [k \in 0 .. j + 1 |-> Rung(h[k - 1], k)]
      BY <2>4, <2>8
    <2>10. PagesTo(m, s, pages, user, writable, j + 1, h)
      BY <2>9 DEF PagesTo, Rung
    <2>11. j + 1 \in 0 .. n
      BY <2>1
    <2>12. QED BY <2>10, <2>11
  <1> HIDE DEF S
  <1>3. n \in S
    BY <1>1, <1>2, Ladder
  <1>4. QED BY <1>3 DEF S

LEMMA PagesAre ==
  ASSUME NEW m, NEW s, NEW pages, NEW user, NEW writable, Len(pages) \in Nat
  PROVE  \E g : /\ g[0] = m
                /\ \A i \in 1 .. Len(pages) : g[i] = MapPage(g[i - 1], s, pages[i], Nil, user, writable)
                /\ MapPages(m, s, pages, user, writable) = g[Len(pages)]
  <1>1. \E g : PagesTo(m, s, pages, user, writable, Len(pages), g)
    BY PagesFound
  <1>2. \E g : /\ PagesTo(m, s, pages, user, writable, Len(pages), g)
               /\ MapPages(m, s, pages, user, writable) = g[Len(pages)]
    BY <1>1, Zenon DEF PagesTo, MapPages
  <1>3. PICK g : /\ PagesTo(m, s, pages, user, writable, Len(pages), g)
                 /\ MapPages(m, s, pages, user, writable) = g[Len(pages)]
    BY <1>2
  <1> DEFINE Rung(x, k) == IF k = 0 THEN m ELSE MapPage(x, s, pages[k], Nil, user, writable)
  <1>4. \A k \in 0 .. Len(pages) : g[k] = Rung(g[k - 1], k)
    BY <1>3 DEF PagesTo
  <1> HIDE DEF Rung
  <1>5. 0 \in 0 .. Len(pages) /\ \A k \in 1 .. Len(pages) : k \in 0 .. Len(pages) /\ k # 0
    <2>1. \A n \in Nat : 0 \in 0 .. n /\ \A k \in 1 .. n : k \in 0 .. n /\ k # 0
      OBVIOUS
    <2>2. QED BY <2>1
  <1>6. g[0] = Rung(g[0 - 1], 0) /\ \A k \in 1 .. Len(pages) : g[k] = Rung(g[k - 1], k)
    BY <1>4, <1>5
  <1>7. g[0] = m /\ \A k \in 1 .. Len(pages) : g[k] = MapPage(g[k - 1], s, pages[k], Nil, user, writable)
    BY <1>5, <1>6 DEF Rung
  <1>8. QED BY <1>3, <1>7

LEMMA TimesGrows ==
  ASSUME NEW l \in Nat, NEW k \in Nat, NEW n \in Nat, k < n
  PROVE  l * k \in Nat /\ l * (k + 1) = l * k + l /\ l * n \in Nat /\ l * k + l <= l * n
  <1>1. PICK d \in Nat : n = k + 1 + d
    <2>1. n - (k + 1) \in Nat /\ n = k + 1 + (n - (k + 1))
      OBVIOUS
    <2>2. QED BY <2>1
  <1>2. l * k \in Nat /\ l * d \in Nat /\ l * n \in Nat
    OBVIOUS
  <1>3. l * (k + 1) = l * k + l
    OBVIOUS
  <1>4. l * n = l * k + l + l * d
    BY <1>1
  <1>5. QED BY <1>2, <1>3, <1>4

\* What map_pages_ex is called with.
PagesCall(m, L, o, pages, user, writable) ==
  /\ Good(m, L) /\ pages \in Seq(Address)
  /\ \A i \in 1 .. Len(pages) : Valid(L, o, pages[i]) /\ (o = Root => pages[i][1] \in KernelTop)
  /\ o = Root => L = {} /\ ~user
  /\ user \in BOOLEAN /\ writable \in BOOLEAN /\ (o # Root => user)
  /\ Cardinality(m.free) >= Levels * Len(pages)

CutsOf(pages, n) == {Cut(pages[i], j) : i \in 1 .. n, j \in 1 .. Levels}

PagesStage(m, L, o, pages, k, n) ==
  /\ Extends(m, n, L, o, CutsOf(pages, k), Levels * k)
  /\ \A i \in 1 .. k : Present(Ent(n, o, pages[i]))

LEMMA PagesStageNext ==
  ASSUME NEW m, NEW L, NEW o, NEW pages, NEW user, NEW writable,
         PagesCall(m, L, o, pages, user, writable),
         NEW k \in Nat, k < Len(pages), NEW n, PagesStage(m, L, o, pages, k, n)
  PROVE  PagesStage(m, L, o, pages, k + 1, MapPage(n, o, pages[k + 1], Nil, user, writable))
  <1>1. PICK x : x = MapPage(n, o, pages[k + 1], Nil, user, writable)
    OBVIOUS
  <1>2. PICK a : a = pages[k + 1]
    OBVIOUS
  <1>3. PICK j : j = k + 1
    OBVIOUS
  <1>4. pages \in Seq(Address) /\ Len(pages) \in Nat /\ j \in 1 .. Len(pages) /\ a \in Address
    <2>1. pages \in Seq(Address)
      BY DEF PagesCall
    <2>2. Len(pages) \in Nat
      BY <2>1
    <2>3. j \in 1 .. Len(pages)
      BY <1>3, <2>2
    <2>4. QED BY <1>2, <1>3, <2>1, <2>2, <2>3
  <1>5. m \in Mem /\ Good(n, L) /\ n \in Mem /\ Valid(L, o, a) /\ (o = Root => a[1] \in KernelTop)
    BY <1>2, <1>3, <1>4 DEF PagesCall, PagesStage, Extends, Good, Base
  <1>6. Cardinality(n.free) >= Levels
    <2>1. Cardinality(n.free) \in Nat /\ Cardinality(m.free) \in Nat
      BY <1>5, MemIs, FramesFinite
    <2>2. /\ Cardinality(m.free) >= Levels * Len(pages)
          /\ Cardinality(n.free) >= Cardinality(m.free) - Levels * k
      BY DEF PagesCall, PagesStage, Extends
    <2>3. Levels \in Nat /\ Levels * k \in Nat /\ Levels * Len(pages) \in Nat
          /\ Levels * k + Levels <= Levels * Len(pages)
      BY <1>4, Numbers, TimesGrows
    <2>4. QED BY <2>1, <2>2, <2>3
  <1>7. o = Root \/ o \in L
    BY <1>5 DEF Valid
  <1>8. MapCall(n, L, o, o, a, Nil, user, writable)
    BY <1>4, <1>5, <1>6, <1>7 DEF PagesCall, MapCall
  <1>9. Extends(n, x, L, o, {Cut(a, i) : i \in 1 .. Levels}, Levels) /\ Present(Ent(x, o, a))
    BY <1>1, <1>2, <1>8, MapPageIs
  <1>10. PICK New, More : New = CutsOf(pages, k) /\ More = {Cut(a, i) : i \in 1 .. Levels}
    OBVIOUS
  <1>11. CutsOf(pages, j) = New \union More
    <2>1. \A i : i \in 1 .. j <=> i \in 1 .. k \/ i = j
      BY <1>3
    <2>2. pages[j] = a
      BY <1>2, <1>3
    <2>3. QED BY <1>10, <2>1, <2>2 DEF CutsOf
  <1>12. Twice(m, n, x, L, o, New, More, Levels * k, Levels)
    <2>1. Levels \in Nat /\ Levels * k \in Nat
      BY <1>4, Numbers, TimesGrows
    <2>2. QED BY <1>5, <1>9, <1>10, <2>1 DEF Twice, PagesStage
  <1>13. Extends(m, x, L, o, New \union More, Levels * k + Levels)
    BY <1>12, ExtendsTwice
  <1>14. Levels * j = Levels * k + Levels
    BY <1>3, <1>4, Numbers, TimesGrows
  <1>15. ASSUME NEW i \in 1 .. j PROVE Present(Ent(x, o, pages[i]))
    <2>1. CASE i = j
      BY <1>2, <1>3, <1>9, <2>1
    <2>2. CASE i # j
      <3>1. i \in 1 .. k /\ i \in 1 .. Len(pages)
        BY <1>3, <1>4, <2>2
      <3>2. Present(Ent(n, o, pages[i])) /\ Valid(L, o, pages[i])
        BY <3>1 DEF PagesStage, PagesCall
      <3>3. Ent(x, o, pages[i]) = Ent(n, o, pages[i])
        BY <1>9, <3>2 DEF Extends
      <3>4. QED BY <3>2, <3>3
    <2>3. QED BY <2>1, <2>2
  <1>16. PagesStage(m, L, o, pages, j, x)
    BY <1>11, <1>13, <1>14, <1>15 DEF PagesStage
  <1>17. QED BY <1>1, <1>3, <1>16

LEMMA MapPagesIs ==
  ASSUME NEW m, NEW L, NEW o, NEW pages, NEW user, NEW writable,
         PagesCall(m, L, o, pages, user, writable)
  PROVE  PagesStage(m, L, o, pages, Len(pages), MapPages(m, o, pages, user, writable))
  <1>1. PICK n \in Nat : n = Len(pages)
    BY DEF PagesCall
  <1>2. PICK g : /\ g[0] = m
                 /\ \A i \in 1 .. n : g[i] = MapPage(g[i - 1], o, pages[i], Nil, user, writable)
                 /\ MapPages(m, o, pages, user, writable) = g[n]
    <2>1. Len(pages) \in Nat
      BY <1>1
    <2>2. PICK g : /\ g[0] = m
                   /\ \A i \in 1 .. Len(pages) :
                        g[i] = MapPage(g[i - 1], o, pages[i], Nil, user, writable)
                   /\ MapPages(m, o, pages, user, writable) = g[Len(pages)]
      BY <2>1, PagesAre
    <2>3. QED BY <1>1, <2>2
  <1> DEFINE S == {k \in 0 .. n : PagesStage(m, L, o, pages, k, g[k])}
  <1>3. 0 \in S
    <2>1. CutsOf(pages, 0) = {} /\ Levels * 0 = 0 /\ \A i \in 1 .. 0 : FALSE
      <3>1. \A i \in 1 .. 0 : FALSE
        OBVIOUS
      <3>2. QED BY <3>1, Numbers DEF CutsOf
    <2>2. Extends(m, m, L, o, {}, 0)
      BY ExtendsSelf DEF PagesCall
    <2>3. PagesStage(m, L, o, pages, 0, g[0])
      BY <1>2, <2>1, <2>2 DEF PagesStage
    <2>4. 0 \in 0 .. n
      OBVIOUS
    <2>5. QED BY <2>3, <2>4
  <1>4. \A k \in 0 .. n : k \in S /\ k # n => k + 1 \in S
    <2>1. SUFFICES ASSUME NEW k \in 0 .. n, k \in S, k # n PROVE k + 1 \in S
      OBVIOUS
    <2>2. k \in Nat /\ k < n /\ k + 1 \in 1 .. n /\ k + 1 \in 0 .. n /\ (k + 1) - 1 = k
      BY <2>1
    <2>3. PagesStage(m, L, o, pages, k, g[k])
      BY <2>1
    <2>4. PagesStage(m, L, o, pages, k + 1, MapPage(g[k], o, pages[k + 1], Nil, user, writable))
      BY <1>1, <2>2, <2>3, PagesStageNext
    <2>5. PagesStage(m, L, o, pages, k + 1, g[k + 1])
      BY <1>2, <2>2, <2>4
    <2>6. QED BY <2>2, <2>5
  <1> HIDE DEF S
  <1>5. n \in S
    <2>1. 0 \in Nat /\ n \in 0 .. n
      OBVIOUS
    <2>2. QED BY <1>3, <1>4, <2>1, Ladder
  <1>6. QED BY <1>1, <1>2, <1>5 DEF S

----------------------------------------------------------------------------
(* What a step leaves of the other spaces                                   *)

\* Walks stay as they are, but for the ends that A has, if no other entry changes.
LEMMA WalksKeptBut ==
  ASSUME NEW m, NEW L, NEW own, NEW path, Base(m, L), Fits(m, L, own, path), NEW r, NEW n,
         NEW A, \A p \in Prefix : Len(p) # 1 => Up(p) \notin A,
         \A t, i : Slot(m, L, t, i) /\ own[t] = r /\ Append(path[t], i) \notin A
                     => n.tab[t][i] = m.tab[t][i],
         NEW q, Valid(L, r, q), q \notin A
  PROVE  Ent(n, r, q) = Ent(m, r, q)
  <1> DEFINE S == {k \in 1 .. Levels : \A p \in Prefix :
                     Len(p) = k /\ Valid(L, r, p) /\ p \notin A => Ent(n, r, p) = Ent(m, r, p)}
  <1>1. Levels \in Nat /\ 1 \in 1 .. Levels
    BY Numbers
  <1>2. ASSUME NEW p \in Prefix, Valid(L, r, p), p \notin A,
               Len(p) # 1 => Present(Ent(m, r, Up(p))) /\ Ent(n, r, Up(p)) = Ent(m, r, Up(p))
        PROVE  Ent(n, r, p) = Ent(m, r, p)
    <2>1. Placed(m, L, own, path, r, p)
      BY <1>2, PlaceIs
    <2>2. n.tab[Above(m, r, p)][p[Len(p)]] = Ent(m, r, p)
      BY <1>2, <2>1, PathAboveIs DEF Placed
    <2>3. Ent(n, r, p) = n.tab[Above(m, r, p)][p[Len(p)]]
      BY <1>2, EntIs DEF Above
    <2>4. QED BY <2>2, <2>3
  <1>3. 1 \in S
    BY <1>1, <1>2
  <1>4. \A k \in 1 .. Levels : k \in S /\ k # Levels => k + 1 \in S
    <2>1. SUFFICES ASSUME NEW k \in 1 .. Levels, k \in S, k # Levels PROVE k + 1 \in S
      OBVIOUS
    <2>2. k + 1 \in 1 .. Levels /\ k + 1 # 1 /\ (k + 1) - 1 = k
      BY <1>1, <2>1
    <2>3. ASSUME NEW p \in Prefix, Len(p) = k + 1, Valid(L, r, p), p \notin A
          PROVE  Ent(n, r, p) = Ent(m, r, p)
      <3>1. /\ Up(p) \in Prefix /\ Len(Up(p)) = k /\ Valid(L, r, Up(p))
            /\ Len(p) # 1 /\ Up(p) \notin A
        BY <2>2, <2>3, UpIs, ValidUp
      <3>2. Ent(n, r, Up(p)) = Ent(m, r, Up(p))
        BY <2>1, <3>1
      <3>3. CASE Present(Ent(m, r, Up(p)))
        BY <1>2, <2>3, <3>2, <3>3
      <3>4. CASE ~Present(Ent(m, r, Up(p)))
        BY <3>1, <3>2, <3>4, EntIs
      <3>5. QED BY <3>3, <3>4
    <2>4. QED BY <2>2, <2>3
  <1> HIDE DEF S
  <1>5. \A k \in 1 .. Levels : k \in S
    BY <1>1, <1>3, <1>4, Ladder
  <1>6. q \in Prefix /\ Len(q) \in 1 .. Levels
    BY PrefixIs DEF Valid
  <1>7. QED BY <1>5, <1>6 DEF S

LEMMA WalksKept ==
  ASSUME NEW m, NEW L, NEW own, NEW path, Base(m, L), Fits(m, L, own, path), NEW r, NEW n,
         \A t, i : Slot(m, L, t, i) /\ own[t] = r => n.tab[t][i] = m.tab[t][i],
         NEW q, Valid(L, r, q)
  PROVE  Ent(n, r, q) = Ent(m, r, q)
  <1>1. PICK A : A = {}
    OBVIOUS
  <1>2. (\A p \in Prefix : Len(p) # 1 => Up(p) \notin A) /\ q \notin A
    BY <1>1
  <1>3. \A t, i : Slot(m, L, t, i) /\ own[t] = r /\ Append(path[t], i) \notin A
                   => n.tab[t][i] = m.tab[t][i]
    OBVIOUS
  <1>4. QED BY <1>2, <1>3, WalksKeptBut

\* A page of a process is in a frame that has its label.
LEMMA OwnFrame ==
  ASSUME NEW m, NEW L, NEW own, NEW path, Base(m, L), Fits(m, L, own, path),
         NEW r \in L, NEW q, Valid(L, r, q), Present(Ent(m, r, q))
  PROVE  /\ Ent(m, r, q).to \in Used(m) /\ Ent(m, r, q).to \in Frame
         /\ own[Ent(m, r, q).to] = r /\ path[Ent(m, r, q).to] = q
         /\ Ent(m, r, q).user
  <1>1. r # Root /\ L \in SUBSET Process
    BY Sets DEF Base
  <1>2. Reached(m, L, own, path, r, q)
    BY EntFits
  <1>3. QED BY <1>1, <1>2, InUseIs DEF Reached

\* The other processes' walks and pages are as they were.
Others(m, n, L, p) ==
  \A r \in L \ {p}, q \in Prefix : Valid(L, r, q) =>
    /\ Ent(n, r, q) = Ent(m, r, q)
    /\ Present(Ent(m, r, q)) => n.data[Ent(m, r, q).to] = m.data[Ent(m, r, q).to]

RootKept(m, n) == \A q \in Prefix : Ent(n, Root, q) = Ent(m, Root, q)

\* The kernel's part is as it was, but for some pages.
RootKeptBut(m, n, A) == \A q \in Prefix : q \notin A => Ent(n, Root, q) = Ent(m, Root, q)

ViewOf(m, p) ==
  [a \in UserPages |->
     IF Readable(m, p, a)
     THEN <<m.data[Target(m, p, a)], Writable(m, p, a)>> ELSE <<>>]

LEMMA CutValid ==
  ASSUME NEW L, NEW r \in L, NEW a \in UserPages, NEW k \in 1 .. Levels
  PROVE  /\ a \in Address /\ a \in Prefix /\ Valid(L, r, a) /\ Len(a) = Levels
         /\ Cut(a, k) \in Prefix /\ Valid(L, r, Cut(a, k)) /\ Len(Cut(a, k)) = k
         /\ Cut(a, Levels) = a
  <1>1. a \in Address /\ a[1] \notin KernelTop
    BY DEF UserPages, KernelPages
  <1>2. a \in Prefix /\ Len(a) = Levels
    BY <1>1, AddressIs
  <1>3. Cut(a, k) \in Prefix /\ Cut(a, k)[1] = a[1] /\ Len(Cut(a, k)) = k /\ Cut(a, Levels) = a
    BY <1>2, CutIs
  <1>4. QED BY <1>1, <1>2, <1>3 DEF Valid

LEMMA ReadableIs ==
  ASSUME NEW m, NEW s, NEW a \in Address
  PROVE  /\ Readable(m, s, a) <=> \A k \in 1 .. Levels : UsedBy(Ent(m, s, Cut(a, k)))
         /\ Writable(m, s, a) <=>
              Readable(m, s, a) /\ \A k \in 1 .. Levels : Ent(m, s, Cut(a, k)).writable
         /\ Readable(m, s, a) => Present(Ent(m, s, a)) /\ Ent(m, s, a).user
  <1>1. a \in Prefix /\ Len(a) = Levels
    BY AddressIs
  <1>2. \A k \in 1 .. Levels : Way(m, s, a)[k] = Ent(m, s, Cut(a, k))
    BY <1>1, WayCut
  <1>3. Cut(a, Levels) = a /\ Levels \in 1 .. Levels
    BY <1>1, CutIs, PrefixIs
  <1>4. Readable(m, s, a) <=> \A k \in 1 .. Levels : UsedBy(Ent(m, s, Cut(a, k)))
    BY <1>2 DEF Readable, UsedBy
  <1>5. Writable(m, s, a) <=>
          Readable(m, s, a) /\ \A k \in 1 .. Levels : Ent(m, s, Cut(a, k)).writable
    BY <1>2 DEF Writable
  <1>6. QED BY <1>3, <1>4, <1>5 DEF UsedBy

\* What a process sees is told by its walks and the contents of its pages.
LEMMA SameView ==
  ASSUME NEW m, NEW n, NEW L, NEW p, Others(m, n, L, p), NEW r \in L \ {p}
  PROVE  ViewOf(n, r) = ViewOf(m, r)
  <1>1. SUFFICES ASSUME NEW a \in UserPages
                 PROVE  /\ Readable(n, r, a) <=> Readable(m, r, a)
                        /\ Writable(n, r, a) <=> Writable(m, r, a)
                        /\ Readable(m, r, a) =>
                             n.data[Target(n, r, a)] = m.data[Target(m, r, a)]
    <2>1. \A a : Writable(n, r, a) \in BOOLEAN /\ Writable(m, r, a) \in BOOLEAN
      BY DEF Writable
    <2> DEFINE Seen(x, a) == IF Readable(x, r, a)
                             THEN <<x.data[Target(x, r, a)], Writable(x, r, a)>> ELSE <<>>
    <2>2. SUFFICES \A a \in UserPages : Seen(n, a) = Seen(m, a)
      BY DEF ViewOf
    <2>3. TAKE a \in UserPages
    <2>4. /\ Readable(n, r, a) <=> Readable(m, r, a)
          /\ Writable(n, r, a) <=> Writable(m, r, a)
          /\ Readable(m, r, a) => n.data[Target(n, r, a)] = m.data[Target(m, r, a)]
      BY <1>1
    <2>5. Writable(n, r, a) = Writable(m, r, a)
      BY <2>1, <2>4
    <2>6. QED BY <2>4, <2>5
  <1>2. Levels \in 1 .. Levels
    BY Numbers
  <1>3. a \in Address /\ a \in Prefix /\ Valid(L, r, a)
    BY <1>2, CutValid
  <1>4. \A k \in 1 .. Levels : Ent(n, r, Cut(a, k)) = Ent(m, r, Cut(a, k))
    BY CutValid DEF Others
  <1>5. Ent(n, r, a) = Ent(m, r, a)
        /\ (Present(Ent(m, r, a)) => n.data[Ent(m, r, a).to] = m.data[Ent(m, r, a).to])
    BY <1>3 DEF Others
  <1>6. Readable(n, r, a) <=> Readable(m, r, a)
    BY <1>3, <1>4, ReadableIs
  <1>7. Writable(n, r, a) <=> Writable(m, r, a)
    BY <1>3, <1>4, <1>6, ReadableIs
  <1>8. Readable(m, r, a) => n.data[Target(n, r, a)] = m.data[Target(m, r, a)]
    BY <1>3, <1>5, ReadableIs, TargetIs
  <1>9. QED BY <1>6, <1>7, <1>8

----------------------------------------------------------------------------
(* A page is unmapped                                                       *)

LEMMA EraseIs ==
  ASSUME NEW m \in Mem, NEW t \in Table, NEW i \in Index
  PROVE  LET n == [m EXCEPT !.tab[t][i] = NoEntry] IN
         /\ n \in Mem /\ n.data = m.data /\ n.given = m.given /\ n.free = m.free
         /\ n.tab[t][i] = NoEntry
         /\ \A u \in Table, j \in Index : u # t \/ j # i => n.tab[u][j] = m.tab[u][j]
         /\ \A u \in Table : u # t => n.tab[u] = m.tab[u]
  <1>1. PICK tb : tb = [m.tab EXCEPT ![t] = [m.tab[t] EXCEPT ![i] = NoEntry]]
    OBVIOUS
  <1>2. tb \in [Table -> [Index -> Entry]] /\ tb[t][i] = NoEntry
        /\ \A u \in Table, j \in Index : u # t \/ j # i => tb[u][j] = m.tab[u][j]
    BY <1>1, MemIs, Entries
  <1>3. \A u \in Table : u # t => tb[u] = m.tab[u]
    BY <1>1, MemIs
  <1>4. PICK n : n = [m EXCEPT !.tab[t][i] = NoEntry]
    OBVIOUS
  <1>5. n.tab = tb /\ n.free = m.free /\ n.data = m.data /\ n.given = m.given
    BY <1>1, <1>4 DEF Mem
  <1>6. n = [tab |-> n.tab, data |-> n.data, free |-> n.free, given |-> n.given]
    BY <1>4 DEF Mem
  <1>7. n \in Mem
    BY <1>2, <1>5, <1>6, MemIs DEF Mem
  <1>8. QED BY <1>2, <1>3, <1>4, <1>5, <1>7

\* The frame stays in use, nothing else is lost.
LEMMA UnmapIs ==
  ASSUME NEW m, NEW L, Good(m, L), NEW p \in L, NEW a \in Address
  PROVE  LET n == Unmap(m, p, a) IN
         Good(n, L) /\ Others(m, n, L, p) /\ RootKeptBut(m, n, {a} \ UserPages)
  <1>1. PICK n : n = Unmap(m, p, a)
    OBVIOUS
  <1>2. Base(m, L) /\ m \in Mem /\ L \in SUBSET Process
    BY DEF Good, Base
  <1>3. p # Root /\ p \in Space
    BY <1>2, InUseIs
  <1>4. /\ a \in Prefix /\ Len(a) = Levels /\ Levels \in 1 .. Levels /\ a[Levels] \in Index
        /\ Levels # 1 /\ Levels - 1 \in 1 .. Levels
        /\ Up(a) \in Prefix /\ Up(a)[1] = a[1] /\ Up(a) # <<>>
    BY AddressIs, TablesBelow, Numbers, UpIs, PrefixIs DEF Address
  \* The space whose tables lead there.
  <1>5. PICK o : o = IF a[1] \in KernelTop THEN Root ELSE p
    OBVIOUS
  <1>6. Valid(L, o, a) /\ (o = p \/ o = Root)
    BY <1>4, <1>5 DEF Valid
  <1>7. Ent(m, p, a) = Ent(m, o, a) /\ Ent(m, p, Up(a)) = Ent(m, o, Up(a))
    BY <1>2, <1>4, <1>5, KernelWay
  <1>8. /\ Way(m, p, a)[Levels] = Ent(m, o, a)
        /\ Way(m, p, a)[Levels - 1] = Ent(m, o, Up(a))
    <2>1. Way(m, p, a)[Levels] = Ent(m, p, a)
      BY <1>4 DEF Ent
    <2>2. Way(m, p, a)[Levels - 1] = Ent(m, p, Cut(a, Levels - 1))
      BY <1>4, WayCut
    <2>3. Up(a) = Cut(a, Levels - 1)
      BY <1>4 DEF Up
    <2>4. QED BY <1>7, <2>1, <2>2, <2>3
  <1>9. CASE ~Present(Ent(m, o, a))
    <2>1. n = m
      BY <1>1, <1>8, <1>9 DEF Unmap
    <2>2. QED BY <1>1, <2>1 DEF Others, RootKeptBut
  <1>10. CASE Present(Ent(m, o, a))
    <2>1. PICK t, i : t = Above(m, o, a) /\ i = a[Levels]
      OBVIOUS
    <2>2. n = [m EXCEPT !.tab[t][i] = NoEntry]
      BY <1>1, <1>4, <1>8, <1>10, <2>1 DEF Unmap, Above
    <2>3. PICK own, path : Fits(m, L, own, path)
      BY DEF Good
    <2>4. Placed(m, L, own, path, o, a)
      BY <1>2, <1>4, <1>6, <1>10, <2>3, PlaceIs, PresentUp
    <2>5. Slot(m, L, t, i) /\ own[t] = o /\ path[t] = Up(a) /\ t \in Table /\ i \in Index
      <3>1. Slot(m, L, t, i) /\ own[t] = o /\ path[t] = Up(a)
        BY <1>4, <2>1, <2>4 DEF Placed, PathAbove
      <3>2. QED BY <1>2, <3>1, SlotTable
    <2>6. /\ n \in Mem /\ n.data = m.data /\ n.given = m.given /\ n.free = m.free
          /\ n.tab[t][i] = NoEntry
          /\ \A u \in Table, j \in Index : u # t \/ j # i => n.tab[u][j] = m.tab[u][j]
          /\ \A u \in Table : u # t => n.tab[u] = m.tab[u]
      BY <1>2, <2>2, <2>5, EraseIs
    <2>7. \A u, j : Slot(n, L, u, j) <=> Slot(m, L, u, j)
      BY <2>6 DEF Slot, InUse, Used
    <2>8. \A u, j : Slot(m, L, u, j) => u \in Table /\ j \in Index
      BY <1>2, InUseIs
    <2>9. t # Root
      BY <1>4, <2>3, <2>5, Sets DEF Fits
    <2>10. Base(n, L)
      <3>1. t \notin m.free
        BY <1>2, <2>5, Sets, MemIs DEF Slot, InUse, Used
      <3>2. \A f \in n.free : n.tab[f] = NoTable
        <4>1. \A f \in m.free : f \in Table /\ f # t /\ m.tab[f] = NoTable
          BY <1>2, <3>1, MemIs, Sets DEF Base
        <4>2. QED BY <2>6, <4>1
      <3>3. ASSUME NEW s \in L, NEW j \in KernelTop PROVE n.tab[s][j] = n.tab[Root][j]
        <4>1. s \in Process /\ s \in Table /\ Root \in Table /\ j \in Index
          BY <1>2, Sets
        <4>2. s # t \/ j # i
          BY <2>5, <4>1 DEF Slot
        <4>3. n.tab[s][j] = m.tab[s][j] /\ n.tab[Root][j] = m.tab[Root][j]
          BY <2>6, <2>9, <4>1, <4>2
        <4>4. QED BY <1>2, <4>3 DEF Base
      <3>4. OneEntry(n, L)
        <4>1. NoEntry.to \notin Frame
          BY Sets DEF NoEntry
        <4>2. \A u, j : Slot(n, L, u, j) /\ n.tab[u][j].to \in Frame
                          => Slot(m, L, u, j) /\ n.tab[u][j] = m.tab[u][j]
          BY <2>6, <2>7, <2>8, <4>1
        <4>3. OneEntry(m, L)
          BY <1>2 DEF Base
        <4>4. QED BY <4>2, <4>3 DEF OneEntry
      <3>5. QED BY <1>2, <2>6, <3>2, <3>3, <3>4 DEF Base
    <2>11. Fits(n, L, own, path)
      <3>1. ASSUME NEW u, NEW j, Slot(n, L, u, j), Present(n.tab[u][j])
            PROVE  EntryFits(n, own, path, u, j)
        <4>1. Slot(m, L, u, j) /\ n.tab[u][j] = m.tab[u][j]
          BY <2>6, <2>7, <2>8, <3>1, Entries
        <4>2. EntryFits(m, own, path, u, j)
          BY <2>3, <3>1, <4>1 DEF Fits
        <4>3. Used(n) = Used(m)
          BY <2>6 DEF Used
        <4>4. QED BY <4>1, <4>2, <4>3 DEF EntryFits
      <3>2. QED BY <2>3, <3>1 DEF Fits
    <2>12. ASSUME NEW r, NEW q, Valid(L, r, q), r # o PROVE Ent(n, r, q) = Ent(m, r, q)
      <3>1. \A u, j : Slot(m, L, u, j) /\ own[u] = r => n.tab[u][j] = m.tab[u][j]
        BY <2>5, <2>6, <2>8, <2>12
      <3>2. QED BY <1>2, <2>3, <2>12, <3>1, WalksKept
    <2>13. Others(m, n, L, p)
      BY <1>2, <1>6, <2>6, <2>12, Sets DEF Others
    <2>14. RootKeptBut(m, n, {a} \ UserPages)
      <3>1. CASE o # Root
        BY <2>12, <3>1 DEF RootKeptBut, Valid
      <3>2. CASE o = Root
        <4>1. PICK A : A = {a}
          OBVIOUS
        <4>2. a \notin UserPages
          BY <1>3, <1>5, <3>2 DEF UserPages
        <4>3. \A q \in Prefix : Len(q) # 1 => Up(q) \notin A
          <5>1. \A n1, n2 \in Nat : n1 <= n2 => n1 - 1 # n2
            OBVIOUS
          <5>2. QED BY <1>4, <4>1, <5>1, UpIs, PrefixIs, Numbers
        <4>4. a = Append(Up(a), i)
          BY <1>4, <2>1, UpAppend
        <4>5. \A u, j : Slot(m, L, u, j) /\ own[u] = Root /\ Append(path[u], j) \notin A
                          => n.tab[u][j] = m.tab[u][j]
          BY <2>5, <2>6, <2>8, <4>1, <4>4
        <4>6. ASSUME NEW q \in Prefix, q \notin A PROVE Ent(n, Root, q) = Ent(m, Root, q)
          <5>1. Valid(L, Root, q)
            BY DEF Valid
          <5>2. QED BY <1>2, <2>3, <4>3, <4>5, <4>6, <5>1, WalksKeptBut
        <4>7. QED BY <4>1, <4>2, <4>6 DEF RootKeptBut
      <3>3. QED BY <3>1, <3>2
    <2>15. QED BY <1>1, <2>10, <2>11, <2>13, <2>14 DEF Good
  <1>11. QED BY <1>9, <1>10

----------------------------------------------------------------------------
(* A space is cloned                                                        *)

CopyOf(Paths, fresh, table, prefix) ==
  [i \in Index |-> IF Append(prefix, i) \in Paths
                   THEN [table[i] EXCEPT !.to = fresh[Append(prefix, i)]] ELSE table[i]]

PathOf(Paths, fresh, f) == CHOOSE p \in Paths : fresh[p] = f

FreshAll(m, Paths) == [p \in Paths |-> FreshFrame(m, Paths, p)]

CloneWith(m, s, c, Paths, fresh) ==
  LET Pages == {p \in Paths : Len(p) = Levels}
  IN [CopyTables(m, s, c, Paths, fresh) EXCEPT
        !.data = [f \in Frame |-> IF f \in {fresh[p] : p \in Pages}
                                  THEN m.data[Target(m, s, PathOf(Pages, fresh, f))] ELSE m.data[f]]]

\* The memory after k_mem_paging_clone_pml, field by field.
Cloned(m, s, c, Paths, fresh, x) ==
  /\ x = [tab |-> x.tab, data |-> x.data, free |-> x.free, given |-> x.given]
  /\ x.given = m.given /\ x.free = m.free \ {fresh[p] : p \in Paths}
  /\ x.tab = [t \in Table |->
       IF t = c THEN CopyOf(Paths, fresh, m.tab[s], <<>>)
       ELSE IF t \in {fresh[p] : p \in {q \in Paths : Len(q) < Levels}}
         THEN CopyOf(Paths, fresh, m.tab[Target(m, s, PathOf(Paths, fresh, t))],
                     PathOf(Paths, fresh, t))
       ELSE m.tab[t]]
  /\ x.data = [f \in Frame |->
       IF f \in {fresh[p] : p \in {q \in Paths : Len(q) = Levels}}
       THEN m.data[Target(m, s, PathOf({q \in Paths : Len(q) = Levels}, fresh, f))] ELSE m.data[f]]

LEMMA CloneIs ==
  ASSUME NEW m \in Mem, NEW s, NEW c, NEW Paths, Paths = UserPaths(m, s),
         NEW fresh, fresh = FreshAll(m, Paths)
  PROVE  Cloned(m, s, c, Paths, fresh, Clone(m, s, c))
  <1>1. PICK y : y = CopyTables(m, s, c, Paths, fresh)
    OBVIOUS
  <1>2. m = [tab |-> m.tab, data |-> m.data, free |-> m.free, given |-> m.given]
    BY DEF Mem
  <1>3. PICK tb : tb = [t \in Table |->
          IF t = c THEN CopyOf(Paths, fresh, m.tab[s], <<>>)
          ELSE IF t \in {fresh[p] : p \in {q \in Paths : Len(q) < Levels}}
            THEN CopyOf(Paths, fresh, m.tab[Target(m, s, PathOf(Paths, fresh, t))],
                        PathOf(Paths, fresh, t))
          ELSE m.tab[t]]
    OBVIOUS
  <1>4. PICK fr : fr = m.free \ {fresh[p] : p \in Paths}
    OBVIOUS
  <1>5. y = [m EXCEPT !.free = fr, !.tab = tb]
    BY <1>1, <1>3, <1>4, Zenon DEF CopyTables, CopyOf, PathOf
  <1>6. y = [tab |-> tb, data |-> m.data, free |-> fr, given |-> m.given]
    BY <1>2, <1>5
  <1>7. PICK dt : dt = [f \in Frame |->
       IF f \in {fresh[p] : p \in {q \in Paths : Len(q) = Levels}}
       THEN m.data[Target(m, s, PathOf({q \in Paths : Len(q) = Levels}, fresh, f))] ELSE m.data[f]]
    OBVIOUS
  <1>8. Clone(m, s, c) = [y EXCEPT !.data = dt]
    <2>1. Clone(m, s, c) = CloneWith(m, s, c, UserPaths(m, s), FreshAll(m, UserPaths(m, s)))
      BY Zenon DEF Clone, CloneWith, FreshAll, PathOf
    <2>2. Clone(m, s, c) = CloneWith(m, s, c, Paths, fresh)
      BY <2>1
    <2>3. QED BY <1>1, <1>7, <2>2, Zenon DEF CloneWith
  <1>9. PICK x : x = Clone(m, s, c)
    OBVIOUS
  <1>10. x = [tab |-> tb, data |-> dt, free |-> fr, given |-> m.given]
    BY <1>6, <1>8, <1>9
  <1>11. x.tab = tb /\ x.data = dt /\ x.free = fr /\ x.given = m.given
    BY <1>10
  <1>12. x = [tab |-> x.tab, data |-> x.data, free |-> x.free, given |-> x.given]
    BY <1>10, <1>11
  <1>13. QED BY <1>3, <1>4, <1>7, <1>9, <1>11, <1>12 DEF Cloned

\* Programs are let through to nothing of the root's: the tables at its top are
\* the kernel's, whoever has mapped what below them.
LEMMA RootPaths ==
  ASSUME NEW m, NEW L, Good(m, L)
  PROVE  UserPaths(m, Root) = {}
  <1>1. PICK own, path : Fits(m, L, own, path)
    BY DEF Good
  <1>2. ASSUME NEW q \in UserPaths(m, Root) PROVE FALSE
    <2>1. PICK r : r = Cut(q, 1)
      OBVIOUS
    <2>2. r \in Prefix /\ Len(r) = 1 /\ Present(Ent(m, Root, r)) /\ Ent(m, Root, r).user
      <3>1. q \in Prefix /\ 1 \in 1 .. Len(q)
        BY UserPathsIs, PrefixIs
      <3>2. UsedBy(Ent(m, Root, Cut(q, 1)))
        BY <1>2, <3>1, UserPathsIs
      <3>3. QED BY <2>1, <3>1, <3>2, CutIs DEF UsedBy
    <2>3. Valid(L, Root, r)
      BY <2>2 DEF Valid
    <2>4. Reached(m, L, own, path, Root, r)
      BY <1>1, <2>2, <2>3, EntFits DEF Good
    <2>5. QED BY <2>2, <2>4 DEF Reached
  <1>3. QED BY <1>2

\* The top-level table of the root, and nothing else, is copied to c.
LEMMA CloneRoot ==
  ASSUME NEW m, NEW L, Good(m, L), NEW c \in Process
  PROVE  LET x == Clone(m, Root, c) IN
         /\ x \in Mem /\ x.given = m.given /\ x.free = m.free /\ x.data = m.data
         /\ x.tab[c] = m.tab[Root] /\ \A t \in Table : t # c => x.tab[t] = m.tab[t]
  <1>1. PICK x : x = Clone(m, Root, c)
    OBVIOUS
  <1>2. UserPaths(m, Root) = {} /\ m \in Mem
    BY RootPaths DEF Good, Base
  <1>3. PICK Paths, fresh : Paths = {} /\ fresh = FreshAll(m, Paths)
    OBVIOUS
  <1>4. Cloned(m, Root, c, Paths, fresh, x)
    BY <1>1, <1>2, <1>3, CloneIs
  <1>5. c \in Table /\ Root \in Table /\ m.tab \in [Table -> [Index -> Entry]]
        /\ m.data \in [Frame -> Value]
    BY <1>2, Sets, MemIs
  <1>6. \A q : q \notin Paths
    BY <1>3
  <1>7. x.given = m.given /\ x.free = m.free
    BY <1>4, <1>6 DEF Cloned
  <1>8. CopyOf(Paths, fresh, m.tab[Root], <<>>) = m.tab[Root]
    BY <1>5, <1>6 DEF CopyOf
  <1>9. x.tab = [t \in Table |-> IF t = c THEN m.tab[Root] ELSE m.tab[t]]
    BY <1>4, <1>6, <1>8 DEF Cloned
  <1>10. x.data = m.data
    <2>1. x.data = [f \in Frame |-> m.data[f]]
      BY <1>4, <1>6 DEF Cloned
    <2>2. QED BY <1>5, <2>1
  <1>11. x.tab[c] = m.tab[Root] /\ (\A t \in Table : t # c => x.tab[t] = m.tab[t])
         /\ x.tab \in [Table -> [Index -> Entry]]
    BY <1>5, <1>9
  <1>12. x \in Mem
    <2>1. x = [tab |-> x.tab, data |-> x.data, free |-> x.free, given |-> x.given]
      BY <1>4 DEF Cloned
    <2>2. x.data \in [Frame -> Value] /\ x.free \in SUBSET Frame /\ x.given \in SUBSET Frame
      BY <1>2, <1>7, <1>10, MemIs
    <2>3. QED BY <1>11, <2>1, <2>2 DEF Mem
  <1>13. QED BY <1>1, <1>7, <1>10, <1>11, <1>12

\* A walk that gets to the end found its first entry.
LEMMA PresentTop ==
  ASSUME NEW m, NEW s, NEW q \in Prefix, Present(Ent(m, s, q))
  PROVE  Present(m.tab[s][q[1]])
  <1> DEFINE S == {n \in 1 .. Levels : \A p \in Prefix :
                     Len(p) = n /\ Present(Ent(m, s, p)) => Present(m.tab[s][p[1]])}
  <1>1. Levels \in Nat /\ 1 \in 1 .. Levels
    BY Numbers
  <1>2. 1 \in S
    BY <1>1, EntIs
  <1>3. \A n \in 1 .. Levels : n \in S /\ n # Levels => n + 1 \in S
    <2>1. SUFFICES ASSUME NEW n \in 1 .. Levels, n \in S, n # Levels PROVE n + 1 \in S
      OBVIOUS
    <2>2. n + 1 \in 1 .. Levels /\ n + 1 # 1 /\ (n + 1) - 1 = n
      BY <1>1, <2>1
    <2>3. ASSUME NEW p \in Prefix, Len(p) = n + 1, Present(Ent(m, s, p))
          PROVE  Present(m.tab[s][p[1]])
      <3>1. Up(p) \in Prefix /\ Len(Up(p)) = n /\ Up(p)[1] = p[1] /\ Present(Ent(m, s, Up(p)))
        BY <2>2, <2>3, UpIs, PresentUp
      <3>2. Present(m.tab[s][Up(p)[1]])
        BY <2>1, <3>1
      <3>3. QED BY <3>1, <3>2
    <2>4. QED BY <2>2, <2>3
  <1> HIDE DEF S
  <1>4. \A n \in 1 .. Levels : n \in S
    BY <1>1, <1>2, <1>3, Ladder
  <1>5. Len(q) \in 1 .. Levels
    BY PrefixIs
  <1>6. QED BY <1>4, <1>5 DEF S

\* The paths that clone and free follow are those that lead somewhere.
LEMMA UserPathIs ==
  ASSUME NEW m, NEW L, NEW own, NEW path, Base(m, L), Fits(m, L, own, path), NEW p \in L,
         NEW q \in Prefix
  PROVE  q \in UserPaths(m, p) <=> Valid(L, p, q) /\ Present(Ent(m, p, q))
  <1>1. ASSUME q \in UserPaths(m, p) PROVE Valid(L, p, q) /\ Present(Ent(m, p, q))
    <2>1. Present(Ent(m, p, q)) /\ Ent(m, p, q).user
      BY <1>1, UserPathsIs DEF UsedBy
    <2>2. ASSUME q[1] \in KernelTop PROVE FALSE
      <3>1. PICK r : r = Cut(q, 1)
        OBVIOUS
      <3>2. /\ r \in Prefix /\ Len(r) = 1 /\ r[1] \in KernelTop
            /\ Present(Ent(m, p, r)) /\ Ent(m, p, r).user
        BY <1>1, <2>2, <3>1, UserPathsIs, PrefixIs, CutIs DEF UsedBy
      <3>3. Ent(m, p, r) = Ent(m, Root, r) /\ Valid(L, Root, r)
        BY <3>2, KernelWay DEF Valid
      <3>4. Reached(m, L, own, path, Root, r)
        BY <3>2, <3>3, EntFits
      <3>5. QED BY <3>2, <3>3, <3>4 DEF Reached
    <2>3. QED BY <2>1, <2>2 DEF Valid
  <1>2. ASSUME Valid(L, p, q), Present(Ent(m, p, q)) PROVE q \in UserPaths(m, p)
    <2> DEFINE S == {n \in 1 .. Levels : \A r \in Prefix :
             Len(r) = n /\ Valid(L, p, r) /\ Present(Ent(m, p, r)) => r \in UserPaths(m, p)}
    <2>1. Levels \in Nat /\ 1 \in 1 .. Levels
      BY Numbers
    <2>2. \A r \in Prefix : Valid(L, p, r) /\ Present(Ent(m, p, r)) => UsedBy(Ent(m, p, r))
      BY OwnFrame DEF UsedBy
    <2>3. 1 \in S
      BY <2>1, <2>2, UserPathsIs
    <2>4. \A n \in 1 .. Levels : n \in S /\ n # Levels => n + 1 \in S
      <3>1. SUFFICES ASSUME NEW n \in 1 .. Levels, n \in S, n # Levels PROVE n + 1 \in S
        OBVIOUS
      <3>2. n + 1 \in 1 .. Levels /\ n + 1 # 1 /\ (n + 1) - 1 = n
        BY <2>1, <3>1
      <3>3. ASSUME NEW r \in Prefix, Len(r) = n + 1, Valid(L, p, r), Present(Ent(m, p, r))
            PROVE  r \in UserPaths(m, p)
        <4>1. Up(r) \in Prefix /\ Len(Up(r)) = n /\ Valid(L, p, Up(r)) /\ Present(Ent(m, p, Up(r)))
          BY <3>2, <3>3, UpIs, ValidUp, PresentUp
        <4>2. Up(r) \in UserPaths(m, p)
          BY <3>1, <4>1
        <4>3. QED BY <2>2, <3>3, <4>2, UserPathsIs
      <3>4. QED BY <3>2, <3>3
    <2> HIDE DEF S
    <2>5. \A n \in 1 .. Levels : n \in S
      BY <2>1, <2>3, <2>4, Ladder
    <2>6. Len(q) \in 1 .. Levels
      BY PrefixIs
    <2>7. QED BY <1>2, <2>5, <2>6 DEF S
  <1>3. QED BY <1>1, <1>2

----------------------------------------------------------------------------
(* A space starts anew, with the kernel's part only                         *)

\* Memory m has become x: space c has the root's table, the frames F are given.
Renewed(m, L, c, F, x) ==
  /\ Good(m, L) /\ c \in Process /\ F \subseteq Used(m)
  /\ x \in Mem /\ x.given = m.given \union F /\ x.free = m.free /\ x.data = m.data
  /\ x.tab[c] = m.tab[Root] /\ \A t \in Table : t # c => x.tab[t] = m.tab[t]
  /\ \A t, i : Slot(m, L, t, i) /\ t # c /\ t \notin F => m.tab[t][i].to \notin F

LEMMA RenewedSlots ==
  ASSUME NEW m, NEW L, NEW c, NEW F, NEW x, Renewed(m, L, c, F, x),
         NEW own, NEW path, Fits(m, L, own, path),
         NEW t, NEW i, Slot(x, L \union {c}, t, i)
  PROVE  /\ t # c => Slot(m, L, t, i) /\ t \notin F /\ x.tab[t][i] = m.tab[t][i]
         /\ t = c => ~Present(x.tab[t][i])
  <1>1. Base(m, L) /\ L \in SUBSET Process /\ c \in Process /\ F \subseteq Used(m)
    BY DEF Renewed, Good, Base
  <1>2. L \union {c} \in SUBSET Process /\ t \in Table /\ i \in Index
    <2>1. L \union {c} \in SUBSET Process
      BY <1>1
    <2>2. QED BY <2>1, InUseIs
  <1>3. ASSUME t # c PROVE Slot(m, L, t, i) /\ t \notin F /\ x.tab[t][i] = m.tab[t][i]
    <2>1. Used(x) = Used(m) \ F
      BY DEF Used, Renewed
    <2>2. F \intersect (L \union {Root}) = {}
      BY <1>1, Sets DEF Used
    <2>3. t \in InUse(m, L) /\ t \notin F
      BY <1>3, <2>1, <2>2 DEF Slot, InUse
    <2>4. QED BY <1>2, <1>3, <2>3 DEF Slot, Renewed
  <1>4. ASSUME t = c PROVE ~Present(x.tab[t][i])
    <2>1. i \notin KernelTop /\ Slot(m, L, Root, i)
      BY <1>1, <1>2, <1>4, InUseIs DEF Slot
    <2>2. ~Present(m.tab[Root][i])
      BY <2>1 DEF Fits, EntryFits
    <2>3. QED BY <1>4, <2>2 DEF Renewed
  <1>5. QED BY <1>3, <1>4

LEMMA RenewedGood ==
  ASSUME NEW m, NEW L, NEW c, NEW F, NEW x, Renewed(m, L, c, F, x)
  PROVE  Good(x, L \union {c})
  <1>1. PICK own, path : Fits(m, L, own, path)
    BY DEF Renewed, Good
  <1>2. PICK K : K = L \union {c}
    OBVIOUS
  <1>3. Base(m, L) /\ L \in SUBSET Process /\ c \in Process /\ F \subseteq Used(m) /\ m \in Mem
    BY DEF Renewed, Good, Base
  <1>4. ASSUME NEW t, NEW i, Slot(x, K, t, i)
        PROVE  /\ t # c => Slot(m, L, t, i) /\ t \notin F /\ x.tab[t][i] = m.tab[t][i]
               /\ t = c => ~Present(x.tab[t][i])
    BY <1>1, <1>2, <1>4, RenewedSlots
  <1>5. \A t, i : Slot(x, K, t, i) /\ Present(x.tab[t][i])
          => t # c /\ Slot(m, L, t, i) /\ t \notin F /\ x.tab[t][i] = m.tab[t][i]
    BY <1>4
  <1>6. OneEntry(x, K)
    <2>1. \A t, i : x.tab[t][i].to \in Frame => Present(x.tab[t][i])
      BY Sets DEF Present
    <2>2. OneEntry(m, L)
      BY <1>3 DEF Base
    <2>3. QED BY <1>5, <2>1, <2>2 DEF OneEntry
  <1>7. Base(x, K)
    <2>1. x.free \intersect x.given = {}
      BY <1>3 DEF Renewed, Base, Used
    <2>2. \A f \in x.free : x.tab[f] = NoTable
      <3>1. \A f \in m.free : f \in Table /\ f # c /\ m.tab[f] = NoTable
        BY <1>3, MemIs, Sets DEF Base
      <3>2. QED BY <3>1 DEF Renewed
    <2>3. ASSUME NEW s \in K, NEW i \in KernelTop PROVE x.tab[s][i] = x.tab[Root][i]
      <3>1. x.tab[Root] = m.tab[Root]
        BY <1>3, Sets DEF Renewed
      <3>2. CASE s = c
        BY <3>1, <3>2 DEF Renewed
      <3>3. CASE s # c
        <4>1. s \in L /\ s \in Table
          BY <1>2, <1>3, <3>3, Sets
        <4>2. x.tab[s] = m.tab[s]
          BY <3>3, <4>1 DEF Renewed
        <4>3. m.tab[s][i] = m.tab[Root][i]
          BY <1>3, <4>1 DEF Base
        <4>4. QED BY <3>1, <4>2, <4>3
      <3>4. QED BY <3>2, <3>3
    <2>4. x \in Mem /\ K \subseteq Process
      BY <1>2, <1>3 DEF Renewed
    <2>5. QED BY <1>6, <2>1, <2>2, <2>3, <2>4 DEF Base
  <1>8. Fits(x, K, own, path)
    <2>1. ASSUME NEW t, NEW i, Slot(x, K, t, i), Present(x.tab[t][i])
          PROVE  EntryFits(x, own, path, t, i)
      <3>1. t # c /\ Slot(m, L, t, i) /\ t \notin F /\ x.tab[t][i] = m.tab[t][i]
        BY <1>5, <2>1
      <3>2. EntryFits(m, own, path, t, i)
        BY <1>1, <2>1, <3>1 DEF Fits
      <3>3. m.tab[t][i].to \notin F
        BY <3>1 DEF Renewed
      <3>4. Used(x) = Used(m) \ F
        BY DEF Used, Renewed
      <3>5. QED BY <3>1, <3>2, <3>3, <3>4 DEF EntryFits
    <2>2. QED BY <1>1, <2>1 DEF Fits
  <1>9. QED BY <1>2, <1>7, <1>8 DEF Good

LEMMA RenewedWalks ==
  ASSUME NEW m, NEW L, NEW c, NEW F, NEW x, Renewed(m, L, c, F, x)
  PROVE  /\ Others(m, x, L, c) /\ RootKept(m, x)
         /\ \A q \in Prefix : q[1] \notin KernelTop => ~Present(Ent(x, c, q))
  <1>1. PICK own, path : Fits(m, L, own, path)
    BY DEF Renewed, Good
  <1>2. /\ Base(m, L) /\ L \in SUBSET Process /\ c \in Process /\ m \in Mem
        /\ c \in Space /\ c # Root /\ own[c] = c
    BY <1>1, Sets DEF Renewed, Good, Base, Fits
  <1>3. ASSUME NEW r, NEW q, Valid(L, r, q), r # c PROVE Ent(x, r, q) = Ent(m, r, q)
    <2>1. \A t, i : Slot(m, L, t, i) /\ own[t] = r => x.tab[t][i] = m.tab[t][i]
      <3>1. \A t, i : Slot(m, L, t, i) => t \in Table
        BY <1>2, InUseIs
      <3>2. QED BY <1>2, <1>3, <3>1 DEF Renewed
    <2>2. QED BY <1>1, <1>2, <1>3, <2>1, WalksKept
  <1>4. Others(m, x, L, c)
    BY <1>3 DEF Others, Renewed
  <1>5. RootKept(m, x)
    BY <1>2, <1>3 DEF RootKept, Valid
  <1>6. ASSUME NEW q \in Prefix, q[1] \notin KernelTop, Present(Ent(x, c, q)) PROVE FALSE
    <2>1. Present(m.tab[Root][q[1]])
      BY <1>6, PresentTop DEF Renewed
    <2>2. q[1] \in Index
      BY PrefixIs
    <2>3. Slot(m, L, Root, q[1])
      <3>1. \A i \in Index : Slot(m, L, Root, i)
        BY <1>2, InUseIs
      <3>2. QED BY <2>2, <3>1
    <2>4. QED BY <1>1, <1>6, <2>1, <2>3 DEF Fits, EntryFits
  <1>7. QED BY <1>4, <1>5, <1>6

----------------------------------------------------------------------------
(* Contents of pages are written                                            *)

WayOf(tables, s, path) ==
  LET way[k \in 1 .. Len(path)] ==
        IF k = 1 THEN tables[s][path[1]]
        ELSE IF Present(way[k - 1]) THEN tables[way[k - 1].to][path[k]] ELSE NoEntry
  IN way

LEMMA SameTables ==
  ASSUME NEW m, NEW n, n.tab = m.tab, NEW s, NEW q
  PROVE  Ent(n, s, q) = Ent(m, s, q)
  <1>1. Way(n, s, q) = WayOf(n.tab, s, q)
    BY Zenon DEF Way, WayOf
  <1>2. Way(m, s, q) = WayOf(m.tab, s, q)
    BY Zenon DEF Way, WayOf
  <1>3. QED BY <1>1, <1>2 DEF Ent

\* Memory m has become n: pages of process p have other contents.
Written(m, n, L, p) ==
  /\ Good(m, L) /\ p \in L
  /\ n \in Mem /\ n.tab = m.tab /\ n.free = m.free /\ n.given = m.given
  /\ \A f \in Frame : n.data[f] = m.data[f] \/
       \E q : Valid(L, p, q) /\ Present(Ent(m, p, q)) /\ f = Ent(m, p, q).to

LEMMA WrittenIs ==
  ASSUME NEW m, NEW n, NEW L, NEW p, Written(m, n, L, p)
  PROVE  Good(n, L) /\ Others(m, n, L, p) /\ RootKept(m, n)
  <1>1. /\ Good(m, L) /\ Base(m, L) /\ p \in L
        /\ n \in Mem /\ n.tab = m.tab /\ n.free = m.free /\ n.given = m.given
    BY DEF Written, Good
  <1>2. PICK own, path : Fits(m, L, own, path)
    BY <1>1 DEF Good
  <1>3. Used(n) = Used(m) /\ \A t, i : Slot(n, L, t, i) <=> Slot(m, L, t, i)
    BY <1>1 DEF Slot, InUse, Used
  <1>4. OneEntry(n, L)
    BY <1>1, <1>3 DEF OneEntry, Base
  <1>5. Base(n, L)
    BY <1>1, <1>4 DEF Base
  <1>6. ASSUME NEW t, NEW i, Slot(n, L, t, i), Present(n.tab[t][i])
        PROVE  EntryFits(n, own, path, t, i)
    <2>1. EntryFits(m, own, path, t, i)
      BY <1>1, <1>2, <1>3, <1>6 DEF Fits
    <2>2. QED BY <1>1, <1>3, <2>1 DEF EntryFits
  <1>7. Good(n, L)
    BY <1>2, <1>5, <1>6 DEF Fits, Good
  <1>8. \A s, q : Ent(n, s, q) = Ent(m, s, q)
    BY <1>1, SameTables
  <1>9. ASSUME NEW r \in L \ {p}, NEW q \in Prefix, Valid(L, r, q), Present(Ent(m, r, q))
        PROVE  n.data[Ent(m, r, q).to] = m.data[Ent(m, r, q).to]
    <2>1. Ent(m, r, q).to \in Frame /\ own[Ent(m, r, q).to] = r
      BY <1>1, <1>2, <1>9, OwnFrame
    <2>2. \A u : Valid(L, p, u) /\ Present(Ent(m, p, u)) => own[Ent(m, p, u).to] = p
      BY <1>1, <1>2, OwnFrame
    <2>3. QED BY <1>9, <2>1, <2>2 DEF Written
  <1>10. QED BY <1>7, <1>8, <1>9 DEF Others, RootKept

LEMMA OthersTwice ==
  ASSUME NEW m, NEW n, NEW x, NEW L, NEW p, Others(m, n, L, p), Others(n, x, L, p)
  PROVE  Others(m, x, L, p)
  <1>1. SUFFICES ASSUME NEW r \in L \ {p}, NEW q \in Prefix, Valid(L, r, q)
                 PROVE  /\ Ent(x, r, q) = Ent(m, r, q)
                        /\ Present(Ent(m, r, q)) =>
                             x.data[Ent(m, r, q).to] = m.data[Ent(m, r, q).to]
    BY DEF Others
  <1>2. /\ Ent(n, r, q) = Ent(m, r, q)
        /\ Present(Ent(m, r, q)) => n.data[Ent(m, r, q).to] = m.data[Ent(m, r, q).to]
    BY <1>1 DEF Others
  <1>3. /\ Ent(x, r, q) = Ent(n, r, q)
        /\ Present(Ent(n, r, q)) => x.data[Ent(n, r, q).to] = n.data[Ent(n, r, q).to]
    BY <1>1 DEF Others
  <1>4. QED BY <1>2, <1>3

\* What is mapped for the kernel or for p leaves the others alone.
LEMMA ExtendsOthers ==
  ASSUME NEW m, NEW n, NEW L, NEW o, NEW New, NEW k, Extends(m, n, L, o, New, k),
         L \in SUBSET Process, NEW p, o = Root \/ o = p
  PROVE  Others(m, n, L, p) /\ (o # Root => RootKept(m, n))
  <1>1. \A r, q : Valid(L, r, q) /\ r # o => Ent(n, r, q) = Ent(m, r, q)
    BY DEF Extends
  <1>2. n.data = m.data
    BY DEF Extends
  <1>3. Others(m, n, L, p)
    BY <1>1, <1>2, Sets DEF Others
  <1>4. o # Root => RootKept(m, n)
    BY <1>1 DEF RootKept, Valid
  <1>5. QED BY <1>3, <1>4

----------------------------------------------------------------------------
(* A program is executed                                                    *)

\* The frames of the old tables and pages are the process's own.
LEMMA FreedIs ==
  ASSUME NEW m, NEW L, Good(m, L), NEW p \in L
  PROVE  /\ FramesToFree(m, p) \subseteq Used(m)
         /\ \A t, i : Slot(m, L, t, i) /\ t # p /\ t \notin FramesToFree(m, p)
                        => m.tab[t][i].to \notin FramesToFree(m, p)
  <1>1. PICK own, path : Fits(m, L, own, path)
    BY DEF Good
  <1>2. PICK F : F = FramesToFree(m, p)
    OBVIOUS
  <1>3. ASSUME NEW f \in F
        PROVE  /\ f \in Used(m) /\ f \in Frame
               /\ \A t, i : Slot(m, L, t, i) /\ m.tab[t][i].to = f => t = p \/ t \in F
    <2>1. PICK q \in UserPaths(m, p) : f = Ent(m, p, q).to
      BY <1>2, <1>3, TargetIs DEF FramesToFree
    <2>2. q \in Prefix
      BY UserPathsIs
    <2>3. Base(m, L)
      BY DEF Good
    <2>4. Valid(L, p, q) /\ Present(Ent(m, p, q))
      BY <1>1, <2>2, <2>3, UserPathIs
    <2>5. f \in Used(m) /\ f \in Frame
      BY <1>1, <2>1, <2>3, <2>4, OwnFrame
    <2>6. Placed(m, L, own, path, p, q)
      BY <1>1, <2>2, <2>3, <2>4, PlaceIs, PresentUp
    <2>7. Above(m, p, q) = p \/ Above(m, p, q) \in F
      <3>1. CASE Len(q) = 1
        BY <3>1 DEF Above
      <3>2. CASE Len(q) # 1
        <4>1. Up(q) \in UserPaths(m, p)
          BY <2>2, <3>2, UserPathsIs
        <4>2. Ent(m, p, Up(q)).to \in F
          BY <1>2, <4>1, TargetIs DEF FramesToFree
        <4>3. QED BY <3>2, <4>2 DEF Above
      <3>3. QED BY <3>1, <3>2
    <2>8. ASSUME NEW t, NEW i, Slot(m, L, t, i), m.tab[t][i].to = f PROVE t = p \/ t \in F
      <3>1. Slot(m, L, Above(m, p, q), q[Len(q)]) /\ m.tab[Above(m, p, q)][q[Len(q)]].to = f
        BY <2>1, <2>6 DEF Placed
      <3>2. t = Above(m, p, q)
        BY <2>3, <2>5, <2>8, <3>1 DEF Base, OneEntry
      <3>3. QED BY <2>7, <3>2
    <2>9. QED BY <2>5, <2>8
  <1>4. QED BY <1>2, <1>3

LEMMA ImageCall ==
  ASSUME NEW m, NEW L, Good(m, L), NEW p \in L, Cardinality(m.free) >= Levels * Len(Image)
  PROVE  PagesCall(m, L, p, Image, TRUE, TRUE)
  <1>1. Image \in Seq(Address)
    BY AddressSpaceAssumption, Zenon
  <1>2. ASSUME NEW i \in 1 .. Len(Image) PROVE Valid(L, p, Image[i])
    <2>1. Image[i] \in Address /\ i \in DOMAIN Image
      BY <1>1, <1>2
    <2>2. Image[i][1] \notin KernelTop
      BY <2>1, AddressSpaceAssumption, Zenon
    <2>3. Image[i] \in Prefix
      BY <2>1, AddressIs
    <2>4. QED BY <2>2, <2>3 DEF Valid
  <1>3. p # Root
    BY Sets DEF Good, Base
  <1>4. QED BY <1>1, <1>2, <1>3 DEF PagesCall

LEMMA LoadIs ==
  ASSUME NEW m, NEW L, Good(m, L), NEW p \in L, Cardinality(m.free) >= Levels * Len(Image)
  PROVE  Good(Load(m, p), L) /\ Others(m, Load(m, p), L, p) /\ RootKept(m, Load(m, p))
  <1>1. PICK n : n = MapPages(m, p, Image, TRUE, TRUE)
    OBVIOUS
  <1>2. PagesStage(m, L, p, Image, Len(Image), n)
    BY <1>1, ImageCall, MapPagesIs
  <1>3. L \in SUBSET Process /\ p # Root
    BY Sets DEF Good, Base
  <1>4. Extends(m, n, L, p, CutsOf(Image, Len(Image)), Levels * Len(Image))
    BY <1>2 DEF PagesStage
  <1>5. Others(m, n, L, p) /\ RootKept(m, n)
    BY <1>3, <1>4, ExtendsOthers
  <1>6. Good(n, L) /\ n \in Mem
    BY <1>4 DEF Extends, Good, Base
  <1>7. PICK Loaded : Loaded = {Target(n, p, Image[i]) : i \in DOMAIN Image}
    OBVIOUS
  <1>8. PICK dt : dt = [f \in Frame |-> IF f \in Loaded THEN 0 ELSE n.data[f]]
    OBVIOUS
  <1>9. PICK x : x = Load(m, p)
    OBVIOUS
  <1>10. x = [n EXCEPT !.data = dt]
    BY <1>1, <1>7, <1>8, <1>9, Zenon DEF Load
  <1>11. /\ x \in Mem /\ x.tab = n.tab /\ x.free = n.free /\ x.given = n.given /\ x.data = dt
    <2>1. dt \in [Frame -> Value]
      BY <1>6, <1>8, MemIs DEF Value
    <2>2. x = [tab |-> n.tab, data |-> dt, free |-> n.free, given |-> n.given]
      BY <1>6, <1>10 DEF Mem
    <2>3. QED BY <1>6, <2>1, <2>2 DEF Mem
  <1>12. ASSUME NEW f \in Frame
         PROVE  x.data[f] = n.data[f] \/
                  \E q : Valid(L, p, q) /\ Present(Ent(n, p, q)) /\ f = Ent(n, p, q).to
    <2>1. CASE f \notin Loaded
      BY <1>8, <1>11, <2>1
    <2>2. CASE f \in Loaded
      <3>1. PICK i \in DOMAIN Image : f = Ent(n, p, Image[i]).to
        BY <1>7, <2>2, TargetIs
      <3>2. i \in 1 .. Len(Image)
        <4>1. Image \in Seq(Address)
          BY AddressSpaceAssumption, Zenon
        <4>2. QED BY <4>1
      <3>3. Present(Ent(n, p, Image[i]))
        BY <1>2, <3>2 DEF PagesStage
      <3>4. Valid(L, p, Image[i])
        BY <3>2, ImageCall DEF PagesCall
      <3>5. QED BY <3>1, <3>3, <3>4
    <2>3. QED BY <2>1, <2>2
  <1>13. Written(n, x, L, p)
    BY <1>6, <1>11, <1>12 DEF Written
  <1>14. Good(x, L) /\ Others(n, x, L, p) /\ RootKept(n, x)
    BY <1>13, WrittenIs
  <1>15. Others(m, x, L, p)
    BY <1>5, <1>14, OthersTwice
  <1>16. RootKept(m, x)
    BY <1>5, <1>14 DEF RootKept
  <1>17. QED BY <1>9, <1>14, <1>15, <1>16

LEMMA ExecIs ==
  ASSUME ~Reuse, NEW m, NEW L, Good(m, L), NEW p \in L,
         Cardinality(m.free) >= Levels * Len(Image)
  PROVE  LET x == Load(GiveBack(Clone(m, Root, p), FramesToFree(m, p)), p) IN
         Good(x, L) /\ Others(m, x, L, p) /\ RootKept(m, x)
  <1>1. PICK y : y = Clone(m, Root, p)
    OBVIOUS
  <1>2. PICK F : F = FramesToFree(m, p)
    OBVIOUS
  <1>3. PICK z : z = GiveBack(y, F)
    OBVIOUS
  <1>4. L \in SUBSET Process /\ p \in Process /\ m \in Mem
    BY DEF Good, Base
  <1>5. /\ y \in Mem /\ y.given = m.given /\ y.free = m.free /\ y.data = m.data
        /\ y.tab[p] = m.tab[Root] /\ \A t \in Table : t # p => y.tab[t] = m.tab[t]
    BY <1>1, <1>4, CloneRoot
  <1>6. z = [y EXCEPT !.given = y.given \union F]
    BY <1>3 DEF GiveBack
  <1>7. /\ F \subseteq Used(m)
        /\ \A t, i : Slot(m, L, t, i) /\ t # p /\ t \notin F => m.tab[t][i].to \notin F
    BY <1>2, FreedIs
  <1>8. z.given = m.given \union F /\ z.free = m.free /\ z.data = m.data /\ z.tab = y.tab
        /\ z \in Mem
    <2>1. z = [tab |-> y.tab, data |-> y.data, free |-> y.free, given |-> y.given \union F]
      BY <1>5, <1>6 DEF Mem
    <2>2. F \subseteq Frame
      BY <1>7 DEF Used
    <2>3. QED BY <1>5, <2>1, <2>2 DEF Mem
  <1>9. Renewed(m, L, p, F, z)
    BY <1>4, <1>5, <1>7, <1>8 DEF Renewed
  <1>10. L \union {p} = L
    OBVIOUS
  <1>11. Good(z, L) /\ Others(m, z, L, p) /\ RootKept(m, z)
    BY <1>9, <1>10, RenewedGood, RenewedWalks
  <1>12. PICK x : x = Load(z, p)
    OBVIOUS
  <1>13. Good(x, L) /\ Others(z, x, L, p) /\ RootKept(z, x)
    BY <1>8, <1>11, <1>12, LoadIs
  <1>14. Others(m, x, L, p)
    BY <1>11, <1>13, OthersTwice
  <1>15. RootKept(m, x)
    BY <1>11, <1>13 DEF RootKept
  <1>16. QED BY <1>1, <1>2, <1>3, <1>12, <1>13, <1>14, <1>15

----------------------------------------------------------------------------
(* A process forks                                                          *)

\* Memory m becomes x: process c gets what p has at the paths in Paths.
Forked(m, L, own, path, p, c, Paths, fresh, x) ==
  /\ Base(m, L) /\ Fits(m, L, own, path) /\ p \in L /\ c \in Process \ L
  /\ Paths = UserPaths(m, p) /\ Cardinality(Paths) <= Cardinality(m.free)
  /\ fresh = FreshAll(m, Paths) /\ Cloned(m, p, c, Paths, fresh, x)

LEMMA PathsFinite ==
  ASSUME NEW m, NEW L, NEW own, NEW path, Base(m, L), Fits(m, L, own, path), NEW p \in L
  PROVE  IsFiniteSet(UserPaths(m, p)) /\ Cardinality(UserPaths(m, p)) \in Nat
  <1>1. PICK Paths : Paths = UserPaths(m, p)
    OBVIOUS
  <1>2. PICK f : f = [q \in Paths |-> Ent(m, p, q).to]
    OBVIOUS
  <1>3. \A q \in Paths : q \in Prefix /\ Valid(L, p, q) /\ Present(Ent(m, p, q))
    BY <1>1, UserPathsIs, UserPathIs
  <1>4. \A q \in Paths : Ent(m, p, q).to \in Frame /\ path[Ent(m, p, q).to] = q
    BY <1>3, OwnFrame
  <1>5. f \in Injection(Paths, Frame)
    <2>1. f \in [Paths -> Frame]
      BY <1>2, <1>4
    <2>2. \A q, r \in Paths : f[q] = f[r] => q = r
      BY <1>2, <1>4
    <2>3. QED BY <2>1, <2>2 DEF Injection, IsInjective
  <1>6. IsFiniteSet(Paths)
    BY <1>5, FramesFinite, FS_Injection
  <1>7. QED BY <1>1, <1>6, FS_CardinalityType

\* Each path has a frame of its own, free before.
LEMMA ForkFresh ==
  ASSUME NEW m, NEW L, NEW own, NEW path, NEW p, NEW c, NEW Paths, NEW fresh, NEW x,
         Forked(m, L, own, path, p, c, Paths, fresh, x)
  PROVE  /\ Paths \in SUBSET Prefix
         /\ \A q \in Paths : fresh[q] \in m.free /\ fresh[q] \in Frame
         /\ \A q, r \in Paths : fresh[q] = fresh[r] => q = r
         /\ \A q \in Paths : Valid(L, p, q) /\ Present(Ent(m, p, q)) /\ Ent(m, p, q) \in Entry
                             /\ Ent(m, p, q).to \in Used(m) /\ Ent(m, p, q).to \in Frame
                             /\ Ent(m, p, q).user
         /\ \A q \in Prefix : Valid(L, p, q) /\ Present(Ent(m, p, q)) => q \in Paths
         /\ \A q \in Paths : Len(q) # 1 => Up(q) \in Paths
  <1>1. /\ Base(m, L) /\ Fits(m, L, own, path) /\ p \in L /\ m \in Mem
        /\ Paths = UserPaths(m, p) /\ Cardinality(Paths) <= Cardinality(m.free)
        /\ fresh = FreshAll(m, Paths) /\ m.free \in SUBSET Frame /\ L \in SUBSET Process
    BY MemIs DEF Forked, Base
  <1>2. Paths \in SUBSET Prefix /\ IsFiniteSet(Paths)
    BY <1>1, UserPathsIs, PathsFinite
  <1>3. \A q \in Paths : fresh[q] = FreshFrame(m, Paths, q)
    BY <1>1 DEF FreshAll
  <1>4. \A q \in Paths : fresh[q] \in m.free /\ fresh[q] \in Frame
    BY <1>1, <1>2, <1>3, FreshIs
  <1>5. \A q, r \in Paths : fresh[q] = fresh[r] => q = r
    BY <1>1, <1>2, <1>3, FreshIs
  <1>6. \A q \in Prefix : q \in Paths <=> Valid(L, p, q) /\ Present(Ent(m, p, q))
    BY <1>1, UserPathIs
  <1>7. ASSUME NEW q \in Paths
        PROVE  /\ Ent(m, p, q) \in Entry /\ Ent(m, p, q).to \in Used(m)
               /\ Ent(m, p, q).to \in Frame /\ Ent(m, p, q).user
               /\ Len(q) # 1 => Up(q) \in Paths
    <2>1. q \in Prefix /\ Valid(L, p, q) /\ Present(Ent(m, p, q))
      BY <1>2, <1>6
    <2>2. Ent(m, p, q).to \in Used(m) /\ Ent(m, p, q).to \in Frame /\ Ent(m, p, q).user
      BY <1>1, <2>1, OwnFrame
    <2>3. Placed(m, L, own, path, p, q)
      BY <1>1, <2>1, PlaceIs, PresentUp
    <2>4. Above(m, p, q) \in Table /\ q[Len(q)] \in Index
      <3>1. Slot(m, L, Above(m, p, q), q[Len(q)])
        BY <2>3 DEF Placed
      <3>2. L \in SUBSET Process
        BY <1>1 DEF Base
      <3>3. QED BY <3>1, <3>2, SlotTable
    <2>5. Ent(m, p, q) \in Entry
      BY <1>1, <2>3, <2>4, MemIs DEF Placed
    <2>6. Len(q) # 1 => Up(q) \in Paths
      BY <1>1, <2>1, UserPathsIs
    <2>7. QED BY <2>2, <2>5, <2>6
  <1>8. QED BY <1>2, <1>4, <1>5, <1>6, <1>7

\* The table of the child that the path's last index is in.
ChildAbove(c, fresh, q) == IF Len(q) = 1 THEN c ELSE fresh[Up(q)]

LEMMA ForkTables ==
  ASSUME NEW m, NEW L, NEW own, NEW path, NEW p, NEW c, NEW Paths, NEW fresh, NEW x,
         Forked(m, L, own, path, p, c, Paths, fresh, x),
         NEW q \in Prefix, Len(q) # 1 => Up(q) \in Paths
  PROVE  x.tab[ChildAbove(c, fresh, q)][q[Len(q)]] =
           IF q \in Paths THEN [Ent(m, p, q) EXCEPT !.to = fresh[q]] ELSE Ent(m, p, q)
  <1>1. PICK i : i = q[Len(q)] /\ i \in Index
    BY PrefixIs
  <1>2. c \in Table /\ c \notin Frame
    BY Sets DEF Forked
  <1>3. Cloned(m, p, c, Paths, fresh, x)
    BY DEF Forked
  <1>4. CASE Len(q) = 1
    <2>1. x.tab[c] = CopyOf(Paths, fresh, m.tab[p], <<>>)
      BY <1>2, <1>3 DEF Cloned
    <2>2. Append(<<>>, i) = q
      BY <1>1, <1>4, UpAppend
    <2>3. m.tab[p][i] = Ent(m, p, q)
      BY <1>1, <1>4, EntIs
    <2>4. x.tab[c][i] = IF q \in Paths THEN [m.tab[p][i] EXCEPT !.to = fresh[q]] ELSE m.tab[p][i]
      BY <1>1, <2>1, <2>2 DEF CopyOf
    <2>5. QED BY <1>1, <1>4, <2>3, <2>4 DEF ChildAbove
  <1>5. CASE Len(q) # 1
    <2>1. PICK u : u = Up(q)
      OBVIOUS
    <2>2. u \in Paths /\ u \in Prefix /\ Len(u) < Levels
      <3>1. u \in Paths /\ u \in Prefix /\ Len(u) = Len(q) - 1
        BY <1>5, <2>1, UpIs
      <3>2. Len(q) \in Nat /\ Len(q) <= Levels /\ Levels \in Nat
        BY PrefixIs, Numbers
      <3>3. QED BY <3>1, <3>2
    <2>3. /\ fresh[u] \in Frame /\ Present(Ent(m, p, u))
          /\ \A r \in Paths : fresh[r] = fresh[u] => r = u
      BY <2>2, ForkFresh
    <2>4. PICK t : t = fresh[u] /\ t \in Table /\ t # c
      BY <1>2, <2>3, Sets
    <2>5. t \in {fresh[r] : r \in {v \in Paths : Len(v) < Levels}}
      BY <2>2, <2>4
    <2>6. PathOf(Paths, fresh, t) = u
      BY <2>2, <2>3, <2>4 DEF PathOf
    <2>7. x.tab[t] = CopyOf(Paths, fresh, m.tab[Ent(m, p, u).to], u)
      BY <1>3, <2>4, <2>5, <2>6, TargetIs DEF Cloned
    <2>8. Append(u, i) = q
      BY <1>1, <1>5, <2>1, UpAppend
    <2>9. m.tab[Ent(m, p, u).to][i] = Ent(m, p, q)
      BY <1>1, <1>5, <2>1, <2>3, EntIs
    <2>10. x.tab[t][i] = IF q \in Paths
             THEN [m.tab[Ent(m, p, u).to][i] EXCEPT !.to = fresh[q]]
             ELSE m.tab[Ent(m, p, u).to][i]
      BY <1>1, <2>7, <2>8 DEF CopyOf
    <2>11. QED BY <1>1, <1>5, <2>1, <2>4, <2>9, <2>10 DEF ChildAbove
  <1>6. QED BY <1>4, <1>5

LEMMA CopyTyped ==
  ASSUME NEW Paths, NEW fresh, \A q \in Paths : fresh[q] \in Frame,
         NEW table \in [Index -> Entry], NEW prefix
  PROVE  CopyOf(Paths, fresh, table, prefix) \in [Index -> Entry]
  <1>1. \A e \in Entry, f \in Frame : [e EXCEPT !.to = f] \in Entry
    BY DEF Entry
  <1>2. QED BY <1>1 DEF CopyOf

LEMMA ForkMem ==
  ASSUME NEW m, NEW L, NEW own, NEW path, NEW p, NEW c, NEW Paths, NEW fresh, NEW x,
         Forked(m, L, own, path, p, c, Paths, fresh, x)
  PROVE  /\ x \in Mem /\ x.given = m.given /\ x.free = m.free \ {fresh[q] : q \in Paths}
         /\ \A f \in Frame : f \notin {fresh[q] : q \in Paths} => x.data[f] = m.data[f]
         /\ \A q \in Paths : Len(q) = Levels => x.data[fresh[q]] = m.data[Ent(m, p, q).to]
  <1>1. Cloned(m, p, c, Paths, fresh, x) /\ m \in Mem /\ p \in Table
    BY Sets DEF Forked, Base
  <1>2. /\ m.tab \in [Table -> [Index -> Entry]] /\ m.data \in [Frame -> Value]
        /\ m.free \in SUBSET Frame /\ m.given \in SUBSET Frame
    BY <1>1, MemIs
  <1>3. /\ \A q \in Paths : fresh[q] \in Frame /\ Ent(m, p, q).to \in Frame
        /\ \A q, r \in Paths : fresh[q] = fresh[r] => q = r
    BY ForkFresh
  <1>4. \A q \in Paths : PathOf(Paths, fresh, fresh[q]) = q
    BY <1>3 DEF PathOf
  <1>5. x.tab \in [Table -> [Index -> Entry]]
    <2>1. ASSUME NEW t \in Table PROVE x.tab[t] \in [Index -> Entry]
      <3>1. CASE t = c
        <4>1. x.tab[t] = CopyOf(Paths, fresh, m.tab[p], <<>>)
          BY <1>1, <2>1, <3>1 DEF Cloned
        <4>2. m.tab[p] \in [Index -> Entry] /\ \A q \in Paths : fresh[q] \in Frame
          BY <1>1, <1>2, <1>3
        <4>3. PICK none : none = <<>>
          OBVIOUS
        <4>4. CopyOf(Paths, fresh, m.tab[p], none) \in [Index -> Entry]
          BY <4>2, CopyTyped
        <4>5. QED BY <4>1, <4>3, <4>4
      <3>2. CASE t # c /\ t \in {fresh[r] : r \in {v \in Paths : Len(v) < Levels}}
        <4>1. PICK u \in Paths : t = fresh[u]
          BY <3>2
        <4>2. PathOf(Paths, fresh, t) = u
          BY <1>4, <4>1
        <4>3. x.tab[t] = CopyOf(Paths, fresh, m.tab[Ent(m, p, u).to], u)
          BY <1>1, <2>1, <3>2, <4>2, TargetIs DEF Cloned
        <4>4. m.tab[Ent(m, p, u).to] \in [Index -> Entry]
          BY <1>2, <1>3, <4>1, Sets
        <4>5. QED BY <1>3, <4>3, <4>4, CopyTyped
      <3>3. CASE t # c /\ t \notin {fresh[r] : r \in {v \in Paths : Len(v) < Levels}}
        BY <1>1, <1>2, <2>1, <3>3 DEF Cloned
      <3>4. QED BY <3>1, <3>2, <3>3
    <2>2. x.tab = [t \in Table |-> x.tab[t]]
      BY <1>1 DEF Cloned
    <2>3. QED BY <2>1, <2>2
  <1>6. PICK Pages : Pages = {q \in Paths : Len(q) = Levels}
    OBVIOUS
  <1>7. x.data = [f \in Frame |->
           IF f \in {fresh[q] : q \in Pages} THEN m.data[Target(m, p, PathOf(Pages, fresh, f))]
           ELSE m.data[f]]
    BY <1>1, <1>6 DEF Cloned
  <1>8. \A q \in Pages : PathOf(Pages, fresh, fresh[q]) = q
    BY <1>3, <1>6 DEF PathOf
  <1>9. \A q \in Pages : x.data[fresh[q]] = m.data[Ent(m, p, q).to]
    <2>1. TAKE q \in Pages
    <2>2. q \in Paths /\ fresh[q] \in Frame /\ fresh[q] \in {fresh[r] : r \in Pages}
      BY <1>3, <1>6
    <2>3. x.data[fresh[q]] = m.data[Target(m, p, PathOf(Pages, fresh, fresh[q]))]
      BY <1>7, <2>2
    <2>4. PathOf(Pages, fresh, fresh[q]) = q
      BY <1>8
    <2>5. QED BY <2>3, <2>4, TargetIs
  <1>10. \A f \in Frame : f \notin {fresh[q] : q \in Pages} => x.data[f] = m.data[f]
    BY <1>7
  <1>11. x.data \in [Frame -> Value]
    <2>1. ASSUME NEW f \in Frame PROVE x.data[f] \in Value
      <3>1. CASE f \in {fresh[q] : q \in Pages}
        <4>1. PICK q \in Pages : f = fresh[q]
          BY <3>1
        <4>2. Ent(m, p, q).to \in Frame
          BY <1>3, <1>6
        <4>3. QED BY <1>2, <1>9, <4>1, <4>2
      <3>2. CASE f \notin {fresh[q] : q \in Pages}
        BY <1>2, <1>10, <3>2
      <3>3. QED BY <3>1, <3>2
    <2>2. x.data = [f \in Frame |-> x.data[f]]
      BY <1>7
    <2>3. QED BY <2>1, <2>2
  <1>12. x.given = m.given /\ x.free = m.free \ {fresh[q] : q \in Paths}
    BY <1>1 DEF Cloned
  <1>13. x \in Mem
    <2>1. x = [tab |-> x.tab, data |-> x.data, free |-> x.free, given |-> x.given]
      BY <1>1 DEF Cloned
    <2>2. QED BY <1>2, <1>5, <1>11, <1>12, <2>1 DEF Mem
  <1>14. QED BY <1>6, <1>9, <1>10, <1>12, <1>13

\* The tables in use before are as they were.
LEMMA ForkOld ==
  ASSUME NEW m, NEW L, NEW own, NEW path, NEW p, NEW c, NEW Paths, NEW fresh, NEW x,
         Forked(m, L, own, path, p, c, Paths, fresh, x)
  PROVE  /\ \A t \in Table : t # c /\ t \notin {fresh[q] : q \in Paths} => x.tab[t] = m.tab[t]
         /\ \A t \in InUse(m, L) : t # c /\ t \notin {fresh[q] : q \in Paths} /\ t \in Table
         /\ \A t, i : Slot(m, L, t, i) => x.tab[t] = m.tab[t]
  <1>1. Cloned(m, p, c, Paths, fresh, x) /\ L \in SUBSET Process /\ c \in Process \ L /\ m \in Mem
    BY DEF Forked, Base
  <1>2. \A q \in Paths : fresh[q] \in m.free /\ fresh[q] \in Frame
    BY ForkFresh
  <1>3. \A t \in Table : t # c /\ t \notin {fresh[q] : q \in Paths} => x.tab[t] = m.tab[t]
    BY <1>1 DEF Cloned
  <1>4. ASSUME NEW t \in InUse(m, L)
        PROVE  t # c /\ t \notin {fresh[q] : q \in Paths} /\ t \in Table
    <2>1. t \in Space \/ t \in Used(m)
      BY <1>1, <1>4, Sets DEF InUse
    <2>2. t # c
      BY <1>1, <1>4, Sets DEF InUse, Used
    <2>3. t \notin {fresh[q] : q \in Paths}
      BY <1>2, <2>1, Sets DEF Used
    <2>4. QED BY <1>1, <2>2, <2>3, InUseIs
  <1>5. QED BY <1>3, <1>4 DEF Slot

\* An entry of the memory before, or of the child.
OldEntry(m, L, x, t, i) == Slot(m, L, t, i) /\ x.tab[t] = m.tab[t]
NewEntry(m, p, c, Paths, fresh, x, t, i) ==
  \E q \in Paths : /\ t = ChildAbove(c, fresh, q) /\ i = q[Len(q)]
                   /\ x.tab[t][i] = [Ent(m, p, q) EXCEPT !.to = fresh[q]]

LEMMA ForkSlot ==
  ASSUME NEW m, NEW L, NEW own, NEW path, NEW p, NEW c, NEW Paths, NEW fresh, NEW x,
         Forked(m, L, own, path, p, c, Paths, fresh, x),
         NEW t, NEW i, Slot(x, L \union {c}, t, i), Present(x.tab[t][i])
  PROVE  OldEntry(m, L, x, t, i) \/ NewEntry(m, p, c, Paths, fresh, x, t, i)
  <1>1. /\ Base(m, L) /\ m \in Mem /\ L \in SUBSET Process /\ c \in Process /\ p \in L
        /\ Cloned(m, p, c, Paths, fresh, x)
    BY DEF Forked, Base
  <1>2. /\ x.given = m.given /\ x.free = m.free \ {fresh[q] : q \in Paths}
    BY ForkMem
  <1>3. /\ Paths \in SUBSET Prefix /\ \A q \in Paths : fresh[q] \in m.free /\ fresh[q] \in Frame
        /\ \A q, r \in Paths : fresh[q] = fresh[r] => q = r
        /\ \A q \in Paths : Valid(L, p, q)
        /\ \A q \in Prefix : Valid(L, p, q) /\ Present(Ent(m, p, q)) => q \in Paths
    BY ForkFresh
  <1>4. i \in Index /\ t \in InUse(x, L \union {c}) /\ (t \in Process => i \notin KernelTop)
    BY DEF Slot
  <1>5. t \in InUse(m, L) \/ t = c \/ t \in {fresh[q] : q \in Paths}
    <2>1. Used(x) \subseteq Used(m) \union {fresh[q] : q \in Paths}
      BY <1>2 DEF Used
    <2>2. QED BY <1>4, <2>1 DEF InUse
  \* An entry of a table that is new.
  <1>6. ASSUME NEW q \in Prefix, Len(q) # 1 => Up(q) \in Paths, t = ChildAbove(c, fresh, q),
               i = q[Len(q)], q[1] \notin KernelTop
        PROVE  q \in Paths /\ x.tab[t][i] = [Ent(m, p, q) EXCEPT !.to = fresh[q]]
    <2>1. x.tab[t][i] = IF q \in Paths THEN [Ent(m, p, q) EXCEPT !.to = fresh[q]] ELSE Ent(m, p, q)
      BY <1>6, ForkTables
    <2>2. Valid(L, p, q)
      BY <1>1, <1>6 DEF Valid
    <2>3. q \in Paths
      BY <1>3, <2>1, <2>2
    <2>4. QED BY <2>1, <2>3
  <1>7. CASE t \in InUse(m, L)
    <2>1. Slot(m, L, t, i)
      BY <1>4, <1>7 DEF Slot
    <2>2. QED BY <2>1, ForkOld DEF OldEntry
  <1>8. CASE t = c
    <2>1. PICK q : q = [j \in 1 .. 1 |-> i]
      OBVIOUS
    <2>2. q \in Prefix /\ Len(q) = 1 /\ q[1] = i
      <3>1. 1 \in 1 .. Levels /\ 1 \in 1 .. 1
        BY Numbers
      <3>2. q \in [1 .. 1 -> Index] /\ q[1] = i
        BY <1>4, <2>1, <3>1
      <3>3. QED BY <3>1, <3>2, PrefixFrom
    <2>3. t = ChildAbove(c, fresh, q) /\ q[1] \notin KernelTop
      BY <1>1, <1>4, <1>8, <2>2 DEF ChildAbove
    <2>4. q \in Paths /\ x.tab[t][i] = [Ent(m, p, q) EXCEPT !.to = fresh[q]]
      BY <1>6, <2>2, <2>3
    <2>5. QED BY <2>2, <2>3, <2>4 DEF NewEntry
  <1>9. CASE t \in {fresh[q] : q \in Paths}
    <2>1. PICK u \in Paths : t = fresh[u]
      BY <1>9
    <2>2. u \in Prefix /\ t \in m.free /\ t \in Table /\ t # c /\ t \in Frame
      BY <1>1, <1>3, <2>1, Sets
    <2>3. Len(u) < Levels
      <3>1. ASSUME ~(Len(u) < Levels) PROVE FALSE
        <4>1. t \notin {fresh[r] : r \in {v \in Paths : Len(v) < Levels}}
          BY <1>3, <2>1, <3>1
        <4>2. x.tab[t] = m.tab[t]
          BY <1>1, <2>2, <4>1 DEF Cloned
        <4>3. m.tab[t] = NoTable
          BY <1>1, <2>2 DEF Base
        <4>4. QED BY <1>4, <4>2, <4>3, Entries
      <3>2. QED BY <3>1
    <2>4. PICK q : q = Append(u, i)
      OBVIOUS
    <2>5. q \in Prefix /\ Up(q) = u /\ q[Len(q)] = i /\ Len(q) = Len(u) + 1
      BY <1>4, <2>2, <2>3, <2>4, UpAppend
    <2>6. Len(q) # 1
      <3>1. Len(u) \in Nat \ {0}
        BY <2>2, PrefixIs
      <3>2. QED BY <2>5, <3>1
    <2>7. q[1] \notin KernelTop
      <3>1. Up(q)[1] = q[1]
        BY <2>5, <2>6, UpIs
      <3>2. u[1] \notin KernelTop
        BY <1>1, <1>3, <2>1, Sets DEF Valid
      <3>3. QED BY <2>5, <3>1, <3>2
    <2>8. t = ChildAbove(c, fresh, q)
      BY <2>1, <2>5, <2>6 DEF ChildAbove
    <2>9. q \in Paths /\ x.tab[t][i] = [Ent(m, p, q) EXCEPT !.to = fresh[q]]
      BY <1>6, <2>1, <2>5, <2>7, <2>8
    <2>10. QED BY <2>5, <2>8, <2>9 DEF NewEntry
  <1>10. QED BY <1>5, <1>7, <1>8, <1>9

\* The labels of the child's tables and pages.
ForkOwn(own, Fresh, c) == [t \in Table |-> IF t \in Fresh THEN c ELSE own[t]]
ForkPath(path, Fresh, Paths, fresh) ==
  [t \in Table |-> IF t \in Fresh THEN PathOf(Paths, fresh, t) ELSE path[t]]

LEMMA ForkGood ==
  ASSUME NEW m, NEW L, NEW own, NEW path, NEW p, NEW c, NEW Paths, NEW fresh, NEW x,
         Forked(m, L, own, path, p, c, Paths, fresh, x)
  PROVE  Good(x, L \union {c})
  <1>1. PICK K, Fresh : K = L \union {c} /\ Fresh = {fresh[q] : q \in Paths}
    OBVIOUS
  <1>2. /\ Base(m, L) /\ Fits(m, L, own, path) /\ m \in Mem /\ L \in SUBSET Process
        /\ c \in Process /\ c \notin L /\ p \in L /\ K \in SUBSET Process
    BY <1>1 DEF Forked, Base
  <1>3. x \in Mem /\ x.given = m.given /\ x.free = m.free \ Fresh
    BY <1>1, ForkMem
  <1>4. /\ Paths \in SUBSET Prefix /\ \A q \in Paths : fresh[q] \in m.free /\ fresh[q] \in Frame
        /\ \A q, r \in Paths : fresh[q] = fresh[r] => q = r
        /\ \A q \in Paths : Ent(m, p, q).user /\ Ent(m, p, q) \in Entry
        /\ \A q \in Paths : Len(q) # 1 => Up(q) \in Paths
    BY ForkFresh
  <1>5. /\ Fresh \subseteq m.free /\ Fresh \subseteq Frame /\ m.free \subseteq Frame
        /\ Used(x) = Used(m) \union Fresh /\ Used(m) \intersect Fresh = {}
    <2>1. Fresh \subseteq m.free /\ m.free \subseteq Frame /\ m.free \intersect m.given = {}
      BY <1>1, <1>2, <1>4, MemIs DEF Base
    <2>2. QED BY <1>3, <2>1 DEF Used
  <1>6. \A t \in Table : t # c /\ t \notin Fresh => x.tab[t] = m.tab[t]
    BY <1>1, ForkOld
  <1>7. \A t \in InUse(m, L) : t # c /\ t \notin Fresh /\ t \in Table
    BY <1>1, ForkOld
  <1>8. ASSUME NEW t, NEW i, Slot(x, K, t, i), Present(x.tab[t][i])
        PROVE  OldEntry(m, L, x, t, i) \/ NewEntry(m, p, c, Paths, fresh, x, t, i)
    <2>1. Slot(x, L \union {c}, t, i) /\ Present(x.tab[t][i])
      BY <1>1, <1>8
    <2>2. QED BY <2>1, ForkSlot
  <1>9. \A q \in Paths : LET e == [Ent(m, p, q) EXCEPT !.to = fresh[q]] IN
          e.to = fresh[q] /\ e.user
    BY <1>4 DEF Entry
  <1>10. \A t, i : Slot(m, L, t, i) /\ Present(m.tab[t][i]) => EntryFits(m, own, path, t, i)
    BY <1>2 DEF Fits
  <1>11. \A t, i : Slot(m, L, t, i) => t \in InUse(m, L)
    BY DEF Slot
  <1>12. PICK own2, path2 : own2 = ForkOwn(own, Fresh, c) /\ path2 = ForkPath(path, Fresh, Paths, fresh)
    OBVIOUS
  <1>13. own \in [Table -> Space] /\ path \in [Table -> Prefix \union {<<>>}]
         /\ \A s \in Space : own[s] = s /\ path[s] = <<>>
    BY <1>2 DEF Fits
  <1>14. \A t \in Table : t \notin Fresh => own2[t] = own[t] /\ path2[t] = path[t]
    BY <1>12 DEF ForkOwn, ForkPath
  <1>15. \A q \in Paths : fresh[q] \in Table /\ fresh[q] \in Fresh
                          /\ own2[fresh[q]] = c /\ path2[fresh[q]] = q
    <2>1. TAKE q \in Paths
    <2>2. fresh[q] \in Table /\ fresh[q] \in Fresh
      BY <1>1, <1>4, Sets
    <2>3. PathOf(Paths, fresh, fresh[q]) = q
      BY <1>4 DEF PathOf
    <2>4. QED BY <1>12, <2>2, <2>3 DEF ForkOwn, ForkPath
  <1>16. c \in Space /\ c \in Table /\ c \notin Fresh /\ c # Root /\ c \notin Frame
    BY <1>2, <1>5, Sets
  <1>17. \A q \in Paths : LET t == ChildAbove(c, fresh, q) IN
           t \in Table /\ t # Root /\ own2[t] = c /\ path2[t] = PathAbove(q)
    <2>1. TAKE q \in Paths
    <2>2. CASE Len(q) = 1
      BY <1>13, <1>14, <1>16, <2>2 DEF ChildAbove, PathAbove
    <2>3. CASE Len(q) # 1
      <3>1. Up(q) \in Paths
        BY <1>4, <2>3
      <3>2. fresh[Up(q)] # Root
        BY <1>4, <3>1, Sets
      <3>3. QED BY <1>15, <2>3, <3>1, <3>2 DEF ChildAbove, PathAbove
    <2>4. QED BY <2>2, <2>3
  <1>18. OneEntry(x, K)
    <2>1. ASSUME NEW t, NEW i, NEW u, NEW j, Slot(x, K, t, i), Slot(x, K, u, j),
                 x.tab[t][i].to \in Frame, x.tab[t][i].to = x.tab[u][j].to
          PROVE  t = u /\ i = j
      <3>1. Present(x.tab[t][i]) /\ Present(x.tab[u][j])
        BY <2>1, Sets DEF Present
      <3>2. PICK f : f = x.tab[t][i].to
        OBVIOUS
      <3>3. \A a, b : Slot(m, L, a, b) /\ m.tab[a][b].to = f => f \notin Fresh
        <4>1. \A a, b : Slot(m, L, a, b) /\ Present(m.tab[a][b]) => m.tab[a][b].to \in Used(m) \union Device
          BY <1>10 DEF EntryFits
        <4>2. f \in Frame /\ f \notin Device /\ f # Nil
          BY <2>1, <3>2, Sets
        <4>3. QED BY <1>5, <4>1, <4>2 DEF Present
      <3>4. CASE OldEntry(m, L, x, t, i)
        <4>1. f \notin Fresh
          BY <3>2, <3>3, <3>4 DEF OldEntry
        <4>2. Slot(m, L, u, j) /\ x.tab[u] = m.tab[u]
          <5>1. ASSUME NEW q \in Paths, x.tab[u][j] = [Ent(m, p, q) EXCEPT !.to = fresh[q]]
                PROVE  FALSE
            <6>1. x.tab[u][j].to = fresh[q] /\ fresh[q] \in Fresh
              BY <1>9, <1>15, <5>1
            <6>2. QED BY <2>1, <3>2, <4>1, <6>1
          <5>2. OldEntry(m, L, x, u, j) \/ NewEntry(m, p, c, Paths, fresh, x, u, j)
            BY <1>8, <2>1, <3>1
          <5>3. QED BY <5>1, <5>2 DEF OldEntry, NewEntry
        <4>3. QED BY <1>2, <2>1, <3>4, <4>2 DEF Base, OneEntry, OldEntry
      <3>5. CASE NewEntry(m, p, c, Paths, fresh, x, t, i)
        <4>1. PICK q \in Paths : t = ChildAbove(c, fresh, q) /\ i = q[Len(q)] /\ f = fresh[q]
          BY <1>9, <3>2, <3>5 DEF NewEntry
        <4>2. f \in Fresh
          BY <1>15, <4>1
        <4>3. PICK r \in Paths : u = ChildAbove(c, fresh, r) /\ j = r[Len(r)] /\ f = fresh[r]
          <5>1. ~OldEntry(m, L, x, u, j)
            BY <2>1, <3>2, <3>3, <4>2 DEF OldEntry
          <5>2. PICK r \in Paths : /\ u = ChildAbove(c, fresh, r) /\ j = r[Len(r)]
                                   /\ x.tab[u][j] = [Ent(m, p, r) EXCEPT !.to = fresh[r]]
            BY <1>8, <2>1, <3>1, <5>1 DEF NewEntry
          <5>3. x.tab[u][j].to = fresh[r]
            BY <1>9, <5>2
          <5>4. QED BY <2>1, <3>2, <5>2, <5>3
        <4>4. q = r
          BY <1>4, <4>1, <4>3
        <4>5. QED BY <4>1, <4>3, <4>4
      <3>6. QED BY <1>8, <2>1, <3>1, <3>4, <3>5
    <2>2. QED BY <2>1 DEF OneEntry
  <1>19. Base(x, K)
    <2>1. x.free \intersect x.given = {}
      BY <1>2, <1>3 DEF Base
    <2>2. \A f \in x.free : x.tab[f] = NoTable
      <3>1. \A f \in m.free \ Fresh : f \in Table /\ f # c /\ m.tab[f] = NoTable
        BY <1>2, <1>5, <1>16, Sets DEF Base
      <3>2. QED BY <1>3, <1>6, <3>1
    <2>3. ASSUME NEW s \in K, NEW i \in KernelTop PROVE x.tab[s][i] = x.tab[Root][i]
      <3>1. x.tab[Root] = m.tab[Root] /\ i \in Index /\ \A r \in L : x.tab[r] = m.tab[r]
        <4>1. Root \in InUse(m, L) /\ \A r \in L : r \in InUse(m, L)
          BY DEF InUse
        <4>2. QED BY <1>6, <1>7, <4>1, Sets
      <3>2. CASE s \in L
        BY <1>2, <3>1, <3>2 DEF Base
      <3>3. CASE s = c
        <4>1. PICK q : q = Append(<<>>, i)
          OBVIOUS
        <4>2. q \in Prefix /\ Len(q) = 1 /\ q[1] = i
          BY <3>1, <4>1, UpAppend
        <4>3. x.tab[c][i] = IF q \in Paths THEN [Ent(m, p, q) EXCEPT !.to = fresh[q]] ELSE Ent(m, p, q)
          <5>1. ChildAbove(c, fresh, q) = c /\ q[Len(q)] = i
            BY <4>2 DEF ChildAbove
          <5>2. x.tab[ChildAbove(c, fresh, q)][q[Len(q)]] =
                  IF q \in Paths THEN [Ent(m, p, q) EXCEPT !.to = fresh[q]] ELSE Ent(m, p, q)
            BY <4>2, ForkTables
          <5>3. QED BY <5>1, <5>2
        <4>4. q \notin Paths
          <5>1. q \in Paths => Valid(L, p, q)
            BY ForkFresh
          <5>2. p # Root
            BY <1>2, Sets
          <5>3. QED BY <4>2, <5>1, <5>2 DEF Valid
        <4>5. Ent(m, p, q) = m.tab[p][i]
          BY <4>2, EntIs
        <4>6. m.tab[p][i] = m.tab[Root][i]
          BY <1>2 DEF Base
        <4>7. QED BY <3>1, <3>3, <4>3, <4>4, <4>5, <4>6
      <3>4. QED BY <1>1, <3>2, <3>3
    <2>4. QED BY <1>2, <1>3, <1>18, <2>1, <2>2, <2>3 DEF Base
  <1>20. Fits(x, K, own2, path2)
    <2>1. own2 \in [Table -> Space] /\ path2 \in [Table -> Prefix \union {<<>>}]
      <3>1. ASSUME NEW t \in Table PROVE own2[t] \in Space /\ path2[t] \in Prefix \union {<<>>}
        <4>1. CASE t \in Fresh
          <5>1. PICK q \in Paths : t = fresh[q]
            BY <1>1, <4>1
          <5>2. QED BY <1>4, <1>15, <1>16, <5>1
        <4>2. CASE t \notin Fresh
          BY <1>13, <1>14, <4>2
        <4>3. QED BY <4>1, <4>2
      <3>2. own2 = [t \in Table |-> own2[t]]
        BY <1>12 DEF ForkOwn
      <3>3. path2 = [t \in Table |-> path2[t]]
        BY <1>12 DEF ForkPath
      <3>4. QED BY <3>1, <3>2, <3>3
    <2>2. \A s \in Space : own2[s] = s /\ path2[s] = <<>>
      BY <1>5, <1>13, <1>14, Sets
    <2>3. ASSUME NEW t, NEW i, Slot(x, K, t, i), Present(x.tab[t][i])
          PROVE  EntryFits(x, own2, path2, t, i)
      <3>1. CASE OldEntry(m, L, x, t, i)
        <4>1. EntryFits(m, own, path, t, i)
          BY <1>10, <2>3, <3>1 DEF OldEntry
        <4>2. t \in Table /\ t \notin Fresh
          BY <1>7, <1>11, <3>1 DEF OldEntry
        <4>3. own2[t] = own[t] /\ path2[t] = path[t]
          BY <1>14, <4>2
        <4>4. m.tab[t][i].to \in Used(m) => /\ m.tab[t][i].to \in Used(x)
                /\ own2[m.tab[t][i].to] = own[m.tab[t][i].to]
                /\ path2[m.tab[t][i].to] = path[m.tab[t][i].to]
          <5>1. \A f \in Used(m) : f \in Table /\ f \notin Fresh /\ f \in Used(x)
            BY <1>5, Sets DEF Used
          <5>2. QED BY <1>14, <5>1
        <4>5. QED BY <3>1, <4>1, <4>3, <4>4 DEF EntryFits, OldEntry
      <3>2. CASE NewEntry(m, p, c, Paths, fresh, x, t, i)
        <4>1. PICK q \in Paths : /\ t = ChildAbove(c, fresh, q) /\ i = q[Len(q)]
                                 /\ x.tab[t][i] = [Ent(m, p, q) EXCEPT !.to = fresh[q]]
          BY <3>2 DEF NewEntry
        <4>2. x.tab[t][i].to = fresh[q] /\ x.tab[t][i].user
          BY <1>9, <4>1
        <4>3. t # Root /\ own2[t] = c /\ path2[t] = PathAbove(q)
          BY <1>17, <4>1
        <4>4. Len(PathAbove(q)) < Levels /\ Append(PathAbove(q), i) = q
          BY <1>4, <4>1, PathAboveIs
        <4>5. fresh[q] \in Used(x) /\ own2[fresh[q]] = c /\ path2[fresh[q]] = q
          BY <1>5, <1>15
        <4>6. QED BY <1>16, <4>2, <4>3, <4>4, <4>5 DEF EntryFits
      <3>3. QED BY <1>8, <2>3, <3>1, <3>2
    <2>4. QED BY <2>1, <2>2, <2>3 DEF Fits
  <1>21. QED BY <1>1, <1>19, <1>20 DEF Good

LEMMA ForkOthers ==
  ASSUME NEW m, NEW L, NEW own, NEW path, NEW p, NEW c, NEW Paths, NEW fresh, NEW x,
         Forked(m, L, own, path, p, c, Paths, fresh, x)
  PROVE  Others(m, x, L, c) /\ RootKept(m, x)
  <1>1. /\ Base(m, L) /\ Fits(m, L, own, path) /\ L \in SUBSET Process /\ c \in Process \ L
    BY DEF Forked, Base
  <1>2. \A t, i : Slot(m, L, t, i) => x.tab[t] = m.tab[t]
    BY ForkOld
  <1>3. ASSUME NEW r, NEW q, Valid(L, r, q) PROVE Ent(x, r, q) = Ent(m, r, q)
    <2>1. \A t, i : Slot(m, L, t, i) /\ own[t] = r => x.tab[t][i] = m.tab[t][i]
      BY <1>2
    <2>2. QED BY <1>1, <1>3, <2>1, WalksKept
  <1>4. ASSUME NEW r \in L \ {c}, NEW q \in Prefix, Valid(L, r, q), Present(Ent(m, r, q))
        PROVE  x.data[Ent(m, r, q).to] = m.data[Ent(m, r, q).to]
    <2>1. Ent(m, r, q).to \in Used(m) /\ Ent(m, r, q).to \in Frame
      BY <1>1, <1>4, OwnFrame
    <2>2. Ent(m, r, q).to \notin {fresh[u] : u \in Paths}
      <3>1. \A u \in Paths : fresh[u] \in m.free
        BY ForkFresh
      <3>2. QED BY <2>1, <3>1 DEF Used
    <2>3. QED BY <2>1, <2>2, ForkMem
  <1>5. RootKept(m, x)
    BY <1>3 DEF RootKept, Valid
  <1>6. QED BY <1>3, <1>4, <1>5 DEF Others

\* The child's walks are the parent's, but for the frames they go through.
LEMMA ForkChild ==
  ASSUME NEW m, NEW L, NEW own, NEW path, NEW p, NEW c, NEW Paths, NEW fresh, NEW x,
         Forked(m, L, own, path, p, c, Paths, fresh, x),
         NEW q \in Prefix, q[1] \notin KernelTop
  PROVE  /\ q \in Paths => Ent(x, c, q) = [Ent(m, p, q) EXCEPT !.to = fresh[q]]
         /\ q \notin Paths => ~Present(Ent(x, c, q))
  <1> DEFINE Right(r) == /\ r \in Paths => Ent(x, c, r) = [Ent(m, p, r) EXCEPT !.to = fresh[r]]
                         /\ r \notin Paths => ~Present(Ent(x, c, r))
             S == {k \in 1 .. Levels : \A r \in Prefix :
                     Len(r) = k /\ r[1] \notin KernelTop => Right(r)}
  <1>1. Levels \in Nat /\ 1 \in 1 .. Levels
    BY Numbers
  <1>2. p \in L
    BY DEF Forked
  <1>3. ASSUME NEW r \in Prefix, r[1] \notin KernelTop, Len(r) # 1 => Up(r) \in Paths,
               Ent(x, c, r) = x.tab[ChildAbove(c, fresh, r)][r[Len(r)]]
        PROVE  Right(r)
    <2>1. x.tab[ChildAbove(c, fresh, r)][r[Len(r)]] =
            IF r \in Paths THEN [Ent(m, p, r) EXCEPT !.to = fresh[r]] ELSE Ent(m, p, r)
      BY <1>3, ForkTables
    <2>2. Valid(L, p, r)
      BY <1>2, <1>3 DEF Valid
    <2>3. Present(Ent(m, p, r)) => r \in Paths
      BY <2>2, ForkFresh
    <2>4. QED BY <1>3, <2>1, <2>3
  <1>4. 1 \in S
    <2>1. ASSUME NEW r \in Prefix, Len(r) = 1, r[1] \notin KernelTop PROVE Right(r)
      <3>1. Ent(x, c, r) = x.tab[ChildAbove(c, fresh, r)][r[Len(r)]]
        BY <2>1, EntIs DEF ChildAbove
      <3>2. QED BY <1>3, <2>1, <3>1
    <2> HIDE DEF Right
    <2>2. QED BY <1>1, <2>1
  <1>5. \A k \in 1 .. Levels : k \in S /\ k # Levels => k + 1 \in S
    <2>1. SUFFICES ASSUME NEW k \in 1 .. Levels, k \in S, k # Levels PROVE k + 1 \in S
      OBVIOUS
    <2>2. k + 1 \in 1 .. Levels /\ k + 1 # 1 /\ (k + 1) - 1 = k
      BY <1>1, <2>1
    <2>3. ASSUME NEW r \in Prefix, Len(r) = k + 1, r[1] \notin KernelTop PROVE Right(r)
      <3>1. PICK u : u = Up(r)
        OBVIOUS
      <3>2. u \in Prefix /\ Len(u) = k /\ u[1] = r[1] /\ Len(r) # 1
        BY <2>2, <2>3, <3>1, UpIs
      <3>3. Right(u)
        BY <2>1, <2>3, <3>2
      <3>4. CASE u \in Paths
        <4>1. Ent(m, p, u) \in Entry /\ fresh[u] \in Frame
          BY <3>4, ForkFresh
        <4>2. Ent(x, c, u).to = fresh[u]
          BY <3>3, <3>4, <4>1 DEF Entry
        <4>3. Present(Ent(x, c, u))
          BY <4>1, <4>2, Sets DEF Present
        <4>4. Ent(x, c, r) = x.tab[ChildAbove(c, fresh, r)][r[Len(r)]]
          BY <3>1, <3>2, <4>2, <4>3, EntIs DEF ChildAbove
        <4>5. QED BY <1>3, <2>3, <3>1, <3>4, <4>4
      <3>5. CASE u \notin Paths
        <4>1. Ent(x, c, r) = NoEntry
          BY <3>1, <3>2, <3>3, <3>5, EntIs
        <4>2. r \notin Paths
          BY <3>1, <3>2, <3>5, ForkFresh
        <4>3. QED BY <4>1, <4>2, Entries
      <3>6. QED BY <3>4, <3>5
    <2> HIDE DEF Right
    <2>4. QED BY <2>2, <2>3
  <1> HIDE DEF S
  <1>6. \A k \in 1 .. Levels : k \in S
    BY <1>1, <1>4, <1>5, Ladder
  <1>7. Len(q) \in 1 .. Levels
    BY PrefixIs
  <1>8. Right(q)
    <2> HIDE DEF Right
    <2>1. QED BY <1>6, <1>7 DEF S
  <1>9. QED BY <1>8

\* The child sees what the parent saw.
LEMMA ForkView ==
  ASSUME NEW m, NEW L, NEW own, NEW path, NEW p, NEW c, NEW Paths, NEW fresh, NEW x,
         Forked(m, L, own, path, p, c, Paths, fresh, x)
  PROVE  ViewOf(x, c) = ViewOf(m, p)
  <1>1. p \in L
    BY DEF Forked
  <1>2. ASSUME NEW q \in Prefix, q[1] \notin KernelTop
        PROVE  /\ UsedBy(Ent(x, c, q)) <=> q \in Paths
               /\ UsedBy(Ent(m, p, q)) <=> q \in Paths
               /\ q \in Paths => Ent(x, c, q).writable = Ent(m, p, q).writable
    <2>1. Valid(L, p, q)
      BY <1>1, <1>2 DEF Valid
    <2>2. UsedBy(Ent(m, p, q)) <=> q \in Paths
      BY <2>1, ForkFresh DEF UsedBy
    <2>3. CASE q \in Paths
      <3>1. Ent(x, c, q) = [Ent(m, p, q) EXCEPT !.to = fresh[q]]
        BY <1>2, <2>3, ForkChild
      <3>2. Ent(m, p, q) \in Entry /\ fresh[q] \in Frame /\ Ent(m, p, q).user
        BY <2>3, ForkFresh
      <3>3. /\ Ent(x, c, q).to = fresh[q] /\ Ent(x, c, q).user = Ent(m, p, q).user
            /\ Ent(x, c, q).writable = Ent(m, p, q).writable
        BY <3>1, <3>2 DEF Entry
      <3>4. QED BY <2>2, <2>3, <3>2, <3>3, Sets DEF UsedBy, Present
    <2>4. CASE q \notin Paths
      <3>1. ~Present(Ent(x, c, q))
        BY <1>2, <2>4, ForkChild
      <3>2. QED BY <2>2, <2>4, <3>1 DEF UsedBy
    <2>5. QED BY <2>3, <2>4
  <1>3. SUFFICES ASSUME NEW a \in UserPages
                 PROVE  /\ Readable(x, c, a) <=> Readable(m, p, a)
                        /\ Writable(x, c, a) <=> Writable(m, p, a)
                        /\ Readable(m, p, a) =>
                             x.data[Target(x, c, a)] = m.data[Target(m, p, a)]
    <2>1. \A a : Writable(x, c, a) \in BOOLEAN /\ Writable(m, p, a) \in BOOLEAN
      BY DEF Writable
    <2> DEFINE Seen(y, s, a) == IF Readable(y, s, a)
                                THEN <<y.data[Target(y, s, a)], Writable(y, s, a)>> ELSE <<>>
    <2>2. SUFFICES \A a \in UserPages : Seen(x, c, a) = Seen(m, p, a)
      BY DEF ViewOf
    <2>3. TAKE a \in UserPages
    <2>4. /\ Readable(x, c, a) <=> Readable(m, p, a)
          /\ Writable(x, c, a) <=> Writable(m, p, a)
          /\ Readable(m, p, a) => x.data[Target(x, c, a)] = m.data[Target(m, p, a)]
      BY <1>3
    <2>5. Writable(x, c, a) = Writable(m, p, a)
      BY <2>1, <2>4
    <2>6. QED BY <2>4, <2>5
  <1>4. Levels \in 1 .. Levels
    BY Numbers
  <1>5. \A k \in 1 .. Levels : Cut(a, k) \in Prefix /\ Cut(a, k)[1] \notin KernelTop
    <2>1. \A k \in 1 .. Levels : Cut(a, k) \in Prefix /\ Valid(L, p, Cut(a, k))
      BY <1>1, CutValid
    <2>2. p # Root
      BY <1>1, Sets DEF Forked, Base
    <2>3. QED BY <2>1, <2>2 DEF Valid
  <1>6. a \in Address /\ a \in Prefix /\ Cut(a, Levels) = a /\ Len(a) = Levels
    BY <1>1, <1>4, CutValid
  <1>7. Readable(x, c, a) <=> Readable(m, p, a)
    BY <1>2, <1>5, <1>6, ReadableIs
  <1>8. Readable(m, p, a) => \A k \in 1 .. Levels : Cut(a, k) \in Paths
    BY <1>2, <1>5, <1>6, ReadableIs
  <1>9. Writable(x, c, a) <=> Writable(m, p, a)
    BY <1>2, <1>5, <1>6, <1>7, <1>8, ReadableIs
  <1>10. ASSUME Readable(m, p, a) PROVE x.data[Target(x, c, a)] = m.data[Target(m, p, a)]
    <2>1. a \in Paths /\ a[1] \notin KernelTop
      BY <1>4, <1>5, <1>6, <1>8, <1>10
    <2>2. Ent(x, c, a) = [Ent(m, p, a) EXCEPT !.to = fresh[a]]
      BY <1>6, <2>1, ForkChild
    <2>3. Ent(m, p, a) \in Entry /\ fresh[a] \in Frame
      BY <2>1, ForkFresh
    <2>4. Ent(x, c, a).to = fresh[a]
      BY <2>2, <2>3 DEF Entry
    <2>5. x.data[fresh[a]] = m.data[Ent(m, p, a).to]
      BY <1>6, <2>1, ForkMem
    <2>6. QED BY <2>4, <2>5, TargetIs
  <1>11. QED BY <1>7, <1>9, <1>10

LEMMA ForkIs ==
  ASSUME NEW m, NEW L, Good(m, L), NEW p \in L, NEW c \in Process \ L,
         Cardinality(UserPaths(m, p)) <= Cardinality(m.free)
  PROVE  LET x == Clone(m, p, c) IN
         /\ Good(x, L \union {c}) /\ Others(m, x, L, c) /\ RootKept(m, x)
         /\ ViewOf(x, c) = ViewOf(m, p)
  <1>1. PICK own, path : Base(m, L) /\ Fits(m, L, own, path) /\ m \in Mem
    BY DEF Good, Base
  <1>2. PICK Paths : Paths = UserPaths(m, p)
    OBVIOUS
  <1>3. PICK fresh : fresh = FreshAll(m, Paths)
    OBVIOUS
  <1>4. PICK x : x = Clone(m, p, c)
    OBVIOUS
  <1>5. Cloned(m, p, c, Paths, fresh, x)
    BY <1>1, <1>2, <1>3, <1>4, CloneIs
  <1>6. Forked(m, L, own, path, p, c, Paths, fresh, x)
    BY <1>1, <1>2, <1>3, <1>5 DEF Forked
  <1>7. QED BY <1>4, <1>6, ForkGood, ForkOthers, ForkView
----------------------------------------------------------------------------
(* The state                                                                *)

\* Frames given back are kept apart, and the byte addresses that FreeDma takes
\* for frame numbers are beyond the bitmap; at boot memory is cleared.
Regime ==
  ~Reuse /\ (\A f \in Frame : f * PageBytes \notin Frame) /\ Leftover = {NoTable}

\* The kernel's part of a memory: the top-level entries made at boot are there,
\* the pages that iomap has not come to are free, and the ones that it has given
\* lead to their devices, but for the pages of T, which programs have mapped.
Tops(m) == \A b \in 1 .. Len(BootPages) : Present(m.tab[Root][BootPages[b][1]])
MmioLeft(m, k, T) ==
  \A j \in 1 .. Len(MmioPages) :
    j > k /\ MmioPages[j] \notin T => ~Present(Ent(m, Root, MmioPages[j]))
Found(m, r, T) ==
  \A phys \in Frame \union Device :
    r[phys] \notin T \union {<<>>} => Target(m, Root, r[phys]) = phys
KernelPart(m, k, r, T) == Tops(m) /\ MmioLeft(m, k, T) /\ Found(m, r, T)

Regions == [Frame \union Device -> Address \union {<<>>}]

Books ==
  /\ alive \subseteq Process
  /\ mmap_start \in [Process -> 0 .. Len(Arena)]
  /\ mmap \in [Process -> Seq(UserPages \union touched)] /\ touched \in SUBSET KernelPages
  /\ heap \in 0 .. Len(HeapPages) /\ mmio \in 0 .. Len(MmioPages)
  /\ regions \in Regions
  /\ dma \subseteq Frame

Whole ==
  /\ Memory \in Mem /\ Books /\ Good(Memory, alive)
  /\ KernelPart(Memory, mmio, regions, touched)

LEMMA Lists ==
  /\ {Len(Image), Len(Arena), Len(BootPages), Len(HeapPages), Len(MmioPages)} \subseteq Nat
  /\ \A i \in 1 .. Len(Arena) : Arena[i] \in UserPages
  /\ FixedAt \subseteq Address
  /\ \A i \in 1 .. Len(BootPages) : BootPages[i] \in Address /\ BootPages[i][1] \in KernelTop
  /\ \A i \in 1 .. Len(HeapPages) : HeapPages[i] \in Address /\ HeapPages[i][1] \in KernelTop
  /\ \A i \in 1 .. Len(MmioPages) : MmioPages[i] \in Address /\ MmioPages[i][1] \in KernelTop
  /\ UserPages \subseteq Address
  <1>1. /\ Image \in Seq(Address) /\ Arena \in Seq(Address) /\ BootPages \in Seq(Address)
        /\ HeapPages \in Seq(Address) /\ MmioPages \in Seq(Address)
    BY AddressSpaceAssumption, Zenon
  <1>2. ASSUME NEW pages \in Seq(Address)
        PROVE  /\ Len(pages) \in Nat /\ DOMAIN pages = 1 .. Len(pages)
               /\ \A i \in 1 .. Len(pages) : pages[i] \in Address
    OBVIOUS
  <1>3. \A i \in DOMAIN Arena : Arena[i][1] \notin KernelTop
    BY AddressSpaceAssumption, Zenon
  <1>4. FixedAt \subseteq Address
    BY AddressSpaceAssumption, Zenon
  <1>5. /\ \A i \in DOMAIN BootPages : BootPages[i][1] \in KernelTop
        /\ \A i \in DOMAIN HeapPages : HeapPages[i][1] \in KernelTop
        /\ \A i \in DOMAIN MmioPages : MmioPages[i][1] \in KernelTop
    BY AddressSpaceAssumption, Zenon
  <1>6. QED BY <1>1, <1>2, <1>3, <1>4, <1>5 DEF UserPages

LEMMA KernelLists ==
  /\ \A t \in KernelTop : \E b \in 1 .. Len(BootPages) : BootPages[b][1] = t
  /\ \A i, j \in 1 .. Len(MmioPages) : MmioPages[i] = MmioPages[j] => i = j
  /\ \A i \in 1 .. Len(MmioPages), j \in 1 .. Len(BootPages) : BootPages[j] # MmioPages[i]
  /\ \A i \in 1 .. Len(MmioPages), j \in 1 .. Len(HeapPages) : HeapPages[j] # MmioPages[i]
  /\ Levels * Len(BootPages) <= NFrames
  <1>1. BootPages \in Seq(Address) /\ HeapPages \in Seq(Address) /\ MmioPages \in Seq(Address)
    BY AddressSpaceAssumption, Zenon
  <1>2. /\ DOMAIN BootPages = 1 .. Len(BootPages) /\ DOMAIN HeapPages = 1 .. Len(HeapPages)
        /\ DOMAIN MmioPages = 1 .. Len(MmioPages)
    BY <1>1
  <1>3. \A t \in KernelTop : \E b \in DOMAIN BootPages : BootPages[b][1] = t
    BY AddressSpaceAssumption, Zenon
  <1>4. \A i, j \in DOMAIN MmioPages : MmioPages[i] = MmioPages[j] => i = j
    BY AddressSpaceAssumption, Zenon
  <1>5. /\ \A i \in DOMAIN MmioPages, j \in DOMAIN BootPages : BootPages[j] # MmioPages[i]
        /\ \A i \in DOMAIN MmioPages, j \in DOMAIN HeapPages : HeapPages[j] # MmioPages[i]
    BY AddressSpaceAssumption, Zenon
  <1>6. Levels * Len(BootPages) <= NFrames
    BY AddressSpaceAssumption, Zenon
  <1>7. QED BY <1>2, <1>3, <1>4, <1>5, <1>6

LEMMA BooksType == Memory \in Mem /\ Books => TypeOK
  <1>1. SUFFICES ASSUME Memory \in Mem, Books PROVE TypeOK
    OBVIOUS
  <1>2. UserPages \union touched \subseteq Address
    BY <1>1 DEF Books, UserPages, KernelPages
  <1>3. \A p \in Process : mmap[p] \in Seq(Address)
    <2>1. TAKE p \in Process
    <2>2. mmap[p] \in Seq(UserPages \union touched)
      BY <1>1 DEF Books
    <2>3. QED BY <1>2, <2>2
  <1>4. mmap \in [Process -> Seq(Address)]
    BY <1>1, <1>3 DEF Books
  <1>5. QED BY <1>1, <1>4 DEF TypeOK, Mem, Memory, Books, Regions

\* What Becomes says of the memory as a whole.
LEMMA Lands ==
  ASSUME NEW x \in Mem, Becomes(x)
  PROVE  Memory' = x
  BY DEF Becomes, Memory, Mem

LEMMA WholeNext ==
  ASSUME NEW x, Becomes(x), Good(x, alive'), KernelPart(x, mmio', regions', touched'), Books'
  PROVE  Whole'
  <1>1. x \in Mem
    BY DEF Good, Base
  <1>2. Memory' = x
    BY <1>1, Lands
  <1>3. Good(Memory, alive)' /\ KernelPart(Memory, mmio, regions, touched)'
    BY <1>2
  <1>4. (Memory \in Mem)'
    BY <1>1, <1>2
  <1>5. QED BY <1>3, <1>4 DEF Whole

\* Nobody but p sees a change.
Unseen(p) == \A q \in alive \ {p} : View(q)' = View(q)

LEMMA ViewNext ==
  ASSUME NEW x \in Mem, Becomes(x), NEW q
  PROVE  View(q)' = ViewOf(x, q) /\ View(q) = ViewOf(Memory, q)
  <1>1. Memory' = x
    BY Lands
  <1>2. View(q)' = ViewOf(x, q)
    BY <1>1, Zenon DEF View, ViewOf, Memory
  <1>3. View(q) = ViewOf(Memory, q)
    BY Zenon DEF View, ViewOf, Memory
  <1>4. QED BY <1>2, <1>3

LEMMA UnseenIs ==
  ASSUME NEW x, Becomes(x), Good(x, alive'), NEW p, Others(Memory, x, alive, p)
  PROVE  Unseen(p)
  <1>1. x \in Mem
    BY DEF Good, Base
  <1>2. ASSUME NEW q \in alive \ {p} PROVE View(q)' = View(q)
    <2>1. ViewOf(x, q) = ViewOf(Memory, q)
      BY <1>2, SameView
    <2>2. QED BY <1>1, <2>1, ViewNext
  <1>3. QED BY <1>2 DEF Unseen

LEMMA RootTop ==
  ASSUME NEW m, NEW a \in Address
  PROVE  /\ Cut(a, 1) \in Prefix /\ Len(Cut(a, 1)) = 1 /\ Cut(a, 1)[1] = a[1]
         /\ Ent(m, Root, Cut(a, 1)) = m.tab[Root][a[1]]
  <1>1. a \in Prefix /\ 1 \in 1 .. Len(a)
    BY AddressIs, PrefixIs
  <1>2. Cut(a, 1) \in Prefix /\ Len(Cut(a, 1)) = 1 /\ Cut(a, 1)[1] = a[1]
    BY <1>1, CutIs
  <1>3. QED BY <1>2, EntIs

LEMMA KernelPartKeptBut ==
  ASSUME NEW m, NEW x, NEW k, NEW r \in Regions, NEW T \in SUBSET Address, NEW U, U \subseteq T,
         NEW A, A \subseteq T, RootKeptBut(m, x, A), KernelPart(m, k, r, U)
  PROVE  KernelPart(x, k, r, T)
  <1>1. Tops(x)
    <2>1. SUFFICES ASSUME NEW b \in 1 .. Len(BootPages) PROVE Present(x.tab[Root][BootPages[b][1]])
      BY DEF Tops
    <2>2. Present(m.tab[Root][BootPages[b][1]]) /\ BootPages[b] \in Address
      BY Lists DEF KernelPart, Tops
    <2>3. Cut(BootPages[b], 1) \notin A
      BY <2>2, RootTop, TablesBelow, AddressIs
    <2>4. QED BY <2>2, <2>3, RootTop DEF RootKeptBut
  <1>2. MmioLeft(x, k, T)
    <2>1. SUFFICES ASSUME NEW j \in 1 .. Len(MmioPages), j > k, MmioPages[j] \notin T
                   PROVE  ~Present(Ent(x, Root, MmioPages[j]))
      BY DEF MmioLeft
    <2>2. MmioPages[j] \in Prefix /\ ~Present(Ent(m, Root, MmioPages[j]))
      BY <2>1, Lists, AddressIs DEF KernelPart, MmioLeft
    <2>3. QED BY <2>1, <2>2 DEF RootKeptBut
  <1>3. Found(x, r, T)
    <2>1. SUFFICES ASSUME NEW phys \in Frame \union Device, r[phys] \notin T \union {<<>>}
                   PROVE  Target(x, Root, r[phys]) = phys
      BY DEF Found
    <2>2. r[phys] \in Address /\ r[phys] \notin A /\ Target(m, Root, r[phys]) = phys
      BY <2>1 DEF KernelPart, Found, Regions
    <2>3. QED BY <2>2, AddressIs, TargetIs DEF RootKeptBut
  <1>4. QED BY <1>1, <1>2, <1>3 DEF KernelPart

LEMMA KernelPartKept ==
  ASSUME NEW m, NEW x, NEW k, NEW r \in Regions, NEW T \in SUBSET Address, RootKept(m, x),
         KernelPart(m, k, r, T)
  PROVE  KernelPart(x, k, r, T)
  <1>1. PICK A : A = {}
    OBVIOUS
  <1>2. RootKeptBut(m, x, A) /\ A \subseteq T
    BY <1>1 DEF RootKept, RootKeptBut
  <1>3. QED BY <1>2, KernelPartKeptBut

CutsTo(a) == {Cut(a, i) : i \in 1 .. Levels}

\* A page of the kernel's is mapped; what iomap comes to next is not that one,
\* unless a program has mapped it.
LEMMA KernelPartMapped ==
  ASSUME NEW m, NEW x, NEW L, NEW a \in Address, NEW k \in Nat, NEW j \in Nat, k <= j,
         Extends(m, x, L, Root, CutsTo(a), Levels),
         NEW T \in SUBSET Address, NEW U, U \subseteq T,
         \A i \in 1 .. Len(MmioPages) : i > j /\ MmioPages[i] \notin T => MmioPages[i] # a,
         NEW r \in Regions, KernelPart(m, k, r, U)
  PROVE  KernelPart(x, j, r, T)
  <1>1. /\ \A p : Valid(L, Root, p) /\ p \notin CutsTo(a)
                    => Ent(x, Root, p) = Ent(m, Root, p)
        /\ \A p : Valid(L, Root, p) /\ Present(Ent(m, Root, p)) => Ent(x, Root, p) = Ent(m, Root, p)
    BY DEF Extends
  <1>2. \A p \in Prefix : Valid(L, Root, p)
    BY DEF Valid
  <1>3. Tops(x)
    <2>1. SUFFICES ASSUME NEW b \in 1 .. Len(BootPages) PROVE Present(x.tab[Root][BootPages[b][1]])
      BY DEF Tops
    <2>2. Present(m.tab[Root][BootPages[b][1]]) /\ BootPages[b] \in Address
      BY Lists DEF KernelPart, Tops
    <2>3. Ent(x, Root, Cut(BootPages[b], 1)) = Ent(m, Root, Cut(BootPages[b], 1))
      BY <1>1, <1>2, <2>2, RootTop
    <2>4. QED BY <2>2, <2>3, RootTop
  <1>4. MmioLeft(x, j, T)
    <2>1. SUFFICES ASSUME NEW i \in 1 .. Len(MmioPages), i > j, MmioPages[i] \notin T
                   PROVE  ~Present(Ent(x, Root, MmioPages[i]))
      BY DEF MmioLeft
    <2>2. i > k /\ MmioPages[i] \in Address /\ MmioPages[i] # a
      BY <2>1, Lists
    <2>3. ~Present(Ent(m, Root, MmioPages[i]))
      BY <2>1, <2>2 DEF KernelPart, MmioLeft
    <2>4. MmioPages[i] \notin CutsTo(a)
      <3>1. SUFFICES ASSUME NEW l \in 1 .. Levels, MmioPages[i] = Cut(a, l) PROVE FALSE
        BY DEF CutsTo
      <3>2. Len(a) = Levels /\ a \in Prefix /\ Len(MmioPages[i]) = Levels
        BY <2>2, AddressIs
      <3>3. Len(Cut(a, l)) = l /\ Cut(a, Len(a)) = a
        BY <3>2, CutIs, PrefixIs
      <3>4. QED BY <2>2, <3>1, <3>2, <3>3
    <2>5. QED BY <1>1, <1>2, <2>2, <2>3, <2>4, AddressIs
  <1>5. Found(x, r, T)
    <2>1. SUFFICES ASSUME NEW phys \in Frame \union Device, r[phys] \notin T \union {<<>>}
                   PROVE  Target(x, Root, r[phys]) = phys
      BY DEF Found
    <2>2. r[phys] \in Address /\ Target(m, Root, r[phys]) = phys
      BY <2>1 DEF KernelPart, Found, Regions
    <2>3. Present(Ent(m, Root, r[phys]))
      BY <2>2, TargetIs, Sets DEF Present
    <2>4. QED BY <1>1, <1>2, <2>2, <2>3, AddressIs, TargetIs
  <1>6. QED BY <1>3, <1>4, <1>5 DEF KernelPart
----------------------------------------------------------------------------
(* The first state                                                          *)

\* Memory before anything is mapped.
Cleared == Blank([f \in Frame |-> NoTable])
Booted == MapPages(Cleared, Root, BootPages, FALSE, FALSE)

LEMMA BlankGood == Good(Cleared, {}) /\ \A q \in Prefix : ~Present(Ent(Cleared, Root, q))
  <1>1. /\ Cleared \in Mem /\ Cleared.free = Frame /\ Cleared.given = {}
        /\ \A t \in Table : Cleared.tab[t] = NoTable
    <2>1. [t \in Table |-> NoTable] \in [Table -> [Index -> Entry]]
      BY Entries
    <2>2. [f \in Frame |-> 0] \in [Frame -> Value]
      BY DEF Value
    <2>3. PICK tb : tb = [t \in Table |-> IF t \in Frame THEN [f \in Frame |-> NoTable][t] ELSE NoTable]
      OBVIOUS
    <2>4. tb = [t \in Table |-> NoTable]
      BY <2>3
    <2>5. Cleared = [tab |-> tb, data |-> [f \in Frame |-> 0], free |-> Frame, given |-> {}]
      BY <2>3 DEF Cleared, Blank
    <2>6. QED BY <2>1, <2>2, <2>4, <2>5 DEF Mem
  <1>2. \A t \in Table, i \in Index : ~Present(Cleared.tab[t][i]) /\ Cleared.tab[t][i].to \notin Frame
    BY <1>1, Entries, Sets DEF Present, NoTable, NoEntry
  <1>3. \A t, i : Slot(Cleared, {}, t, i) => t \in Table /\ i \in Index
    BY InUseIs
  <1>4. Base(Cleared, {})
    BY <1>1, <1>2, <1>3, Sets DEF Base, OneEntry
  <1>5. Fits(Cleared, {}, [t \in Table |-> IF t \in Space THEN t ELSE Root], [t \in Table |-> <<>>])
    BY <1>2, <1>3, Sets DEF Fits
  <1>6. ASSUME NEW q \in Prefix PROVE ~Present(Ent(Cleared, Root, q))
    BY <1>2, PrefixIs, PresentTop, Sets
  <1>7. QED BY <1>4, <1>5, <1>6 DEF Good

LEMMA BootedIs ==
  /\ Good(Booted, {}) /\ Tops(Booted) /\ MmioLeft(Booted, 0, {})
  <1>1. \A i \in 1 .. Len(BootPages) : Valid({}, Root, BootPages[i]) /\ BootPages[i][1] \in KernelTop
    BY Lists, AddressIs DEF Valid
  <1>2. Cardinality(Cleared.free) >= Levels * Len(BootPages)
    <2>1. Cardinality(Frame) = NFrames
      BY Numbers, FS_Interval
    <2>2. Cleared.free = Frame
      BY DEF Cleared, Blank
    <2>3. QED BY <2>1, <2>2, KernelLists
  <1>3. PagesCall(Cleared, {}, Root, BootPages, FALSE, FALSE)
    <2>1. BootPages \in Seq(Address)
      BY AddressSpaceAssumption, Zenon
    <2>2. QED BY <1>1, <1>2, <2>1, BlankGood DEF PagesCall
  <1>4. PagesStage(Cleared, {}, Root, BootPages, Len(BootPages), Booted)
    BY <1>3, MapPagesIs DEF Booted
  <1>5. /\ Good(Booted, {}) /\ \A i \in 1 .. Len(BootPages) : Present(Ent(Booted, Root, BootPages[i]))
        /\ \A p : Valid({}, Root, p) /\ p \notin CutsOf(BootPages, Len(BootPages))
                    => Ent(Booted, Root, p) = Ent(Cleared, Root, p)
    BY <1>4 DEF PagesStage, Extends
  <1>6. Tops(Booted)
    BY <1>5, Lists, AddressIs, PresentTop DEF Tops
  <1>7. MmioLeft(Booted, 0, {})
    <2>1. SUFFICES ASSUME NEW i \in 1 .. Len(MmioPages)
                   PROVE  ~Present(Ent(Booted, Root, MmioPages[i]))
      BY DEF MmioLeft
    <2>2. MmioPages[i] \in Address /\ MmioPages[i] \in Prefix /\ Len(MmioPages[i]) = Levels
      BY Lists, AddressIs
    <2>3. MmioPages[i] \notin CutsOf(BootPages, Len(BootPages))
      <3>1. SUFFICES ASSUME NEW b \in 1 .. Len(BootPages), NEW l \in 1 .. Levels,
                            MmioPages[i] = Cut(BootPages[b], l)
                     PROVE  FALSE
        BY DEF CutsOf
      <3>2. Len(BootPages[b]) = Levels /\ BootPages[b] \in Prefix
        BY Lists, AddressIs
      <3>3. Len(Cut(BootPages[b], l)) = l /\ Cut(BootPages[b], Len(BootPages[b])) = BootPages[b]
        BY <3>2, CutIs, PrefixIs
      <3>4. QED BY <2>2, <3>1, <3>2, <3>3, KernelLists
    <2>4. QED BY <1>5, <2>2, <2>3, BlankGood DEF Valid
  <1>8. QED BY <1>5, <1>6, <1>7

LEMMA InitIs == ASSUME Regime, Init PROVE Whole
  <1>1. PICK n : n = Clone(Booted, Root, InitProc)
    OBVIOUS
  <1>2. tab = n.tab /\ data = n.data /\ free = n.free /\ given = n.given
    <2>1. PICK ram \in [Frame -> Leftover] :
            LET y == Clone(MapPages(Blank(ram), Root, BootPages, FALSE, FALSE), Root, InitProc)
            IN  tab = y.tab /\ data = y.data /\ free = y.free /\ given = y.given
      BY Zenon DEF Init
    <2>2. ram = [f \in Frame |-> NoTable]
      BY DEF Regime
    <2>3. QED BY <1>1, <2>1, <2>2, Zenon DEF Booted, Cleared
  <1>3. InitProc \in Process
    BY AddressSpaceAssumption, Zenon
  <1>4. /\ n \in Mem /\ n.given = Booted.given /\ n.free = Booted.free /\ n.data = Booted.data
        /\ n.tab[InitProc] = Booted.tab[Root]
        /\ \A t \in Table : t # InitProc => n.tab[t] = Booted.tab[t]
    BY <1>1, <1>3, BootedIs, CloneRoot
  <1>5. Renewed(Booted, {}, InitProc, {}, n)
    BY <1>3, <1>4, BootedIs DEF Renewed
  <1>6. Good(n, {InitProc}) /\ RootKept(Booted, n)
    BY <1>5, RenewedGood, RenewedWalks
  <1>7. Memory = n
    BY <1>2, <1>4 DEF Memory, Mem
  <1>8. /\ alive = {InitProc} /\ heap = 0 /\ mmio = 0 /\ dma = {} /\ touched = {}
        /\ mmap_start = [p \in Process |-> 0] /\ mmap = [p \in Process |-> <<>>]
        /\ regions = [phys \in Frame \union Device |-> <<>>]
    BY DEF Init
  <1>9. Books
    <2>1. regions \in Regions
      BY <1>8 DEF Regions
    <2>2. mmap \in [Process -> Seq(UserPages \union touched)] /\ touched \in SUBSET KernelPages
      BY <1>8
    <2>3. 0 \in 0 .. Len(Arena) /\ 0 \in 0 .. Len(HeapPages) /\ 0 \in 0 .. Len(MmioPages)
      BY Lists
    <2>4. mmap_start \in [Process -> 0 .. Len(Arena)]
      BY <1>8, <2>3
    <2>5. QED BY <1>3, <1>8, <2>1, <2>2, <2>3, <2>4 DEF Books
  <1>10. KernelPart(Booted, 0, regions, touched)
    BY <1>8, BootedIs DEF KernelPart, Found
  <1>11. KernelPart(n, 0, regions, touched)
    BY <1>6, <1>8, <1>9, <1>10, KernelPartKept DEF Books
  <1>12. QED BY <1>4, <1>6, <1>7, <1>8, <1>9, <1>11 DEF Whole
----------------------------------------------------------------------------
(* The calls of a process                                                   *)

LEMMA WholeIs ==
  ASSUME Whole
  PROVE  /\ Good(Memory, alive) /\ Books /\ KernelPart(Memory, mmio, regions, touched)
         /\ touched \in SUBSET KernelPages /\ touched \in SUBSET Address
         /\ Memory \in Mem /\ alive \in SUBSET Process /\ regions \in Regions
         /\ Memory.tab = tab /\ Memory.data = data /\ Memory.free = free /\ Memory.given = given
         /\ Cardinality(free) \in Nat /\ heap \in Nat /\ mmio \in Nat
  <1>1. Memory.tab = tab /\ Memory.data = data /\ Memory.free = free /\ Memory.given = given
    BY DEF Memory
  <1>2. Memory \in Mem /\ Books /\ Good(Memory, alive) /\ KernelPart(Memory, mmio, regions, touched)
    BY DEF Whole
  <1>3. Cardinality(free) \in Nat
    BY <1>1, <1>2, MemIs, FramesFinite
  <1>4. heap \in Nat /\ mmio \in Nat
    BY <1>2, Lists DEF Books
  <1>5. touched \in SUBSET KernelPages /\ touched \in SUBSET Address
    BY <1>2 DEF Books, KernelPages
  <1>6. QED BY <1>1, <1>2, <1>3, <1>4, <1>5 DEF Books

LEMMA ForkStep ==
  ASSUME Whole, NEW p, NEW child \in Process, Fork(p, child)
  PROVE  Whole' /\ Unseen(p)
  <1>1. PICK x : x = Clone(Memory, p, child)
    OBVIOUS
  <1>2. /\ p \in alive /\ child \in Process \ alive /\ Becomes(x)
        /\ alive' = alive \union {child}
        /\ UNCHANGED <<mmap_start, mmap, heap, drivers, touched>>
    BY <1>1 DEF Fork
  <1>3. Cardinality(UserPaths(Memory, p)) <= Cardinality(Memory.free)
    <2>1. IsFiniteSet(UserPaths(Memory, p)) /\ Cardinality(UserPaths(Memory, p)) \in Nat
      BY <1>2, WholeIs, PathsFinite DEF Good
    <2>2. QED BY <2>1, WholeIs DEF Fork, Left
  <1>4. /\ Good(x, alive \union {child}) /\ Others(Memory, x, alive, child) /\ RootKept(Memory, x)
    BY <1>1, <1>2, <1>3, WholeIs, ForkIs
  <1>5. Good(x, alive') /\ Others(Memory, x, alive, p)
    BY <1>2, <1>4 DEF Others
  <1>6. mmio' = mmio /\ regions' = regions /\ touched' = touched /\ Books'
    BY <1>2, WholeIs DEF Books, drivers
  <1>7. KernelPart(x, mmio', regions', touched')
    BY <1>4, <1>6, WholeIs, KernelPartKept
  <1>8. QED BY <1>2, <1>5, <1>6, <1>7, WholeNext, UnseenIs

LEMMA ExecStep ==
  ASSUME Regime, Whole, NEW p, Exec(p)
  PROVE  Whole' /\ Unseen(p)
  <1>1. PICK x : x = Load(GiveBack(Clone(Memory, Root, p), FramesToFree(Memory, p)), p)
    OBVIOUS
  <1>2. p \in alive /\ Becomes(x) /\ UNCHANGED <<spaces, heap, drivers, touched>>
        /\ Cardinality(Memory.free) >= Levels * Len(Image)
    BY <1>1, WholeIs DEF Exec, Left
  <1>3. Good(x, alive) /\ Others(Memory, x, alive, p) /\ RootKept(Memory, x)
    BY <1>1, <1>2, WholeIs, ExecIs DEF Regime
  <1>4. alive' = alive /\ mmio' = mmio /\ regions' = regions /\ touched' = touched /\ Books'
    BY <1>2, WholeIs DEF Books, drivers, spaces
  <1>5. KernelPart(x, mmio', regions', touched')
    BY <1>3, <1>4, WholeIs, KernelPartKept
  <1>6. QED BY <1>2, <1>3, <1>4, <1>5, WholeNext, UnseenIs

\* Process p maps page a in the kernel's part.
KernelCall(m, L, p, a, phys) ==
  /\ Good(m, L) /\ p \in L /\ a \in Address /\ a[1] \in KernelTop /\ Tops(m)
  /\ Cardinality(m.free) >= Levels
  /\ \/ phys = Nil \/ phys \in Device
     \/ phys \in Frame \ m.free /\ Untouched(m, L, phys)

LEMMA KernelMapped ==
  ASSUME NEW m, NEW L, NEW p, NEW a, NEW phys, KernelCall(m, L, p, a, phys),
         NEW user \in BOOLEAN, NEW w \in BOOLEAN, NEW x, x = MapPage(m, p, a, phys, user, w)
  PROVE  /\ Good(x, L) /\ Others(m, x, L, p) /\ Extends(m, x, L, Root, CutsTo(a), Levels)
         /\ phys # Nil /\ ~Present(Ent(m, Root, a)) => Ent(x, Root, a).to = phys
  <1>1. x = MapPage(m, p, a, phys, user, w)
    OBVIOUS
  <1>2. Present(m.tab[Root][a[1]])
    BY KernelLists DEF KernelCall, Tops
  <1>3. a \in Address /\ Valid(L, Root, a) /\ L \in SUBSET Process /\ p \in L
    BY AddressIs DEF KernelCall, Good, Base, Valid
  <1>4. MapCall(m, L, p, Root, a, phys, user, w)
    BY <1>1, <1>2, <1>3 DEF MapCall, KernelCall
  <1>5. /\ Extends(m, x, L, Root, CutsTo(a), Levels)
        /\ phys # Nil /\ ~Present(Ent(m, Root, a)) => Ent(x, Root, a).to = phys
    BY <1>1, <1>4, MapPageIs DEF CutsTo
  <1>6. Good(x, L)
    BY <1>5 DEF Extends
  <1>7. Others(m, x, L, p)
    BY <1>3, <1>5, ExtendsOthers
  <1>8. QED BY <1>1, <1>5, <1>6, <1>7

\* The kernel's own pages.
KernelPage(m, p, a, phys) == MapPage(m, p, a, phys, FALSE, FALSE)

LEMMA KernelPageIs ==
  ASSUME NEW m, NEW L, NEW p, NEW a, NEW phys, KernelCall(m, L, p, a, phys),
         NEW x, x = KernelPage(m, p, a, phys)
  PROVE  /\ Good(x, L) /\ Others(m, x, L, p) /\ Extends(m, x, L, Root, CutsTo(a), Levels)
         /\ phys # Nil /\ ~Present(Ent(m, Root, a)) => Ent(x, Root, a).to = phys
  <1>1. PICK w \in BOOLEAN : x = MapPage(m, p, a, phys, w, w)
    BY Zenon DEF KernelPage
  <1>2. QED BY <1>1, KernelMapped

LEMMA MapStepIs ==
  ASSUME Whole, NEW p, NEW start \in Address, NEW prot, Map(p, start, prot),
         mmap_start' \in [Process -> 0 .. Len(Arena)]
  PROVE  Whole' /\ Unseen(p)
  <1>1. PICK x : x = IF prot = "none" THEN Memory
                     ELSE MapPage(Memory, p, start, Nil, TRUE, prot = "write")
    OBVIOUS
  <1>2. /\ p \in alive /\ p \in Process /\ p # Root /\ Becomes(x)
        /\ UNCHANGED <<alive, heap, drivers>>
        /\ mmap' = [mmap EXCEPT ![p] = Append(@, start)]
        /\ touched' = touched \union ({start} \intersect KernelPages)
        /\ Cardinality(Memory.free) >= Levels
    BY <1>1, WholeIs, Sets DEF Map, Left
  <1>3. /\ alive' = alive /\ heap' = heap /\ mmio' = mmio /\ regions' = regions /\ dma' = dma
        /\ touched' \in SUBSET KernelPages /\ touched' \in SUBSET Address /\ touched \subseteq touched'
        /\ start \in UserPages \union touched'
    BY <1>2, WholeIs DEF drivers, KernelPages
  <1>4. Good(x, alive) /\ Others(Memory, x, alive, p) /\ KernelPart(x, mmio, regions, touched')
    <2>1. CASE prot = "none"
      <3>1. x = Memory /\ RootKeptBut(Memory, x, {})
        BY <1>1, <2>1 DEF RootKeptBut
      <3>2. KernelPart(x, mmio, regions, touched')
        BY <1>3, <3>1, WholeIs, KernelPartKeptBut
      <3>3. QED BY <3>1, <3>2, WholeIs DEF Others
    <2>2. CASE prot # "none" /\ start \in UserPages
      <3>1. PICK w \in BOOLEAN : x = MapPage(Memory, p, start, Nil, TRUE, w)
        BY <1>1, <2>2
      <3>2. start \in Address /\ Valid(alive, p, start)
        BY <1>2, <2>2, Numbers, CutValid
      <3>3. MapCall(Memory, alive, p, p, start, Nil, TRUE, w)
        BY <1>2, <3>2, WholeIs DEF MapCall
      <3>4. PICK New : Extends(Memory, x, alive, p, New, Levels)
        BY <3>1, <3>3, MapPageIs
      <3>5. Good(x, alive) /\ Others(Memory, x, alive, p) /\ RootKept(Memory, x)
        <4>1. Good(x, alive)
          BY <3>4 DEF Extends
        <4>2. QED BY <1>2, <3>4, <4>1, WholeIs, ExtendsOthers
      <3>6. RootKeptBut(Memory, x, {})
        BY <3>5 DEF RootKept, RootKeptBut
      <3>7. KernelPart(x, mmio, regions, touched')
        BY <1>3, <3>6, WholeIs, KernelPartKeptBut
      <3>8. QED BY <3>5, <3>7
    \* The tables below the kernel's top are shared, so all spaces get the page.
    <2>3. CASE prot # "none" /\ start \notin UserPages
      <3>1. PICK w \in BOOLEAN : x = MapPage(Memory, p, start, Nil, TRUE, w)
        BY <1>1, <2>3
      <3>2. start[1] \in KernelTop /\ start \in touched'
        BY <1>3, <2>3 DEF UserPages
      <3>3. KernelCall(Memory, alive, p, start, Nil)
        BY <1>2, <3>2, WholeIs DEF KernelCall, KernelPart
      <3>4. /\ Good(x, alive) /\ Others(Memory, x, alive, p)
            /\ Extends(Memory, x, alive, Root, CutsTo(start), Levels)
        BY <3>1, <3>3, KernelMapped
      <3>5. \A i \in 1 .. Len(MmioPages) : i > mmio /\ MmioPages[i] \notin touched'
              => MmioPages[i] # start
        BY <3>2
      <3>6. mmio \in Nat /\ mmio <= mmio
        BY WholeIs
      <3>7. KernelPart(x, mmio, regions, touched')
        BY <1>3, <3>4, <3>5, <3>6, WholeIs, KernelPartMapped
      <3>8. QED BY <3>4, <3>7
    <2>4. QED BY <2>1, <2>2, <2>3
  <1>5. mmap' \in [Process -> Seq(UserPages \union touched')]
    <2>1. mmap \in [Process -> Seq(UserPages \union touched)]
      BY WholeIs DEF Books
    <2>2. UserPages \union touched \subseteq UserPages \union touched'
      BY <1>3
    <2>3. \A q \in Process : mmap[q] \in Seq(UserPages \union touched')
      <3>1. TAKE q \in Process
      <3>2. mmap[q] \in Seq(UserPages \union touched)
        BY <2>1
      <3>3. QED BY <2>2, <3>2
    <2>4. Append(mmap[p], start) \in Seq(UserPages \union touched')
      BY <1>2, <1>3, <2>3
    <2>5. QED BY <1>2, <2>1, <2>3, <2>4
  <1>6. Books'
    BY <1>3, <1>5, WholeIs DEF Books
  <1>7. KernelPart(x, mmio', regions', touched')
    BY <1>3, <1>4
  <1>8. QED BY <1>2, <1>3, <1>4, <1>6, <1>7, WholeNext, UnseenIs

LEMMA MmapStep ==
  ASSUME Whole, NEW p, NEW prot, Mmap(p, prot)
  PROVE  Whole' /\ Unseen(p)
  <1>1. p \in Process /\ mmap_start \in [Process -> 0 .. Len(Arena)] /\ Len(Arena) \in Nat
    BY WholeIs, Lists DEF Mmap, Map, Books
  <1>2. mmap_start[p] + 1 \in 1 .. Len(Arena)
    BY <1>1 DEF Mmap
  <1>3. Arena[mmap_start[p] + 1] \in Address
    BY <1>2, Lists
  <1>4. mmap_start' \in [Process -> 0 .. Len(Arena)]
    BY <1>1, <1>2 DEF Mmap
  <1>5. QED BY <1>3, <1>4, MapStepIs DEF Mmap

LEMMA MmapFixedStep ==
  ASSUME Whole, NEW p, NEW a \in FixedAt, NEW prot, MmapFixed(p, a, prot)
  PROVE  Whole' /\ Unseen(p)
  <1>1. mmap_start' \in [Process -> 0 .. Len(Arena)]
    BY WholeIs DEF MmapFixed, Books
  <1>2. QED BY <1>1, Lists, MapStepIs DEF MmapFixed

LEMMA MunmapStep ==
  ASSUME Whole, NEW p, NEW i \in Nat, Munmap(p, i)
  PROVE  Whole' /\ Unseen(p)
  <1>1. PICK x : x = Unmap(Memory, p, mmap[p][i])
    OBVIOUS
  <1>2. /\ p \in alive /\ p \in Process /\ Becomes(x) /\ i \in DOMAIN mmap[p]
        /\ UNCHANGED <<alive, mmap_start, heap, drivers, touched>>
        /\ mmap' = [mmap EXCEPT ![p] = SubSeq(@, 1, i - 1) \o SubSeq(@, i + 1, Len(@))]
    BY <1>1, WholeIs DEF Munmap
  <1>3. PICK Mapped : Mapped = UserPages \union touched
    OBVIOUS
  <1>4. mmap \in [Process -> Seq(Mapped)]
    BY <1>3, WholeIs DEF Books
  <1>5. mmap[p] \in Seq(Mapped) /\ mmap[p][i] \in Mapped
    BY <1>2, <1>4
  <1>6. mmap[p][i] \in Address /\ {mmap[p][i]} \ UserPages \subseteq touched
    BY <1>3, <1>5, WholeIs, Lists
  <1>7. /\ Good(x, alive) /\ Others(Memory, x, alive, p)
        /\ RootKeptBut(Memory, x, {mmap[p][i]} \ UserPages)
    BY <1>1, <1>2, <1>6, WholeIs, UnmapIs
  <1>8. alive' = alive /\ heap' = heap /\ mmio' = mmio /\ regions' = regions /\ dma' = dma
        /\ mmap_start' = mmap_start /\ touched' = touched
    BY <1>2 DEF drivers
  <1>9. mmap' \in [Process -> Seq(Mapped)]
    <2>1. /\ SubSeq(mmap[p], 1, i - 1) \in Seq(Mapped)
          /\ SubSeq(mmap[p], i + 1, Len(mmap[p])) \in Seq(Mapped)
      BY <1>2, <1>5
    <2>2. SubSeq(mmap[p], 1, i - 1) \o SubSeq(mmap[p], i + 1, Len(mmap[p])) \in Seq(Mapped)
      BY <2>1
    <2>3. QED BY <1>2, <1>4, <2>2
  <1>10. Books'
    BY <1>3, <1>8, <1>9, WholeIs DEF Books
  <1>11. KernelPart(x, mmio', regions', touched')
    BY <1>6, <1>7, <1>8, WholeIs, KernelPartKeptBut
  <1>12. QED BY <1>2, <1>7, <1>8, <1>10, <1>11, WholeNext, UnseenIs

LEMMA StoreStep ==
  ASSUME Whole, NEW p, NEW a \in UserPages, NEW v \in Value, Store(p, a, v)
  PROVE  Whole' /\ Unseen(p)
  <1>1. PICK x : x = [Memory EXCEPT !.data = [data EXCEPT ![Target(Memory, p, a)] = v]]
    OBVIOUS
  <1>2. /\ p \in alive /\ Writable(Memory, p, a) /\ UNCHANGED <<tab, free, given, spaces, heap, drivers, touched>>
        /\ data' = [data EXCEPT ![Target(Memory, p, a)] = v]
    BY DEF Store
  <1>3. a \in Address /\ Valid(alive, p, a)
    BY <1>2, Numbers, CutValid
  <1>4. Present(Ent(Memory, p, a)) /\ Target(Memory, p, a) = Ent(Memory, p, a).to
    BY <1>2, <1>3, ReadableIs, TargetIs
  <1>5. Target(Memory, p, a) \in Frame
    BY <1>2, <1>3, <1>4, WholeIs, OwnFrame DEF Good
  <1>6. data \in [Frame -> Value] /\ data' \in [Frame -> Value]
    BY <1>2, <1>5, WholeIs, MemIs
  <1>7. /\ x = [tab |-> tab, data |-> data', free |-> free, given |-> given]
        /\ x.tab = tab /\ x.data = data' /\ x.free = free /\ x.given = given
    BY <1>1, <1>2 DEF Memory
  <1>8. x \in Mem
    BY <1>6, <1>7, WholeIs, MemIs DEF Mem
  <1>9. \A f \in Frame : x.data[f] = Memory.data[f] \/ f = Ent(Memory, p, a).to
    BY <1>2, <1>4, <1>6, <1>7, WholeIs
  <1>10. Written(Memory, x, alive, p)
    BY <1>2, <1>3, <1>4, <1>7, <1>8, <1>9, WholeIs DEF Written
  <1>11. Good(x, alive) /\ Others(Memory, x, alive, p) /\ RootKept(Memory, x)
    BY <1>10, WrittenIs
  <1>12. Becomes(x)
    BY <1>2, <1>7 DEF Becomes
  <1>13. alive' = alive /\ mmio' = mmio /\ regions' = regions /\ touched' = touched /\ Books'
    BY <1>2, WholeIs DEF Books, drivers, spaces
  <1>14. KernelPart(x, mmio', regions', touched')
    BY <1>11, <1>13, WholeIs, KernelPartKept
  <1>15. QED BY <1>11, <1>12, <1>13, <1>14, WholeNext, UnseenIs
----------------------------------------------------------------------------
(* The calls of the kernel heap and of drivers                              *)

LEMMA HeapStep ==
  ASSUME Whole, NEW p, GrowHeap(p)
  PROVE  Whole' /\ Unseen(p)
  <1>1. PICK a : a = HeapPages[heap + 1]
    OBVIOUS
  <1>2. PICK x : x = KernelPage(Memory, p, a, Nil)
    OBVIOUS
  <1>3. /\ p \in alive /\ heap < Len(HeapPages) /\ heap' = heap + 1 /\ Becomes(x)
        /\ UNCHANGED <<spaces, drivers, touched>> /\ Cardinality(Memory.free) >= Levels
    BY <1>1, <1>2, WholeIs DEF GrowHeap, Left, KernelPage
  <1>4. heap + 1 \in 1 .. Len(HeapPages) /\ heap + 1 \in 0 .. Len(HeapPages)
    BY <1>3, WholeIs, Lists
  <1>5. a \in Address /\ a[1] \in KernelTop
    BY <1>1, <1>4, Lists
  <1>6. \A i \in 1 .. Len(MmioPages) : MmioPages[i] # a
    BY <1>1, <1>4, KernelLists
  <1>7. KernelCall(Memory, alive, p, a, Nil)
    BY <1>3, <1>5, <1>6, WholeIs DEF KernelCall, KernelPart
  <1>8. /\ Good(x, alive) /\ Others(Memory, x, alive, p)
        /\ Extends(Memory, x, alive, Root, CutsTo(a), Levels)
    BY <1>2, <1>7, KernelPageIs
  <1>9. /\ alive' = alive /\ mmap_start' = mmap_start /\ mmap' = mmap
        /\ mmio' = mmio /\ regions' = regions /\ dma' = dma /\ touched' = touched
    BY <1>3 DEF spaces, drivers
  <1>10. Books'
    BY <1>3, <1>4, <1>9, WholeIs DEF Books
  <1>11. KernelPart(x, mmio, regions, touched)
    BY <1>5, <1>6, <1>8, WholeIs, KernelPartMapped
  <1>12. KernelPart(x, mmio', regions', touched')
    BY <1>9, <1>11
  <1>13. QED BY <1>3, <1>8, <1>9, <1>10, <1>12, WholeNext, UnseenIs

\* What k_mem_iomap of phys leads to, from memory m.
Gives(m, x, p) ==
  /\ Becomes(x) /\ Good(x, alive) /\ Others(m, x, alive, p)
  /\ KernelPart(x, mmio', regions', touched') /\ regions' \in Regions /\ mmio' \in 0 .. Len(MmioPages)

DeviceCall(m, p, phys) ==
  /\ Good(m, alive) /\ KernelPart(m, mmio, regions, touched) /\ Books /\ p \in alive
  /\ mmio < Len(MmioPages) /\ phys \in Frame \union Device /\ Cardinality(m.free) >= Levels
  /\ phys \in Frame => phys \notin m.free /\ Untouched(m, alive, phys)
  /\ MapDevice(m, p, phys) /\ touched' = touched

LEMMA DeviceStep ==
  ASSUME NEW m, NEW p, NEW phys, DeviceCall(m, p, phys)
  PROVE  \E x : Gives(m, x, p)
  <1>1. /\ Good(m, alive) /\ KernelPart(m, mmio, regions, touched) /\ p \in alive
        /\ mmio < Len(MmioPages) /\ phys \in Frame \union Device /\ Cardinality(m.free) >= Levels
        /\ phys \in Frame => phys \notin m.free /\ Untouched(m, alive, phys)
        /\ mmio \in 0 .. Len(MmioPages) /\ regions \in Regions /\ touched' = touched
        /\ touched \in SUBSET Address
    BY DEF DeviceCall, Books, KernelPages
  <1>2. CASE regions[phys] # <<>>
    <2>1. Becomes(m) /\ mmio' = mmio /\ regions' = regions
      BY <1>2 DEF DeviceCall, MapDevice
    <2>2. Gives(m, m, p)
      BY <1>1, <2>1 DEF Gives, Others
    <2>3. QED BY <2>2
  <1>3. CASE regions[phys] = <<>>
    <2>1. PICK a : a = MmioPages[mmio + 1]
      OBVIOUS
    <2>2. PICK x : x = KernelPage(m, p, a, phys)
      OBVIOUS
    <2>3. Becomes(x) /\ mmio' = mmio + 1 /\ regions' = [regions EXCEPT ![phys] = a]
      BY <1>3, <2>1, <2>2 DEF DeviceCall, MapDevice, KernelPage
    <2>4. /\ mmio \in Nat /\ mmio + 1 \in Nat /\ mmio <= mmio + 1 /\ mmio + 1 > mmio
          /\ mmio + 1 \in 1 .. Len(MmioPages) /\ mmio + 1 \in 0 .. Len(MmioPages)
      BY <1>1, Lists
    <2>5. a \in Address /\ a[1] \in KernelTop
      BY <2>1, <2>4, Lists
    <2>6. \A i \in 1 .. Len(MmioPages) : MmioPages[i] = a => i = mmio + 1
      BY <2>1, <2>4, KernelLists
    <2>7. \A i \in 1 .. Len(MmioPages) : i > mmio + 1 => MmioPages[i] # a
      BY <2>4, <2>6
    <2>8. KernelCall(m, alive, p, a, phys)
      BY <1>1, <2>5, <2>6 DEF KernelCall, KernelPart
    <2>9. a \notin touched => ~Present(Ent(m, Root, a))
      BY <1>1, <2>1, <2>4 DEF KernelPart, MmioLeft
    <2>10. /\ Good(x, alive) /\ Others(m, x, alive, p)
           /\ Extends(m, x, alive, Root, CutsTo(a), Levels)
           /\ a \notin touched => Ent(x, Root, a).to = phys
      BY <1>1, <2>2, <2>8, <2>9, KernelPageIs, Sets
    <2>11. KernelPart(x, mmio + 1, regions, touched)
      BY <1>1, <2>4, <2>5, <2>7, <2>10, KernelPartMapped
    <2>12. regions' \in Regions
      BY <1>1, <2>3, <2>5 DEF Regions
    <2>13. Found(x, regions', touched)
      <3>1. Found(x, regions, touched)
        BY <2>11 DEF KernelPart
      <3>2. a \notin touched => Target(x, Root, a) = phys
        BY <2>10, TargetIs
      <3>3. /\ \A d \in Frame \union Device : d # phys => (regions')[d] = regions[d]
            /\ (regions')[phys] = a
        BY <1>1, <2>3 DEF Regions
      <3>4. QED BY <3>1, <3>2, <3>3 DEF Found
    <2>14. KernelPart(x, mmio', regions', touched')
      BY <1>1, <2>3, <2>11, <2>13 DEF KernelPart
    <2>15. Gives(m, x, p)
      BY <2>3, <2>4, <2>10, <2>12, <2>14 DEF Gives
    <2>16. QED BY <2>15
  <1>4. QED BY <1>2, <1>3

LEMMA IomapStep ==
  ASSUME Whole, NEW p, NEW phys \in Device, Iomap(p, phys)
  PROVE  Whole' /\ Unseen(p)
  <1>1. /\ p \in alive /\ mmio < Len(MmioPages) /\ MapDevice(Memory, p, phys)
        /\ UNCHANGED <<spaces, heap, dma, touched>> /\ Cardinality(Memory.free) >= Levels
    BY WholeIs DEF Iomap, Left
  <1>2. DeviceCall(Memory, p, phys)
    BY <1>1, WholeIs, Sets DEF DeviceCall
  <1>3. PICK x : Gives(Memory, x, p)
    BY <1>2, DeviceStep
  <1>4. /\ alive' = alive /\ mmap_start' = mmap_start /\ mmap' = mmap /\ heap' = heap /\ dma' = dma
        /\ touched' = touched
    BY <1>1 DEF spaces
  <1>5. Books'
    BY <1>3, <1>4, WholeIs DEF Books, Gives
  <1>6. QED BY <1>3, <1>4, <1>5, WholeNext, UnseenIs DEF Gives

\* A frame is taken and nothing refers to it yet.
LEMMA TakenIs ==
  ASSUME NEW m, NEW L, Good(m, L), NEW f \in m.free, NEW n, n = [m EXCEPT !.free = @ \ {f}]
  PROVE  /\ Good(n, L) /\ Untouched(n, L, f) /\ f \notin n.free
         /\ n.tab = m.tab /\ n.data = m.data /\ n.given = m.given /\ n.free = m.free \ {f}
  <1>1. PICK own, path : Fits(m, L, own, path)
    BY DEF Good
  <1>2. m \in Mem /\ L \in SUBSET Process /\ f \in Frame /\ m.free \in SUBSET Frame
    BY MemIs DEF Good, Base
  <1>3. n.tab = m.tab /\ n.data = m.data /\ n.given = m.given /\ n.free = m.free \ {f} /\ n \in Mem
    BY <1>2 DEF Mem
  <1>4. Untouched(m, L, f)
    BY FreeUntouched
  <1>5. \A i \in Index : ~Present(m.tab[f][i]) /\ m.tab[f][i].to = Nil
    BY <1>4, Entries DEF Untouched, Present
  <1>6. Used(n) = Used(m) \union {f}
    <2>1. f \notin m.given
      BY <1>4 DEF Untouched
    <2>2. QED BY <1>2, <1>3, <2>1 DEF Used
  <1>7. ASSUME NEW t, NEW i, Slot(n, L, t, i) PROVE Slot(m, L, t, i) \/ (t = f /\ i \in Index)
    BY <1>6, <1>7 DEF Slot, InUse
  <1>8. Base(n, L)
    <2>1. OneEntry(n, L)
      <3>1. SUFFICES ASSUME NEW t, NEW i, NEW u, NEW j, Slot(n, L, t, i), Slot(n, L, u, j),
                            m.tab[t][i].to \in Frame, m.tab[t][i].to = m.tab[u][j].to
                     PROVE  t = u /\ i = j
        BY <1>3 DEF OneEntry
      <3>2. Slot(m, L, t, i) /\ Slot(m, L, u, j)
        BY <1>5, <1>7, <3>1, Sets
      <3>3. QED BY <3>1, <3>2 DEF Good, Base, OneEntry
    <2>2. QED BY <1>3, <2>1 DEF Good, Base
  <1>9. Fits(n, L, own, path)
    <2>1. ASSUME NEW t, NEW i, Slot(n, L, t, i), Present(n.tab[t][i])
          PROVE  EntryFits(n, own, path, t, i)
      <3>1. Slot(m, L, t, i) /\ Present(m.tab[t][i])
        BY <1>3, <1>5, <1>7, <2>1
      <3>2. EntryFits(m, own, path, t, i)
        BY <1>1, <3>1 DEF Fits
      <3>3. QED BY <1>3, <1>6, <3>2 DEF EntryFits
    <2>2. QED BY <1>1, <2>1, Zenon DEF Fits
  <1>10. Untouched(n, L, f)
    <2>1. ASSUME NEW t, NEW i, Slot(n, L, t, i) PROVE n.tab[t][i].to # f
      <3>1. Slot(m, L, t, i) => m.tab[t][i].to # f
        BY <1>4 DEF Untouched
      <3>2. t = f /\ i \in Index => m.tab[t][i].to # f
        BY <1>2, <1>5, Sets
      <3>3. QED BY <1>3, <1>7, <2>1, <3>1, <3>2
    <2>2. QED BY <1>3, <1>4, <2>1 DEF Untouched
  <1>11. QED BY <1>3, <1>8, <1>9, <1>10 DEF Good
LEMMA AllocDmaStep ==
  ASSUME Whole, NEW p, AllocDma(p)
  PROVE  Whole' /\ Unseen(p)
  <1>1. PICK f : f = Nth(free, 0)
    OBVIOUS
  <1>2. PICK n : n = [Memory EXCEPT !.free = @ \ {f}]
    OBVIOUS
  <1>3. /\ p \in alive /\ Cardinality(free) >= Levels + 1 /\ mmio < Len(MmioPages)
        /\ MapDevice(n, p, f) /\ dma' = dma \union {f} /\ UNCHANGED <<spaces, heap, touched>>
    BY <1>1, <1>2 DEF AllocDma, Left
  <1>4. free \in SUBSET Frame
    BY WholeIs, MemIs
  <1>5. f \in free /\ f \in Frame
    <2>1. free # {}
      <3>1. Cardinality({}) = 0
        BY FS_EmptySet, Zenon
      <3>2. Cardinality(free) # 0
        BY <1>3, WholeIs, Numbers
      <3>3. QED BY <3>1, <3>2, Zenon
    <2>2. QED BY <1>1, <1>4, <2>1, LowestFree
  <1>6. /\ Good(n, alive) /\ Untouched(n, alive, f) /\ f \notin n.free
        /\ n.tab = tab /\ n.data = data /\ n.free = free \ {f}
    BY <1>2, <1>5, WholeIs, TakenIs
  <1>7. Cardinality(n.free) >= Levels
    <2>1. IsFiniteSet(free)
      BY <1>4, FramesFinite
    <2>2. Cardinality(free \ {f}) = Cardinality(free) - 1
      BY <1>5, <2>1, FS_RemoveElement
    <2>3. QED BY <1>3, <1>6, <2>2, WholeIs, Numbers
  <1>8. n.tab = Memory.tab /\ n.data = Memory.data
    BY <1>6, WholeIs
  <1>9. RootKept(Memory, n) /\ Others(Memory, n, alive, p)
    BY <1>8, SameTables DEF RootKept, Others
  <1>10. KernelPart(n, mmio, regions, touched)
    BY <1>9, WholeIs, KernelPartKept
  <1>11. DeviceCall(n, p, f)
    BY <1>3, <1>5, <1>6, <1>7, <1>10, WholeIs DEF DeviceCall
  <1>12. PICK x : Gives(n, x, p)
    BY <1>11, DeviceStep
  <1>13. Others(Memory, x, alive, p)
    BY <1>9, <1>12, OthersTwice DEF Gives
  <1>14. alive' = alive /\ mmap_start' = mmap_start /\ mmap' = mmap /\ heap' = heap
         /\ touched' = touched
    BY <1>3 DEF spaces
  <1>15. Books'
    BY <1>3, <1>5, <1>12, <1>14, WholeIs DEF Books, Gives
  <1>16. QED BY <1>12, <1>13, <1>14, <1>15, WholeNext, UnseenIs DEF Gives

LEMMA FreeDmaStep ==
  ASSUME Regime, Whole, NEW p, NEW f \in Frame, FreeDma(p, f)
  PROVE  Whole' /\ Unseen(p)
  <1>1. dma' = dma \ {f} /\ UNCHANGED <<spaces, heap, mmio, regions, touched>>
        /\ Becomes(GiveBack(Memory, {f * PageBytes} \intersect Frame))
    BY DEF FreeDma
  <1>2. {f * PageBytes} \intersect Frame = {}
    BY DEF Regime
  <1>3. GiveBack(Memory, {}) = Memory
    BY WholeIs DEF GiveBack, Regime, Mem
  <1>4. Becomes(Memory)
    BY <1>1, <1>2, <1>3
  <1>5. Others(Memory, Memory, alive, p)
    BY DEF Others
  <1>6. alive' = alive /\ mmio' = mmio /\ regions' = regions /\ touched' = touched /\ Books'
    BY <1>1, WholeIs DEF Books, spaces
  <1>7. Good(Memory, alive') /\ KernelPart(Memory, mmio', regions', touched')
    BY <1>6, WholeIs
  <1>8. QED BY <1>4, <1>5, <1>6, <1>7, WholeNext, UnseenIs

LEMMA StepIs ==
  ASSUME Regime, Whole, NEW p \in Process, Step(p)
  PROVE  Whole' /\ Unseen(p)
  <1>1. ASSUME NEW child \in Process, Fork(p, child) PROVE Whole' /\ Unseen(p)
    BY <1>1, ForkStep
  <1>2. ASSUME Exec(p) PROVE Whole' /\ Unseen(p)
    BY <1>2, ExecStep
  <1>3. ASSUME NEW prot \in Prot, Mmap(p, prot) PROVE Whole' /\ Unseen(p)
    BY <1>3, MmapStep
  <1>4. ASSUME NEW prot \in Prot, NEW a \in FixedAt, MmapFixed(p, a, prot)
        PROVE  Whole' /\ Unseen(p)
    BY <1>4, MmapFixedStep
  <1>5. ASSUME NEW i \in 1 .. MaxBlocks, Munmap(p, i) PROVE Whole' /\ Unseen(p)
    <2>1. MaxBlocks \in Nat
      BY AddressSpaceAssumption, Zenon
    <2>2. i \in Nat
      BY <2>1
    <2>3. QED BY <1>5, <2>2, MunmapStep
  <1>6. ASSUME NEW a \in UserPages, NEW v \in Value, Store(p, a, v) PROVE Whole' /\ Unseen(p)
    BY <1>6, StoreStep
  <1>7. ASSUME GrowHeap(p) PROVE Whole' /\ Unseen(p)
    BY <1>7, HeapStep
  <1>8. ASSUME NEW phys \in Device, Iomap(p, phys) PROVE Whole' /\ Unseen(p)
    BY <1>8, IomapStep
  <1>9. ASSUME AllocDma(p) PROVE Whole' /\ Unseen(p)
    BY <1>9, AllocDmaStep
  <1>10. ASSUME NEW f \in Frame, FreeDma(p, f) PROVE Whole' /\ Unseen(p)
    BY <1>10, FreeDmaStep
  <1>11. QED BY <1>1, <1>2, <1>3, <1>4, <1>5, <1>6, <1>7, <1>8, <1>9, <1>10 DEF Step

(* The inductive invariant: next to the types, every table and page in use  *)
(* has an owner and a path, and is referred to at the end of that path in   *)
(* its owner's space and nowhere else; the kernel's top-level entries are   *)
(* the same everywhere; what iomap has yet to map is free and what it has   *)
(* mapped is there, but for the addresses that a program has mapped with    *)
(* MAP_FIXED.                                                               *)
THEOREM AddressSpaceInvariant == ASSUME Regime PROVE Spec => []Whole
  <1>1. Init => Whole
    BY InitIs
  <1>2. Whole /\ [Next]_vars => Whole'
    <2>1. SUFFICES ASSUME Whole, [Next]_vars PROVE Whole'
      OBVIOUS
    <2>2. CASE Next
      BY <2>1, <2>2, StepIs DEF Next
    <2>3. CASE UNCHANGED vars
      <3>1. Becomes(Memory) /\ alive' = alive /\ mmio' = mmio /\ regions' = regions
            /\ touched' = touched /\ Books'
        BY <2>1, <2>3, WholeIs DEF vars, spaces, drivers, Becomes, Books
      <3>2. Good(Memory, alive') /\ KernelPart(Memory, mmio', regions', touched')
        BY <2>1, <3>1, WholeIs
      <3>3. QED BY <3>1, <3>2, WholeNext
    <2>4. QED BY <2>1, <2>2, <2>3
  <1>3. QED BY <1>1, <1>2, PTL DEF Spec

(* The types: no call of mmap, munmap, iomap or fork leaves the lists and   *)
(* counters that it keeps.                                                  *)
THEOREM TypeCorrect == ASSUME Regime PROVE Spec => []TypeOK
  <1>1. Whole => TypeOK
    BY WholeIs, BooksType
  <1>2. QED BY <1>1, AddressSpaceInvariant, PTL

(* The kernel's part is the same in every space, whoever has mapped or      *)
(* unmapped there, and every device and buffer is found from each of them   *)
(* at the address that iomap gave, unless a program has mapped it.          *)
THEOREM KernelShared == ASSUME Regime PROVE Spec => []KernelAgrees
  <1>1. ASSUME Whole PROVE KernelAgrees
    <2>1. TypeOK
      BY <1>1, WholeIs, BooksType
    <2>2. DeviceMapped
      BY <1>1, WholeIs DEF KernelPart, Found, DeviceMapped
    <2>3. ASSUME NEW s \in alive, NEW a \in KernelPages
          PROVE  Target(Memory, s, a) = Target(Memory, Root, a)
      <3>1. a \in Address /\ a[1] \in KernelTop
        BY DEF KernelPages, UserPages
      <3>2. a \in Prefix
        BY <3>1, AddressIs
      <3>3. Base(Memory, alive)
        BY <1>1, WholeIs DEF Good
      <3>4. QED BY <3>1, <3>2, <3>3, KernelWay, TargetIs
    <2>4. QED BY <2>1, <2>2, <2>3 DEF KernelAgrees
  <1>2. QED BY <1>1, AddressSpaceInvariant, PTL

(* The tables that are found from a space in use are its own or the root's. *)
LEMMA TableSlot ==
  ASSUME Whole, NEW s \in alive \union {Root}, NEW t \in TablesOf(s), NEW i \in Index,
         t \in alive => i \notin KernelTop
  PROVE  Slot(Memory, alive, t, i)
  <1>1. Base(Memory, alive) /\ alive \in SUBSET Process
    BY WholeIs DEF Good
  <1>2. PICK own, path : Fits(Memory, alive, own, path)
    BY WholeIs DEF Good
  <1>3. CASE t = s
    BY <1>1, <1>3, Sets DEF Slot, InUse
  <1>4. CASE t # s
    <2>1. PICK q \in Prefix : Len(q) < Levels /\ Target(Memory, s, q) # Nil /\ t = Target(Memory, s, q)
      BY <1>4 DEF TablesOf
    <2>2. Present(Ent(Memory, s, q)) /\ t = Ent(Memory, s, q).to
      BY <2>1, TargetIs DEF Present
    <2>3. ASSUME Present(Ent(Memory, Root, q)), t = Ent(Memory, Root, q).to
          PROVE  t \in Used(Memory)
      <3>1. Reached(Memory, alive, own, path, Root, q)
        BY <1>1, <1>2, <2>1, <2>3, EntFits DEF Valid
      <3>2. Len(q) # Levels
        BY <2>1, PrefixIs, Numbers
      <3>3. QED BY <2>3, <3>1, <3>2 DEF Reached
    <2>4. ASSUME s # Root PROVE t \in Used(Memory)
      <3>1. CASE q[1] \in KernelTop
        <4>1. Ent(Memory, s, q) = Ent(Memory, Root, q)
          BY <1>1, <2>1, <2>4, <3>1, KernelWay
        <4>2. QED BY <2>2, <2>3, <4>1
      <3>2. CASE q[1] \notin KernelTop
        BY <1>1, <1>2, <2>1, <2>2, <2>4, <3>2, OwnFrame DEF Valid
      <3>3. QED BY <3>1, <3>2
    <2>5. t \in Used(Memory)
      BY <2>2, <2>3, <2>4
    <2>6. QED BY <1>1, <2>5, InUseIs
  <1>5. QED BY <1>3, <1>4

(* Every frame has one use, and none while it is free: no two tables share  *)
(* a page or a lower table, and what an allocation returns is nobody's.     *)
THEOREM FramesExclusive == ASSUME Regime PROVE Spec => []FrameOwnedOnce
  <1>1. ASSUME Whole PROVE FrameOwnedOnce
    <2>1. ASSUME NEW f \in Frame, NEW ti \in Places(f)
          PROVE  /\ Slot(Memory, alive, ti[1], ti[2]) /\ Memory.tab[ti[1]][ti[2]].to = f
                 /\ ti = <<ti[1], ti[2]>>
      <3>1. PICK s \in alive \union {Root} : ti \in TablesOf(s) \X Index
        BY DEF Places
      <3>2. /\ ti[1] \in TablesOf(s) /\ ti[2] \in Index /\ ti = <<ti[1], ti[2]>>
            /\ ti[1] \in alive => ti[2] \notin KernelTop
            /\ tab[ti[1]][ti[2]].to = f
        BY <3>1 DEF Places
      <3>3. QED BY <1>1, <3>2, TableSlot, WholeIs
    <2>2. ASSUME NEW f \in Frame PROVE Cardinality(Places(f)) <= 1
      <3>1. ASSUME NEW ti \in Places(f), NEW uj \in Places(f) PROVE ti = uj
        <4>1. /\ Slot(Memory, alive, ti[1], ti[2]) /\ Memory.tab[ti[1]][ti[2]].to = f
              /\ Slot(Memory, alive, uj[1], uj[2]) /\ Memory.tab[uj[1]][uj[2]].to = f
              /\ ti = <<ti[1], ti[2]>> /\ uj = <<uj[1], uj[2]>>
          BY <2>1
        <4>2. ti[1] = uj[1] /\ ti[2] = uj[2]
          BY <1>1, <4>1, WholeIs DEF Good, Base, OneEntry
        <4>3. QED BY <4>1, <4>2
      <3>2. CASE Places(f) = {}
        BY <3>2, FS_EmptySet
      <3>3. CASE Places(f) # {}
        <4>1. PICK ti : Places(f) = {ti}
          BY <3>1, <3>3
        <4>2. Cardinality({ti}) = 1
          BY FS_Singleton, Zenon
        <4>3. QED BY <4>1, <4>2
      <3>4. QED BY <3>2, <3>3
    <2>3. ASSUME NEW f \in free \union given PROVE Places(f) = {}
      <3>1. SUFFICES ASSUME NEW ti \in Places(f) PROVE FALSE
        OBVIOUS
      <3>2. f \in Frame /\ f \notin Used(Memory)
        BY <1>1, <2>3, WholeIs, MemIs DEF Used
      <3>3. Slot(Memory, alive, ti[1], ti[2]) /\ Memory.tab[ti[1]][ti[2]].to = f
        BY <2>1, <3>2
      <3>4. PICK own, path : Fits(Memory, alive, own, path)
        BY <1>1, WholeIs DEF Good
      <3>5. Present(Memory.tab[ti[1]][ti[2]])
        BY <3>2, <3>3, Sets DEF Present
      <3>6. EntryFits(Memory, own, path, ti[1], ti[2])
        BY <3>3, <3>4, <3>5 DEF Fits
      <3>7. QED BY <3>2, <3>3, <3>6, Sets DEF EntryFits
    <2>4. QED BY <2>2, <2>3 DEF FrameOwnedOnce
  <1>2. QED BY <1>1, AddressSpaceInvariant, PTL

(* No call of a process changes what another one sees of its memory.        *)
THEOREM SpacesIsolated == ASSUME Regime PROVE Spec => Isolation
  <1>1. ASSUME Whole, [Next]_vars
        PROVE  [\A p \in Process : Step(p) => \A q \in alive \ {p} : View(q)' = View(q)]_vars
    <2>1. ASSUME NEW p \in Process, Step(p) PROVE \A q \in alive \ {p} : View(q)' = View(q)
      <3>1. Unseen(p)
        BY <1>1, <2>1, StepIs
      <3>2. QED BY <3>1 DEF Unseen
    <2>2. QED BY <2>1
  <1>2. QED BY <1>1, AddressSpaceInvariant, PTL DEF Spec, Isolation

(* A forked child sees exactly what its parent sees at that moment.         *)
THEOREM ForkIsCopy == ASSUME Regime PROVE Spec => ForkCopies
  <1>1. ASSUME Whole, [Next]_vars
        PROVE  [\A p, q \in Process : Fork(p, q) => View(q)' = View(p)]_vars
    <2>1. ASSUME NEW p \in Process, NEW q \in Process, Fork(p, q) PROVE View(q)' = View(p)
      <3>1. PICK x : x = Clone(Memory, p, q)
        OBVIOUS
      <3>2. p \in alive /\ q \in Process \ alive /\ Becomes(x)
        BY <2>1, <3>1 DEF Fork
      <3>3. Cardinality(UserPaths(Memory, p)) <= Cardinality(Memory.free)
        <4>1. IsFiniteSet(UserPaths(Memory, p)) /\ Cardinality(UserPaths(Memory, p)) \in Nat
          BY <1>1, <3>2, WholeIs, PathsFinite DEF Good
        <4>2. QED BY <1>1, <2>1, <4>1, WholeIs DEF Fork, Left
      <3>4. Good(x, alive \union {q}) /\ ViewOf(x, q) = ViewOf(Memory, p)
        BY <1>1, <3>1, <3>2, <3>3, WholeIs, ForkIs
      <3>5. x \in Mem
        BY <3>4 DEF Good, Base
      <3>6. QED BY <3>2, <3>4, <3>5, ViewNext
    <2>2. QED BY <2>1
  <1>2. QED BY <1>1, AddressSpaceInvariant, PTL DEF Spec, ForkCopies
=============================================================================
