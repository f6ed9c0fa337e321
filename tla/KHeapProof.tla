------------------------------ MODULE KHeapProof ------------------------------
(***************************************************************************)
(* Proofs about KHeap, for every number of pages and users, all classes    *)
(* and both heaps, as long as no big block is allocated after one has been *)
(* freed (~Reuse): from then on WithoutRun breaks the free list.  The      *)
(* inductive invariant says of each page its one use, and that every list  *)
(* walks through exactly the pages of its use.                             *)
(***************************************************************************)
EXTENDS KHeap, TLAPS, FiniteSetTheorems, WellFoundedInduction

----------------------------------------------------------------------------
(* Numbers and sequences                                                    *)

Below == {ss \in Nat \X Nat : ss[1] < ss[2]}

LEMMA BelowWellFounded == IsWellFoundedOn(Below, Nat)
  BY NatLessThanWellFounded DEF OpToRel, Below

LEMMA LeastExists ==
  ASSUME NEW S, S \subseteq Nat, S # {}
  PROVE  \E x \in S : \A y \in S : x <= y
  <1>1. PICK x \in S : \A y \in S : <<y, x>> \notin Below
    BY BelowWellFounded, WFMin, Zenon
  <1>2. ASSUME NEW y \in S PROVE x <= y
    <2>1. x \in Nat /\ y \in Nat
      OBVIOUS
    <2>2. y < x => <<y, x>> \in Below
      BY <2>1 DEF Below
    <2>3. QED BY <1>1, <2>1, <2>2
  <1>3. QED BY <1>2

LEMMA SetMinIs ==
  ASSUME NEW S, S \subseteq Nat, S # {}
  PROVE  SetMin(S) \in S
  BY LeastExists DEF SetMin

LEMMA SeqIs ==
  ASSUME NEW T, NEW s \in Seq(T)
  PROVE  /\ Len(s) \in Nat /\ DOMAIN s = 1 .. Len(s) /\ \A i \in 1 .. Len(s) : s[i] \in T
         /\ s = <<>> <=> Len(s) = 0
  OBVIOUS

LEMMA ItemNumbers ==
  ASSUME NEW k \in Class
  PROVE  Items[k] \in Nat \ {0} /\ 1 .. Items[k] \subseteq Nat /\ Seq(1 .. Items[k]) \subseteq Seq(Nat)
  <1>1. Items[k] \in Nat \ {0}
    BY KHeapAssumption
  <1>2. 1 .. Items[k] \subseteq Nat
    BY <1>1
  <1>3. ASSUME NEW r \in Seq(1 .. Items[k]) PROVE r \in Seq(Nat)
    <2> DEFINE T == 1 .. Items[k]
    <2>1. r \in Seq(T) /\ T \subseteq Nat
      BY <1>2
    <2> HIDE DEF T
    <2>2. PICK n \in Nat : n = Len(r)
      BY <2>1
    <2>3. DOMAIN r = 1 .. n /\ r = [i \in 1 .. n |-> r[i]]
      BY <2>1, <2>2
    <2>4. \A i \in 1 .. n : r[i] \in Nat
      <3>1. \A i \in 1 .. Len(r) : r[i] \in T
        BY <2>1, SeqIs
      <3>2. QED BY <2>1, <2>2, <3>1
    <2>5. r \in [1 .. n -> Nat]
      BY <2>3, <2>4
    <2>6. QED BY <2>2, <2>5
  <1>4. QED BY <1>1, <1>2, <1>3

LEMMA SeqFrom ==
  ASSUME NEW T, NEW n \in Nat, NEW r \in [1 .. n -> T]
  PROVE  r \in Seq(T) /\ Len(r) = n
  OBVIOUS

Has(s, x) == \E i \in 1 .. Len(s) : s[i] = x
Distinct(s) == \A i, j \in 1 .. Len(s) : s[i] = s[j] => i = j

LEMMA HasIs ==
  ASSUME NEW T, NEW s \in Seq(T), NEW x
  PROVE  x \in Elements(s) <=> Has(s, x)
  BY SeqIs DEF Elements, Has

\* s with x put behind its first m elements.
Put(s, m, x) ==
  [i \in 1 .. Len(s) + 1 |-> IF i <= m THEN s[i] ELSE IF i = m + 1 THEN x ELSE s[i - 1]]

LEMMA PutIs ==
  ASSUME NEW T, NEW s \in Seq(T), NEW x \in T, NEW m \in 0 .. Len(s)
  PROVE  /\ Put(s, m, x) \in Seq(T)
         /\ Len(Put(s, m, x)) = Len(s) + 1
         /\ Put(s, m, x)[m + 1] = x
         /\ \A i \in 1 .. m : Put(s, m, x)[i] = s[i]
         /\ \A i \in m + 1 .. Len(s) : Put(s, m, x)[i + 1] = s[i]
  <1>1. Len(s) \in Nat /\ \A i \in 1 .. Len(s) : s[i] \in T
    BY SeqIs
  <1> DEFINE t == Put(s, m, x)
  <1>2. t \in [1 .. Len(s) + 1 -> T]
    <2>1. ASSUME NEW i \in 1 .. Len(s) + 1
          PROVE  (IF i <= m THEN s[i] ELSE IF i = m + 1 THEN x ELSE s[i - 1]) \in T
      <3>1. i <= m => i \in 1 .. Len(s)
        BY <1>1, <2>1
      <3>2. ~(i <= m) /\ i # m + 1 => i - 1 \in 1 .. Len(s)
        BY <1>1, <2>1
      <3>3. QED BY <1>1, <3>1, <3>2
    <2>2. QED BY <2>1 DEF Put
  <1>3. t \in Seq(T) /\ Len(t) = Len(s) + 1
    BY <1>1, <1>2
  <1>4. \A i \in 1 .. m : t[i] = s[i]
    BY <1>1 DEF Put
  <1>5. t[m + 1] = x
    <2>1. m + 1 \in 1 .. Len(s) + 1 /\ ~(m + 1 <= m)
      BY <1>1
    <2>2. QED BY <2>1 DEF Put
  <1>6. \A i \in m + 1 .. Len(s) : t[i + 1] = s[i]
    <2>1. \A i \in m + 1 .. Len(s) : i + 1 \in 1 .. Len(s) + 1 /\ ~(i + 1 <= m) /\ i + 1 # m + 1 /\ (i + 1) - 1 = i
      BY <1>1
    <2>2. QED BY <2>1 DEF Put
  <1>7. QED BY <1>3, <1>4, <1>5, <1>6

----------------------------------------------------------------------------
(* Lists of pages                                                           *)

\* From first on, the links lead through the pages of s and end.
Path(link, first, s) ==
  /\ s \in Seq(Page) /\ Distinct(s)
  /\ first = IF s = <<>> THEN Nil ELSE s[1]
  /\ \A i \in 1 .. Len(s) : link[s[i]] = IF i = Len(s) THEN Nil ELSE s[i + 1]

LEMMA Numbers == NPages \in Nat \ {0} /\ MaxBlock \in Nat \ {0} /\ Page = 1 .. NPages /\ Nil \notin Page
                 /\ Page \subseteq Nat /\ \A p \in Page : p # Nil
  BY KHeapAssumption DEF Page, Nil

\* No list is longer than there are pages, so the bound of a walk is enough.
LEMMA Bounded ==
  ASSUME NEW s \in Seq(Page), Distinct(s)
  PROVE  Len(s) \in Nat /\ Len(s) <= NPages
  <1>1. Len(s) \in Nat /\ s \in [1 .. Len(s) -> Page]
    OBVIOUS
  <1>2. s \in Injection(1 .. Len(s), Page)
    BY <1>1 DEF Injection, IsInjective, Distinct
  <1>3. IsFiniteSet(Page) /\ Cardinality(Page) = NPages
    BY Numbers, FS_Interval
  <1>4. Cardinality(1 .. Len(s)) <= Cardinality(Page)
    BY <1>2, <1>3, FS_Injection
  <1>5. Cardinality(1 .. Len(s)) = IF 1 > Len(s) THEN 0 ELSE Len(s) - 1 + 1
    BY <1>1, FS_Interval
  <1>6. QED BY <1>1, <1>3, <1>4, <1>5, Numbers

ChainStep(link, first, f, i) ==
  IF i = 1 THEN first ELSE IF f[i - 1] = Nil THEN Nil ELSE link[f[i - 1]]

Walk(s, i) == IF i <= Len(s) THEN s[i] ELSE Nil

LEMMA WalkTakesOne ==
  ASSUME NEW link, NEW first, NEW s, Path(link, first, s), NEW f, NEW i \in 1 .. NPages + 1,
         i # 1 => f[i - 1] = Walk(s, i - 1)
  PROVE  ChainStep(link, first, f, i) = Walk(s, i)
  <1>1. Len(s) \in Nat /\ (s = <<>> <=> Len(s) = 0) /\ (\A j \in 1 .. Len(s) : s[j] \in Page) /\ i \in Nat
    BY SeqIs, Numbers DEF Path
  <1>2. CASE i = 1
    <2>1. s # <<>> <=> 1 <= Len(s)
      BY <1>1
    <2>2. first = IF s = <<>> THEN Nil ELSE s[1]
      BY DEF Path
    <2>3. QED BY <1>2, <2>1, <2>2 DEF ChainStep, Walk
  <1>3. CASE i # 1 /\ i - 1 <= Len(s)
    <2>1. i - 1 \in 1 .. Len(s) /\ (i - 1) + 1 = i
      BY <1>1, <1>3
    <2>2. f[i - 1] = s[i - 1] /\ s[i - 1] # Nil
      BY <1>1, <1>3, <2>1, Numbers DEF Walk
    <2>3. link[s[i - 1]] = IF i - 1 = Len(s) THEN Nil ELSE s[i]
      BY <2>1 DEF Path
    <2>4. i - 1 = Len(s) <=> ~(i <= Len(s))
      BY <1>1, <1>3
    <2>5. QED BY <1>3, <2>2, <2>3, <2>4 DEF ChainStep, Walk
  <1>4. CASE i # 1 /\ ~(i - 1 <= Len(s))
    <2>1. ~(i <= Len(s))
      BY <1>1, <1>4
    <2>2. QED BY <1>4, <2>1 DEF ChainStep, Walk
  <1>5. QED BY <1>2, <1>3, <1>4

LEMMA ChainIs ==
  ASSUME NEW link, NEW first, NEW s, Path(link, first, s)
  PROVE  Chain(link, first) = s
  <1> DEFINE Dom == 1 .. NPages + 1
             g == [i \in Dom |-> Walk(s, i)]
  <1>1. g = [i \in Dom |-> ChainStep(link, first, g, i)]
    <2>1. ASSUME NEW i \in Dom PROVE ChainStep(link, first, g, i) = Walk(s, i)
      <3>1. i # 1 => i - 1 \in Dom
        BY Numbers
      <3>2. i # 1 => g[i - 1] = Walk(s, i - 1)
        BY <3>1
      <3> HIDE DEF g
      <3>3. QED BY <3>2, WalkTakesOne
    <2>2. QED BY <2>1
  <1> HIDE DEF g
  <1>2. \E f : /\ f = [i \in Dom |-> ChainStep(link, first, f, i)]
               /\ Chain(link, first) = [i \in {j \in DOMAIN f : f[j] # Nil} |-> f[i]]
    BY <1>1, Zenon DEF Chain, ChainStep
  <1>3. PICK f : /\ f = [i \in Dom |-> ChainStep(link, first, f, i)]
                 /\ Chain(link, first) = [i \in {j \in DOMAIN f : f[j] # Nil} |-> f[i]]
    BY <1>2
  <1>4. DOMAIN f = Dom /\ \A i \in Dom : f[i] = ChainStep(link, first, f, i)
    BY <1>3
  <1>5. \A i \in Dom : f[i] = Walk(s, i)
    <2> DEFINE S == {i \in Dom : f[i] # Walk(s, i)}
    <2>1. SUFFICES ASSUME S # {} PROVE FALSE
      OBVIOUS
    <2>2. PICK x \in S : \A y \in S : x <= y
      <3>1. S \subseteq Nat
        OBVIOUS
      <3> HIDE DEF S
      <3>2. QED BY <2>1, <3>1, LeastExists
    <2>3. x \in Nat /\ x \in Dom /\ f[x] # Walk(s, x)
      OBVIOUS
    <2>4. x # 1 => f[x - 1] = Walk(s, x - 1)
      <3>1. x # 1 => x - 1 \in Dom /\ ~(x <= x - 1)
        BY <2>3, Numbers
      <3>2. QED BY <2>2, <3>1
    <2>5. f[x] = Walk(s, x)
      <3>1. x \in 1 .. NPages + 1 /\ f[x] = ChainStep(link, first, f, x)
        BY <1>4, <2>3
      <3>2. QED BY <2>4, <3>1, WalkTakesOne
    <2>6. QED BY <2>3, <2>5
  <1>6. Len(s) \in Nat /\ Len(s) <= NPages /\ DOMAIN s = 1 .. Len(s) /\ s \in Seq(Page)
        /\ \A i \in 1 .. Len(s) : s[i] # Nil
    BY Bounded, SeqIs, Numbers DEF Path
  <1>7. {j \in Dom : f[j] # Nil} = 1 .. Len(s)
    <2>1. \A j \in Dom : f[j] # Nil <=> j <= Len(s)
      <3>1. \A j \in Dom : j <= Len(s) => j \in 1 .. Len(s)
        BY <1>6
      <3>2. QED BY <1>5, <1>6, <3>1 DEF Walk
    <2>2. \A j \in 1 .. Len(s) : j \in Dom /\ j <= Len(s)
      BY <1>6, Numbers
    <2>3. \A j \in Dom : j <= Len(s) => j \in 1 .. Len(s)
      BY <1>6
    <2> HIDE DEF Dom
    <2>4. QED BY <2>1, <2>2, <2>3
  <1>8. Chain(link, first) = [i \in 1 .. Len(s) |-> f[i]]
    BY <1>3, <1>4, <1>7
  <1>9. \A i \in 1 .. Len(s) : f[i] = s[i]
    <2>1. \A i \in 1 .. Len(s) : i \in Dom /\ i <= Len(s)
      BY <1>6, Numbers
    <2>2. QED BY <1>5, <2>1 DEF Walk
  <1>10. Chain(link, first) = [i \in 1 .. Len(s) |-> s[i]]
    BY <1>8, <1>9
  <1>11. QED BY <1>6, <1>10

LEMMA LastIs ==
  ASSUME NEW link, NEW first, NEW s, Path(link, first, s)
  PROVE  LastOf(link, first) = IF s = <<>> THEN Nil ELSE s[Len(s)]
  BY ChainIs DEF LastOf

\* A walk depends on the links of its own pages only.
LEMMA PathKept ==
  ASSUME NEW link, NEW first, NEW s, Path(link, first, s), NEW new,
         \A p \in Page : Has(s, p) => new[p] = link[p]
  PROVE  Path(new, first, s)
  <1>1. \A i \in 1 .. Len(s) : s[i] \in Page /\ Has(s, s[i])
    BY SeqIs DEF Path, Has
  <1>2. \A i \in 1 .. Len(s) : new[s[i]] = link[s[i]]
    BY <1>1
  <1>3. QED BY <1>2 DEF Path

LEMMA PathOne ==
  ASSUME NEW link, NEW p \in Page, link[p] = Nil
  PROVE  Path(link, p, <<p>>) /\ \A x : Has(<<p>>, x) <=> x = p
  <1>1. /\ <<p>> \in Seq(Page) /\ Len(<<p>>) = 1 /\ <<p>>[1] = p /\ <<p>> # <<>>
        /\ \A i \in 1 .. 1 : i = 1
    OBVIOUS
  <1>2. QED BY <1>1 DEF Path, Distinct, Has

\* A page is linked in behind the m first of a list.
LEMMA PathPut ==
  ASSUME NEW link, NEW first, NEW s, Path(link, first, s), NEW q \in Page, ~Has(s, q),
         NEW m \in 1 .. Len(s), NEW new, new[s[m]] = q, new[q] = link[s[m]],
         \A p \in Page \ {q, s[m]} : new[p] = link[p]
  PROVE  Path(new, first, Put(s, m, q)) /\ \A x : Has(Put(s, m, q), x) <=> Has(s, x) \/ x = q
  <1>1. PICK n \in Nat : n = Len(s)
    BY SeqIs DEF Path
  <1>2. PICK t : t = Put(s, m, q)
    OBVIOUS
  <1>3. /\ s \in Seq(Page) /\ Distinct(s) /\ \A i \in 1 .. n : s[i] \in Page
        /\ first = IF s = <<>> THEN Nil ELSE s[1]
        /\ \A i \in 1 .. n : link[s[i]] = IF i = n THEN Nil ELSE s[i + 1]
    BY <1>1, SeqIs DEF Path
  <1>4. \A i \in 1 .. n : s[i] # q
    BY <1>1 DEF Has
  <1>5. m \in 1 .. n /\ m \in 0 .. n
    BY <1>1
  <1>6. /\ t \in Seq(Page) /\ Len(t) = n + 1 /\ t[m + 1] = q
        /\ \A i \in 1 .. m : t[i] = s[i]
        /\ \A i \in m + 1 .. n : t[i + 1] = s[i]
    <2>1. m \in 0 .. Len(s)
      BY <1>1, <1>5
    <2>2. s \in Seq(Page)
      BY <1>3
    <2>3. q \in Page
      OBVIOUS
    <2>4. /\ Put(s, m, q) \in Seq(Page)
          /\ Len(Put(s, m, q)) = Len(s) + 1
          /\ Put(s, m, q)[m + 1] = q
          /\ \A i \in 1 .. m : Put(s, m, q)[i] = s[i]
          /\ \A i \in m + 1 .. Len(s) : Put(s, m, q)[i + 1] = s[i]
      BY <2>1, <2>2, <2>3, PutIs
    <2>5. QED BY <1>1, <1>2, <2>4, Zenon
  <1>7. \A i \in 1 .. n + 1 : \/ i \in 1 .. m /\ i # m + 1 /\ i \in 1 .. n
                              \/ i = m + 1
                              \/ i - 1 \in m + 1 .. n /\ i - 1 \in 1 .. n /\ (i - 1) + 1 = i
    BY <1>5
  <1>8. ASSUME NEW i \in 1 .. n + 1
        PROVE  \/ i \in 1 .. m /\ i \in 1 .. n /\ t[i] = s[i]
               \/ i = m + 1 /\ t[i] = q
               \/ i - 1 \in m + 1 .. n /\ i - 1 \in 1 .. n /\ t[i] = s[i - 1]
    BY <1>6, <1>7
  <1>9. Distinct(t)
    <2>1. ASSUME NEW i \in 1 .. n + 1, NEW j \in 1 .. n + 1, t[i] = t[j] PROVE i = j
      <3>1. \A a, b \in 1 .. n : s[a] = s[b] => a = b
        BY <1>1, <1>3 DEF Distinct
      <3>2. i = m + 1 <=> t[i] = q
        BY <1>4, <1>8, <1>5
      <3>3. j = m + 1 <=> t[j] = q
        BY <1>4, <1>8, <1>5
      <3>4. CASE i = m + 1 \/ j = m + 1
        BY <2>1, <3>2, <3>3, <3>4
      <3>5. CASE i \in 1 .. m /\ j \in 1 .. m
        BY <1>5, <1>6, <2>1, <3>1, <3>5
      <3>6. CASE i \in 1 .. m /\ j - 1 \in m + 1 .. n
        <4>1. t[i] = s[i] /\ t[j] = s[j - 1] /\ i \in 1 .. n /\ j - 1 \in 1 .. n /\ i # j - 1
          BY <1>5, <1>8, <3>6
        <4>2. QED BY <2>1, <3>1, <4>1
      <3>7. CASE i - 1 \in m + 1 .. n /\ j \in 1 .. m
        <4>1. t[j] = s[j] /\ t[i] = s[i - 1] /\ j \in 1 .. n /\ i - 1 \in 1 .. n /\ j # i - 1
          BY <1>5, <1>8, <3>7
        <4>2. QED BY <2>1, <3>1, <4>1
      <3>8. CASE i - 1 \in m + 1 .. n /\ j - 1 \in m + 1 .. n
        <4>1. t[j] = s[j - 1] /\ t[i] = s[i - 1] /\ j - 1 \in 1 .. n /\ i - 1 \in 1 .. n
          BY <1>5, <1>8, <3>8
        <4>2. i - 1 = j - 1
          BY <2>1, <3>1, <4>1
        <4>3. QED BY <4>2
      <3>9. QED BY <1>7, <3>4, <3>5, <3>6, <3>7, <3>8
    <2>2. QED BY <1>6, <2>1 DEF Distinct
  <1>10. t # <<>> /\ first = t[1]
    <2>1. s # <<>> /\ 1 \in 1 .. m
      BY <1>1, <1>3, <1>5
    <2>2. QED BY <1>3, <1>6, <2>1
  <1>11. ASSUME NEW i \in 1 .. n + 1
         PROVE  new[t[i]] = IF i = n + 1 THEN Nil ELSE t[i + 1]
    <2>1. \A a, b \in 1 .. n : s[a] = s[b] => a = b
      BY <1>1, <1>3 DEF Distinct
    <2>2. CASE i = m
      <3>1. t[i] = s[m] /\ i # n + 1 /\ t[i + 1] = q
        BY <1>5, <1>6, <2>2
      <3>2. QED BY <3>1
    <2>3. CASE i = m + 1
      <3>1. t[i] = q /\ (i = n + 1 <=> m = n) /\ new[t[i]] = link[s[m]]
        BY <1>6, <2>3
      <3>2. m # n => m + 1 \in m + 1 .. n
        BY <1>5
      <3>3. m # n => t[i + 1] = s[m + 1]
        BY <1>6, <2>3, <3>2
      <3>4. link[s[m]] = IF m = n THEN Nil ELSE s[m + 1]
        BY <1>3, <1>5
      <3>5. QED BY <3>1, <3>3, <3>4
    <2>4. CASE i \in 1 .. m - 1
      <3>1. /\ i \in 1 .. n /\ i # n /\ i # n + 1 /\ i # m /\ i \in 1 .. m /\ i + 1 \in 1 .. m
        BY <1>5, <2>4
      <3>2. t[i] = s[i] /\ t[i + 1] = s[i + 1]
        BY <1>6, <3>1
      <3>3. s[i] \in Page \ {q, s[m]}
        BY <1>3, <1>4, <1>5, <2>1, <3>1
      <3>4. new[s[i]] = link[s[i]]
        BY <3>3
      <3>5. link[s[i]] = s[i + 1]
        BY <1>3, <3>1
      <3>6. QED BY <3>1, <3>2, <3>4, <3>5
    <2>5. CASE i \in m + 2 .. n + 1
      <3>1. /\ i - 1 \in m + 1 .. n /\ (i - 1) + 1 = i /\ i - 1 \in 1 .. n /\ i - 1 # m
            /\ (i - 1 = n <=> i = n + 1)
            /\ (i # n + 1 => i \in m + 1 .. n)
        BY <1>5, <2>5
      <3>2. t[i] = s[i - 1] /\ (i # n + 1 => t[i + 1] = s[i])
        BY <1>6, <3>1
      <3>3. s[i - 1] \in Page \ {q, s[m]}
        BY <1>3, <1>4, <1>5, <2>1, <3>1
      <3>4. new[s[i - 1]] = link[s[i - 1]]
        BY <3>3
      <3>5. link[s[i - 1]] = IF i - 1 = n THEN Nil ELSE s[(i - 1) + 1]
        BY <1>3, <3>1
      <3>6. QED BY <3>1, <3>2, <3>4, <3>5
    <2>6. i \in 1 .. m - 1 \/ i = m \/ i = m + 1 \/ i \in m + 2 .. n + 1
      BY <1>5
    <2>7. QED BY <2>2, <2>3, <2>4, <2>5, <2>6
  <1>12. Path(new, first, t)
    BY <1>6, <1>9, <1>10, <1>11 DEF Path
  <1>13. ASSUME NEW x PROVE Has(t, x) <=> Has(s, x) \/ x = q
    <2>1. ASSUME Has(t, x) PROVE Has(s, x) \/ x = q
      <3>1. PICK i \in 1 .. n + 1 : t[i] = x
        BY <1>6, <2>1 DEF Has
      <3>2. QED BY <1>1, <1>8, <3>1 DEF Has
    <2>2. ASSUME NEW i \in 1 .. n, s[i] = x PROVE Has(t, x)
      <3>1. CASE i \in 1 .. m
        <4>1. i \in 1 .. n + 1 /\ t[i] = x
          BY <1>6, <2>2, <3>1
        <4>2. QED BY <1>6, <4>1 DEF Has
      <3>2. CASE i \in m + 1 .. n
        <4>1. i + 1 \in 1 .. n + 1 /\ t[i + 1] = x
          BY <1>5, <1>6, <2>2, <3>2
        <4>2. QED BY <1>6, <4>1 DEF Has
      <3>3. i \in 1 .. m \/ i \in m + 1 .. n
        BY <1>5
      <3>4. QED BY <3>1, <3>2, <3>3
    <2>3. Has(t, q)
      <3>1. m + 1 \in 1 .. n + 1
        BY <1>5
      <3>2. QED BY <1>6, <3>1 DEF Has
    <2>4. QED BY <1>1, <2>1, <2>2, <2>3 DEF Has
  <1>14. QED BY <1>2, <1>12, <1>13

\* A list without its first page.
LEMMA PathTail ==
  ASSUME NEW link, NEW first, NEW s, Path(link, first, s), s # <<>>
  PROVE  /\ Path(link, link[first], Tail(s))
         /\ first \in Page /\ Has(s, first)
         /\ \A x : Has(Tail(s), x) <=> Has(s, x) /\ x # first
  <1>1. PICK n \in Nat \ {0} : n = Len(s)
    BY SeqIs DEF Path
  <1>2. PICK t : t = Tail(s)
    OBVIOUS
  <1>3. /\ s \in Seq(Page) /\ \A i \in 1 .. n : s[i] \in Page
        /\ first = s[1]
        /\ \A i \in 1 .. n : link[s[i]] = IF i = n THEN Nil ELSE s[i + 1]
    BY <1>1, SeqIs DEF Path
  <1>4. /\ t \in Seq(Page) /\ Len(t) = n - 1 /\ \A i \in 1 .. n - 1 : t[i] = s[i + 1]
    BY <1>1, <1>2, <1>3
  <1>5. \A i \in 1 .. n - 1 : i + 1 \in 1 .. n /\ i + 1 # 1 /\ (i + 1 = n <=> i = n - 1)
                              /\ (i # n - 1 => i + 1 \in 1 .. n - 1)
    BY <1>1
  <1>6. \A i, j \in 1 .. n : s[i] = s[j] => i = j
    BY <1>1 DEF Path, Distinct
  <1>7. Distinct(t)
    <2>1. ASSUME NEW i \in 1 .. n - 1, NEW j \in 1 .. n - 1, t[i] = t[j] PROVE i = j
      <3>1. i + 1 = j + 1
        BY <1>4, <1>5, <1>6, <2>1
      <3>2. QED BY <3>1
    <2>2. QED BY <1>4, <2>1 DEF Distinct
  <1>8. 1 \in 1 .. n /\ (t = <<>> <=> n = 1) /\ (n # 1 => 1 \in 1 .. n - 1)
    BY <1>1, <1>4
  <1>9. link[first] = IF t = <<>> THEN Nil ELSE t[1]
    <2>1. link[first] = IF 1 = n THEN Nil ELSE s[1 + 1]
      BY <1>3, <1>8
    <2>2. n # 1 => t[1] = s[1 + 1]
      BY <1>4, <1>8
    <2>3. QED BY <1>8, <2>1, <2>2
  <1>10. ASSUME NEW i \in 1 .. n - 1 PROVE link[t[i]] = IF i = n - 1 THEN Nil ELSE t[i + 1]
    <2>1. link[s[i + 1]] = IF i + 1 = n THEN Nil ELSE s[(i + 1) + 1]
      BY <1>3, <1>5
    <2>2. t[i] = s[i + 1] /\ (i # n - 1 => t[i + 1] = s[(i + 1) + 1])
      BY <1>4, <1>5
    <2>3. QED BY <1>5, <2>1, <2>2
  <1>11. Path(link, link[first], t)
    BY <1>4, <1>7, <1>9, <1>10 DEF Path
  <1>12. ASSUME NEW x PROVE Has(t, x) <=> Has(s, x) /\ x # first
    <2>1. ASSUME NEW i \in 1 .. n - 1, t[i] = x PROVE Has(s, x) /\ x # first
      <3>1. i + 1 \in 1 .. n /\ s[i + 1] = x /\ i + 1 # 1
        BY <1>4, <1>5, <2>1
      <3>2. QED BY <1>1, <1>3, <1>6, <1>8, <3>1 DEF Has
    <2>2. ASSUME NEW i \in 1 .. n, s[i] = x, x # first PROVE Has(t, x)
      <3>1. i # 1
        BY <1>3, <2>2
      <3>2. i - 1 \in 1 .. n - 1 /\ (i - 1) + 1 = i
        BY <1>1, <3>1
      <3>3. t[i - 1] = x
        BY <1>4, <2>2, <3>2
      <3>4. QED BY <1>4, <3>2, <3>3 DEF Has
    <2>3. QED BY <1>1, <1>4, <2>1, <2>2 DEF Has
  <1>13. first \in Page /\ Has(s, first)
    BY <1>1, <1>3, <1>8 DEF Has
  <1>14. QED BY <1>2, <1>11, <1>12, <1>13

----------------------------------------------------------------------------
(* Freeing the pages of a big block                                         *)

Links == [next : [Page -> Page \union {Nil}], first : Page \union {Nil}]

LEMMA LinksFields ==
  ASSUME NEW e \in Links
  PROVE  /\ e.next \in [Page -> Page \union {Nil}] /\ e.first \in Page \union {Nil}
         /\ \A n \in [Page -> Page \union {Nil}] : [e EXCEPT !.next = n] \in Links
         /\ \A n : [e EXCEPT !.next = n].next = n /\ [e EXCEPT !.next = n].first = e.first
         /\ \A n \in Page \union {Nil} :
              [e EXCEPT !.first = n] \in Links /\ [e EXCEPT !.first = n].first = n
              /\ [e EXCEPT !.first = n].next = e.next
  BY DEF Links

\* __insert_free_slab puts the page into the list and changes no other link.
LEMMA InsertFreeIs ==
  ASSUME NEW e \in Links, NEW s, Path(e.next, e.first, s), NEW q \in Page, ~Has(s, q), e.next[q] = Nil
  PROVE  /\ InsertFree(e, q) \in Links
         /\ \E t : /\ Path(InsertFree(e, q).next, InsertFree(e, q).first, t)
                   /\ \A x : Has(t, x) <=> Has(s, x) \/ x = q
         /\ \A p \in Page : ~Has(s, p) /\ p # q => InsertFree(e, q).next[p] = e.next[p]
  <1> DEFINE Stop == {i \in DOMAIN s : s[i] <= q}
  <1>1. /\ s \in Seq(Page) /\ Len(s) \in Nat /\ DOMAIN s = 1 .. Len(s) /\ (\A i \in 1 .. Len(s) : s[i] \in Page)
        /\ (s = <<>> <=> Len(s) = 0) /\ e.first = IF s = <<>> THEN Nil ELSE s[1]
    BY SeqIs DEF Path
  <1>2. Chain(e.next, e.first) = s
    BY ChainIs
  <1>3. e.first = Nil <=> s = <<>>
    BY <1>1, Numbers
  <1>4. PICK d : d = InsertFree(e, q)
    OBVIOUS
  <1>5. CASE s = <<>>
    <2>1. d = [e EXCEPT !.first = q]
      BY <1>3, <1>4, <1>5 DEF InsertFree
    <2>2. d \in Links /\ d.first = q /\ d.next = e.next
      BY <2>1, LinksFields
    <2>3. Path(d.next, d.first, <<q>>) /\ \A x : Has(<<q>>, x) <=> x = q
      BY <2>2, PathOne
    <2>4. \A x : ~Has(s, x)
      BY <1>1, <1>5 DEF Has
    <2>5. QED BY <1>4, <2>2, <2>3, <2>4
  <1>6. CASE s # <<>> /\ Stop # {}
    <2>1. PICK m : m = SetMin(Stop)
      OBVIOUS
    <2>2. m \in 1 .. Len(s)
      <3>1. Stop \subseteq Nat
        BY <1>1
      <3>2. m \in Stop
        <4> HIDE DEF Stop
        <4>1. QED BY <1>6, <2>1, <3>1, SetMinIs
      <3>3. QED BY <1>1, <3>2
    <2>3. PICK n : n = [e.next EXCEPT ![q] = e.next[s[m]], ![s[m]] = q]
      OBVIOUS
    <2>4. d = [e EXCEPT !.next = n]
      <3>1. d = [e EXCEPT !.next[q] = e.next[s[m]], !.next[s[m]] = q]
        BY <1>2, <1>3, <1>4, <1>6, <2>1 DEF InsertFree
      <3>2. QED BY <2>3, <3>1
    <2>5. /\ s[m] \in Page /\ s[m] # q /\ e.next[s[m]] \in Page \union {Nil} /\ e.next \in [Page -> Page \union {Nil}]
      BY <1>1, <2>2, LinksFields DEF Has
    <2>6. /\ n \in [Page -> Page \union {Nil}] /\ n[s[m]] = q /\ n[q] = e.next[s[m]]
          /\ \A p \in Page \ {q, s[m]} : n[p] = e.next[p]
      BY <2>3, <2>5
    <2>7. d \in Links /\ d.next = n /\ d.first = e.first
      BY <2>4, <2>6, LinksFields
    <2>8. Path(n, e.first, Put(s, m, q)) /\ \A x : Has(Put(s, m, q), x) <=> Has(s, x) \/ x = q
      BY <2>2, <2>6, PathPut
    <2>9. \A p \in Page : ~Has(s, p) /\ p # q => n[p] = e.next[p]
      BY <2>2, <2>6 DEF Has
    <2>10. QED BY <1>4, <2>7, <2>8, <2>9
  <1>7. CASE s # <<>> /\ Stop = {}
    <2>1. PICK m : m = Len(s)
      OBVIOUS
    <2>2. m \in 1 .. Len(s)
      BY <1>1, <1>7, <2>1
    <2>3. PICK n : n = [e.next EXCEPT ![s[m]] = q]
      OBVIOUS
    <2>4. d = [e EXCEPT !.next = n]
      <3>1. d = [e EXCEPT !.next[s[m]] = q]
        BY <1>2, <1>3, <1>4, <1>7, <2>1 DEF InsertFree
      <3>2. QED BY <2>3, <3>1
    <2>5. /\ s[m] \in Page /\ s[m] # q /\ e.next[s[m]] = Nil /\ e.next \in [Page -> Page \union {Nil}]
      BY <1>1, <2>1, <2>2, LinksFields DEF Has, Path
    <2>6. /\ n \in [Page -> Page \union {Nil}] /\ n[s[m]] = q /\ n[q] = e.next[s[m]]
          /\ \A p \in Page \ {q, s[m]} : n[p] = e.next[p]
      BY <2>3, <2>5
    <2>7. d \in Links /\ d.next = n /\ d.first = e.first
      BY <2>4, <2>6, LinksFields
    <2>8. Path(n, e.first, Put(s, m, q)) /\ \A x : Has(Put(s, m, q), x) <=> Has(s, x) \/ x = q
      BY <2>2, <2>6, PathPut
    <2>9. \A p \in Page : ~Has(s, p) /\ p # q => n[p] = e.next[p]
      BY <2>2, <2>6 DEF Has
    <2>10. QED BY <1>4, <2>7, <2>8, <2>9
  <1>8. QED BY <1>5, <1>6, <1>7

\* After i pages from p on, the list has them besides what it had; links of
\* pages that are in neither have not changed.
FreedSoFar(e, p, i, s) ==
  /\ e \in Links
  /\ \E t : /\ Path(e.next, e.first, t)
            /\ \A x : Has(t, x) <=> Has(s, x) \/ x \in p .. p + i - 1
  /\ \A q \in Page : ~Has(s, q) /\ q \notin p .. p + i - 1 => e.next[q] = next[q]

FreeStep(f, p, i) ==
  IF i = 0 THEN [next |-> next, first |-> free_slabs]
  ELSE InsertFree([f[i - 1] EXCEPT !.next[p + i - 1] = Nil], p + i - 1)

LEMMA FreeNext ==
  ASSUME NEW e, NEW p \in Page, NEW i \in Nat \ {0}, NEW s, FreedSoFar(e, p, i - 1, s),
         p + i - 1 \in Page, ~Has(s, p + i - 1)
  PROVE  FreedSoFar(InsertFree([e EXCEPT !.next[p + i - 1] = Nil], p + i - 1), p, i, s)
  <1>1. PICK q \in Page : q = p + i - 1
    OBVIOUS
  <1>2. p \in Nat /\ i \in Nat /\ q \in Nat /\ p + (i - 1) - 1 = q - 1
    BY <1>1, Numbers
  <1>3. q \notin p .. q - 1 /\ p .. q = (p .. q - 1) \union {q}
    BY <1>1, <1>2
  <1>4. /\ e \in Links
        /\ \A x \in Page : ~Has(s, x) /\ x \notin p .. q - 1 => e.next[x] = next[x]
    BY <1>2 DEF FreedSoFar
  <1>5. PICK t : /\ Path(e.next, e.first, t)
                 /\ \A x : Has(t, x) <=> Has(s, x) \/ x \in p .. q - 1
    BY <1>2 DEF FreedSoFar
  <1>6. PICK n : n = [e.next EXCEPT ![q] = Nil]
    OBVIOUS
  <1>7. PICK c : c = [e EXCEPT !.next = n]
    OBVIOUS
  <1>8. [e EXCEPT !.next[p + i - 1] = Nil] = c
    BY <1>1, <1>6, <1>7
  <1>9. /\ n \in [Page -> Page \union {Nil}] /\ n[q] = Nil /\ \A x \in Page : x # q => n[x] = e.next[x]
    BY <1>4, <1>6, LinksFields
  <1>10. c \in Links /\ c.next = n /\ c.first = e.first
    BY <1>4, <1>7, <1>9, LinksFields
  <1>11. ~Has(t, q)
    BY <1>1, <1>3, <1>5
  <1>12. Path(c.next, c.first, t)
    <2>1. \A x \in Page : Has(t, x) => n[x] = e.next[x]
      BY <1>9, <1>11
    <2>2. QED BY <1>5, <1>10, <2>1, PathKept
  <1>13. PICK d : d = InsertFree(c, q)
    OBVIOUS
  <1>14. /\ d \in Links
         /\ \E u : Path(d.next, d.first, u) /\ \A x : Has(u, x) <=> Has(t, x) \/ x = q
         /\ \A x \in Page : ~Has(t, x) /\ x # q => d.next[x] = n[x]
    BY <1>9, <1>10, <1>11, <1>12, <1>13, InsertFreeIs
  <1>15. \E u : Path(d.next, d.first, u) /\ \A x : Has(u, x) <=> Has(s, x) \/ x \in p .. q
    <2>1. PICK u : Path(d.next, d.first, u) /\ \A x : Has(u, x) <=> Has(t, x) \/ x = q
      BY <1>14
    <2>2. \A x : Has(u, x) <=> Has(s, x) \/ x \in p .. q
      BY <1>3, <1>5, <2>1
    <2>3. QED BY <2>1, <2>2
  <1>16. \A x \in Page : ~Has(s, x) /\ x \notin p .. q => d.next[x] = next[x]
    BY <1>3, <1>4, <1>5, <1>9, <1>14
  <1>17. FreedSoFar(d, p, i, s)
    BY <1>1, <1>14, <1>15, <1>16 DEF FreedSoFar
  <1>18. QED BY <1>1, <1>8, <1>13, <1>17

Freeing(p, n, s) ==
  /\ p \in Page /\ n \in Nat
  /\ next \in [Page -> Page \union {Nil}] /\ Path(next, free_slabs, s)
  /\ \A i \in 1 .. n : p + i - 1 \in Page /\ ~Has(s, p + i - 1)

LEMMA FreeFirst ==
  ASSUME NEW p, NEW n, NEW s, Freeing(p, n, s)
  PROVE  FreedSoFar([next |-> next, first |-> free_slabs], p, 0, s)
  <1>1. PICK e : e = [next |-> next, first |-> free_slabs]
    OBVIOUS
  <1>2. e.next = next /\ e.first = free_slabs
    BY <1>1
  <1>3. p \in Nat /\ p .. p + 0 - 1 = {}
    BY Numbers DEF Freeing
  <1>4. free_slabs \in Page \union {Nil}
    <2>1. /\ free_slabs = IF s = <<>> THEN Nil ELSE s[1]
          /\ Len(s) \in Nat /\ (s = <<>> <=> Len(s) = 0) /\ \A i \in 1 .. Len(s) : s[i] \in Page
      BY SeqIs DEF Freeing, Path
    <2>2. s # <<>> => 1 \in 1 .. Len(s)
      BY <2>1
    <2>3. QED BY <2>1, <2>2
  <1>5. e \in Links
    BY <1>1, <1>4 DEF Links, Freeing
  <1>6. QED BY <1>1, <1>2, <1>3, <1>5 DEF FreedSoFar, Freeing

LEMMA FreeStepsExist ==
  ASSUME NEW p, NEW n, NEW s, Freeing(p, n, s)
  PROVE  \E f : f = [i \in 0 .. n |-> FreeStep(f, p, i)] /\ FreedSoFar(f[n], p, n, s)
  <1> DEFINE Good(k) == \E f : f = [i \in 0 .. k |-> FreeStep(f, p, i)] /\ FreedSoFar(f[k], p, k, s)
             Bad == {k \in 0 .. n : ~Good(k)}
  <1>1. Good(0)
    <2> DEFINE e == [next |-> next, first |-> free_slabs]
               f == [i \in 0 .. 0 |-> e]
    <2>1. FreedSoFar(e, p, 0, s)
      BY FreeFirst
    <2>2. f = [i \in 0 .. 0 |-> FreeStep(f, p, i)]
      <3>1. \A i \in 0 .. 0 : FreeStep(f, p, i) = e
        BY DEF FreeStep
      <3> HIDE DEF e
      <3>2. QED BY <3>1
    <2> HIDE DEF e
    <2>3. f[0] = e
      OBVIOUS
    <2> HIDE DEF f
    <2>4. QED BY <2>1, <2>2, <2>3
  <1>2. ASSUME NEW k \in 1 .. n, Good(k - 1) PROVE Good(k)
    <2>1. PICK g : g = [i \in 0 .. k - 1 |-> FreeStep(g, p, i)] /\ FreedSoFar(g[k - 1], p, k - 1, s)
      BY <1>2
    <2> DEFINE h == InsertFree([g[k - 1] EXCEPT !.next[p + k - 1] = Nil], p + k - 1)
               f == [i \in 0 .. k |-> IF i = k THEN h ELSE g[i]]
    <2>2. p \in Page /\ k \in Nat \ {0} /\ p + k - 1 \in Page /\ ~Has(s, p + k - 1)
      BY DEF Freeing
    <2>3. FreedSoFar(h, p, k, s)
      BY <2>1, <2>2, FreeNext
    <2> HIDE DEF h
    <2>4. f[k] = h /\ \A i \in 0 .. k - 1 : f[i] = g[i] /\ i \in 0 .. k /\ i # k
      BY <2>2
    <2>5. ASSUME NEW i \in 0 .. k PROVE f[i] = FreeStep(f, p, i)
      <3>1. CASE i = k
        <4>1. k # 0 /\ k - 1 \in 0 .. k - 1
          BY <2>2
        <4>2. f[k - 1] = g[k - 1]
          BY <2>4, <4>1
        <4> HIDE DEF f
        <4>3. QED BY <2>4, <3>1, <4>1, <4>2 DEF FreeStep, h
      <3>2. CASE i # k
        <4>1. i \in 0 .. k - 1 /\ (i # 0 => i - 1 \in 0 .. k - 1)
          BY <2>2, <3>2
        <4>2. g[i] = FreeStep(g, p, i)
          BY <2>1, <4>1
        <4>3. f[i] = g[i] /\ (i # 0 => f[i - 1] = g[i - 1])
          BY <2>4, <4>1
        <4> HIDE DEF f
        <4>4. QED BY <4>2, <4>3 DEF FreeStep
      <3>3. QED BY <3>1, <3>2
    <2>6. f = [i \in 0 .. k |-> FreeStep(f, p, i)]
      BY <2>5
    <2> HIDE DEF f
    <2>7. QED BY <2>3, <2>4, <2>6
  <1>3. Bad = {}
    <2>1. SUFFICES ASSUME Bad # {} PROVE FALSE
      OBVIOUS
    <2> HIDE DEF Good
    <2>2. Bad \subseteq Nat
      OBVIOUS
    <2>3. PICK k \in Bad : \A j \in Bad : k <= j
      <3> HIDE DEF Bad
      <3>1. QED BY <2>1, <2>2, LeastExists
    <2>4. n \in Nat
      BY DEF Freeing
    <2>5. k # 0 /\ k \in 1 .. n /\ k - 1 \in 0 .. n /\ ~Good(k)
      BY <1>1, <2>4
    <2>6. k - 1 \notin Bad
      BY <2>3, <2>5
    <2>7. Good(k - 1)
      BY <2>5, <2>6
    <2>8. QED BY <1>2, <2>5, <2>7
  <1>4. n \in 0 .. n /\ n \notin Bad
    BY <1>3 DEF Freeing
  <1>5. Good(n)
    BY <1>4
  <1>6. QED BY <1>5

\* __free_big_slab adds exactly the pages of the block to the free list.
LEMMA FreePagesIs ==
  ASSUME NEW p, NEW n, NEW s, Freeing(p, n, s)
  PROVE  FreedSoFar(FreePages(p, n), p, n, s)
  <1>1. n \in Nat
    BY DEF Freeing
  <1>2. PICK g : g = [i \in 0 .. n |-> FreeStep(g, p, i)] /\ FreedSoFar(g[n], p, n, s)
    BY FreeStepsExist
  <1>3. \E f : f = [i \in 0 .. n |-> FreeStep(f, p, i)] /\ FreePages(p, n) = f[n]
    BY <1>2, Zenon DEF FreePages, FreeStep
  <1>4. PICK f : f = [i \in 0 .. n |-> FreeStep(f, p, i)] /\ FreePages(p, n) = f[n]
    BY <1>3
  <1> DEFINE Differ == {i \in 0 .. n : f[i] # g[i]}
  <1>5. Differ = {}
    <2>1. SUFFICES ASSUME Differ # {} PROVE FALSE
      OBVIOUS
    <2>2. Differ \subseteq Nat
      OBVIOUS
    <2>3. PICK k \in Differ : \A j \in Differ : k <= j
      <3> HIDE DEF Differ
      <3>1. QED BY <2>1, <2>2, LeastExists
    <2>4. k \in 0 .. n /\ f[k] # g[k] /\ (k # 0 => k - 1 \in 0 .. n /\ ~(k <= k - 1))
      BY <1>1
    <2>5. k # 0 => f[k - 1] = g[k - 1]
      BY <2>3, <2>4
    <2>6. f[k] = FreeStep(f, p, k) /\ g[k] = FreeStep(g, p, k)
      BY <1>2, <1>4, <2>4
    <2>7. QED BY <2>4, <2>5, <2>6 DEF FreeStep
  <1>6. n \in 0 .. n /\ n \notin Differ
    BY <1>1, <1>5
  <1>7. f[n] = g[n]
    BY <1>6
  <1>8. QED BY <1>2, <1>4, <1>7

----------------------------------------------------------------------------
(* Appending a page to a list                                               *)

\* __insert_slab: the page goes to the end of the list.
LEMMA AppendedIs ==
  ASSUME NEW link \in [Page -> Page \union {Nil}], NEW k, NEW s, Path(link, slabs[k], s),
         NEW p \in Page, ~Has(s, p), link[p] = Nil
  PROVE  /\ Appended(link, k, p) \in [Page -> Page \union {Nil}]
         /\ \E t : /\ Path(Appended(link, k, p), IF slabs[k] = Nil THEN p ELSE slabs[k], t)
                   /\ \A x : Has(t, x) <=> Has(s, x) \/ x = p
         /\ \A q \in Page : ~Has(s, q) => Appended(link, k, p)[q] = link[q]
  <1>1. /\ s \in Seq(Page) /\ Len(s) \in Nat /\ (\A i \in 1 .. Len(s) : s[i] \in Page)
        /\ (s = <<>> <=> Len(s) = 0) /\ slabs[k] = IF s = <<>> THEN Nil ELSE s[1]
    BY SeqIs DEF Path
  <1>2. slabs[k] = Nil <=> s = <<>>
    <2>1. s # <<>> => 1 \in 1 .. Len(s)
      BY <1>1
    <2>2. QED BY <1>1, <2>1, Numbers
  <1>3. CASE s = <<>>
    <2>1. Appended(link, k, p) = link
      BY <1>2, <1>3 DEF Appended
    <2>2. Path(link, p, <<p>>) /\ \A x : Has(<<p>>, x) <=> x = p
      BY PathOne
    <2>3. \A x : ~Has(s, x)
      BY <1>1, <1>3 DEF Has
    <2>4. QED BY <1>2, <1>3, <2>1, <2>2, <2>3
  <1>4. CASE s # <<>>
    <2>1. PICK m : m = Len(s)
      OBVIOUS
    <2>2. m \in 1 .. Len(s)
      BY <1>1, <1>4, <2>1
    <2>3. PICK new : new = [link EXCEPT ![s[m]] = p]
      OBVIOUS
    <2>4. Appended(link, k, p) = new
      BY <1>2, <1>4, <2>1, <2>3, LastIs DEF Appended
    <2>5. s[m] \in Page /\ s[m] # p /\ link[s[m]] = Nil
      BY <1>1, <2>1, <2>2 DEF Has, Path
    <2>6. /\ new \in [Page -> Page \union {Nil}] /\ new[s[m]] = p /\ new[p] = link[s[m]]
          /\ \A q \in Page \ {p, s[m]} : new[q] = link[q]
      BY <2>3, <2>5
    <2>7. Path(new, slabs[k], Put(s, m, p)) /\ \A x : Has(Put(s, m, p), x) <=> Has(s, x) \/ x = p
      BY <2>2, <2>6, PathPut
    <2>8. \A q \in Page : ~Has(s, q) => new[q] = link[q]
      BY <2>2, <2>3 DEF Has
    <2>9. QED BY <1>2, <1>4, <2>4, <2>6, <2>7, <2>8
  <1>5. QED BY <1>3, <1>4

----------------------------------------------------------------------------
(* The inductive invariant                                                  *)

\* What a page is used for.
New == <<"new", Nil>>
Freed == <<"free", Nil>>
SlabOf(k) == <<"slab", k>>
PartOf(h) == <<"big", h>>

LEMMA UsesDiffer ==
  /\ New # Freed
  /\ \A x : New # SlabOf(x) /\ New # PartOf(x) /\ Freed # SlabOf(x) /\ Freed # PartOf(x)
  /\ \A x, y : SlabOf(x) # PartOf(y)
  /\ \A x, y : SlabOf(x) = SlabOf(y) => x = y
  /\ \A x, y : PartOf(x) = PartOf(y) => x = y
  BY DEF New, Freed, SlabOf, PartOf

Whole(h) == h \in Held /\ block[h].kind \notin Class

\* The slabs of class k are s[k], the free pages f.
ListsRight(s, f) ==
  /\ \A k \in Class : Path(next, slabs[k], s[k])
  /\ Path(next, free_slabs, f)

\* Until a big block is freed, its list is one, of pages of big blocks.
BigList(u) ==
  bigFrees = 0 =>
    /\ free_slabs = Nil
    /\ \E g : /\ Path(next, slabs[Big], g)
              /\ \A p \in Page : Has(g, p) => \E h \in Handle : u[p] = PartOf(h)

Uses(s, f, u) ==
  \A p \in Page :
    /\ u[p] = New <=> p > brk
    /\ u[p] = Freed <=> Has(f, p)
    /\ \A k \in Class : u[p] = SlabOf(k) <=> Has(s[k], p)
    /\ \A h \in Handle : u[p] = PartOf(h) <=> Whole(h) /\ p \in PagesOf(block[h])
    /\ \/ u[p] = New \/ u[p] = Freed
       \/ \E k \in Class : u[p] = SlabOf(k)
       \/ \E h \in Handle : u[p] = PartOf(h)

Headers(u) ==
  \A h \in Held :
    /\ magic[block[h].page] /\ size[block[h].page] = block[h].kind
    /\ Whole(h) => block[h].page + block[h].kind - 1 \in Page
    /\ ~Whole(h) => /\ u[block[h].page] = SlabOf(block[h].kind)
                    /\ block[h].item \in 1 .. Items[block[h].kind]

InUse(p, i) == \E h \in Held : block[h].page = p /\ block[h].item = i

SlabRight(p, k) ==
  /\ magic[p] /\ size[p] = k
  /\ items[p] \in Seq(1 .. Items[k]) /\ Distinct(items[p])
  /\ \A i \in 1 .. Items[k] : Has(items[p], i) <=> ~InUse(p, i)

SlabsRight(u) == \A p \in Page, k \in Class : u[p] = SlabOf(k) => SlabRight(p, k)

Apart ==
  \A g, h \in Held : g # h /\ ~Whole(g) /\ ~Whole(h) /\ block[g].page = block[h].page
                       => block[g].item # block[h].item

Now(s, f, u) ==
  /\ ListsRight(s, f) /\ BigList(u) /\ Uses(s, f, u)
  /\ Headers(u) /\ SlabsRight(u) /\ Apart

Inv == TypeOK /\ panic # "corruption" /\ \E s, f, u : Now(s, f, u)

LEMMA BlockIs ==
  ASSUME TypeOK, NEW h \in Held
  PROVE  /\ h \in Handle /\ block[h] \in Block
         /\ block[h].page \in Page /\ block[h].item \in Nat
         /\ block[h].kind \in Class \union (1 .. MaxBlock)
         /\ Whole(h) => block[h].kind \in 1 .. MaxBlock /\ block[h].kind \notin Class
                        /\ PagesOf(block[h]) = block[h].page .. block[h].page + block[h].kind - 1
                        /\ block[h].page \in PagesOf(block[h])
         /\ ~Whole(h) => block[h].kind \in Class /\ block[h].kind \notin 1 .. MaxBlock
                         /\ PagesOf(block[h]) = {block[h].page}
  <1>1. h \in Handle /\ block[h] \in Block
    BY DEF TypeOK, Held
  <1>2. block[h].page \in Page /\ block[h].item \in Nat /\ block[h].kind \in Class \union (1 .. MaxBlock)
    BY <1>1 DEF Block
  <1>3. block[h].page \in Nat /\ MaxBlock \in Nat /\ Class \cap (0 .. MaxBlock) = {}
    BY <1>2, Numbers, KHeapAssumption
  <1>4. ASSUME Whole(h)
        PROVE  block[h].kind \in 1 .. MaxBlock /\ block[h].kind \notin Class
               /\ PagesOf(block[h]) = block[h].page .. block[h].page + block[h].kind - 1
               /\ block[h].page \in PagesOf(block[h])
    BY <1>2, <1>3, <1>4 DEF Whole, PagesOf
  <1>5. ASSUME ~Whole(h)
        PROVE  block[h].kind \in Class /\ block[h].kind \notin 1 .. MaxBlock
               /\ PagesOf(block[h]) = {block[h].page}
    <2>1. block[h].kind \in Class
      BY <1>5 DEF Whole
    <2>2. block[h].kind \notin 1 .. MaxBlock
      BY <1>3, <2>1
    <2>3. block[h].page .. block[h].page + 1 - 1 = {block[h].page}
      BY <1>3
    <2>4. QED BY <2>1, <2>2, <2>3 DEF PagesOf
  <1>6. QED BY <1>1, <1>2, <1>4, <1>5

LEMMA InitInv == Init => Inv
  <1> SUFFICES ASSUME Init PROVE Inv
    OBVIOUS
  <1>1. TypeOK
    BY Numbers, KHeapAssumption DEF Init, TypeOK, Big, Nil
  <1>2. panic # "corruption"
    BY DEF Init
  <1>3. Held = {} /\ \A h : ~Whole(h)
    BY DEF Init, Held, Whole
  <1> DEFINE s == [k \in Class |-> <<>>]
             u == [p \in Page |-> New]
  <1>4. \A link : Path(link, Nil, <<>>)
    BY DEF Path, Distinct
  <1>5. \A x : ~Has(<<>>, x)
    BY DEF Has
  <1>6. ListsRight(s, <<>>)
    <2>1. \A k \in Class : slabs[k] = Nil /\ s[k] = <<>>
      BY DEF Init
    <2>2. free_slabs = Nil
      BY DEF Init
    <2>3. QED BY <1>4, <2>1, <2>2 DEF ListsRight
  <1>7. BigList(u)
    <2>1. slabs[Big] = Nil /\ free_slabs = Nil
      BY DEF Init
    <2>2. QED BY <1>4, <1>5, <2>1 DEF BigList
  <1>8. Uses(s, <<>>, u)
    <2>1. \A p \in Page : u[p] = New /\ p > brk
      BY Numbers DEF Init, Page
    <2>2. \A k \in Class : s[k] = <<>>
      OBVIOUS
    <2> HIDE DEF s, u
    <2>3. QED BY <1>3, <1>5, <2>1, <2>2, UsesDiffer DEF Uses
  <1>9. Headers(u) /\ Apart
    BY <1>3 DEF Headers, Apart
  <1>10. SlabsRight(u)
    BY UsesDiffer DEF SlabsRight
  <1> HIDE DEF s, u
  <1>11. QED BY <1>1, <1>2, <1>6, <1>7, <1>8, <1>9, <1>10 DEF Inv, Now

----------------------------------------------------------------------------
(* Users come and go                                                        *)

LEMMA Takes ==
  ASSUME TypeOK, NEW h \in Handle, NEW b \in Block, block[h] = NoBlock, block' = [block EXCEPT ![h] = b]
  PROVE  /\ block' \in [Handle -> Block \union {NoBlock}]
         /\ h \notin Held /\ h \in Held' /\ ~Whole(h) /\ block'[h] = b
         /\ Whole(h)' <=> b.kind \notin Class
         /\ \A g \in Handle : g # h => /\ block'[g] = block[g]
                                       /\ g \in Held' <=> g \in Held
                                       /\ Whole(g)' <=> Whole(g)
  <1>1. block \in [Handle -> Block \union {NoBlock}]
    BY DEF TypeOK
  <1>2. block'[h] = b /\ \A g \in Handle : g # h => block'[g] = block[g]
    BY <1>1
  <1>3. b # NoBlock
    BY Numbers DEF Block, NoBlock
  <1>4. h \notin Held /\ h \in Held'
    BY <1>2, <1>3 DEF Held
  <1>5. \A g \in Handle : g # h => (g \in Held' <=> g \in Held)
    BY <1>2 DEF Held
  <1>6. ~Whole(h) /\ (Whole(h)' <=> b.kind \notin Class)
    BY <1>2, <1>4 DEF Whole
  <1>7. \A g \in Handle : g # h => (Whole(g)' <=> Whole(g))
    BY <1>2, <1>5 DEF Whole
  <1>8. block' \in [Handle -> Block \union {NoBlock}]
    BY <1>1
  <1>9. QED BY <1>2, <1>4, <1>5, <1>6, <1>7, <1>8

LEMMA Gives ==
  ASSUME TypeOK, NEW h \in Handle, block' = [block EXCEPT ![h] = NoBlock]
  PROVE  /\ block' \in [Handle -> Block \union {NoBlock}]
         /\ h \notin Held' /\ ~Whole(h)'
         /\ \A g \in Handle : g # h => /\ block'[g] = block[g]
                                       /\ g \in Held' <=> g \in Held
                                       /\ Whole(g)' <=> Whole(g)
  <1>1. block \in [Handle -> Block \union {NoBlock}]
    BY DEF TypeOK
  <1>2. block'[h] = NoBlock /\ \A g \in Handle : g # h => block'[g] = block[g]
    BY <1>1
  <1>3. h \notin Held'
    BY <1>2 DEF Held
  <1>4. \A g \in Handle : g # h => (g \in Held' <=> g \in Held)
    BY <1>2 DEF Held
  <1>5. ~Whole(h)'
    BY <1>3 DEF Whole
  <1>6. \A g \in Handle : g # h => (Whole(g)' <=> Whole(g))
    BY <1>2, <1>4 DEF Whole
  <1>7. block' \in [Handle -> Block \union {NoBlock}]
    BY <1>1
  <1>8. QED BY <1>2, <1>3, <1>4, <1>5, <1>6, <1>7

LEMMA TailIs ==
  ASSUME NEW T, NEW s \in Seq(T), Distinct(s), s # <<>>
  PROVE  /\ Tail(s) \in Seq(T) /\ Distinct(Tail(s)) /\ Head(s) \in T /\ Has(s, Head(s))
         /\ \A x : Has(Tail(s), x) <=> Has(s, x) /\ x # Head(s)
  <1>1. PICK n \in Nat \ {0} : n = Len(s)
    OBVIOUS
  <1>2. PICK t : t = Tail(s)
    OBVIOUS
  <1>3. t \in Seq(T) /\ Len(t) = n - 1 /\ \A i \in 1 .. n - 1 : t[i] = s[i + 1]
    BY <1>1, <1>2
  <1>4. Head(s) = s[1] /\ 1 \in 1 .. n /\ \A i \in 1 .. n : s[i] \in T
    BY <1>1
  <1>5. \A i, j \in 1 .. n : s[i] = s[j] => i = j
    BY <1>1 DEF Distinct
  <1>6. \A i \in 1 .. n - 1 : i + 1 \in 1 .. n /\ i + 1 # 1
    BY <1>1
  <1>7. Distinct(t)
    <2>1. ASSUME NEW i \in 1 .. n - 1, NEW j \in 1 .. n - 1, t[i] = t[j] PROVE i = j
      <3>1. i + 1 = j + 1
        BY <1>3, <1>5, <1>6, <2>1
      <3>2. QED BY <3>1
    <2>2. QED BY <1>3, <2>1 DEF Distinct
  <1>8. ASSUME NEW x PROVE Has(t, x) <=> Has(s, x) /\ x # Head(s)
    <2>1. ASSUME NEW i \in 1 .. n - 1, t[i] = x PROVE Has(s, x) /\ x # Head(s)
      <3>1. i + 1 \in 1 .. n /\ s[i + 1] = x /\ i + 1 # 1
        BY <1>3, <1>6, <2>1
      <3>2. QED BY <1>1, <1>4, <1>5, <3>1 DEF Has
    <2>2. ASSUME NEW i \in 1 .. n, s[i] = x, x # Head(s) PROVE Has(t, x)
      <3>1. i # 1
        BY <1>4, <2>2
      <3>2. i - 1 \in 1 .. n - 1 /\ (i - 1) + 1 = i
        BY <1>1, <3>1
      <3>3. t[i - 1] = x
        BY <1>3, <2>2, <3>2
      <3>4. QED BY <1>3, <3>2, <3>3 DEF Has
    <2>3. QED BY <1>1, <1>3, <2>1, <2>2 DEF Has
  <1>9. Has(s, Head(s))
    BY <1>1, <1>4 DEF Has
  <1>10. QED BY <1>2, <1>3, <1>4, <1>7, <1>8, <1>9

LEMMA ConsIs ==
  ASSUME NEW T, NEW s \in Seq(T), Distinct(s), NEW e \in T, ~Has(s, e)
  PROVE  /\ <<e>> \o s \in Seq(T) /\ Distinct(<<e>> \o s)
         /\ \A x : Has(<<e>> \o s, x) <=> Has(s, x) \/ x = e
  <1>1. PICK n \in Nat : n = Len(s)
    OBVIOUS
  <1>2. PICK t : t = <<e>> \o s
    OBVIOUS
  <1>3. t \in Seq(T) /\ Len(t) = n + 1 /\ t[1] = e
    BY <1>1, <1>2
  <1>4. \A i \in 1 .. n : t[i + 1] = s[i] /\ i + 1 \in 1 .. n + 1
    BY <1>1, <1>2
  <1>5. \A i \in 1 .. n + 1 : i = 1 \/ (i - 1 \in 1 .. n /\ (i - 1) + 1 = i)
    BY <1>1
  <1>6. \A i, j \in 1 .. n : s[i] = s[j] => i = j
    BY <1>1 DEF Distinct
  <1>7. \A i \in 1 .. n : s[i] # e
    BY <1>1 DEF Has
  <1>8. \A i \in 1 .. n + 1 : i # 1 => t[i] = s[i - 1] /\ t[i] # e
    BY <1>4, <1>5, <1>7
  <1>9. Distinct(t)
    <2>1. ASSUME NEW i \in 1 .. n + 1, NEW j \in 1 .. n + 1, t[i] = t[j] PROVE i = j
      <3>1. CASE i = 1 \/ j = 1
        BY <1>3, <1>8, <2>1, <3>1
      <3>2. CASE i # 1 /\ j # 1
        <4>1. i - 1 = j - 1
          BY <1>5, <1>6, <1>8, <2>1, <3>2
        <4>2. QED BY <4>1
      <3>3. QED BY <3>1, <3>2
    <2>2. QED BY <1>3, <2>1 DEF Distinct
  <1>10. ASSUME NEW x PROVE Has(t, x) <=> Has(s, x) \/ x = e
    <2>1. ASSUME NEW i \in 1 .. n + 1, t[i] = x PROVE Has(s, x) \/ x = e
      <3>1. i = 1 \/ (i - 1 \in 1 .. n /\ s[i - 1] = x)
        BY <1>5, <1>8, <2>1
      <3>2. QED BY <1>1, <1>3, <2>1, <3>1 DEF Has
    <2>2. ASSUME NEW i \in 1 .. n, s[i] = x PROVE Has(t, x)
      BY <1>3, <1>4, <2>2 DEF Has
    <2>3. Has(t, e)
      <3>1. 1 \in 1 .. n + 1
        BY <1>1
      <3>2. QED BY <1>3, <3>1 DEF Has
    <2>4. QED BY <1>1, <1>3, <2>1, <2>2, <2>3 DEF Has
  <1>11. QED BY <1>2, <1>3, <1>9, <1>10

----------------------------------------------------------------------------
(* The steps                                                                *)

LEMMA AllocItemKeeps ==
  ASSUME TypeOK, panic # "corruption", NEW s, NEW f, NEW u, Now(s, f, u),
         NEW h \in Handle, NEW k \in Class, block[h] = NoBlock, AllocItem(h, k), which' = which
  PROVE  Inv'
  <1>1. PICK t : t = LastOf(next, slabs[k])
    OBVIOUS
  <1>2. PICK i : i = Head(items[t])
    OBVIOUS
  <1>3. /\ t # Nil /\ items[t] # <<>>
        /\ block' = [block EXCEPT ![h] = [page |-> t, kind |-> k, item |-> i]]
        /\ items' = [items EXCEPT ![t] = Tail(items[t])]
        /\ UNCHANGED <<brk, magic, size, next, lists, counts, panic>>
    BY <1>1, <1>2 DEF AllocItem, HasItem
  <1>4. /\ brk' = brk /\ magic' = magic /\ size' = size /\ next' = next /\ slabs' = slabs
        /\ free_slabs' = free_slabs /\ bigs' = bigs /\ bigFrees' = bigFrees /\ panic' = panic
    BY <1>3 DEF lists, counts
  <1>5. t \in Page /\ u[t] = SlabOf(k)
    <2>1. Path(next, slabs[k], s[k])
      BY DEF Now, ListsRight
    <2>2. t = IF s[k] = <<>> THEN Nil ELSE s[k][Len(s[k])]
      BY <1>1, <2>1, LastIs
    <2>3. /\ s[k] # <<>> /\ Len(s[k]) \in Nat /\ (s[k] = <<>> <=> Len(s[k]) = 0)
          /\ \A j \in 1 .. Len(s[k]) : s[k][j] \in Page
      BY <1>3, <2>1, <2>2, SeqIs DEF Path
    <2>4. Len(s[k]) \in 1 .. Len(s[k])
      BY <2>3
    <2>5. t \in Page /\ Has(s[k], t)
      BY <2>2, <2>3, <2>4 DEF Has
    <2>6. QED BY <2>5 DEF Now, Uses
  <1>6. SlabRight(t, k)
    BY <1>5 DEF Now, SlabsRight
  <1>7. /\ Tail(items[t]) \in Seq(1 .. Items[k]) /\ Distinct(Tail(items[t]))
        /\ i \in 1 .. Items[k] /\ Has(items[t], i)
        /\ \A x : Has(Tail(items[t]), x) <=> Has(items[t], x) /\ x # i
    BY <1>2, <1>3, <1>6, TailIs DEF SlabRight
  <1>8. ~InUse(t, i)
    BY <1>6, <1>7 DEF SlabRight
  <1>9. i \in Nat /\ items \in [Page -> Seq(Nat)] /\ Seq(1 .. Items[k]) \subseteq Seq(Nat)
    <2>1. Seq(1 .. Items[k]) \subseteq Seq(Nat) /\ i \in Nat
      BY <1>7, ItemNumbers
    <2>2. QED BY <2>1 DEF TypeOK
  <1>10. PICK b \in Block : b = [page |-> t, kind |-> k, item |-> i]
    BY <1>5, <1>9 DEF Block
  <1>11. b.page = t /\ b.kind = k /\ b.item = i
    BY <1>10
  <1>12. /\ block' \in [Handle -> Block \union {NoBlock}]
         /\ h \notin Held /\ h \in Held' /\ ~Whole(h) /\ block'[h] = b
         /\ ~Whole(h)'
         /\ \A g \in Handle : g # h => /\ block'[g] = block[g]
                                       /\ g \in Held' <=> g \in Held
                                       /\ Whole(g)' <=> Whole(g)
    BY <1>3, <1>10, <1>11, Takes
  <1>13. items'[t] = Tail(items[t]) /\ \A p \in Page : p # t => items'[p] = items[p]
    BY <1>3, <1>5, <1>9
  <1>14. TypeOK'
    <2>1. items' \in [Page -> Seq(Nat)]
      BY <1>3, <1>7, <1>9
    <2>2. QED BY <1>4, <1>12, <2>1 DEF TypeOK
  <1>15. ListsRight(s, f)' /\ BigList(u)'
    BY <1>4 DEF Now, ListsRight, BigList
  <1>16. Uses(s, f, u)'
    <2>1. ASSUME NEW p \in Page, NEW g \in Handle
          PROVE  Whole(g)' /\ p \in PagesOf(block'[g]) <=> Whole(g) /\ p \in PagesOf(block[g])
      BY <1>12
    <2>2. Uses(s, f, u)
      BY DEF Now
    <2>3. QED BY <1>4, <2>1, <2>2 DEF Uses
  <1>17. Headers(u)'
    <2>1. ASSUME NEW g \in Held'
          PROVE  /\ magic'[block'[g].page] /\ size'[block'[g].page] = block'[g].kind
                 /\ Whole(g)' => block'[g].page + block'[g].kind - 1 \in Page
                 /\ ~Whole(g)' => /\ u[block'[g].page] = SlabOf(block'[g].kind)
                                  /\ block'[g].item \in 1 .. Items[block'[g].kind]
      <3>1. CASE g = h
        BY <1>4, <1>5, <1>6, <1>7, <1>11, <1>12, <3>1 DEF SlabRight
      <3>2. CASE g # h
        <4>1. g \in Handle
          BY DEF Held
        <4>2. g \in Held /\ block'[g] = block[g] /\ (Whole(g)' <=> Whole(g))
          BY <1>12, <3>2, <4>1
        <4>3. QED BY <1>4, <4>2 DEF Now, Headers
      <3>3. QED BY <3>1, <3>2
    <2>2. QED BY <2>1 DEF Headers
  <1>18. SlabsRight(u)'
    <2>1. ASSUME NEW p \in Page, NEW c \in Class, u[p] = SlabOf(c)
          PROVE  SlabRight(p, c)'
      <3>1. SlabRight(p, c)
        BY <2>1 DEF Now, SlabsRight
      <3>2. CASE p = t
        <4>1. c = k
          BY <1>5, <2>1, <3>2, UsesDiffer
        <4>2. ASSUME NEW x \in 1 .. Items[k]
              PROVE  InUse(t, x)' <=> InUse(t, x) \/ x = i
          <5>1. InUse(t, x)' => InUse(t, x) \/ x = i
            BY <1>11, <1>12 DEF InUse, Held
          <5>2. InUse(t, x) => InUse(t, x)'
            BY <1>12 DEF InUse, Held
          <5>3. InUse(t, i)'
            BY <1>11, <1>12 DEF InUse
          <5>4. QED BY <5>1, <5>2, <5>3
        <4>3. \A x \in 1 .. Items[k] : Has(items'[t], x) <=> ~InUse(t, x)'
          BY <1>6, <1>7, <1>13, <4>2 DEF SlabRight
        <4>4. QED BY <1>4, <1>7, <1>13, <3>1, <3>2, <4>1, <4>3 DEF SlabRight
      <3>3. CASE p # t
        <4>1. \A x : InUse(p, x)' <=> InUse(p, x)
          BY <1>11, <1>12, <3>3 DEF InUse, Held
        <4>2. QED BY <1>4, <1>13, <3>1, <3>3, <4>1 DEF SlabRight
      <3>4. QED BY <3>2, <3>3
    <2>2. QED BY <2>1 DEF SlabsRight
  <1>19. Apart'
    <2>1. ASSUME NEW g \in Held', NEW d \in Held', g # d, ~Whole(g)', ~Whole(d)',
                 block'[g].page = block'[d].page
          PROVE  block'[g].item # block'[d].item
      <3>1. g \in Handle /\ d \in Handle
        BY DEF Held
      <3>2. CASE g = h
        <4>1. d # h /\ d \in Held /\ block'[d] = block[d]
          BY <1>12, <2>1, <3>1, <3>2
        <4>2. QED BY <1>8, <1>11, <1>12, <2>1, <3>2, <4>1 DEF InUse
      <3>3. CASE d = h
        <4>1. g # h /\ g \in Held /\ block'[g] = block[g]
          BY <1>12, <2>1, <3>1, <3>3
        <4>2. QED BY <1>8, <1>11, <1>12, <2>1, <3>3, <4>1 DEF InUse
      <3>4. CASE g # h /\ d # h
        <4>1. /\ g \in Held /\ block'[g] = block[g] /\ ~Whole(g)
              /\ d \in Held /\ block'[d] = block[d] /\ ~Whole(d)
          BY <1>12, <2>1, <3>1, <3>4
        <4>2. QED BY <2>1, <4>1 DEF Now, Apart
      <3>5. QED BY <3>2, <3>3, <3>4
    <2>2. QED BY <2>1 DEF Apart
  <1>20. Now(s, f, u)'
    BY <1>15, <1>16, <1>17, <1>18, <1>19 DEF Now
  <1>21. QED BY <1>4, <1>14, <1>20 DEF Inv

LEMMA FreeItemKeeps ==
  ASSUME TypeOK, panic # "corruption", NEW s, NEW f, NEW u, Now(s, f, u),
         NEW h \in Handle, block[h] # NoBlock, FreeItem(h),
         block' = [block EXCEPT ![h] = NoBlock], which' = which
  PROVE  Inv'
  <1>1. h \in Held
    BY DEF Held
  <1>2. PICK p : p = block[h].page
    OBVIOUS
  <1>3. PICK k : k = block[h].kind
    OBVIOUS
  <1>4. PICK i : i = block[h].item
    OBVIOUS
  <1>5. /\ magic[p] /\ size[p] = k
        /\ ~Whole(h) => u[p] = SlabOf(k) /\ i \in 1 .. Items[k]
    BY <1>1, <1>2, <1>3, <1>4 DEF Now, Headers
  <1>6. Trusted(p) /\ size[p] \notin 1 .. MaxBlock
    BY <1>2, <1>5 DEF Trusted, FreeItem
  <1>7. ~Whole(h) /\ k \in Class /\ p \in Page
    BY <1>1, <1>2, <1>3, <1>5, <1>6, BlockIs
  <1>8. /\ items' = [items EXCEPT ![p] = <<i>> \o items[p]] /\ panic' = panic
        /\ UNCHANGED <<brk, magic, size, next, lists, counts>>
    BY <1>2, <1>4, <1>6 DEF FreeItem
  <1>9. /\ brk' = brk /\ magic' = magic /\ size' = size /\ next' = next /\ slabs' = slabs
        /\ free_slabs' = free_slabs /\ bigs' = bigs /\ bigFrees' = bigFrees /\ panic' = panic
    BY <1>8 DEF lists, counts
  <1>10. u[p] = SlabOf(k) /\ i \in 1 .. Items[k] /\ SlabRight(p, k)
    BY <1>5, <1>7 DEF Now, SlabsRight
  <1>11. InUse(p, i)
    BY <1>1, <1>2, <1>4 DEF InUse
  <1>12. /\ <<i>> \o items[p] \in Seq(1 .. Items[k]) /\ Distinct(<<i>> \o items[p])
         /\ \A x : Has(<<i>> \o items[p], x) <=> Has(items[p], x) \/ x = i
    <2>1. items[p] \in Seq(1 .. Items[k]) /\ Distinct(items[p]) /\ ~Has(items[p], i) /\ i \in 1 .. Items[k]
      BY <1>10, <1>11 DEF SlabRight
    <2> DEFINE T == 1 .. Items[k]
               r == items[p]
    <2>2. r \in Seq(T) /\ Distinct(r) /\ ~Has(r, i) /\ i \in T
      BY <2>1
    <2> HIDE DEF T, r
    <2>3. /\ <<i>> \o r \in Seq(T) /\ Distinct(<<i>> \o r)
          /\ \A x : Has(<<i>> \o r, x) <=> Has(r, x) \/ x = i
      BY <2>2, ConsIs
    <2>4. QED BY <2>3 DEF T, r
  <1>13. items \in [Page -> Seq(Nat)]
    BY DEF TypeOK
  <1>14. items'[p] = <<i>> \o items[p] /\ \A q \in Page : q # p => items'[q] = items[q]
    BY <1>7, <1>8, <1>13
  <1>15. /\ block' \in [Handle -> Block \union {NoBlock}]
         /\ h \notin Held' /\ ~Whole(h)'
         /\ \A g \in Handle : g # h => /\ block'[g] = block[g]
                                       /\ g \in Held' <=> g \in Held
                                       /\ Whole(g)' <=> Whole(g)
    BY Gives
  <1>16. TypeOK'
    <2>1. items' \in [Page -> Seq(Nat)]
      BY <1>7, <1>8, <1>12, <1>13, ItemNumbers
    <2>2. QED BY <1>9, <1>15, <2>1 DEF TypeOK
  <1>17. ListsRight(s, f)' /\ BigList(u)'
    BY <1>9 DEF Now, ListsRight, BigList
  <1>18. \A g \in Held' : g \in Handle /\ g # h /\ g \in Held /\ block'[g] = block[g] /\ (Whole(g)' <=> Whole(g))
    BY <1>15 DEF Held
  <1>19. Uses(s, f, u)'
    <2>1. ASSUME NEW q \in Page, NEW g \in Handle
          PROVE  Whole(g)' /\ q \in PagesOf(block'[g]) <=> Whole(g) /\ q \in PagesOf(block[g])
      BY <1>7, <1>15
    <2>2. Uses(s, f, u)
      BY DEF Now
    <2>3. QED BY <1>9, <2>1, <2>2 DEF Uses
  <1>20. Headers(u)'
    BY <1>9, <1>18 DEF Now, Headers
  <1>21. SlabsRight(u)'
    <2>1. ASSUME NEW q \in Page, NEW c \in Class, u[q] = SlabOf(c)
          PROVE  SlabRight(q, c)'
      <3>1. SlabRight(q, c)
        BY <2>1 DEF Now, SlabsRight
      <3>2. CASE q = p
        <4>1. c = k
          BY <1>10, <2>1, <3>2, UsesDiffer
        <4>2. ASSUME NEW x \in 1 .. Items[k]
              PROVE  InUse(p, x)' <=> InUse(p, x) /\ x # i
          <5>1. ASSUME InUse(p, x)' PROVE InUse(p, x) /\ x # i
            <6>1. PICK g \in Held' : block'[g].page = p /\ block'[g].item = x
              BY <5>1 DEF InUse
            <6>2. g \in Held /\ g # h /\ block[g].page = p /\ block[g].item = x
              BY <1>18, <6>1
            <6>3. ~Whole(g)
              <7>1. Whole(g) => u[p] = PartOf(g)
                BY <1>7, <6>2, BlockIs DEF Now, Uses
              <7>2. QED BY <1>10, <7>1, UsesDiffer
            <6>4. x # i
              BY <1>1, <1>2, <1>4, <1>7, <6>2, <6>3 DEF Now, Apart
            <6>5. QED BY <6>2, <6>4 DEF InUse
          <5>2. ASSUME InUse(p, x), x # i PROVE InUse(p, x)'
            <6>1. PICK g \in Held : block[g].page = p /\ block[g].item = x
              BY <5>2 DEF InUse
            <6>2. g \in Handle /\ g # h
              BY <1>4, <5>2, <6>1 DEF Held
            <6>3. g \in Held' /\ block'[g] = block[g]
              BY <1>15, <6>1, <6>2
            <6>4. QED BY <6>1, <6>3 DEF InUse
          <5>3. QED BY <5>1, <5>2
        <4>3. \A x \in 1 .. Items[k] : Has(items'[p], x) <=> ~InUse(p, x)'
          BY <1>10, <1>12, <1>14, <4>2 DEF SlabRight
        <4>4. QED BY <1>9, <1>12, <1>14, <3>1, <3>2, <4>1, <4>3 DEF SlabRight
      <3>3. CASE q # p
        <4>1. \A x : InUse(q, x)' <=> InUse(q, x)
          <5>1. ASSUME NEW x, InUse(q, x)' PROVE InUse(q, x)
            BY <1>18, <5>1 DEF InUse
          <5>2. ASSUME NEW x, InUse(q, x) PROVE InUse(q, x)'
            <6>1. PICK g \in Held : block[g].page = q /\ block[g].item = x
              BY <5>2 DEF InUse
            <6>2. g \in Handle /\ g # h
              BY <1>2, <3>3, <6>1 DEF Held
            <6>3. g \in Held' /\ block'[g] = block[g]
              BY <1>15, <6>1, <6>2
            <6>4. QED BY <6>1, <6>3 DEF InUse
          <5>3. QED BY <5>1, <5>2
        <4>2. QED BY <1>9, <1>14, <3>1, <3>3, <4>1 DEF SlabRight
      <3>4. QED BY <3>2, <3>3
    <2>2. QED BY <2>1 DEF SlabsRight
  <1>22. Apart'
    BY <1>18 DEF Now, Apart
  <1>23. Now(s, f, u)'
    BY <1>17, <1>19, <1>20, <1>21, <1>22 DEF Now
  <1>24. QED BY <1>9, <1>16, <1>23 DEF Inv

LEMMA PageUse ==
  ASSUME TypeOK, NEW s, NEW f, NEW u, Now(s, f, u), NEW g \in Held
  PROVE  /\ block[g].page \in Page /\ u[block[g].page] # New /\ u[block[g].page] # Freed
         /\ Whole(g) => \A p \in PagesOf(block[g]) : p \in Page => u[p] = PartOf(g)
         /\ ~Whole(g) => u[block[g].page] = SlabOf(block[g].kind) /\ block[g].kind \in Class
  <1>1. g \in Handle /\ block[g].page \in Page /\ (Whole(g) => block[g].page \in PagesOf(block[g]))
        /\ (~Whole(g) => block[g].kind \in Class)
    BY BlockIs
  <1>2. Whole(g) => \A p \in PagesOf(block[g]) : p \in Page => u[p] = PartOf(g)
    BY <1>1 DEF Now, Uses
  <1>3. ~Whole(g) => u[block[g].page] = SlabOf(block[g].kind)
    BY DEF Now, Headers
  <1>4. QED BY <1>1, <1>2, <1>3, UsesDiffer

\* The items of a new slab but the first.
LEMMA FreshItems ==
  ASSUME NEW k \in Class, NEW r, r = [i \in 1 .. Items[k] - 1 |-> i + 1]
  PROVE  /\ r \in Seq(1 .. Items[k]) /\ Distinct(r)
         /\ \A x \in 1 .. Items[k] : Has(r, x) <=> x # 1
  <1>1. PICK n \in Nat : n = Items[k] - 1 /\ Items[k] = n + 1
    BY ItemNumbers
  <1>2. r = [i \in 1 .. n |-> i + 1]
    BY <1>1
  <1>3. r \in Seq(1 .. n + 1) /\ Len(r) = n /\ \A i \in 1 .. n : r[i] = i + 1
    <2>1. \A i \in 1 .. n : r[i] = i + 1
      BY <1>2
    <2> DEFINE T == 1 .. n + 1
    <2>2. \A i \in 1 .. n : i + 1 \in T
      OBVIOUS
    <2> HIDE DEF T
    <2>3. r \in [1 .. n -> T]
      BY <1>2, <2>2
    <2>4. r \in Seq(T) /\ Len(r) = n
      BY <2>3, SeqFrom
    <2>5. QED BY <2>1, <2>4 DEF T
  <1>4. Distinct(r)
    <2>1. ASSUME NEW i \in 1 .. n, NEW j \in 1 .. n, r[i] = r[j] PROVE i = j
      <3>1. i + 1 = j + 1
        BY <1>3, <2>1
      <3>2. QED BY <3>1
    <2>2. QED BY <1>3, <2>1 DEF Distinct
  <1>5. ASSUME NEW x \in 1 .. n + 1 PROVE Has(r, x) <=> x # 1
    <2>1. \A i \in 1 .. n : i + 1 # 1
      OBVIOUS
    <2>2. x # 1 => x - 1 \in 1 .. n /\ (x - 1) + 1 = x
      OBVIOUS
    <2>3. x # 1 => x - 1 \in 1 .. n /\ r[x - 1] = x
      BY <1>3, <2>2
    <2>4. QED BY <1>3, <2>1, <2>3 DEF Has
  <1>6. QED BY <1>1, <1>3, <1>4, <1>5

LEMMA AllocSlabKeeps ==
  ASSUME TypeOK, panic # "corruption", NEW s, NEW f, NEW u, Now(s, f, u),
         NEW h \in Handle, NEW k \in Class, block[h] = NoBlock, AllocSlab(h, k), which' = which
  PROVE  Inv'
  <1>1. PICK p \in Page : p = IF free_slabs # Nil THEN free_slabs ELSE brk + 1
    BY DEF AllocSlab
  <1>2. PICK r : r = [i \in 1 .. Items[k] - 1 |-> i + 1]
    OBVIOUS
  <1>3. PICK link : link = [next EXCEPT ![p] = Nil]
    OBVIOUS
  <1>4. /\ brk' = IF free_slabs # Nil THEN brk ELSE p
        /\ free_slabs' = IF free_slabs # Nil THEN next[p] ELSE Nil
        /\ magic' = [magic EXCEPT ![p] = TRUE] /\ size' = [size EXCEPT ![p] = k]
        /\ items' = [items EXCEPT ![p] = r]
        /\ next' = Appended(link, k, p)
        /\ slabs' = [slabs EXCEPT ![k] = IF slabs[k] = Nil THEN p ELSE slabs[k]]
        /\ block' = [block EXCEPT ![h] = [page |-> p, kind |-> k, item |-> 1]]
        /\ bigs' = bigs /\ bigFrees' = bigFrees /\ panic' = panic
    BY <1>1, <1>2, <1>3 DEF AllocSlab, counts
  <1>5. /\ next \in [Page -> Page \union {Nil}] /\ brk \in Nat
        /\ magic \in [Page -> BOOLEAN] /\ size \in [Page -> Class \union (0 .. MaxBlock)]
        /\ items \in [Page -> Seq(Nat)] /\ slabs \in [Class \union {Big} -> Page \union {Nil}]
        /\ brk \in 0 .. NPages /\ free_slabs \in Page \union {Nil}
    BY Numbers DEF TypeOK
  <1>6. Big \notin Class
    <2>1. 0 \in 0 .. MaxBlock
      BY Numbers
    <2>2. QED BY <2>1, KHeapAssumption DEF Big
  <1>7. Path(next, slabs[k], s[k]) /\ Path(next, free_slabs, f)
    BY DEF Now, ListsRight
  <1>8. PICK f2 : /\ Path(next, free_slabs', f2)
                  /\ \A x : Has(f2, x) <=> Has(f, x) /\ x # p
    <2>1. CASE free_slabs # Nil
      <3>1. f # <<>>
        BY <1>7, <2>1 DEF Path
      <3>2. Path(next, next[p], Tail(f)) /\ \A x : Has(Tail(f), x) <=> Has(f, x) /\ x # p
        BY <1>1, <1>7, <2>1, <3>1, PathTail
      <3>3. QED BY <1>4, <2>1, <3>2
    <2>2. CASE free_slabs = Nil
      <3>1. ~Has(f, p)
        <4>1. p > brk
          BY <1>1, <1>5, <2>2
        <4>2. QED BY <4>1, UsesDiffer DEF Now, Uses
      <3>2. Path(next, free_slabs', f)
        BY <1>4, <1>7, <2>2
      <3>3. QED BY <3>1, <3>2
    <2>3. QED BY <2>1, <2>2
  <1>9. /\ u[p] = Freed \/ u[p] = New
        /\ p <= brk' /\ \A q \in Page : q # p => (q > brk' <=> q > brk)
        /\ brk' \in 0 .. NPages
    <2>1. CASE free_slabs # Nil
      <3>1. f # <<>>
        BY <1>7, <2>1 DEF Path
      <3>2. Has(f, p)
        BY <1>1, <1>7, <2>1, <3>1, PathTail
      <3>3. u[p] = Freed
        BY <3>2 DEF Now, Uses
      <3>4. ~(p > brk)
        BY <3>3, UsesDiffer DEF Now, Uses
      <3>5. p \in Nat /\ brk' = brk
        BY <1>4, <2>1, Numbers
      <3>6. QED BY <1>5, <3>3, <3>4, <3>5
    <2>2. CASE free_slabs = Nil
      <3>1. p = brk + 1 /\ brk' = brk + 1 /\ brk + 1 \in 1 .. NPages
        BY <1>1, <1>4, <2>2, Numbers
      <3>2. u[p] = New
        <4>1. p > brk
          BY <1>5, <3>1
        <4>2. QED BY <4>1 DEF Now, Uses
      <3>3. QED BY <1>5, <3>1, <3>2, Numbers
    <2>3. QED BY <2>1, <2>2
  <1>10. ~Has(s[k], p)
    BY <1>9, UsesDiffer DEF Now, Uses
  <1>11. /\ link \in [Page -> Page \union {Nil}] /\ link[p] = Nil
         /\ \A q \in Page : q # p => link[q] = next[q]
    BY <1>3, <1>5
  <1>12. Path(link, slabs[k], s[k])
    BY <1>7, <1>10, <1>11, PathKept
  <1>13. /\ Appended(link, k, p) \in [Page -> Page \union {Nil}]
         /\ \E t : /\ Path(Appended(link, k, p), IF slabs[k] = Nil THEN p ELSE slabs[k], t)
                   /\ \A x : Has(t, x) <=> Has(s[k], x) \/ x = p
         /\ \A q \in Page : ~Has(s[k], q) => Appended(link, k, p)[q] = link[q]
    <2> DEFINE l == s[k]
    <2>1. Path(link, slabs[k], l) /\ ~Has(l, p)
      BY <1>10, <1>12
    <2> HIDE DEF l
    <2>2. /\ Appended(link, k, p) \in [Page -> Page \union {Nil}]
          /\ \E t : /\ Path(Appended(link, k, p), IF slabs[k] = Nil THEN p ELSE slabs[k], t)
                    /\ \A x : Has(t, x) <=> Has(l, x) \/ x = p
          /\ \A q \in Page : ~Has(l, q) => Appended(link, k, p)[q] = link[q]
      BY <1>11, <2>1, AppendedIs
    <2>3. QED BY <2>2 DEF l
  <1>14. PICK t : /\ Path(next', IF slabs[k] = Nil THEN p ELSE slabs[k], t)
                  /\ \A x : Has(t, x) <=> Has(s[k], x) \/ x = p
    BY <1>4, <1>13
  <1>15. /\ next' \in [Page -> Page \union {Nil}]
         /\ \A q \in Page : ~Has(s[k], q) /\ q # p => next'[q] = next[q]
    BY <1>4, <1>11, <1>13
  <1>16. /\ slabs' \in [Class \union {Big} -> Page \union {Nil}]
         /\ slabs'[k] = (IF slabs[k] = Nil THEN p ELSE slabs[k])
         /\ \A c \in Class \union {Big} : c # k => slabs'[c] = slabs[c]
    BY <1>4, <1>5
  <1>17. /\ magic' \in [Page -> BOOLEAN] /\ size' \in [Page -> Class \union (0 .. MaxBlock)]
         /\ magic'[p] /\ size'[p] = k /\ items'[p] = r
         /\ \A q \in Page : q # p => magic'[q] = magic[q] /\ size'[q] = size[q] /\ items'[q] = items[q]
    BY <1>4, <1>5
  <1>18. /\ r \in Seq(1 .. Items[k]) /\ Distinct(r)
         /\ \A x \in 1 .. Items[k] : Has(r, x) <=> x # 1
    BY <1>2, FreshItems
  <1>19. PICK b \in Block : b = [page |-> p, kind |-> k, item |-> 1]
    BY DEF Block
  <1>20. b.page = p /\ b.kind = k /\ b.item = 1
    BY <1>19
  <1>21. /\ block' \in [Handle -> Block \union {NoBlock}]
         /\ h \notin Held /\ h \in Held' /\ ~Whole(h) /\ block'[h] = b
         /\ ~Whole(h)'
         /\ \A g \in Handle : g # h => /\ block'[g] = block[g]
                                       /\ g \in Held' <=> g \in Held
                                       /\ Whole(g)' <=> Whole(g)
    BY <1>4, <1>19, <1>20, Takes
  <1>22. \A g \in Held' : g = h \/ (g \in Handle /\ g \in Held /\ block'[g] = block[g] /\ (Whole(g)' <=> Whole(g)))
    BY <1>21 DEF Held
  <1>23. \A g \in Held : block[g].page \in Page /\ block[g].page # p
    BY <1>9, PageUse
  <1>24. TypeOK'
    <2>1. items' \in [Page -> Seq(Nat)]
      BY <1>4, <1>5, <1>18, ItemNumbers
    <2>2. free_slabs' \in Page \union {Nil}
      BY <1>4, <1>5
    <2>3. QED BY <1>4, <1>9, <1>15, <1>16, <1>17, <1>21, <2>1, <2>2 DEF TypeOK
  <1> DEFINE s2 == [c \in Class |-> IF c = k THEN t ELSE s[c]]
             u2 == [q \in Page |-> IF q = p THEN SlabOf(k) ELSE u[q]]
  <1>25. s2[k] = t /\ \A c \in Class : c # k => s2[c] = s[c]
    OBVIOUS
  <1>26. u2[p] = SlabOf(k) /\ \A q \in Page : q # p => u2[q] = u[q]
    OBVIOUS
  <1> HIDE DEF s2, u2
  <1>27. ListsRight(s2, f2)'
    <2>1. ASSUME NEW c \in Class PROVE Path(next', slabs'[c], s2[c])
      <3>1. CASE c = k
        BY <1>14, <1>16, <1>25, <3>1
      <3>2. CASE c # k
        <4>1. Path(next, slabs[c], s[c])
          BY DEF Now, ListsRight
        <4>2. ASSUME NEW q \in Page, Has(s[c], q) PROVE next'[q] = next[q]
          <5>1. u[q] = SlabOf(c)
            BY <4>2 DEF Now, Uses
          <5>2. ~Has(s[k], q) /\ q # p
            BY <1>9, <3>2, <5>1, UsesDiffer DEF Now, Uses
          <5>3. QED BY <1>15, <5>2
        <4>3. Path(next', slabs[c], s[c])
          BY <4>1, <4>2, PathKept
        <4>4. QED BY <1>16, <1>25, <3>2, <4>3
      <3>3. QED BY <3>1, <3>2
    <2>2. Path(next', free_slabs', f2)
      <3>1. ASSUME NEW q \in Page, Has(f2, q) PROVE next'[q] = next[q]
        <4>1. Has(f, q) /\ q # p
          BY <1>8, <3>1
        <4>2. ~Has(s[k], q)
          BY <4>1, UsesDiffer DEF Now, Uses
        <4>3. QED BY <1>15, <4>1, <4>2
      <3>2. QED BY <1>8, <3>1, PathKept
    <2>3. QED BY <2>1, <2>2 DEF ListsRight
  <1>28. BigList(u2)'
    <2>1. SUFFICES ASSUME bigFrees = 0
                   PROVE  /\ free_slabs' = Nil
                          /\ \E g : /\ Path(next', slabs'[Big], g)
                                    /\ \A q \in Page : Has(g, q) => \E d \in Handle : u2[q] = PartOf(d)
      BY <1>4 DEF BigList
    <2>2. PICK g : /\ Path(next, slabs[Big], g)
                   /\ \A q \in Page : Has(g, q) => \E d \in Handle : u[q] = PartOf(d)
      BY <2>1 DEF Now, BigList
    <2>3. free_slabs' = Nil
      BY <1>4, <2>1 DEF Now, BigList
    <2>4. ASSUME NEW q \in Page, Has(g, q)
          PROVE  q # p /\ next'[q] = next[q]
      <3>1. PICK d \in Handle : u[q] = PartOf(d)
        BY <2>2, <2>4
      <3>2. q # p /\ ~Has(s[k], q)
        BY <1>9, <3>1, UsesDiffer DEF Now, Uses
      <3>3. QED BY <1>15, <3>2
    <2>5. Path(next', slabs'[Big], g)
      <3>1. Path(next', slabs[Big], g)
        BY <2>2, <2>4, PathKept
      <3>2. QED BY <1>6, <1>16, <3>1
    <2>6. QED BY <1>26, <2>2, <2>3, <2>4, <2>5
  <1>29. Uses(s2, f2, u2)'
    <2>1. ASSUME NEW q \in Page, NEW g \in Handle
          PROVE  Whole(g)' /\ q \in PagesOf(block'[g]) <=> Whole(g) /\ q \in PagesOf(block[g])
      BY <1>21
    <2>2. ASSUME NEW q \in Page
          PROVE  /\ u2[q] = New <=> q > brk'
                 /\ u2[q] = Freed <=> Has(f2, q)
                 /\ \A c \in Class : u2[q] = SlabOf(c) <=> Has(s2[c], q)
                 /\ \A g \in Handle : u2[q] = PartOf(g) <=> Whole(g) /\ q \in PagesOf(block[g])
                 /\ \/ u2[q] = New \/ u2[q] = Freed
                    \/ \E c \in Class : u2[q] = SlabOf(c)
                    \/ \E g \in Handle : u2[q] = PartOf(g)
      <3>1. /\ u[q] = New <=> q > brk
            /\ u[q] = Freed <=> Has(f, q)
            /\ \A c \in Class : u[q] = SlabOf(c) <=> Has(s[c], q)
            /\ \A g \in Handle : u[q] = PartOf(g) <=> Whole(g) /\ q \in PagesOf(block[g])
            /\ \/ u[q] = New \/ u[q] = Freed
               \/ \E c \in Class : u[q] = SlabOf(c)
               \/ \E g \in Handle : u[q] = PartOf(g)
        BY DEF Now, Uses
      <3>2. CASE q = p
        <4>1. ~(p > brk')
          BY <1>9, Numbers, <1>5
        <4>2. \A c \in Class : SlabOf(k) = SlabOf(c) <=> Has(s2[c], p)
          BY <1>9, <1>14, <1>25, <3>1, <3>2, UsesDiffer
        <4>3. ~Has(f2, p)
          BY <1>8
        <4>4. \A g \in Handle : ~(Whole(g) /\ p \in PagesOf(block[g]))
          BY <1>9, <3>1, <3>2, UsesDiffer
        <4>5. QED BY <1>26, <3>2, <4>1, <4>2, <4>3, <4>4, UsesDiffer
      <3>3. CASE q # p
        <4>1. u2[q] = u[q] /\ (q > brk' <=> q > brk) /\ (Has(f2, q) <=> Has(f, q))
          BY <1>8, <1>9, <1>26, <3>3
        <4>2. \A c \in Class : Has(s2[c], q) <=> Has(s[c], q)
          BY <1>14, <1>25, <3>3
        <4>3. QED BY <3>1, <4>1, <4>2
      <3>4. QED BY <3>2, <3>3
    <2>3. QED BY <2>1, <2>2 DEF Uses
  <1>30. Headers(u2)'
    <2>1. ASSUME NEW g \in Held'
          PROVE  /\ magic'[block'[g].page] /\ size'[block'[g].page] = block'[g].kind
                 /\ Whole(g)' => block'[g].page + block'[g].kind - 1 \in Page
                 /\ ~Whole(g)' => /\ u2[block'[g].page] = SlabOf(block'[g].kind)
                                  /\ block'[g].item \in 1 .. Items[block'[g].kind]
      <3>1. CASE g = h
        <4>1. 1 \in 1 .. Items[k]
          BY ItemNumbers
        <4>2. QED BY <1>17, <1>20, <1>21, <1>26, <3>1, <4>1
      <3>2. CASE g # h
        <4>1. g \in Held /\ block'[g] = block[g] /\ (Whole(g)' <=> Whole(g))
          BY <1>22, <3>2
        <4>2. block[g].page \in Page /\ block[g].page # p
          BY <1>23, <4>1
        <4>3. QED BY <1>17, <1>26, <4>1, <4>2 DEF Now, Headers
      <3>3. QED BY <3>1, <3>2
    <2>2. QED BY <2>1 DEF Headers
  <1>31. SlabsRight(u2)'
    <2>1. ASSUME NEW q \in Page, NEW c \in Class, u2[q] = SlabOf(c)
          PROVE  SlabRight(q, c)'
      <3>1. CASE q = p
        <4>1. c = k
          BY <1>26, <2>1, <3>1, UsesDiffer
        <4>2. \A x : InUse(p, x)' <=> x = 1
          <5>1. ASSUME NEW x, InUse(p, x)' PROVE x = 1
            BY <1>20, <1>21, <1>22, <1>23, <5>1 DEF InUse
          <5>2. InUse(p, 1)'
            BY <1>20, <1>21 DEF InUse
          <5>3. QED BY <5>1, <5>2
        <4>3. \A x \in 1 .. Items[k] : Has(items'[p], x) <=> ~InUse(p, x)'
          BY <1>17, <1>18, <4>2
        <4>4. QED BY <1>17, <1>18, <3>1, <4>1, <4>3 DEF SlabRight
      <3>2. CASE q # p
        <4>1. SlabRight(q, c)
          BY <1>26, <2>1, <3>2 DEF Now, SlabsRight
        <4>2. ASSUME NEW x PROVE InUse(q, x)' <=> InUse(q, x)
          <5>1. InUse(q, x)' => InUse(q, x)
            BY <1>20, <1>21, <1>22, <3>2 DEF InUse
          <5>2. InUse(q, x) => InUse(q, x)'
            BY <1>21 DEF InUse, Held
          <5>3. QED BY <5>1, <5>2
        <4>3. QED BY <1>17, <3>2, <4>1, <4>2 DEF SlabRight
      <3>3. QED BY <3>1, <3>2
    <2>2. QED BY <2>1 DEF SlabsRight
  <1>32. Apart'
    <2>1. ASSUME NEW g \in Held', NEW d \in Held', g # d, ~Whole(g)', ~Whole(d)',
                 block'[g].page = block'[d].page
          PROVE  block'[g].item # block'[d].item
      <3>1. g # h /\ d # h
        BY <1>20, <1>21, <1>22, <1>23, <2>1
      <3>2. /\ g \in Held /\ block'[g] = block[g] /\ ~Whole(g)
            /\ d \in Held /\ block'[d] = block[d] /\ ~Whole(d)
        BY <1>22, <2>1, <3>1
      <3>3. QED BY <2>1, <3>2 DEF Now, Apart
    <2>2. QED BY <2>1 DEF Apart
  <1>33. Now(s2, f2, u2)'
    BY <1>27, <1>28, <1>29, <1>30, <1>31, <1>32 DEF Now
  <1>34. QED BY <1>4, <1>24, <1>33 DEF Inv

\* As long as no big block has been freed, a big block is made of new pages.
LEMMA AllocBigIs ==
  ASSUME NEW h, NEW n, NEW f, Path(next, free_slabs, f), free_slabs = Nil, AllocBig(h, n), NEW p, p = brk + 1
  PROVE  /\ p + n - 1 \in Page /\ MayBeBig /\ brk' = brk + n /\ free_slabs' = free_slabs
         /\ magic' = [q \in Page |-> q \notin p + 1 .. p + n - 1 /\ (q = p \/ magic[q])]
         /\ size' = [q \in Page |-> IF q = p THEN n ELSE IF q \in p + 1 .. p + n - 1 THEN 0 ELSE size[q]]
         /\ items' = [q \in Page |-> IF q \in (p + 1 .. p + n - 1) \union {p} THEN <<>> ELSE items[q]]
         /\ next' = [q \in Page |-> IF q \in p + 1 .. p + n - 1 THEN Nil
                                    ELSE Appended([next EXCEPT ![p] = Nil], Big, p)[q]]
         /\ slabs' = [slabs EXCEPT ![Big] = IF slabs[Big] = Nil THEN p ELSE slabs[Big]]
         /\ block' = [block EXCEPT ![h] = [page |-> p, kind |-> n, item |-> 0]]
         /\ bigs' = bigs + 1 /\ bigFrees' = bigFrees /\ panic' = panic
  <1>1. f = <<>>
    <2>1. f # <<>> => Has(f, Nil) /\ Has(f, f[1]) /\ f[1] \in Page
      <3>1. f \in Seq(Page) /\ (f # <<>> => f[1] = Nil)
        BY DEF Path
      <3>2. f # <<>> => 1 \in 1 .. Len(f)
        BY <3>1
      <3>3. QED BY <3>1, <3>2, SeqIs DEF Has
    <2>2. f # <<>> => f[1] = Nil
      BY DEF Path
    <2>3. QED BY <2>1, <2>2, Numbers
  <1>2. Chain(next, free_slabs) = <<>>
    BY <1>1, ChainIs
  <1>3. Starts(<<>>, n) = {}
    BY DEF Starts
  <1> DEFINE same == [next |-> next, first |-> free_slabs]
  <1>4. same.next = next /\ same.first = free_slabs
    OBVIOUS
  <1>5. QED BY <1>2, <1>3, <1>4, Zenon DEF AllocBig

LEMMA AllocBigKeeps ==
  ASSUME ~Reuse, TypeOK, panic # "corruption", NEW s, NEW f, NEW u, Now(s, f, u),
         NEW h \in Handle, NEW n \in 1 .. MaxBlock, block[h] = NoBlock, AllocBig(h, n), which' = which
  PROVE  Inv'
  <1>1. MayBeBig
    BY DEF AllocBig
  <1>2. /\ bigFrees = 0 /\ bigs < MaxBig /\ free_slabs = Nil
        /\ \E g : /\ Path(next, slabs[Big], g)
                  /\ \A q \in Page : Has(g, q) => \E d \in Handle : u[q] = PartOf(d)
    BY <1>1 DEF MayBeBig, Now, BigList
  <1>3. PICK p : p = brk + 1
    OBVIOUS
  <1> DEFINE Inside == p + 1 .. p + n - 1
             link == [next EXCEPT ![p] = Nil]
  <1>4. /\ p + n - 1 \in Page /\ brk' = brk + n /\ free_slabs' = free_slabs
        /\ magic' = [q \in Page |-> q \notin Inside /\ (q = p \/ magic[q])]
        /\ size' = [q \in Page |-> IF q = p THEN n ELSE IF q \in Inside THEN 0 ELSE size[q]]
        /\ items' = [q \in Page |-> IF q \in Inside \union {p} THEN <<>> ELSE items[q]]
        /\ next' = [q \in Page |-> IF q \in Inside THEN Nil ELSE Appended(link, Big, p)[q]]
        /\ slabs' = [slabs EXCEPT ![Big] = IF slabs[Big] = Nil THEN p ELSE slabs[Big]]
        /\ block' = [block EXCEPT ![h] = [page |-> p, kind |-> n, item |-> 0]]
        /\ bigs' = bigs + 1 /\ bigFrees' = bigFrees /\ panic' = panic
    <2>1. Path(next, free_slabs, f)
      BY DEF Now, ListsRight
    <2>2. QED BY <1>2, <1>3, <2>1, AllocBigIs
  <1>5. /\ next \in [Page -> Page \union {Nil}] /\ brk \in Nat /\ n \in Nat \ {0}
        /\ magic \in [Page -> BOOLEAN] /\ size \in [Page -> Class \union (0 .. MaxBlock)]
        /\ items \in [Page -> Seq(Nat)] /\ slabs \in [Class \union {Big} -> Page \union {Nil}]
        /\ bigs \in 0 .. MaxBig /\ free_slabs \in Page \union {Nil}
        /\ MaxBig \in Nat /\ NPages \in Nat
    BY Numbers, KHeapAssumption DEF TypeOK
  <1>6. n \notin Class /\ Big \notin Class
    <2>1. 0 \in 0 .. MaxBlock /\ n \in 0 .. MaxBlock
      BY Numbers
    <2>2. QED BY <2>1, KHeapAssumption DEF Big
  <1> DEFINE All == p .. p + n - 1
  <1>7. /\ p \in Page /\ p \in All /\ p \notin Inside /\ All \subseteq Page /\ All = Inside \union {p}
        /\ brk + n \in 0 .. NPages
        /\ \A q \in All : q > brk /\ ~(q > brk + n)
        /\ \A q \in Page : q \notin All => (q > brk + n <=> q > brk)
    BY <1>3, <1>4, <1>5, Numbers
  <1> HIDE DEF Inside, All
  <1>8. \A q \in All : q \in Page /\ u[q] = New
    BY <1>7 DEF Now, Uses
  <1>9. /\ link \in [Page -> Page \union {Nil}] /\ link[p] = Nil
        /\ \A q \in Page : q # p => link[q] = next[q]
    BY <1>5, <1>7
  <1> HIDE DEF link
  <1>10. PICK g : /\ Path(next, slabs[Big], g)
                  /\ \A q \in Page : Has(g, q) => \E d \in Handle : u[q] = PartOf(d)
    BY <1>2
  <1>11. \A q \in All : ~Has(g, q)
    BY <1>8, <1>10, UsesDiffer
  <1>12. Path(link, slabs[Big], g)
    BY <1>7, <1>9, <1>10, <1>11, PathKept
  <1>13. /\ Appended(link, Big, p) \in [Page -> Page \union {Nil}]
         /\ \E t : /\ Path(Appended(link, Big, p), IF slabs[Big] = Nil THEN p ELSE slabs[Big], t)
                   /\ \A x : Has(t, x) <=> Has(g, x) \/ x = p
         /\ \A q \in Page : ~Has(g, q) => Appended(link, Big, p)[q] = link[q]
    BY <1>7, <1>9, <1>11, <1>12, AppendedIs
  <1>14. PICK t : /\ Path(Appended(link, Big, p), IF slabs[Big] = Nil THEN p ELSE slabs[Big], t)
                  /\ \A x : Has(t, x) <=> Has(g, x) \/ x = p
    BY <1>13
  <1>15. /\ next' \in [Page -> Page \union {Nil}]
         /\ \A q \in Page : q \notin Inside => next'[q] = Appended(link, Big, p)[q]
         /\ \A q \in Page : ~Has(g, q) /\ q \notin All => next'[q] = next[q]
    BY <1>4, <1>7, <1>9, <1>13
  <1>16. Path(next', IF slabs[Big] = Nil THEN p ELSE slabs[Big], t)
    <2>1. ASSUME NEW q \in Page, Has(t, q) PROVE q \notin Inside
      BY <1>7, <1>11, <1>14, <2>1
    <2>2. QED BY <1>14, <1>15, <2>1, PathKept
  <1>17. /\ slabs' \in [Class \union {Big} -> Page \union {Nil}]
         /\ slabs'[Big] = (IF slabs[Big] = Nil THEN p ELSE slabs[Big])
         /\ \A c \in Class : slabs'[c] = slabs[c]
    BY <1>4, <1>5, <1>6, <1>7
  <1>18. /\ magic' \in [Page -> BOOLEAN] /\ magic'[p]
         /\ \A q \in Page : q \notin All => magic'[q] = magic[q]
    BY <1>4, <1>5, <1>7
  <1>19. /\ size' \in [Page -> Class \union (0 .. MaxBlock)] /\ size'[p] = n
         /\ \A q \in Page : q \notin All => size'[q] = size[q]
    <2>1. 0 \in 0 .. MaxBlock /\ n \in 0 .. MaxBlock
      BY Numbers
    <2>2. QED BY <1>4, <1>5, <1>7, <2>1
  <1>20. /\ items' \in [Page -> Seq(Nat)]
         /\ \A q \in Page : q \notin All => items'[q] = items[q]
    <2>1. <<>> \in Seq(Nat)
      OBVIOUS
    <2>2. QED BY <1>4, <1>5, <1>7, <2>1
  <1>21. PICK b \in Block : b = [page |-> p, kind |-> n, item |-> 0]
    BY <1>7 DEF Block
  <1>22. b.page = p /\ b.kind = n /\ b.item = 0
    BY <1>21
  <1>23. /\ block' \in [Handle -> Block \union {NoBlock}]
         /\ h \notin Held /\ h \in Held' /\ ~Whole(h) /\ block'[h] = b
         /\ Whole(h)'
         /\ \A d \in Handle : d # h => /\ block'[d] = block[d]
                                       /\ d \in Held' <=> d \in Held
                                       /\ Whole(d)' <=> Whole(d)
    BY <1>4, <1>6, <1>21, <1>22, Takes
  <1>24. \A d \in Held' : d = h \/ (d \in Handle /\ d \in Held /\ block'[d] = block[d] /\ (Whole(d)' <=> Whole(d)))
    BY <1>23 DEF Held
  <1>25. \A d \in Held : block[d].page \in Page /\ block[d].page \notin All
    BY <1>8, PageUse
  <1>26. PagesOf(block'[h]) = All
    BY <1>6, <1>22, <1>23 DEF PagesOf, All
  <1>27. TypeOK'
    <2>1. bigs' \in 0 .. MaxBig
      BY <1>2, <1>4, <1>5
    <2>2. brk' \in 0 .. NPages /\ free_slabs' \in Page \union {Nil}
      BY <1>4, <1>5, <1>7
    <2>3. QED BY <1>4, <1>15, <1>17, <1>18, <1>19, <1>20, <1>23, <2>1, <2>2 DEF TypeOK
  <1> DEFINE u2 == [q \in Page |-> IF q \in All THEN PartOf(h) ELSE u[q]]
  <1>28. /\ \A q \in All : u2[q] = PartOf(h)
         /\ \A q \in Page : q \notin All => u2[q] = u[q]
    BY <1>7
  <1> HIDE DEF u2
  <1>29. ListsRight(s, f)'
    <2>1. ASSUME NEW c \in Class PROVE Path(next', slabs'[c], s[c])
      <3>1. Path(next, slabs[c], s[c])
        BY DEF Now, ListsRight
      <3>2. ASSUME NEW q \in Page, Has(s[c], q) PROVE next'[q] = next[q]
        <4>1. u[q] = SlabOf(c)
          BY <3>2 DEF Now, Uses
        <4>2. q \notin All /\ ~Has(g, q)
          BY <1>8, <1>10, <4>1, UsesDiffer
        <4>3. QED BY <1>15, <4>2
      <3>3. Path(next', slabs[c], s[c])
        BY <3>1, <3>2, PathKept
      <3>4. QED BY <1>17, <3>3
    <2>2. Path(next', free_slabs', f)
      <3>1. Path(next, free_slabs, f)
        BY DEF Now, ListsRight
      <3>2. ASSUME NEW q \in Page, Has(f, q) PROVE next'[q] = next[q]
        <4>1. u[q] = Freed
          BY <3>2 DEF Now, Uses
        <4>2. q \notin All /\ ~Has(g, q)
          BY <1>8, <1>10, <4>1, UsesDiffer
        <4>3. QED BY <1>15, <4>2
      <3>3. Path(next', free_slabs, f)
        BY <3>1, <3>2, PathKept
      <3>4. QED BY <1>4, <3>3
    <2>3. QED BY <2>1, <2>2 DEF ListsRight
  <1>30. BigList(u2)'
    <2>1. ASSUME NEW q \in Page, Has(t, q) PROVE \E d \in Handle : u2[q] = PartOf(d)
      <3>1. CASE q \in All
        BY <1>28, <3>1
      <3>2. CASE q \notin All
        <4>1. Has(g, q)
          BY <1>7, <1>14, <2>1, <3>2
        <4>2. QED BY <1>10, <1>28, <3>2, <4>1
      <3>3. QED BY <3>1, <3>2
    <2>2. free_slabs' = Nil /\ Path(next', slabs'[Big], t)
      BY <1>2, <1>4, <1>16, <1>17
    <2>3. QED BY <2>1, <2>2 DEF BigList
  <1>31. Uses(s, f, u2)'
    <2>1. ASSUME NEW q \in Page
          PROVE  /\ u2[q] = New <=> q > brk'
                 /\ u2[q] = Freed <=> Has(f, q)
                 /\ \A c \in Class : u2[q] = SlabOf(c) <=> Has(s[c], q)
                 /\ \A d \in Handle : u2[q] = PartOf(d) <=> Whole(d)' /\ q \in PagesOf(block'[d])
                 /\ \/ u2[q] = New \/ u2[q] = Freed
                    \/ \E c \in Class : u2[q] = SlabOf(c)
                    \/ \E d \in Handle : u2[q] = PartOf(d)
      <3>1. /\ u[q] = New <=> q > brk
            /\ u[q] = Freed <=> Has(f, q)
            /\ \A c \in Class : u[q] = SlabOf(c) <=> Has(s[c], q)
            /\ \A d \in Handle : u[q] = PartOf(d) <=> Whole(d) /\ q \in PagesOf(block[d])
            /\ \/ u[q] = New \/ u[q] = Freed
               \/ \E c \in Class : u[q] = SlabOf(c)
               \/ \E d \in Handle : u[q] = PartOf(d)
        BY DEF Now, Uses
      <3>2. CASE q \in All
        <4>1. u2[q] = PartOf(h) /\ u[q] = New /\ ~(q > brk')
          BY <1>4, <1>7, <1>8, <1>28, <3>2
        <4>2. \A c \in Class : ~Has(s[c], q)
          BY <3>1, <4>1, UsesDiffer
        <4>3. ~Has(f, q)
          BY <3>1, <4>1, UsesDiffer
        <4>4. ASSUME NEW d \in Handle PROVE PartOf(h) = PartOf(d) <=> Whole(d)' /\ q \in PagesOf(block'[d])
          <5>1. CASE d = h
            BY <1>23, <1>26, <3>2, <5>1
          <5>2. CASE d # h
            <6>1. ~(Whole(d) /\ q \in PagesOf(block[d]))
              BY <3>1, <4>1, UsesDiffer
            <6>2. QED BY <1>23, <5>2, <6>1, UsesDiffer
          <5>3. QED BY <5>1, <5>2
        <4>5. QED BY <4>1, <4>2, <4>3, <4>4, UsesDiffer
      <3>3. CASE q \notin All
        <4>1. u2[q] = u[q] /\ (q > brk' <=> q > brk)
          BY <1>4, <1>7, <1>28, <3>3
        <4>2. ASSUME NEW d \in Handle
              PROVE  Whole(d)' /\ q \in PagesOf(block'[d]) <=> Whole(d) /\ q \in PagesOf(block[d])
          BY <1>23, <1>26, <3>3
        <4>3. QED BY <3>1, <4>1, <4>2
      <3>4. QED BY <3>2, <3>3
    <2>2. QED BY <2>1 DEF Uses
  <1>32. Headers(u2)'
    <2>1. ASSUME NEW d \in Held'
          PROVE  /\ magic'[block'[d].page] /\ size'[block'[d].page] = block'[d].kind
                 /\ Whole(d)' => block'[d].page + block'[d].kind - 1 \in Page
                 /\ ~Whole(d)' => /\ u2[block'[d].page] = SlabOf(block'[d].kind)
                                  /\ block'[d].item \in 1 .. Items[block'[d].kind]
      <3>1. CASE d = h
        BY <1>4, <1>18, <1>19, <1>22, <1>23, <3>1
      <3>2. CASE d # h
        <4>1. d \in Held /\ block'[d] = block[d] /\ (Whole(d)' <=> Whole(d))
          BY <1>24, <3>2
        <4>2. block[d].page \in Page /\ block[d].page \notin All
          BY <1>25, <4>1
        <4>3. QED BY <1>18, <1>19, <1>28, <4>1, <4>2 DEF Now, Headers
      <3>3. QED BY <3>1, <3>2
    <2>2. QED BY <2>1 DEF Headers
  <1>33. SlabsRight(u2)'
    <2>1. ASSUME NEW q \in Page, NEW c \in Class, u2[q] = SlabOf(c)
          PROVE  SlabRight(q, c)'
      <3>1. q \notin All /\ q # p
        BY <1>7, <1>28, <2>1, UsesDiffer
      <3>2. SlabRight(q, c)
        BY <1>28, <2>1, <3>1 DEF Now, SlabsRight
      <3>3. ASSUME NEW x PROVE InUse(q, x)' <=> InUse(q, x)
        <4>1. InUse(q, x)' => InUse(q, x)
          BY <1>22, <1>23, <1>24, <3>1 DEF InUse
        <4>2. InUse(q, x) => InUse(q, x)'
          BY <1>23 DEF InUse, Held
        <4>3. QED BY <4>1, <4>2
      <3>4. QED BY <1>18, <1>19, <1>20, <3>1, <3>2, <3>3 DEF SlabRight
    <2>2. QED BY <2>1 DEF SlabsRight
  <1>34. Apart'
    <2>1. ASSUME NEW e \in Held', NEW d \in Held', e # d, ~Whole(e)', ~Whole(d)',
                 block'[e].page = block'[d].page
          PROVE  block'[e].item # block'[d].item
      <3>1. e # h /\ d # h
        BY <1>23, <2>1
      <3>2. /\ e \in Held /\ block'[e] = block[e] /\ ~Whole(e)
            /\ d \in Held /\ block'[d] = block[d] /\ ~Whole(d)
        BY <1>24, <2>1, <3>1
      <3>3. QED BY <2>1, <3>2 DEF Now, Apart
    <2>2. QED BY <2>1 DEF Apart
  <1>35. Now(s, f, u2)'
    BY <1>29, <1>30, <1>31, <1>32, <1>33, <1>34 DEF Now
  <1>36. QED BY <1>4, <1>27, <1>35 DEF Inv

LEMMA FreeBigKeeps ==
  ASSUME TypeOK, panic # "corruption", NEW s, NEW f, NEW u, Now(s, f, u),
         NEW h \in Handle, block[h] # NoBlock, FreeBig(h),
         block' = [block EXCEPT ![h] = NoBlock], which' = which
  PROVE  Inv'
  <1>1. h \in Held
    BY DEF Held
  <1>2. PICK p : p = block[h].page
    OBVIOUS
  <1>3. PICK n : n = block[h].kind
    OBVIOUS
  <1>4. p \in Page /\ size[p] = n
    BY <1>1, <1>2, <1>3, BlockIs DEF Now, Headers
  <1> DEFINE All == p .. p + n - 1
  <1>5. PICK e : e = FreePages(p, n)
    OBVIOUS
  <1>6. /\ n \in 1 .. MaxBlock /\ bigFrees < MaxBigFree
        /\ size' = [q \in Page |-> IF q \in All THEN 0 ELSE size[q]]
        /\ items' = [q \in Page |-> IF q \in All THEN <<>> ELSE items[q]]
        /\ next' = e.next /\ free_slabs' = e.first
        /\ bigFrees' = bigFrees + 1
        /\ brk' = brk /\ magic' = magic /\ slabs' = slabs /\ bigs' = bigs /\ panic' = panic
    BY <1>2, <1>4, <1>5 DEF FreeBig
  <1>7. Whole(h) /\ PagesOf(block[h]) = All
    BY <1>1, <1>2, <1>3, <1>6, BlockIs
  <1>8. p + n - 1 \in Page
    BY <1>1, <1>2, <1>3, <1>7 DEF Now, Headers
  <1>9. /\ next \in [Page -> Page \union {Nil}] /\ brk \in Nat /\ n \in Nat \ {0} /\ p \in Nat
        /\ size \in [Page -> Class \union (0 .. MaxBlock)]
        /\ items \in [Page -> Seq(Nat)]
        /\ bigFrees \in 0 .. MaxBigFree /\ MaxBigFree \in Nat /\ NPages \in Nat
    BY <1>4, <1>6, Numbers, KHeapAssumption DEF TypeOK
  <1>10. All \subseteq Page /\ \A i \in 1 .. n : p + i - 1 \in All
    BY <1>4, <1>8, <1>9, Numbers
  <1>11. ASSUME NEW q \in All PROVE q \in Page /\ u[q] = PartOf(h) /\ ~Has(f, q)
    <2>1. q \in Page /\ u[q] = PartOf(h)
      BY <1>7, <1>10 DEF Now, Uses
    <2>2. QED BY <2>1, UsesDiffer DEF Now, Uses
  <1>12. Freeing(p, n, f)
    BY <1>4, <1>9, <1>10, <1>11 DEF Freeing, Now, ListsRight
  <1>13. FreedSoFar(e, p, n, f)
    BY <1>5, <1>12, FreePagesIs
  <1>14. PICK t : /\ Path(next', free_slabs', t)
                  /\ \A x : Has(t, x) <=> Has(f, x) \/ x \in All
    BY <1>6, <1>13 DEF FreedSoFar
  <1>15. /\ next' \in [Page -> Page \union {Nil}] /\ free_slabs' \in Page \union {Nil}
         /\ \A q \in Page : ~Has(f, q) /\ q \notin All => next'[q] = next[q]
    BY <1>6, <1>13, LinksFields DEF FreedSoFar
  <1> HIDE DEF All
  <1>16. /\ size' \in [Page -> Class \union (0 .. MaxBlock)]
         /\ \A q \in Page : q \notin All => size'[q] = size[q]
    <2>1. 0 \in 0 .. MaxBlock
      BY Numbers
    <2>2. QED BY <1>6, <1>9, <2>1
  <1>17. /\ items' \in [Page -> Seq(Nat)]
         /\ \A q \in Page : q \notin All => items'[q] = items[q]
    <2>1. <<>> \in Seq(Nat)
      OBVIOUS
    <2>2. QED BY <1>6, <1>9, <2>1
  <1>18. /\ block' \in [Handle -> Block \union {NoBlock}]
         /\ h \notin Held' /\ ~Whole(h)'
         /\ \A g \in Handle : g # h => /\ block'[g] = block[g]
                                       /\ g \in Held' <=> g \in Held
                                       /\ Whole(g)' <=> Whole(g)
    BY Gives
  <1>19. \A g \in Held' : g \in Handle /\ g # h /\ g \in Held /\ block'[g] = block[g] /\ (Whole(g)' <=> Whole(g))
    BY <1>18 DEF Held
  <1>20. ASSUME NEW g \in Held' PROVE block[g].page \in Page /\ block[g].page \notin All
    <2>1. g \in Held /\ g # h
      BY <1>19
    <2>2. /\ block[g].page \in Page
          /\ Whole(g) => u[block[g].page] = PartOf(g)
          /\ ~Whole(g) => u[block[g].page] = SlabOf(block[g].kind)
      BY <2>1, BlockIs, PageUse
    <2>3. QED BY <1>11, <2>1, <2>2, UsesDiffer
  <1>21. TypeOK'
    <2>1. bigFrees' \in 0 .. MaxBigFree
      BY <1>6, <1>9
    <2>2. QED BY <1>6, <1>15, <1>16, <1>17, <1>18, <2>1 DEF TypeOK
  <1> DEFINE u2 == [q \in Page |-> IF q \in All THEN Freed ELSE u[q]]
  <1>22. /\ \A q \in All : u2[q] = Freed
         /\ \A q \in Page : q \notin All => u2[q] = u[q]
    BY <1>10
  <1> HIDE DEF u2
  <1>23. ListsRight(s, t)'
    <2>1. ASSUME NEW c \in Class PROVE Path(next', slabs'[c], s[c])
      <3>1. Path(next, slabs[c], s[c])
        BY DEF Now, ListsRight
      <3>2. ASSUME NEW q \in Page, Has(s[c], q) PROVE next'[q] = next[q]
        <4>1. u[q] = SlabOf(c)
          BY <3>2 DEF Now, Uses
        <4>2. q \notin All /\ ~Has(f, q)
          BY <1>11, <4>1, UsesDiffer DEF Now, Uses
        <4>3. QED BY <1>15, <4>2
      <3>3. Path(next', slabs[c], s[c])
        BY <3>1, <3>2, PathKept
      <3>4. QED BY <1>6, <3>3
    <2>2. QED BY <1>14, <2>1 DEF ListsRight
  <1>24. BigList(u2)'
    <2>1. bigFrees' # 0
      BY <1>6, <1>9
    <2>2. QED BY <2>1 DEF BigList
  <1>25. Uses(s, t, u2)'
    <2>1. ASSUME NEW q \in Page
          PROVE  /\ u2[q] = New <=> q > brk'
                 /\ u2[q] = Freed <=> Has(t, q)
                 /\ \A c \in Class : u2[q] = SlabOf(c) <=> Has(s[c], q)
                 /\ \A d \in Handle : u2[q] = PartOf(d) <=> Whole(d)' /\ q \in PagesOf(block'[d])
                 /\ \/ u2[q] = New \/ u2[q] = Freed
                    \/ \E c \in Class : u2[q] = SlabOf(c)
                    \/ \E d \in Handle : u2[q] = PartOf(d)
      <3>1. /\ u[q] = New <=> q > brk
            /\ u[q] = Freed <=> Has(f, q)
            /\ \A c \in Class : u[q] = SlabOf(c) <=> Has(s[c], q)
            /\ \A d \in Handle : u[q] = PartOf(d) <=> Whole(d) /\ q \in PagesOf(block[d])
            /\ \/ u[q] = New \/ u[q] = Freed
               \/ \E c \in Class : u[q] = SlabOf(c)
               \/ \E d \in Handle : u[q] = PartOf(d)
        BY DEF Now, Uses
      <3>2. CASE q \in All
        <4>1. u2[q] = Freed /\ u[q] = PartOf(h) /\ ~(q > brk') /\ Has(t, q)
          BY <1>6, <1>11, <1>14, <1>22, <3>1, <3>2, UsesDiffer
        <4>2. \A c \in Class : ~Has(s[c], q)
          BY <3>1, <4>1, UsesDiffer
        <4>3. ASSUME NEW d \in Handle PROVE ~(Whole(d)' /\ q \in PagesOf(block'[d]))
          <5>1. CASE d = h
            BY <1>18, <5>1
          <5>2. CASE d # h
            <6>1. ~(Whole(d) /\ q \in PagesOf(block[d]))
              BY <3>1, <4>1, <5>2, UsesDiffer
            <6>2. QED BY <1>18, <5>2, <6>1
          <5>3. QED BY <5>1, <5>2
        <4>4. QED BY <4>1, <4>2, <4>3, UsesDiffer
      <3>3. CASE q \notin All
        <4>1. u2[q] = u[q] /\ brk' = brk /\ (Has(t, q) <=> Has(f, q))
          BY <1>6, <1>14, <1>22, <3>3
        <4>2. ASSUME NEW d \in Handle
              PROVE  Whole(d)' /\ q \in PagesOf(block'[d]) <=> Whole(d) /\ q \in PagesOf(block[d])
          BY <1>7, <1>18, <3>3
        <4>3. QED BY <3>1, <4>1, <4>2
      <3>4. QED BY <3>2, <3>3
    <2>2. QED BY <2>1 DEF Uses
  <1>26. Headers(u2)'
    BY <1>6, <1>16, <1>19, <1>20, <1>22 DEF Now, Headers
  <1>27. SlabsRight(u2)'
    <2>1. ASSUME NEW q \in Page, NEW c \in Class, u2[q] = SlabOf(c)
          PROVE  SlabRight(q, c)'
      <3>1. q \notin All /\ q # p
        BY <1>2, <1>4, <1>7, <1>22, <2>1, <1>1, BlockIs, UsesDiffer
      <3>2. SlabRight(q, c)
        BY <1>22, <2>1, <3>1 DEF Now, SlabsRight
      <3>3. ASSUME NEW x PROVE InUse(q, x)' <=> InUse(q, x)
        <4>1. InUse(q, x)' => InUse(q, x)
          BY <1>19 DEF InUse
        <4>2. ASSUME InUse(q, x) PROVE InUse(q, x)'
          <5>1. PICK g \in Held : block[g].page = q /\ block[g].item = x
            BY <4>2 DEF InUse
          <5>2. g \in Handle /\ g # h
            BY <1>2, <3>1, <5>1 DEF Held
          <5>3. g \in Held' /\ block'[g] = block[g]
            BY <1>18, <5>1, <5>2
          <5>4. QED BY <5>1, <5>3 DEF InUse
        <4>3. QED BY <4>1, <4>2
      <3>4. QED BY <1>6, <1>16, <1>17, <3>1, <3>2, <3>3 DEF SlabRight
    <2>2. QED BY <2>1 DEF SlabsRight
  <1>28. Apart'
    BY <1>19 DEF Now, Apart
  <1>29. Now(s, t, u2)'
    BY <1>23, <1>24, <1>25, <1>26, <1>27, <1>28 DEF Now
  <1>30. QED BY <1>6, <1>21, <1>29 DEF Inv

LEMMA NextKeeps ==
  ASSUME ~Reuse, Inv, [Next]_vars
  PROVE  Inv'
  <1>1. TypeOK /\ panic # "corruption"
    BY DEF Inv
  <1>2. PICK s, f, u : Now(s, f, u)
    BY DEF Inv
  <1>3. CASE UNCHANGED vars
    <2>1. /\ brk' = brk /\ magic' = magic /\ size' = size /\ items' = items /\ next' = next
          /\ slabs' = slabs /\ free_slabs' = free_slabs /\ block' = block
          /\ bigs' = bigs /\ bigFrees' = bigFrees /\ panic' = panic /\ which' = which
      BY <1>3 DEF vars, headers, lists, counts
    <2>2. TypeOK'
      BY <1>1, <2>1 DEF TypeOK
    <2>3. Now(s, f, u)'
      BY <1>2, <2>1 DEF Now, ListsRight, BigList, Uses, Headers, SlabsRight, SlabRight, InUse, Apart, Whole, Held
    <2>4. QED BY <1>1, <2>1, <2>2, <2>3 DEF Inv
  <1>4. CASE Next
    <2>1. which' = which
      BY <1>4 DEF Next
    <2>2. PICK h \in Handle : Allocate(h) \/ Release(h)
      BY <1>4 DEF Next, kmalloc, kfree, __malloc, __free
    <2>3. CASE Allocate(h)
      <3>1. block[h] = NoBlock
        BY <2>3 DEF Allocate
      <3>2. ASSUME NEW k \in Class, AllocItem(h, k) PROVE Inv'
        BY <1>1, <1>2, <2>1, <3>1, <3>2, AllocItemKeeps
      <3>3. ASSUME NEW k \in Class, AllocSlab(h, k) PROVE Inv'
        BY <1>1, <1>2, <2>1, <3>1, <3>3, AllocSlabKeeps
      <3>4. ASSUME NEW n \in 1 .. MaxBlock, AllocBig(h, n) PROVE Inv'
        BY <1>1, <1>2, <2>1, <3>1, <3>4, AllocBigKeeps
      <3>5. ASSUME OutOfMemory PROVE Inv'
        <4>1. /\ brk' = brk /\ magic' = magic /\ size' = size /\ items' = items /\ next' = next
              /\ slabs' = slabs /\ free_slabs' = free_slabs /\ block' = block
              /\ bigs' = bigs /\ bigFrees' = bigFrees /\ panic' = "memory"
          BY <3>5 DEF OutOfMemory, headers, lists, counts
        <4>2. TypeOK'
          BY <1>1, <2>1, <4>1 DEF TypeOK
        <4>3. Now(s, f, u)'
          BY <1>2, <4>1 DEF Now, ListsRight, BigList, Uses, Headers, SlabsRight, SlabRight, InUse, Apart, Whole, Held
        <4>4. QED BY <4>1, <4>2, <4>3 DEF Inv
      <3>6. QED BY <2>3, <3>2, <3>3, <3>4, <3>5 DEF Allocate
    <2>4. CASE Release(h)
      <3>1. block[h] # NoBlock /\ block' = [block EXCEPT ![h] = NoBlock]
        BY <2>4 DEF Release
      <3>2. ASSUME FreeItem(h) PROVE Inv'
        BY <1>1, <1>2, <2>1, <3>1, <3>2, FreeItemKeeps
      <3>3. ASSUME FreeBig(h) PROVE Inv'
        BY <1>1, <1>2, <2>1, <3>1, <3>3, FreeBigKeeps
      <3>4. QED BY <2>4, <3>2, <3>3 DEF Release
    <2>5. QED BY <2>2, <2>3, <2>4
  <1>5. QED BY <1>3, <1>4

(* The inductive invariant: each page the heap has grown to has one use,    *)
(* each list walks through exactly the pages of its use, and a slab's chain *)
(* of free items holds exactly the items nobody has.                        *)
THEOREM KHeapInvariant == ~Reuse /\ Spec => []Inv
  <1> SUFFICES ASSUME ~Reuse PROVE Spec => []Inv
    OBVIOUS
  <1>1. Inv /\ [Next]_vars => Inv'
    BY NextKeeps
  <1>2. QED BY InitInv, <1>1, PTL DEF Spec

----------------------------------------------------------------------------
(* What follows                                                             *)

LEMMA ExclusiveHolds == Inv => Exclusive
  <1>1. SUFFICES ASSUME Inv, NEW g \in Held, NEW h \in Held, g # h,
                        PagesOf(block[g]) \cap PagesOf(block[h]) # {}
                 PROVE  Same(block[g], block[h])
    BY DEF Exclusive
  <1>2. PICK s, f, u : TypeOK /\ Now(s, f, u)
    BY <1>1 DEF Inv
  <1>3. PICK p : p \in PagesOf(block[g]) /\ p \in PagesOf(block[h])
    BY <1>1
  <1>4. ASSUME NEW d \in Held, p \in PagesOf(block[d])
        PROVE  /\ Whole(d) => u[p] = PartOf(d)
               /\ ~Whole(d) => u[p] = SlabOf(block[d].kind) /\ block[d].kind \in Class /\ p = block[d].page
    <2>1. ASSUME Whole(d) PROVE u[p] = PartOf(d)
      <3>1. /\ block[d].page \in Page /\ block[d].kind \in 1 .. MaxBlock
            /\ p \in block[d].page .. block[d].page + block[d].kind - 1
            /\ block[d].page + block[d].kind - 1 \in Page
        BY <1>2, <1>4, <2>1, BlockIs DEF Now, Headers
      <3>2. p \in Page
        BY <3>1, Numbers
      <3>3. QED BY <1>2, <1>4, <2>1, <3>2, PageUse
    <2>2. ASSUME ~Whole(d) PROVE u[p] = SlabOf(block[d].kind) /\ block[d].kind \in Class /\ p = block[d].page
      <3>1. PagesOf(block[d]) = {block[d].page}
        BY <1>2, <2>2, BlockIs
      <3>2. QED BY <1>2, <1>4, <2>2, <3>1, PageUse
    <2>3. QED BY <2>1, <2>2
  <1>5. ~Whole(g) /\ ~Whole(h)
    BY <1>1, <1>3, <1>4, UsesDiffer
  <1>6. /\ block[g].kind \in Class /\ block[h].kind = block[g].kind
        /\ block[g].page = block[h].page
    BY <1>3, <1>4, <1>5, UsesDiffer
  <1>7. block[g].item # block[h].item
    BY <1>1, <1>2, <1>5, <1>6 DEF Now, Apart
  <1>8. QED BY <1>6, <1>7 DEF Same

(* No two blocks in use overlap, whatever is allocated and freed in any     *)
(* order by any number of users, in the kernel's heap and in a program's,   *)
(* as long as no big block is asked for after one has been freed.           *)
THEOREM BlocksExclusive == ~Reuse /\ Spec => []Exclusive
  BY KHeapInvariant, ExclusiveHolds, PTL

(* The header in front of every block in use is the one malloc wrote.       *)
THEOREM HeadersKept == ~Reuse /\ Spec => []HeadersIntact
  <1>1. Inv => HeadersIntact
    BY DEF Inv, Now, Headers, HeadersIntact
  <1>2. QED BY KHeapInvariant, <1>1, PTL

(* kfree never finds a header without the magic number.                     *)
THEOREM NeverCorrupt == ~Reuse /\ Spec => []NoCorruption
  <1>1. Inv => NoCorruption
    BY DEF Inv, NoCorruption
  <1>2. QED BY KHeapInvariant, <1>1, PTL

LEMMA CountDistinct ==
  ASSUME NEW T, NEW s \in Seq(T), Distinct(s)
  PROVE  Cardinality(Elements(s)) = Len(s) /\ Len(s) \in Nat
  <1>1. PICK n \in Nat : n = Len(s)
    BY SeqIs
  <1>2. \A i \in 1 .. n : s[i] \in Elements(s)
    BY <1>1, SeqIs DEF Elements
  <1>3. s = [i \in 1 .. n |-> s[i]]
    BY <1>1
  <1>4. s \in [1 .. n -> Elements(s)]
    BY <1>2, <1>3
  <1>5. \A x \in Elements(s) : \E i \in 1 .. n : s[i] = x
    BY <1>1, SeqIs DEF Elements
  <1>6. s \in Injection(1 .. n, Elements(s))
    BY <1>1, <1>4 DEF Injection, IsInjective, Distinct
  <1>7. s \in Surjection(1 .. n, Elements(s))
    BY <1>4, <1>5 DEF Surjection
  <1>8. ExistsBijection(1 .. n, Elements(s))
    BY <1>6, <1>7 DEF ExistsBijection, Bijection
  <1>9. Cardinality(Elements(s)) = n
    BY <1>8, FS_CountingElements
  <1>10. QED BY <1>1, <1>9

LEMMA ItemsHold == Inv => ItemsAccounted
  <1> SUFFICES ASSUME Inv, NEW k \in Class, NEW p \in Slabs(k)
               PROVE  LET Used == {block[h].item : h \in {g \in Held : block[g].page = p}} IN
                      /\ Elements(items[p]) = (1 .. Items[k]) \ Used
                      /\ Len(items[p]) = Items[k] - Cardinality(Used)
    BY DEF ItemsAccounted
  <1>1. PICK s, f, u : TypeOK /\ Now(s, f, u)
    BY DEF Inv
  <1>2. Path(next, slabs[k], s[k])
    BY <1>1 DEF Now, ListsRight
  <1>3. p \in Page /\ Has(s[k], p)
    <2>1. PICK l : l = s[k]
      OBVIOUS
    <2>2. Path(next, slabs[k], l)
      BY <1>2, <2>1
    <2>3. l \in Seq(Page) /\ p \in Elements(l)
      BY <2>2, ChainIs DEF Slabs, Path
    <2>4. Has(l, p)
      BY <2>3, HasIs
    <2>5. QED BY <2>1, <2>3, <2>4, SeqIs DEF Has
  <1>4. u[p] = SlabOf(k) /\ SlabRight(p, k)
    BY <1>1, <1>3 DEF Now, Uses, SlabsRight
  <1> DEFINE Used == {block[h].item : h \in {g \in Held : block[g].page = p}}
  <1>5. \A x : x \in Used <=> InUse(p, x)
    BY DEF InUse
  <1>6. Used \subseteq 1 .. Items[k]
    <2>1. ASSUME NEW g \in Held, block[g].page = p PROVE block[g].item \in 1 .. Items[k]
      <3>1. ~Whole(g)
        <4>1. Whole(g) => u[p] = PartOf(g)
          BY <1>1, <1>3, <2>1, BlockIs, PageUse
        <4>2. QED BY <1>4, <4>1, UsesDiffer
      <3>2. block[g].kind = k
        BY <1>1, <1>4, <2>1, <3>1, PageUse, UsesDiffer
      <3>3. QED BY <1>1, <3>1, <3>2 DEF Now, Headers
    <2>2. QED BY <2>1
  <1> HIDE DEF Used
  <1>7. Elements(items[p]) = (1 .. Items[k]) \ Used
    <2> DEFINE T == 1 .. Items[k]
               r == items[p]
    <2>1. r \in Seq(T) /\ \A i \in T : Has(r, i) <=> ~InUse(p, i)
      BY <1>4 DEF SlabRight
    <2> HIDE DEF T, r
    <2>2. \A x : x \in Elements(r) <=> Has(r, x)
      BY <2>1, HasIs
    <2>3. \A x : Has(r, x) => x \in T
      BY <2>1, SeqIs DEF Has
    <2>4. Elements(r) = T \ Used
      BY <1>5, <2>1, <2>2, <2>3
    <2>5. QED BY <2>4 DEF T, r
  <1>8. Len(items[p]) = Items[k] - Cardinality(Used)
    <2>1. PICK n \in Nat \ {0} : n = Items[k]
      BY ItemNumbers
    <2>2. IsFiniteSet(1 .. n) /\ Cardinality(1 .. n) = n
      <3>1. IsFiniteSet(1 .. n) /\ Cardinality(1 .. n) = IF 1 > n THEN 0 ELSE n - 1 + 1
        BY FS_Interval
      <3>2. QED BY <3>1
    <2>3. Cardinality((1 .. n) \ Used) = n - Cardinality((1 .. n) \cap Used)
      BY <2>2, FS_Difference
    <2>4. (1 .. n) \cap Used = Used
      BY <1>6, <2>1
    <2>5. Cardinality(Elements(items[p])) = Len(items[p])
      BY <1>4, CountDistinct DEF SlabRight
    <2>6. QED BY <1>7, <2>1, <2>3, <2>4, <2>5
  <1>9. QED BY <1>7, <1>8 DEF Used

LEMMA PagesHold == Inv => PagesAccounted
  <1> SUFFICES ASSUME Inv, NEW p \in 1 .. brk
               PROVE  Cardinality({k \in Class : p \in Slabs(k)})
                        + (IF p \in FreeSet THEN 1 ELSE 0)
                        + Cardinality({h \in Held : block[h].kind \notin Class /\ p \in PagesOf(block[h])})
                      = 1
    BY DEF PagesAccounted
  <1>1. PICK s, f, u : TypeOK /\ Now(s, f, u)
    BY DEF Inv
  <1>2. p \in Page /\ ~(p > brk)
    BY <1>1, Numbers DEF TypeOK
  <1> DEFINE A == {k \in Class : p \in Slabs(k)}
             C == {h \in Held : block[h].kind \notin Class /\ p \in PagesOf(block[h])}
  <1>3. \A link, first, l : Path(link, first, l) => (p \in Elements(Chain(link, first)) <=> Has(l, p))
    <2>1. ASSUME NEW link, NEW first, NEW l, Path(link, first, l)
          PROVE  p \in Elements(Chain(link, first)) <=> Has(l, p)
      <3>1. Chain(link, first) = l
        BY <2>1, ChainIs
      <3>2. l \in Seq(Page)
        BY <2>1 DEF Path
      <3>3. QED BY <3>1, <3>2, HasIs
    <2>2. QED BY <2>1
  <1>4. \A k : k \in A <=> k \in Class /\ u[p] = SlabOf(k)
    BY <1>1, <1>2, <1>3 DEF Now, Uses, ListsRight, Slabs
  <1>5. p \in FreeSet <=> u[p] = Freed
    BY <1>1, <1>2, <1>3 DEF Now, Uses, ListsRight, FreeSet
  <1>6. \A h : h \in C <=> h \in Handle /\ u[p] = PartOf(h)
    BY <1>1, <1>2 DEF Now, Uses, Whole, Held
  <1>7. \/ u[p] = Freed \/ (\E k \in Class : u[p] = SlabOf(k)) \/ \E h \in Handle : u[p] = PartOf(h)
    BY <1>1, <1>2 DEF Now, Uses
  <1> HIDE DEF A, C
  <1>8. Cardinality({}) = 0 /\ \A x : Cardinality({x}) = 1
    BY FS_EmptySet, FS_Singleton
  <1>9. ASSUME u[p] = Freed
        PROVE  Cardinality(A) + (IF p \in FreeSet THEN 1 ELSE 0) + Cardinality(C) = 1
    <2>1. A = {} /\ C = {} /\ p \in FreeSet
      BY <1>4, <1>5, <1>6, <1>9, UsesDiffer
    <2>2. Cardinality(A) = 0 /\ Cardinality(C) = 0
      BY <1>8, <2>1, Zenon
    <2>3. QED BY <2>1, <2>2
  <1>10. ASSUME NEW k \in Class, u[p] = SlabOf(k)
         PROVE  Cardinality(A) + (IF p \in FreeSet THEN 1 ELSE 0) + Cardinality(C) = 1
    <2>1. A = {k} /\ C = {} /\ p \notin FreeSet
      BY <1>4, <1>5, <1>6, <1>10, UsesDiffer
    <2>2. Cardinality(A) = 1 /\ Cardinality(C) = 0
      BY <1>8, <2>1, Zenon
    <2>3. QED BY <2>1, <2>2
  <1>11. ASSUME NEW h \in Handle, u[p] = PartOf(h)
         PROVE  Cardinality(A) + (IF p \in FreeSet THEN 1 ELSE 0) + Cardinality(C) = 1
    <2>1. A = {} /\ C = {h} /\ p \notin FreeSet
      BY <1>4, <1>5, <1>6, <1>11, UsesDiffer
    <2>2. Cardinality(A) = 0 /\ Cardinality(C) = 1
      BY <1>8, <2>1, Zenon
    <2>3. QED BY <2>1, <2>2
  <1>12. QED BY <1>7, <1>9, <1>10, <1>11 DEF A, C

(* No memory is lost: every item of a slab is free in it or in use, every   *)
(* page up to brk is a slab, part of a big block or free, and exactly one.  *)
THEOREM NothingLost == ~Reuse /\ Spec => []Accounted
  <1>1. Inv => Accounted
    BY ItemsHold, PagesHold DEF Accounted
  <1>2. QED BY KHeapInvariant, <1>1, PTL
=============================================================================
