----------------------------- MODULE PmmProof -----------------------------
(***************************************************************************)
(* Proofs about Pmm for every word width, bitmap and set of cores.  The    *)
(* safety invariants are not inductive alone: PmmInv adds what boot has    *)
(* established so far and that a frame in use lies inside the bitmap.      *)
(***************************************************************************)
EXTENDS Pmm, TLAPS, WellFoundedInduction

LessThan == {ss \in Nat \X Nat : ss[1] < ss[2]}

(* The order that "first" in first fit refers to is well founded.          *)
LEMMA LessThanWellFounded == IsWellFoundedOn(LessThan, Nat)
  BY NatLessThanWellFounded DEF OpToRel, LessThan

(* A non-empty set of frames has the lowest member that the allocator's    *)
(* search and the loops over regions start with.                           *)
LEMMA LowestExists ==
  ASSUME NEW S, S \subseteq Nat, S # {}
  PROVE  Lowest(S) \in S /\ \A g \in S : Lowest(S) <= g
  <1>1. PICK x \in S : \A y \in S : <<y, x>> \notin LessThan
    BY LessThanWellFounded, WFMin, Zenon
  <1>2. ASSUME NEW y \in S PROVE x <= y
    <2>1. x \in Nat /\ y \in Nat
      OBVIOUS
    <2>2. y < x => <<y, x>> \in LessThan
      BY <2>1 DEF LessThan
    <2>3. QED BY <1>1, <2>1, <2>2
  <1>3. QED BY <1>2 DEF Lowest

(* FRAME_INDEX maps frames to words of the bitmap, in order.               *)
LEMMA IndexNat == \A f \in Nat : Index(f) \in Nat
  BY ConstAssumption DEF Index

LEMMA IndexMono == \A f, g \in Nat : f <= g => Index(f) <= Index(g)
  BY ConstAssumption DEF Index

LEMMA IndexBound == \A f \in Frame : Index(f) \in 0 .. NWords - 1
  BY ConstAssumption DEF Index, Frame

(* The skipping loops of k_mem_pmm_alloc stop, at a word that holds a bit  *)
(* or at the end, and step over empty words only.                          *)
LEMMA ScanSpec ==
  ASSUME size \in Nat, NEW i \in 0 .. size, NEW bits
  PROVE  /\ Scan(i, bits) \in i .. size
         /\ Scan(i, bits) = size \/ Word(Scan(i, bits), bits) # {}
         /\ \A k \in i .. Scan(i, bits) - 1 : Word(k, bits) = {}
  <1> DEFINE Stops == {j \in i .. size : j = size \/ Word(j, bits) # {}}
  <1>1. Stops \subseteq Nat /\ size \in Stops
    OBVIOUS
  <1>2. PICK m \in Stops : \A g \in Stops : m <= g
    BY <1>1, LowestExists
  <1>3. \A k \in i .. m - 1 : Word(k, bits) = {}
    BY <1>1, <1>2
  <1>4. \E j \in i .. size : /\ j = size \/ Word(j, bits) # {}
                             /\ \A k \in i .. j - 1 : Word(k, bits) = {}
    BY <1>2, <1>3
  <1>5. QED BY <1>4 DEF Scan

HeldInside == \A c \in Cores : \A f \in Held(c) : Index(f) < size

ReleasedOnce == \A c \in Cores : owned[c] \cap releasing[c] = {}

BootState ==
  ~initialized => /\ \A c \in Cores : Held(c) = {}
                  /\ free = {} => size = 0 /\ freeIndex = 0
                  /\ free # {} => Word(freeIndex, free) # {}

PmmInv ==
  /\ TypeOK /\ Exclusive /\ Conservation /\ CacheExact
  /\ HeldInside /\ ReleasedOnce /\ BootState
  /\ initialized => unmarked = {}

(* Boot starts with an empty bitmap and nothing handed out.                *)
LEMMA InitInv == Init => PmmInv
  <1> SUFFICES ASSUME Init PROVE PmmInv
    OBVIOUS
  <1>1. \A c \in Cores : Held(c) = {}
    BY DEF Init, Held
  <1>2. TypeOK
    <2>1. usable \subseteq Frame /\ unmarked \subseteq usable
      BY MapsAssumption DEF Init
    <2>2. 0 \in 0 .. NWords
      BY ConstAssumption
    <2>3. QED BY <2>1, <2>2 DEF Init, TypeOK
  <1>3. QED
    BY <1>1, <1>2 DEF Init, PmmInv, Exclusive, Conservation, CacheExact,
                      HeldInside, ReleasedOnce, BootState

(* What setting the bit of a usable frame does to the bitmap.              *)
LEMMA MarkFrameType ==
  ASSUME TypeOK, NEW f \in Frame, MarkFrame(f)
  PROVE  /\ free' \subseteq Frame
         /\ size' \in 0 .. NWords /\ size <= size'
         /\ freeIndex' \in 0 .. NWords
         /\ initialized => size' = size
         /\ free' = free \union {f} \/ (initialized /\ Index(f) > size /\ free' = free)
  <1>1. Index(f) \in 0 .. NWords - 1
    BY IndexBound
  <1>2. NWords \in Nat /\ size \in 0 .. NWords /\ freeIndex \in 0 .. NWords
    BY ConstAssumption DEF TypeOK
  <1>3. free' \subseteq Frame
    BY DEF MarkFrame, TypeOK
  <1>4. size' \in 0 .. NWords /\ size <= size' /\ (initialized => size' = size)
    BY <1>1, <1>2 DEF MarkFrame
  <1>5. freeIndex' \in 0 .. NWords
    BY <1>1, <1>2 DEF MarkFrame
  <1>6. free' = free \union {f} \/ (initialized /\ Index(f) > size /\ free' = free)
    BY DEF MarkFrame
  <1>7. QED BY <1>3, <1>4, <1>5, <1>6

(* Setting the bit leaves the cached index at a word that holds one.       *)
LEMMA MarkFrameCache ==
  ASSUME NEW f, MarkFrame(f), free' = free \union {f},
         ~(initialized /\ Index(f) > size)
  PROVE  Word(freeIndex', free') # {}
  <1>1. CASE Word(freeIndex, free \union {f}) = {}
    <2>1. freeIndex' = Index(f)
      BY <1>1 DEF MarkFrame
    <2>2. f \in Word(freeIndex', free')
      BY <2>1 DEF Word
    <2>3. QED BY <2>2
  <1>2. CASE Word(freeIndex, free \union {f}) # {}
    BY <1>2 DEF MarkFrame
  <1>3. QED BY <1>1, <1>2

(* Every step of boot, of an allocation and of a release keeps PmmInv.     *)
LEMMA NextInv == PmmInv /\ [Next]_vars => PmmInv'
  <1> SUFFICES ASSUME PmmInv, [Next]_vars PROVE PmmInv'
    OBVIOUS
  <1>0. TypeOK /\ Frame \subseteq Nat
    BY ConstAssumption DEF PmmInv, Frame
  <1>1. CASE BootMark
    <2> DEFINE f == Lowest(unmarked)
    <2>1. f \in unmarked /\ f \in Frame /\ f \in usable
      <3>1. unmarked \subseteq Nat /\ unmarked # {} /\ unmarked \subseteq usable
        BY <1>0, <1>1 DEF TypeOK, BootMark
      <3>2. f \in unmarked
        BY <3>1, LowestExists
      <3>3. QED BY <1>0, <3>1, <3>2 DEF TypeOK
    <2> HIDE DEF f
    <2>2. MarkFrame(f)
      BY <1>1 DEF BootMark, f
    <2>3. unmarked' = unmarked \ {f} /\ ~initialized /\ ~initialized'
      BY <1>1 DEF BootMark, f
    <2>4. free' = free \union {f}
      BY <1>0, <2>1, <2>2, <2>3, MarkFrameType
    <2>5. TypeOK'
      BY <1>0, <1>1, <2>1, <2>2, <2>3, MarkFrameType DEF TypeOK, BootMark
    <2>6. \A c \in Cores : Held(c) = {} /\ Held(c)' = {}
      BY <1>1, <2>3 DEF BootMark, Held, PmmInv, BootState
    <2>7. Word(freeIndex', free') # {}
      BY <2>2, <2>3, <2>4, MarkFrameCache
    <2>8. Conservation'
      BY <1>1, <2>1, <2>3, <2>4, <2>6 DEF Conservation, PmmInv, BootMark
    <2>9. Exclusive' /\ HeldInside' /\ ReleasedOnce'
      BY <1>1, <2>6 DEF Exclusive, HeldInside, ReleasedOnce, Held, BootMark
    <2>10. CacheExact' /\ BootState'
      BY <2>3, <2>4, <2>6, <2>7 DEF CacheExact, BootState
    <2>11. QED
      BY <2>3, <2>5, <2>8, <2>9, <2>10 DEF PmmInv
  <1>2. CASE BootDone
    <2>1. \A c \in Cores : Held(c)' = Held(c)
      BY <1>2 DEF BootDone, Held
    <2>2. CacheExact'
      <3> SUFFICES ASSUME FitsBitmap PROVE CacheExact'
        BY <1>2 DEF CacheExact, BootDone, FitsBitmap
      <3>1. CASE free = {}
        BY <1>2, <3>1 DEF BootDone, PmmInv, BootState, CacheExact
      <3>2. CASE free # {}
        <4>1. PICK g \in free : Index(g) = freeIndex
          BY <1>2, <3>2 DEF BootDone, PmmInv, BootState, Word
        <4>2. g \in usable
          BY <4>1 DEF PmmInv, Conservation
        <4>3. QED
          BY <1>2, <3>2, <4>1, <4>2
          DEF BootDone, PmmInv, BootState, CacheExact, FitsBitmap, Word
      <3>3. QED BY <3>1, <3>2
    <2>3. TypeOK'
      BY <1>0, <1>2 DEF TypeOK, BootDone
    <2>4. QED
      BY <1>2, <2>1, <2>2, <2>3
      DEF PmmInv, Exclusive, Conservation, HeldInside, ReleasedOnce, BootState,
          BootDone
  <1>3. ASSUME NEW c \in Cores, NEW n \in 1 .. MaxRun, Alloc(c, n)
        PROVE  PmmInv'
    <2>1. CASE panicked'
      <3>1. CASE UNCHANGED <<free, freeIndex, owned>>
        <4>1. \A d \in Cores : Held(d)' = Held(d)
          BY <1>3, <3>1 DEF Alloc, Held
        <4>2. QED
          BY <1>0, <1>3, <2>1, <3>1, <4>1
          DEF Alloc, PmmInv, TypeOK, Exclusive, Conservation, CacheExact,
              HeldInside, ReleasedOnce, BootState, FitsBitmap
      <3>2. QED BY <1>3, <2>1, <3>1 DEF Alloc
    <2>2. CASE ~panicked'
      <3> DEFINE r == Lowest(Runs(n))
                 run == r .. r + n - 1
      <3>0. /\ initialized /\ initialized' /\ freeIndex < size /\ Runs(n) # {}
            /\ free' = free \ run /\ freeIndex' = Advance(free \ run)
            /\ owned' = [owned EXCEPT ![c] = @ \union run]
            /\ UNCHANGED <<size, unmarked, usable, releasing, panicked>>
        BY <1>3, <2>2 DEF Alloc
      <3>1. r \in Runs(n)
        <4>1. Runs(n) \subseteq Nat
          BY <1>0 DEF Runs
        <4>2. QED BY <3>0, <4>1, LowestExists
      <3>2. r \in Nat /\ run \subseteq free /\ Index(r + n - 1) < size /\ n \in Nat \ {0}
        <4>1. n \in Nat \ {0}
          BY ConstAssumption
        <4> HIDE DEF r
        <4>2. r \in Frame /\ run \subseteq free /\ Index(r + n - 1) < size
          BY <3>1 DEF Runs
        <4>3. QED BY <1>0, <4>1, <4>2
      <3> HIDE DEF r
      <3>3. \A f \in run : f \in Frame /\ Index(f) < size
        <4> SUFFICES ASSUME NEW f \in run PROVE f \in Frame /\ Index(f) < size
          OBVIOUS
        <4>1. f \in Frame /\ f \in Nat /\ r + n - 1 \in Nat /\ f <= r + n - 1
          BY <1>0, <3>2 DEF TypeOK
        <4>2. Index(f) <= Index(r + n - 1) /\ Index(f) \in Nat /\ Index(r + n - 1) \in Nat
          BY <4>1, IndexMono, IndexNat
        <4>3. QED BY <1>0, <3>2, <4>1, <4>2 DEF TypeOK
      <3> HIDE DEF run
      <3>4. Held(c)' = Held(c) \union run
        BY <1>0, <3>0 DEF Held, TypeOK
      <3>5. \A d \in Cores \ {c} : Held(d)' = Held(d)
        BY <1>0, <3>0 DEF Held, TypeOK
      <3>6. size \in Nat /\ freeIndex \in 0 .. size
        BY <1>0, <3>0 DEF TypeOK
      <3>7. /\ Advance(free') \in 0 .. size
            /\ \/ Advance(free') < size /\ Word(Advance(free'), free') # {}
               \/ Advance(free') = size /\ \A k \in 0 .. size - 1 : Word(k, free') = {}
        <4>1. /\ Scan(freeIndex, free') \in freeIndex .. size
              /\ Scan(freeIndex, free') = size \/ Word(Scan(freeIndex, free'), free') # {}
          BY <3>6, ScanSpec
        <4>2. /\ Scan(0, free') \in 0 .. size
              /\ Scan(0, free') = size \/ Word(Scan(0, free'), free') # {}
              /\ \A k \in 0 .. Scan(0, free') - 1 : Word(k, free') = {}
          BY <3>6, ScanSpec
        <4>3. QED BY <3>6, <4>1, <4>2 DEF Advance
      <3>8. TypeOK'
        <4>1. NWords \in Nat /\ size \in 0 .. NWords /\ run \subseteq Frame
          BY <1>0, <3>3, ConstAssumption DEF TypeOK
        <4>2. freeIndex' \in 0 .. NWords
          BY <3>0, <3>7, <4>1
        <4>3. QED BY <1>0, <3>0, <4>1, <4>2 DEF TypeOK
      <3>9. CacheExact'
        <4> SUFFICES ASSUME FitsBitmap PROVE CacheExact'
          BY <3>0 DEF CacheExact, FitsBitmap
        <4>1. \A f \in free' : Index(f) \in 0 .. size - 1
          <5>1. \A f \in free' : f \in usable /\ f \in Nat
            BY <1>0, <3>0 DEF PmmInv, Conservation, TypeOK
          <5>2. QED BY <3>6, <5>1, IndexNat DEF FitsBitmap
        <4>2. (\A k \in 0 .. size - 1 : Word(k, free') = {}) => free' = {}
          BY <4>1 DEF Word
        <4>3. QED BY <3>0, <3>7, <4>2 DEF CacheExact
      <3>10. Exclusive'
        BY <3>0, <3>2, <3>4, <3>5 DEF PmmInv, Exclusive
      <3>11. Conservation'
        <4>1. UNION {Held(d)' : d \in Cores} = run \union UNION {Held(d) : d \in Cores}
          BY <3>4, <3>5
        <4>2. QED BY <3>0, <3>2, <4>1 DEF PmmInv, Conservation
      <3>12. HeldInside'
        BY <3>0, <3>3, <3>4, <3>5 DEF PmmInv, HeldInside
      <3>13. ReleasedOnce'
        <4>1. releasing[c] = {}
          BY <1>3 DEF Alloc
        <4>2. QED BY <1>0, <3>0, <4>1 DEF PmmInv, ReleasedOnce, TypeOK
      <3>14. QED
        BY <3>0, <3>8, <3>9, <3>10, <3>11, <3>12, <3>13 DEF PmmInv, BootState
    <2>3. QED BY <2>1, <2>2
  <1>4. ASSUME NEW c \in Cores, NEW first \in Frame, NEW count \in 1 .. MaxRun,
               Release(c, first, count)
        PROVE  PmmInv'
    <2>1. \A d \in Cores : Held(d)' = Held(d)
      BY <1>0, <1>4 DEF Release, Held, TypeOK
    <2>2. TypeOK'
      <3>1. first .. first + count - 1 \subseteq Frame
        BY <1>0, <1>4 DEF TypeOK, Release
      <3>2. QED BY <1>0, <1>4, <3>1 DEF TypeOK, Release
    <2>3. ReleasedOnce'
      BY <1>0, <1>4 DEF Release, PmmInv, ReleasedOnce, TypeOK
    <2>4. QED
      BY <1>4, <2>1, <2>2, <2>3
      DEF Release, PmmInv, Exclusive, Conservation, CacheExact, HeldInside,
          BootState, FitsBitmap
  <1>5. ASSUME NEW c \in Cores, ReleaseStep(c)
        PROVE  PmmInv'
    <2> DEFINE f == Lowest(releasing[c])
    <2>1. f \in releasing[c]
      <3>1. releasing[c] \subseteq Nat /\ releasing[c] # {}
        BY <1>0, <1>5 DEF TypeOK, ReleaseStep
      <3>2. QED BY <3>1, LowestExists
    <2>2. f \in Frame /\ f \in Held(c) /\ Index(f) < size /\ Index(f) \in Nat /\ size \in Nat
      <3> HIDE DEF f
      <3>1. f \in Frame /\ f \in Held(c)
        BY <1>0, <2>1 DEF TypeOK, Held
      <3>2. f \in Nat /\ size \in Nat
        BY <1>0, <3>1, ConstAssumption DEF TypeOK
      <3>3. QED BY <3>1, <3>2, IndexNat DEF PmmInv, HeldInside
    <2> HIDE DEF f
    <2>3. /\ MarkFrame(f) /\ releasing' = [releasing EXCEPT ![c] = @ \ {f}]
          /\ UNCHANGED <<initialized, unmarked, usable, owned, panicked>>
      BY <1>5 DEF ReleaseStep, f
    <2>4. initialized
      BY <2>2 DEF PmmInv, BootState
    <2>5. ~(Index(f) > size) /\ size' = size /\ free' = free \union {f}
      BY <1>0, <2>2, <2>3, <2>4, MarkFrameType
    <2>6. /\ Held(c)' = Held(c) \ {f}
          /\ \A d \in Cores \ {c} : Held(d)' = Held(d)
      <3>1. f \notin owned[c]
        BY <2>1 DEF PmmInv, ReleasedOnce
      <3>2. QED BY <1>0, <2>3, <3>1 DEF Held, TypeOK
    <2>7. TypeOK'
      BY <1>0, <2>2, <2>3, MarkFrameType DEF TypeOK
    <2>8. Exclusive'
      BY <2>2, <2>5, <2>6 DEF PmmInv, Exclusive
    <2>9. Conservation'
      BY <2>2, <2>3, <2>5, <2>6 DEF PmmInv, Conservation
    <2>10. Word(freeIndex', free') # {}
      BY <2>3, <2>5, MarkFrameCache
    <2>11. CacheExact'
      <3> SUFFICES ASSUME FitsBitmap PROVE CacheExact'
        BY <2>3, <2>5 DEF CacheExact, FitsBitmap
      <3>1. PICK g \in free' : Index(g) = freeIndex'
        BY <2>10 DEF Word
      <3>2. g \in usable
        BY <2>2, <2>5, <3>1 DEF PmmInv, Conservation
      <3>3. QED BY <2>5, <2>10, <3>1, <3>2 DEF CacheExact, FitsBitmap
    <2>12. HeldInside'
      BY <2>5, <2>6 DEF PmmInv, HeldInside
    <2>13. ReleasedOnce'
      BY <1>0, <2>3 DEF PmmInv, ReleasedOnce, TypeOK
    <2>14. QED
      BY <2>3, <2>4, <2>7, <2>8, <2>9, <2>11, <2>12, <2>13 DEF PmmInv, BootState
  <1>6. CASE UNCHANGED vars
    <2>1. \A d \in Cores : Held(d)' = Held(d)
      BY <1>6 DEF vars, Held
    <2>2. QED
      BY <1>6, <2>1
      DEF vars, PmmInv, TypeOK, Exclusive, Conservation, CacheExact, HeldInside,
          ReleasedOnce, BootState, FitsBitmap
  <1>7. QED BY <1>1, <1>2, <1>3, <1>4, <1>5, <1>6 DEF Next

(* The bitmap, the cached index and the callers' frames keep their types.  *)
THEOREM TypeCorrect == Spec => []TypeOK
  <1>1. PmmInv => TypeOK
    BY DEF PmmInv
  <1>2. QED BY InitInv, NextInv, <1>1, PTL DEF Spec

(* No frame is ever given to two cores, or free and in use.                *)
THEOREM FramesExclusive == Spec => []Exclusive
  <1>1. PmmInv => Exclusive
    BY DEF PmmInv
  <1>2. QED BY InitInv, NextInv, <1>1, PTL DEF Spec

(* Every usable frame stays accounted for: free, held or not yet marked.   *)
THEOREM FramesConserved == Spec => []Conservation
  <1>1. PmmInv => Conservation
    BY DEF PmmInv
  <1>2. QED BY InitInv, NextInv, <1>1, PTL DEF Spec

(* On a map that fits the bitmap, the cached index always leads to a free  *)
(* frame when there is one.                                                *)
THEOREM FreeIndexExact == Spec => []CacheExact
  <1>1. PmmInv => CacheExact
    BY DEF PmmInv
  <1>2. QED BY InitInv, NextInv, <1>1, PTL DEF Spec

(* The manager panics on a request for one frame only when none is left.   *)
THEOREM SingleOom == Spec => SingleOomMeansEmpty
  <1>1. ASSUME PmmInv, NEW c \in Cores, Alloc(c, 1), panicked', FitsBitmap
        PROVE  free = {}
    <2>1. freeIndex >= size \/ Runs(1) = {}
      BY <1>1 DEF Alloc
    <2>2. initialized
      BY <1>1 DEF Alloc
    <2>3. CASE freeIndex < size /\ Word(freeIndex, free) # {}
      <3>1. PICK f \in free : Index(f) = freeIndex
        BY <2>3 DEF Word
      <3>2. f \in Frame /\ f \in Nat /\ size \in Nat /\ freeIndex \in Nat
        BY <1>1, <3>1, ConstAssumption DEF PmmInv, TypeOK, Frame
      <3>3. f + 1 - 1 = f /\ f .. f = {f}
        BY <3>2
      <3>4. f \in Runs(1)
        BY <2>3, <3>1, <3>2, <3>3 DEF Runs
      <3>5. QED BY <2>1, <2>3, <3>2, <3>4
    <2>4. QED BY <1>1, <2>2, <2>3 DEF PmmInv, CacheExact
  <1>2. PmmInv /\ [Next]_vars =>
          [\A c \in Cores : Alloc(c, 1) /\ panicked' /\ FitsBitmap => free = {}]_vars
    BY <1>1
  <1>3. QED BY InitInv, NextInv, <1>2, PTL DEF Spec, SingleOomMeansEmpty
=============================================================================
