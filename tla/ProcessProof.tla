---------------------------- MODULE ProcessProof ----------------------------
(***************************************************************************)
(* Proofs about Process, for every number of cores, processes and wait     *)
(* queues and any bounds, on the machines where the kernel's paths do not  *)
(* race (Sound).  The inductive invariant says of each process the one     *)
(* place it is in, and that each part of the state agrees; an action moves *)
(* at most one process to another place.                                   *)
(***************************************************************************)
EXTENDS Process, TLAPS, FiniteSetTheorems

\* Several cores whose programs fork and exit; one core whose programs fork,
\* exit, sleep and wait for devices, new memory being zero; or one core whose
\* programs fork, exit and send signals.  The kernel has races on the others.
Sound(s) ==
  \/ s.calls \subseteq {"fork", "exit"}
  \/ s.cores = {BootCore} /\ "kill" \notin s.calls /\ ~s.dirty
  \/ s.cores = {BootCore} /\ s.calls \subseteq {"fork", "exit", "kill"}

SoundSetups == \A s \in Setups : Sound(s)

----------------------------------------------------------------------------
(* The ready queue                                                          *)

LP == INSTANCE ListProof WITH Node <- Proc, ListId <- {Ready}, Nil <- None,
                              heap <- heap, made <- Proc

\* The pointers are those of some sequence of processes.
Whole(h) == \E s \in [{Ready} -> Seq(Proc)] : LP!Represents(h, Proc, s)

LEMMA Lists == LP!NilAssumption /\ LP!NodesAssumption
  <1>1. None \notin Proc /\ IsFiniteSet(Proc)
    BY ProcessAssumption
  <1>2. None \notin {Ready}
    BY ProcessAssumption
  <1>3. QED BY <1>1, <1>2 DEF LP!NilAssumption, LP!NodesAssumption, LP!IsFiniteSet, IsFiniteSet

(* Putting a process that is in no list at either end.                      *)
LEMMA Linked ==
  ASSUME NEW g, NEW h, NEW s, LP!Represents(g, Proc, s), NEW p \in Proc, g.owner[p] # Ready,
         NEW i \in {1, Len(s[Ready]) + 1}, LP!PutAt(g, h, Ready, s[Ready], i, p)
  PROVE  Whole(h) /\ \A m \in Proc : h.owner[m] = IF m = p THEN Ready ELSE g.owner[m]
  <1>1. Ready \in {Ready}
    OBVIOUS
  <1>2. /\ s \in [{Ready} -> Seq(Proc)] /\ s[Ready] \in Seq(Proc) /\ LP!Owns(g, Proc, Ready, s[Ready])
    BY <1>1 DEF LP!Represents
  <1>3. \A r \in {Ready} : ~LP!Has(s[r], p)
    BY <1>2 DEF LP!Owns
  <1>4. i \in 1 .. Len(s[Ready]) + 1
    BY <1>2
  <1> DEFINE t == LP!Abstract!InsertAt(s[Ready], i, p)
  <1>5. LP!Represents(h, Proc \union {p}, [s EXCEPT ![Ready] = t])
    BY <1>1, <1>3, <1>4, Lists, LP!PutStep
  <1> HIDE DEF t
  <1>6. Proc \union {p} = Proc
    OBVIOUS
  <1>7. [s EXCEPT ![Ready] = t] \in [{Ready} -> Seq(Proc)]
    BY <1>5 DEF LP!Represents
  <1>8. Whole(h)
    BY <1>5, <1>6, <1>7 DEF Whole
  <1>9. QED BY <1>8 DEF LP!PutAt

LEMMA MadeReady ==
  ASSUME NEW g, NEW h, Whole(g), NEW p \in Proc, g.owner[p] = None, h = L!PrependNode(g, Ready, p)
  PROVE  Whole(h) /\ \A m \in Proc : h.owner[m] = IF m = p THEN Ready ELSE g.owner[m]
  <1>1. PICK s \in [{Ready} -> Seq(Proc)] : LP!Represents(g, Proc, s)
    BY DEF Whole
  <1>2. Ready \in {Ready} /\ g.owner[p] # Ready
    BY ProcessAssumption
  <1>3. ~LP!Has(s[Ready], p)
    BY <1>1, <1>2 DEF LP!Represents, LP!Owns
  <1>4. s[Ready] \in Seq(Proc) /\ Len(s[Ready]) \in Nat
    BY <1>2
  <1>5. CASE g.head[Ready] = None
    <2>1. h = LP!AppendNode(g, Ready, p)
      BY <1>5 DEF L!PrependNode, L!AppendNode, LP!AppendNode
    <2>2. LP!PutAt(g, h, Ready, s[Ready], Len(s[Ready]) + 1, p)
      BY <1>1, <1>2, <1>3, <2>1, Lists, LP!AppendPuts
    <2>3. QED BY <1>1, <1>2, <2>2, Linked
  <1>6. CASE g.head[Ready] # None
    <2>1. h = LP!PrependNode(g, Ready, p)
      BY DEF L!PrependNode, L!AppendNode, LP!AppendNode, LP!PrependNode
    <2>2. LP!PutAt(g, h, Ready, s[Ready], 1, p)
      BY <1>1, <1>2, <1>3, <1>6, <2>1, Lists, LP!PrependPuts
    <2>3. QED BY <1>1, <1>2, <2>2, Linked
  <1>7. QED BY <1>5, <1>6

(* The last of the queue is taken off.                                      *)
LEMMA Popped ==
  ASSUME NEW g, NEW h, NEW p, Whole(g), p = g.tail[Ready], p # None, h = L!PopBackNode(g, Ready)
  PROVE  /\ Whole(h) /\ p \in Proc /\ g.owner[p] = Ready
         /\ \A m \in Proc : h.owner[m] = IF m = p THEN None ELSE g.owner[m]
  <1>1. PICK s \in [{Ready} -> Seq(Proc)] : LP!Represents(g, Proc, s)
    BY DEF Whole
  <1>2. Ready \in {Ready}
    OBVIOUS
  <1> DEFINE q == s[Ready]
  <1>3. /\ Len(q) \in Nat /\ g.head[Ready] = LP!At(q, 1) /\ p = LP!At(q, Len(q))
        /\ \A i \in Int : LP!At(q, i) = None <=> i \notin 1 .. Len(q)
        /\ \A i \in 1 .. Len(q) : q[i] \in Proc /\ q[i] # None /\ LP!At(q, i) = q[i]
    BY <1>1, <1>2, Lists, LP!Ends
  <1>4. /\ \A i \in 1 .. Len(q) : g.owner[q[i]] = Ready
    BY <1>1, <1>2, Lists, LP!Listed
  <1> HIDE DEF q
  <1>5. Len(q) \in 1 .. Len(q) /\ p = q[Len(q)] /\ g.head[Ready] # None
    <2>1. Len(q) \in 1 .. Len(q)
      BY <1>3
    <2>2. 1 \in 1 .. Len(q)
      BY <1>3, <2>1
    <2>3. QED BY <1>3, <2>1, <2>2
  <1>6. p \in Proc /\ g.owner[p] = Ready
    BY <1>3, <1>4, <1>5
  <1>7. h = LP!PopBackNode(g, Ready)
    BY DEF L!PopBackNode, LP!PopBackNode
  <1>8. LP!TakeAt(g, h, Ready, q, Len(q))
    BY <1>1, <1>2, <1>5, <1>7, Lists, LP!PopBackTakes DEF q
  <1>9. h.owner = [g.owner EXCEPT ![p] = None] /\ g.owner \in [Proc -> {Ready} \union {None}]
    <2>1. g \in LP!Heap
      BY <1>1 DEF LP!Represents
    <2>2. g.owner \in [Proc -> {Ready} \union {None}]
      BY <2>1, Lists, LP!HeapFields
    <2>3. QED BY <1>7, <2>1, <2>2 DEF LP!PopBackNode, LP!Heap
  <1>10. \A m \in Proc : h.owner[m] = IF m = p THEN None ELSE g.owner[m]
    BY <1>9
  <1> DEFINE u == [s EXCEPT ![Ready] = LP!Abstract!RemoveAt(s[Ready], Len(q))]
  <1>11. LP!Represents(h, Proc, u)
    <2>1. Proc \subseteq Proc /\ (\A m \in Proc \ {s[Ready][Len(q)]} : m \in Proc <=> m \in Proc)
          /\ h.owner[s[Ready][Len(q)]] = None
      BY <1>5, <1>6, <1>10 DEF q
    <2>2. Len(q) \in 1 .. Len(s[Ready]) /\ LP!TakeAt(g, h, Ready, s[Ready], Len(q))
      BY <1>5, <1>8 DEF q
    <2>3. QED BY <1>1, <1>2, <2>1, <2>2, Lists, LP!TakeStep
  <1>12. u \in [{Ready} -> Seq(Proc)]
    BY <1>11 DEF LP!Represents
  <1> HIDE DEF u
  <1>13. Whole(h)
    BY <1>11, <1>12 DEF Whole
  <1>14. QED BY <1>6, <1>10, <1>13

(* What reading the queue finds.                                            *)
LEMMA ReadyIs ==
  ASSUME Whole(heap)
  PROVE  /\ heap \in L!Heap /\ ReadyWhole
         /\ ReadySeq \in Seq(Proc) /\ \A i, j \in DOMAIN ReadySeq : ReadySeq[i] = ReadySeq[j] => i = j
         /\ \A p \in Proc : heap.owner[p] \in {Ready, None} /\ (IsReady(p) <=> \E i \in DOMAIN ReadySeq : ReadySeq[i] = p)
  <1>1. PICK s \in [{Ready} -> Seq(Proc)] : LP!Represents(heap, Proc, s)
    BY DEF Whole
  <1>2. Ready \in {Ready}
    OBVIOUS
  <1> DEFINE q == s[Ready]
  <1>3. Max = LP!Max
    BY DEF Max, LP!Max, Cardinality, LP!Cardinality
  <1>4. LP!Forward(heap, Ready, LP!Max) = q /\ LP!Backward(heap, Ready, LP!Max) = q
    BY <1>1, <1>2, Lists, LP!Read
  <1>5. ReadySeq = q
    BY <1>3, <1>4 DEF ReadySeq, L!Forward, LP!Forward
  <1>6. L!Backward(heap, Ready, Max) = q
    BY <1>3, <1>4 DEF L!Backward, LP!Backward
  <1>7. /\ q \in Seq(Proc) /\ LP!Distinct(q) /\ LP!Owns(heap, Proc, Ready, q) /\ heap.size[Ready] = Len(q)
        /\ \A i \in 1 .. Len(q) : q[i] \in Proc
    <2>1. q \in Seq(Proc) /\ LP!Chain(heap, Ready, q) /\ LP!Distinct(q) /\ LP!Owns(heap, Proc, Ready, q)
      BY <1>1, <1>2, Lists, LP!Listed
    <2>2. QED BY <2>1 DEF LP!Chain
  <1> HIDE DEF q
  <1>8. heap \in L!Heap /\ heap.owner \in [Proc -> {Ready} \union {None}]
    <2>1. heap \in LP!Heap
      BY <1>1 DEF LP!Represents
    <2>2. heap \in L!Heap
      BY <2>1 DEF L!Heap, LP!Heap
    <2>3. heap.owner \in [Proc -> {Ready} \union {None}]
      BY <2>1, Lists, LP!HeapFields
    <2>4. QED BY <2>2, <2>3
  <1>9. /\ DOMAIN q = 1 .. Len(q) /\ \A i, j \in DOMAIN q : q[i] = q[j] => i = j
    BY <1>7 DEF LP!Distinct
  <1>10. \A p \in Proc : heap.owner[p] \in {Ready, None} /\ (IsReady(p) <=> \E i \in DOMAIN q : q[i] = p)
    <2>1. \A p \in Proc : heap.owner[p] = Ready <=> \E i \in 1 .. Len(q) : q[i] = p
      BY <1>7 DEF LP!Owns, LP!Has
    <2>2. \A p \in Proc : heap.owner[p] \in {Ready, None}
      BY <1>8
    <2>3. Ready # None
      BY ProcessAssumption
    <2>4. QED BY <1>9, <2>1, <2>2, <2>3 DEF IsReady
  <1>11. {q[i] : i \in DOMAIN q} = {p \in Proc : IsReady(p)}
    BY <1>7, <1>9, <1>10
  <1>12. ReadyWhole
    BY <1>5, <1>6, <1>7, <1>11 DEF ReadyWhole
  <1>13. QED BY <1>5, <1>7, <1>8, <1>9, <1>10, <1>12
(* The queue the young processes were put in one after the other.           *)
Step(f, s, i) ==
  IF i = 0 THEN L!Empty([p \in Proc |-> None]) ELSE L!PrependNode(f[i - 1], Ready, s[i])

Holds(g, s, i) ==
  /\ Whole(g)
  /\ \A p \in Proc : g.owner[p] = IF \E j \in 1 .. i : s[j] = p THEN Ready ELSE None

LEMMA EmptyHolds ==
  ASSUME NEW s
  PROVE  Holds(L!Empty([p \in Proc |-> None]), s, 0)
  <1> DEFINE g == L!Empty([p \in Proc |-> None])
             u == [l \in {Ready} |-> <<>>]
  <1>1. /\ g \in LP!Heap /\ g.owner = [p \in Proc |-> None]
        /\ \A l \in {Ready} : g.head[l] = None /\ g.tail[l] = None /\ g.size[l] = 0
    BY DEF L!Empty, LP!Heap
  <1> HIDE DEF g
  <1>2. u \in [{Ready} -> Seq(Proc)]
    OBVIOUS
  <1>3. \A i : LP!At(<<>>, i) = None
    BY DEF LP!At
  <1>4. ASSUME NEW l \in {Ready}
        PROVE  LP!Chain(g, l, u[l]) /\ LP!Distinct(u[l]) /\ LP!Owns(g, Proc, l, u[l])
    <2>1. u[l] = <<>> /\ Len(<<>>) = 0 /\ 1 .. 0 = {}
      OBVIOUS
    <2>2. LP!Chain(g, l, u[l]) /\ LP!Distinct(u[l])
      BY <1>1, <1>3, <2>1 DEF LP!Chain, LP!Distinct
    <2>3. l # None
      BY ProcessAssumption
    <2>4. LP!Owns(g, Proc, l, u[l])
      BY <1>1, <2>1, <2>3 DEF LP!Owns, LP!Has
    <2>5. QED BY <2>2, <2>4
  <1>5. LP!Represents(g, Proc, u)
    BY <1>1, <1>2, <1>4 DEF LP!Represents
  <1>6. Whole(g)
    BY <1>2, <1>5 DEF Whole
  <1>7. \A p \in Proc : g.owner[p] = IF \E j \in 1 .. 0 : s[j] = p THEN Ready ELSE None
    BY <1>1
  <1>8. QED BY <1>6, <1>7 DEF Holds, g

LEMMA NextHolds ==
  ASSUME NEW g, NEW s, NEW i \in Nat \ {0}, Holds(g, s, i - 1), s[i] \in Proc,
         \A j \in 1 .. i - 1 : s[j] # s[i]
  PROVE  Holds(L!PrependNode(g, Ready, s[i]), s, i)
  <1> DEFINE h == L!PrependNode(g, Ready, s[i])
             p == s[i]
  <1>1. Whole(g) /\ g.owner[p] = None
    BY DEF Holds
  <1> HIDE DEF h, p
  <1>2. h = L!PrependNode(g, Ready, p) /\ p \in Proc
    BY DEF h, p
  <1>3. Whole(h) /\ \A m \in Proc : h.owner[m] = IF m = p THEN Ready ELSE g.owner[m]
    BY <1>1, <1>2, MadeReady
  <1>4. ASSUME NEW m \in Proc
        PROVE  h.owner[m] = IF \E j \in 1 .. i : s[j] = m THEN Ready ELSE None
    <2>1. g.owner[m] = IF \E j \in 1 .. i - 1 : s[j] = m THEN Ready ELSE None
      BY DEF Holds
    <2>2. 1 .. i = (1 .. i - 1) \union {i}
      OBVIOUS
    <2>3. (\E j \in 1 .. i : s[j] = m) <=> (m = p \/ \E j \in 1 .. i - 1 : s[j] = m)
      BY <2>2 DEF p
    <2>4. QED BY <1>3, <2>1, <2>3
  <1>5. QED BY <1>3, <1>4 DEF Holds, h

LEMMA StepsExist ==
  ASSUME NEW n \in Nat, NEW s \in [1 .. n -> Proc], \A i, j \in 1 .. n : s[i] = s[j] => i = j
  PROVE  \E f : f = [i \in 0 .. n |-> Step(f, s, i)] /\ Holds(f[n], s, n)
  <1> DEFINE Good(k) == \E f : f = [i \in 0 .. k |-> Step(f, s, i)] /\ Holds(f[k], s, k)
             Bad == {k \in 0 .. n : ~Good(k)}
  <1>1. Good(0)
    <2> DEFINE e == L!Empty([p \in Proc |-> None])
               f == [i \in 0 .. 0 |-> e]
    <2>1. Holds(e, s, 0)
      BY EmptyHolds
    <2> HIDE DEF e
    <2>2. f[0] = e /\ \A i \in 0 .. 0 : i = 0
      OBVIOUS
    <2>3. \A i \in 0 .. 0 : Step(f, s, i) = e
      BY <2>2 DEF Step, e
    <2>4. f = [i \in 0 .. 0 |-> Step(f, s, i)]
      BY <2>3
    <2> HIDE DEF f
    <2>5. QED BY <2>1, <2>2, <2>4
  <1>2. ASSUME NEW k \in 1 .. n, Good(k - 1) PROVE Good(k)
    <2>1. PICK g : g = [i \in 0 .. k - 1 |-> Step(g, s, i)] /\ Holds(g[k - 1], s, k - 1)
      BY <1>2
    <2> DEFINE h == L!PrependNode(g[k - 1], Ready, s[k])
               f == [i \in 0 .. k |-> IF i = k THEN h ELSE g[i]]
    <2>2. k \in Nat \ {0} /\ s[k] \in Proc /\ \A j \in 1 .. k - 1 : s[j] # s[k]
      OBVIOUS
    <2>3. Holds(h, s, k)
      BY <2>1, <2>2, NextHolds
    <2> HIDE DEF h
    <2>4. f[k] = h /\ \A i \in 0 .. k - 1 : f[i] = g[i] /\ i \in 0 .. k /\ i # k
      BY <2>2
    <2>5. ASSUME NEW i \in 0 .. k PROVE f[i] = Step(f, s, i)
      <3>1. CASE i = k
        <4>1. k # 0 /\ k - 1 \in 0 .. k - 1
          BY <2>2
        <4>2. f[k - 1] = g[k - 1]
          BY <2>4, <4>1
        <4> HIDE DEF f
        <4>3. QED BY <2>4, <3>1, <4>1, <4>2 DEF Step, h
      <3>2. CASE i # k
        <4>1. i \in 0 .. k - 1 /\ (i # 0 => i - 1 \in 0 .. k - 1)
          BY <2>2, <3>2
        <4>2. g[i] = Step(g, s, i)
          BY <2>1, <4>1
        <4>3. f[i] = g[i] /\ (i # 0 => f[i - 1] = g[i - 1])
          BY <2>4, <4>1
        <4> HIDE DEF f
        <4>4. QED BY <4>2, <4>3 DEF Step
      <3>3. QED BY <3>1, <3>2
    <2>6. f = [i \in 0 .. k |-> Step(f, s, i)]
      BY <2>5
    <2> HIDE DEF f
    <2>7. QED BY <2>3, <2>4, <2>6
  <1>3. Bad = {}
    <2>1. SUFFICES ASSUME Bad # {} PROVE FALSE
      OBVIOUS
    <2> HIDE DEF Good
    <2>2. Bad \subseteq Nat
      OBVIOUS
    <2>3. PICK k \in Bad : \A j \in Bad : k <= j
      <3> HIDE DEF Bad
      <3>1. QED BY <2>1, <2>2, Lists, LP!LeastExists
    <2>4. k # 0 /\ k \in 1 .. n /\ k - 1 \in 0 .. n /\ ~Good(k)
      BY <1>1
    <2>5. k - 1 \notin Bad
      BY <2>3, <2>4
    <2>6. Good(k - 1)
      BY <2>4, <2>5
    <2>7. QED BY <1>2, <2>4, <2>6
  <1>4. n \in 0 .. n /\ n \notin Bad
    BY <1>3
  <1>5. Good(n)
    BY <1>4
  <1>6. QED BY <1>5

LEMMA QueuedHolds ==
  ASSUME NEW n \in Nat, NEW s \in [1 .. n -> Proc], \A i, j \in 1 .. n : s[i] = s[j] => i = j
  PROVE  Holds(Queued(s), s, n)
  <1>1. Len(s) = n
    OBVIOUS
  <1>2. PICK g : g = [i \in 0 .. n |-> Step(g, s, i)] /\ Holds(g[n], s, n)
    BY StepsExist
  <1>3. \E f : f = [i \in 0 .. n |-> Step(f, s, i)] /\ Queued(s) = f[n]
    BY <1>1, <1>2, Zenon DEF Queued, Step
  <1>4. PICK f : f = [i \in 0 .. n |-> Step(f, s, i)] /\ Queued(s) = f[n]
    BY <1>3
  <1> DEFINE Same == {i \in 0 .. n : f[i] # g[i]}
  <1>5. Same = {}
    <2>1. SUFFICES ASSUME Same # {} PROVE FALSE
      OBVIOUS
    <2>2. Same \subseteq Nat
      OBVIOUS
    <2>3. PICK k \in Same : \A j \in Same : k <= j
      <3> HIDE DEF Same
      <3>1. QED BY <2>1, <2>2, Lists, LP!LeastExists
    <2>4. k \in 0 .. n /\ f[k] # g[k] /\ (k # 0 => k - 1 \in 0 .. n)
      OBVIOUS
    <2>5. k # 0 => f[k - 1] = g[k - 1]
      BY <2>3, <2>4
    <2>6. f[k] = Step(f, s, k) /\ g[k] = Step(g, s, k)
      BY <1>2, <1>4, <2>4
    <2>7. QED BY <2>4, <2>5, <2>6 DEF Step
  <1>6. n \in 0 .. n /\ n \notin Same
    BY <1>5
  <1>7. f[n] = g[n]
    BY <1>6
  <1>8. QED BY <1>2, <1>4, <1>7
----------------------------------------------------------------------------
(* The inductive invariant                                                  *)

OnCore(c) == <<"core", c>>
HandOf(c) == <<"hand", c>>
Awaits(q) == <<"wait", q>>
InReady == <<"ready", None>>
Asleep == <<"sleep", None>>
Gone == <<"gone", None>>     \* not there yet, or finished

Place == {OnCore(c) : c \in Core} \union {HandOf(c) : c \in Core}
         \union {Awaits(q) : q \in Queue} \union {InReady, Asleep, Gone}

\* The entry a core is about to take off the sleep queue counts no more.
Dozing(p) == \E i \in DOMAIN sleepers : sleepers[i].proc = p /\ (pc[BootCore] = "expired" => i # 1)

\* Each part of the state agrees with the places w gives the processes.
Runs(w) == \A c \in Core, p \in Proc : Keeps(c, p) <=> w[p] = OnCore(c)
Hands(w) == \A c \in Core, p \in Proc : InHand(c, p) <=> w[p] = HandOf(c)
Readies(w) == \A p \in Proc : IsReady(p) <=> w[p] = InReady
Sleeps(w) == \A p \in Proc : Dozing(p) <=> w[p] = Asleep
Waits(w) ==
  \A q \in Queue, p \in Proc : (\E i \in DOMAIN waiters[q] : waiters[q][i] = p) <=> w[p] = Awaits(q)

Where(w) == Runs(w) /\ Hands(w) /\ Readies(w) /\ Sleeps(w) /\ Waits(w)

Simple == setup.calls \subseteq {"fork", "exit"}
Dozes == "sleep" \in setup.calls \/ "block" \in setup.calls
Dormant(w, p) == w[p] = Asleep \/ \E q \in Queue : w[p] = Awaits(q)

\* What each place in the code says of the core's process and of the one in hand.
Path(w, c) ==
  /\ c \in setup.cores \/ Simple \/ (pc[c] = "idle" /\ current[c] = None)
  /\ pc[c] \in {"user", "switch", "requeue", "fork", "kill", "kick", "return"} => current[c] # None
  /\ pc[c] = "idle" => current[c] = None
  /\ pc[c] \in {"fork", "wakeup", "kill", "kick"} => arg[c] # None
  /\ pc[c] = "switch" /\ ~requeue[c] => Dozes /\ Dormant(w, current[c])
  /\ pc[c] = "requeue" => saved[current[c]] = "kernel"
  /\ pc[c] \in {"expire", "expired"} => "sleep" \in setup.calls /\ sleepers # <<>>
  /\ pc[c] \in {"waking", "wakeup"} => "block" \in setup.calls /\ waking[c] \in Queue
  /\ pc[c] \in {"kill", "kick"} =>
       "kill" \in setup.calls /\ arg[c] # current[c] /\ arg[c] \in spawned
  /\ pc[c] = "kick" => "finished" \in flags[arg[c]]

\* A process is in each queue once; without the calls that fill them they are empty.
Queues ==
  /\ "sleep" \notin setup.calls => sleepers = <<>>
  /\ "block" \notin setup.calls => \A q \in Queue : waiters[q] = <<>>
  /\ \A i, j \in DOMAIN sleepers : sleepers[i].proc = sleepers[j].proc => i = j
  /\ \A q \in Queue : \A i, j \in DOMAIN waiters[q] : waiters[q][i] = waiters[q][j] => i = j

\* A process's own node is linked only while the process is asleep or waits.
Owners(w) ==
  Dozes =>
    /\ \A p \in Proc : nodeOwner[p] # None =>
         \/ Dormant(w, p)
         \/ pc[BootCore] = "expired" /\ p = sleepers[1].proc
    /\ \A i \in DOMAIN sleepers : ~sleepers[i].own => nodeOwner[sleepers[i].proc] = None

\* What the flags and the saved context of a process say of its place.
Standing(w, p) ==
  /\ "finished" \in flags[p] =>
       w[p] \in {Gone, InReady} \/ \E c \in Core : pc[c] = "kick" /\ w[p] = HandOf(c)
  /\ p \in spawned /\ "finished" \notin flags[p] => w[p] # Gone
  /\ p \notin spawned => w[p] = Gone /\ "finished" \notin flags[p]
  /\ "finished" \notin flags[p] /\ saved[p] = "none" =>
       \/ w[p] = Gone \/ \E c \in Core : w[p] = OnCore(c)
       \/ pc[BootCore] = "switch" /\ current[BootCore] = p

Inv(w) ==
  /\ TypeOK /\ Whole(heap) /\ AssertHolds /\ Sound(setup)
  /\ w \in [Proc -> Place]
  /\ Where(w)
  /\ \A c \in Core : Path(w, c)
  /\ Queues /\ Owners(w)
  /\ \A p \in Proc : Standing(w, p)

ProcessInv == \E w \in [Proc -> Place] : Inv(w)

LEMMA Places1 ==
  /\ \A c, d : (OnCore(c) = OnCore(d) => c = d) /\ (HandOf(c) = HandOf(d) => c = d)
               /\ (Awaits(c) = Awaits(d) => c = d)
  /\ \A c, d : OnCore(c) # HandOf(d) /\ OnCore(c) # Awaits(d) /\ HandOf(c) # Awaits(d)
  /\ \A c : /\ OnCore(c) \notin {InReady, Asleep, Gone} /\ HandOf(c) \notin {InReady, Asleep, Gone}
            /\ Awaits(c) \notin {InReady, Asleep, Gone}
  /\ InReady # Asleep /\ InReady # Gone /\ Asleep # Gone
  BY DEF OnCore, HandOf, Awaits, InReady, Asleep, Gone

LEMMA PlaceTypes ==
  /\ \A c \in Core : OnCore(c) \in Place /\ HandOf(c) \in Place
  /\ \A q \in Queue : Awaits(q) \in Place
  /\ InReady \in Place /\ Asleep \in Place /\ Gone \in Place
  BY DEF Place
LEMMA WholeHeap ==
  ASSUME NEW h, Whole(h)
  PROVE  h \in L!Heap /\ h.owner \in [Proc -> {Ready, None}]
  <1>1. PICK s \in [{Ready} -> Seq(Proc)] : LP!Represents(h, Proc, s)
    BY DEF Whole
  <1>2. h \in LP!Heap
    BY <1>1 DEF LP!Represents
  <1>3. h.owner \in [Proc -> {Ready} \union {None}]
    BY <1>2, Lists, LP!HeapFields
  <1>4. h \in L!Heap
    BY <1>2 DEF L!Heap, LP!Heap
  <1>5. QED BY <1>3, <1>4

----------------------------------------------------------------------------
(* What the invariant says of a core and of a process                       *)

\* A program that sleeps, waits or sends signals has the machine's one core.
LEMMA Solo ==
  ASSUME NEW w, Inv(w), NEW c \in Core, c # BootCore, ~Simple
  PROVE  pc[c] = "idle" /\ current[c] = None /\ c \notin setup.cores
  <1>1. setup.cores = {BootCore}
    BY DEF Inv, Sound, Simple
  <1>2. QED BY <1>1 DEF Inv, Path

LEMMA Active ==
  ASSUME NEW w, Inv(w), NEW c \in Core, pc[c] # "idle" \/ c \in setup.cores
  PROVE  c = BootCore \/ Simple
  BY Solo

LEMMA Calling ==
  ASSUME NEW w, Inv(w)
  PROVE  /\ Dozes => ~Simple /\ "kill" \notin setup.calls /\ ~setup.dirty
         /\ "kill" \in setup.calls => ~Simple /\ ~Dozes
  BY DEF Inv, Sound, Simple, Dozes

\* The process a core is on behalf of.
LEMMA CurrentIs ==
  ASSUME NEW w, Inv(w), NEW c \in Core, Executing(c), pc[c] = "switch" => requeue[c]
  PROVE  /\ current[c] \in Proc /\ w[current[c]] = OnCore(c) /\ "finished" \notin flags[current[c]]
         /\ current[c] \in spawned /\ heap.owner[current[c]] = None
  <1>1. current[c] \in Proc
    BY DEF Inv, TypeOK, Executing
  <1>2. Keeps(c, current[c])
    BY DEF Keeps
  <1>3. w[current[c]] = OnCore(c)
    BY <1>1, <1>2 DEF Inv, Where, Runs
  <1>4. "finished" \notin flags[current[c]] /\ current[c] \in spawned
    BY <1>1, <1>3, Places1 DEF Inv, Standing
  <1>5. ~IsReady(current[c])
    BY <1>1, <1>3, Places1 DEF Inv, Where, Readies
  <1>6. QED BY <1>1, <1>3, <1>4, <1>5 DEF IsReady

\* The process a core has in hand; after the first stop of a kick it has finished.
LEMMA HandIs ==
  ASSUME NEW w, Inv(w), NEW c \in Core, pc[c] \in {"claim", "load", "fork", "kick", "wakeup"},
         arg[c] # None
  PROVE  /\ arg[c] \in Proc /\ w[arg[c]] = HandOf(c) /\ heap.owner[arg[c]] = None
         /\ arg[c] \in spawned
         /\ pc[c] # "kick" => "finished" \notin flags[arg[c]] /\ saved[arg[c]] # "none"
  <1>1. arg[c] \in Proc
    BY DEF Inv, TypeOK
  <1>2. InHand(c, arg[c])
    BY DEF InHand
  <1>3. w[arg[c]] = HandOf(c)
    BY <1>1, <1>2 DEF Inv, Where, Hands
  <1>4. ~IsReady(arg[c])
    BY <1>1, <1>3, Places1 DEF Inv, Where, Readies
  <1>5. Standing(w, arg[c])
    BY <1>1 DEF Inv
  <1>6. pc[c] # "kick" => "finished" \notin flags[arg[c]]
    BY <1>3, <1>5, Places1 DEF Standing
  <1>7. arg[c] \in spawned
    BY <1>3, <1>5, Places1 DEF Standing
  <1>8. ASSUME pc[c] # "kick", saved[arg[c]] = "none" PROVE FALSE
    <2>1. pc[BootCore] = "switch" /\ current[BootCore] = arg[c]
      BY <1>3, <1>5, <1>6, <1>8, Places1 DEF Standing
    <2>2. BootCore \in Core
      BY ProcessAssumption
    <2>3. Executing(BootCore)
      BY <1>1, <2>1, ProcessAssumption DEF Executing
    <2>4. CASE requeue[BootCore]
      BY <1>3, <2>1, <2>2, <2>3, <2>4, CurrentIs, Places1
    <2>5. CASE ~requeue[BootCore]
      BY <1>3, <2>1, <2>2, <2>5, Places1 DEF Inv, Path, Dormant
    <2>6. QED BY <2>4, <2>5
  <1>9. QED BY <1>1, <1>3, <1>4, <1>6, <1>7, <1>8 DEF IsReady

LEMMA DormantIs ==
  ASSUME NEW w, Inv(w), NEW p \in Proc, Dormant(w, p)
  PROVE  "finished" \notin flags[p] /\ heap.owner[p] = None /\ p \in spawned /\ Dozes
  <1>1. "finished" \notin flags[p] /\ p \in spawned
    BY Places1 DEF Inv, Standing, Dormant
  <1>2. ~IsReady(p)
    BY Places1 DEF Inv, Where, Readies, Dormant
  <1>3. CASE w[p] = Asleep
    <2>1. Dozing(p)
      BY <1>3 DEF Inv, Where, Sleeps
    <2>2. sleepers # <<>>
      BY <2>1 DEF Dozing
    <2>3. QED BY <1>1, <1>2, <2>2 DEF Inv, Queues, Dozes, IsReady
  <1>4. CASE \E q \in Queue : w[p] = Awaits(q)
    <2>1. PICK q \in Queue : w[p] = Awaits(q)
      BY <1>4
    <2>2. \E i \in DOMAIN waiters[q] : waiters[q][i] = p
      BY <2>1 DEF Inv, Where, Waits
    <2>3. waiters[q] # <<>>
      BY <2>2
    <2>4. QED BY <1>1, <1>2, <2>3 DEF Inv, Queues, Dozes, IsReady
  <1>5. QED BY <1>3, <1>4 DEF Dormant
----------------------------------------------------------------------------
(* One core does something and at most one process changes its place        *)

Mine(c, y) == \A d \in Core \ {c} : y # OnCore(d) /\ y # HandOf(d)

OthersKeep(c) ==
  \A d \in Core \ {c} : pc'[d] = pc[d] /\ current'[d] = current[d] /\ arg'[d] = arg[d]
                        /\ requeue'[d] = requeue[d] /\ waking'[d] = waking[d]

Unless(p) ==
  \A q \in Proc \ {p} : /\ "finished" \in flags'[q] <=> "finished" \in flags[q]
                        /\ saved'[q] = saved[q]
                        /\ heap'.owner[q] = heap.owner[q]
                        /\ q \in spawned' <=> q \in spawned

\* Core c moves process p, if that is one, from its place in w to x; u is the result.
Moves(w, u, c, p, x) ==
  /\ c \in Core /\ (c = BootCore \/ Simple) /\ p \in Proc \union {None} /\ x \in Place
  /\ u = [q \in Proc |-> IF q = p THEN x ELSE w[q]]
  /\ setup' = setup /\ asserted' = asserted /\ OthersKeep(c) /\ Unless(p)
  /\ p \in Proc => Mine(c, w[p]) /\ Mine(c, x) /\ (heap'.owner[p] # None <=> x = InReady)
  /\ p \in Proc => Standing(u, p)'
  /\ pc[c] = "kick" => arg[c] = p
  /\ pc[c] = "switch" => current[c] = p
  /\ TypeOK' /\ Whole(heap')
  /\ \A q \in Proc : Keeps(c, q)' <=> u[q] = OnCore(c)
  /\ \A q \in Proc : InHand(c, q)' <=> u[q] = HandOf(c)
  /\ Path(u, c)'

\* What it does to the queues agrees as well.
Requeues(u) == Sleeps(u)' /\ Waits(u)' /\ Queues' /\ Owners(u)'

LEMMA Moved ==
  ASSUME NEW w, Inv(w), NEW u, NEW c, NEW p, NEW x, Moves(w, u, c, p, x), Requeues(u)
  PROVE  ProcessInv'
  <1>1. /\ c \in Core /\ (c = BootCore \/ Simple) /\ p \in Proc \union {None} /\ x \in Place
        /\ u = [q \in Proc |-> IF q = p THEN x ELSE w[q]]
        /\ setup' = setup /\ OthersKeep(c) /\ Unless(p)
        /\ p \in Proc => Mine(c, w[p]) /\ Mine(c, x)
    BY DEF Moves
  <1>2. w \in [Proc -> Place] /\ Where(w) /\ BootCore \in Core /\ None \notin Proc
    BY ProcessAssumption DEF Inv
  <1>3. u \in [Proc -> Place] /\ (Simple' <=> Simple) /\ (Dozes' <=> Dozes) /\ (Sound(setup)' <=> Sound(setup))
    BY <1>1, <1>2 DEF Simple, Dozes
  <1>4. \A q \in Proc : u[q] = IF q = p THEN x ELSE w[q]
    BY <1>1
  <1>5. ASSUME NEW d \in Core \ {c}, NEW q \in Proc
        PROVE  (w[q] = OnCore(d) <=> u[q] = OnCore(d)) /\ (w[q] = HandOf(d) <=> u[q] = HandOf(d))
    BY <1>1, <1>4 DEF Mine
  <1>6. Runs(u)'
    <2>1. ASSUME NEW d \in Core, NEW q \in Proc PROVE Keeps(d, q)' <=> u[q] = OnCore(d)
      <3>1. CASE d = c
        BY <3>1 DEF Moves
      <3>2. CASE d # c
        <4>1. Keeps(d, q)' <=> Keeps(d, q)
          BY <1>1, <3>2 DEF OthersKeep, Keeps, Executing
        <4>2. Keeps(d, q) <=> w[q] = OnCore(d)
          BY <1>2 DEF Where, Runs
        <4>3. QED BY <1>5, <3>2, <4>1, <4>2
      <3>3. QED BY <3>1, <3>2
    <2>2. QED BY <2>1 DEF Runs
  <1>7. Hands(u)'
    <2>1. ASSUME NEW d \in Core, NEW q \in Proc PROVE InHand(d, q)' <=> u[q] = HandOf(d)
      <3>1. CASE d = c
        BY <3>1 DEF Moves
      <3>2. CASE d # c
        <4>1. InHand(d, q)' <=> InHand(d, q)
          BY <1>1, <3>2 DEF OthersKeep, InHand
        <4>2. InHand(d, q) <=> w[q] = HandOf(d)
          BY <1>2 DEF Where, Hands
        <4>3. QED BY <1>5, <3>2, <4>1, <4>2
      <3>3. QED BY <3>1, <3>2
    <2>2. QED BY <2>1 DEF Hands
  <1>8. Readies(u)'
    <2>1. ASSUME NEW q \in Proc PROVE heap'.owner[q] # None <=> u[q] = InReady
      <3>1. CASE q = p
        BY <1>4, <3>1 DEF Moves
      <3>2. CASE q # p
        BY <1>1, <1>2, <1>4, <3>2 DEF Unless, Where, Readies, IsReady
      <3>3. QED BY <3>1, <3>2
    <2>2. QED BY <2>1 DEF Readies, IsReady
  <1>9. ASSUME NEW d \in Core PROVE Path(u, d)'
    <2>1. CASE d = c
      BY <2>1 DEF Moves
    <2>2. CASE d # c /\ ~Simple
      <3>1. pc[d] = "idle" /\ current[d] = None
        BY <2>2, <1>1, Solo
      <3>2. pc'[d] = "idle" /\ current'[d] = None
        BY <1>1, <2>2, <3>1 DEF OthersKeep
      <3>3. QED BY <3>2 DEF Path
    <2>3. CASE d # c /\ Simple
      <3>1. Path(w, d) /\ ~Dozes /\ Simple /\ "kill" \notin setup.calls
        BY <2>3 DEF Inv, Simple, Dozes
      <3>2. pc[d] \notin {"expire", "expired", "waking", "wakeup", "kill", "kick"}
            /\ (pc[d] = "switch" => requeue[d])
        BY <3>1 DEF Path, Dozes
      <3>3. /\ pc'[d] = pc[d] /\ current'[d] = current[d] /\ arg'[d] = arg[d]
            /\ requeue'[d] = requeue[d] /\ Simple'
        BY <1>1, <1>3, <2>3 DEF OthersKeep
      <3>4. pc[d] = "requeue" => saved'[current[d]] = "kernel"
        <4>1. SUFFICES ASSUME pc[d] = "requeue" PROVE saved'[current[d]] = "kernel"
          OBVIOUS
        <4>2. Executing(d) /\ saved[current[d]] = "kernel"
          BY <3>1, <4>1 DEF Executing, Path
        <4>3. current[d] \in Proc /\ w[current[d]] = OnCore(d)
          BY <4>1, <4>2, CurrentIs
        <4>4. current[d] # p
          BY <1>1, <2>3, <4>3 DEF Mine
        <4>5. QED BY <1>1, <4>2, <4>3, <4>4 DEF Unless
      <3>5. QED BY <3>1, <3>2, <3>3, <3>4 DEF Path
    <2>4. QED BY <2>1, <2>2, <2>3
  <1>10. ASSUME NEW q \in Proc PROVE Standing(u, q)'
    <2>1. CASE q = p
      BY <2>1 DEF Moves
    <2>2. CASE q # p
      <3>1. /\ "finished" \in flags'[q] <=> "finished" \in flags[q]
            /\ saved'[q] = saved[q] /\ (q \in spawned' <=> q \in spawned) /\ u[q] = w[q]
        BY <1>1, <1>4, <2>2 DEF Unless
      <3>2. Standing(w, q)
        BY DEF Inv
      <3>3. ASSUME NEW d \in Core, pc[d] = "kick", w[q] = HandOf(d) PROVE pc'[d] = "kick"
        <4>1. CASE d = c
          <5>1. InHand(c, q)
            BY <1>2, <3>3, <4>1 DEF Where, Hands
          <5>2. arg[c] = q /\ arg[c] = p
            BY <3>3, <4>1, <5>1 DEF InHand, Moves
          <5>3. QED BY <2>2, <5>2
        <4>2. CASE d # c
          BY <1>1, <3>3, <4>2 DEF OthersKeep
        <4>3. QED BY <4>1, <4>2
      <3>4. pc[BootCore] = "switch" /\ current[BootCore] = q
              => pc'[BootCore] = "switch" /\ current'[BootCore] = q
        <4>1. CASE BootCore = c
          BY <2>2, <4>1 DEF Moves
        <4>2. CASE BootCore # c
          BY <1>1, <1>2, <4>2 DEF OthersKeep
        <4>3. QED BY <4>1, <4>2
      <3>5. QED BY <3>1, <3>2, <3>3, <3>4 DEF Standing
    <2>3. QED BY <2>1, <2>2
  <1>11. Inv(u)'
    <2>1. TypeOK' /\ Whole(heap)' /\ AssertHolds' /\ Sound(setup)'
      BY <1>3 DEF Moves, Inv, AssertHolds
    <2>2. Sleeps(u)' /\ Waits(u)' /\ Queues' /\ Owners(u)'
      BY DEF Requeues
    <2>3. QED BY <1>3, <1>6, <1>7, <1>8, <1>9, <1>10, <2>1, <2>2 DEF Inv, Where
  <1>12. QED BY <1>3, <1>11 DEF ProcessInv
(* The sleep queue and the wait queues do not change.                       *)
LEMMA QueuesKeep ==
  ASSUME NEW w, Inv(w), NEW u, NEW c, NEW p, NEW x, Moves(w, u, c, p, x),
         UNCHANGED <<sleepers, waiters, nodeOwner>>,
         pc'[BootCore] = "expired" <=> pc[BootCore] = "expired",
         p \in Proc => x = w[p] \/ (~Dormant(w, p) /\ x # Asleep /\ \A q \in Queue : x # Awaits(q))
  PROVE  ProcessInv'
  <1>1. /\ c \in Core /\ p \in Proc \union {None} /\ setup' = setup
        /\ u = [q \in Proc |-> IF q = p THEN x ELSE w[q]] /\ x \in Place
    BY DEF Moves
  <1>2. w \in [Proc -> Place] /\ Where(w) /\ Queues /\ Owners(w)
    BY DEF Inv
  <1>3. ASSUME NEW q \in Proc
        PROVE  /\ u[q] = Asleep <=> w[q] = Asleep
               /\ \A r \in Queue : u[q] = Awaits(r) <=> w[q] = Awaits(r)
    BY <1>1 DEF Dormant
  <1>4. Sleeps(u)'
    BY <1>2, <1>3 DEF Where, Sleeps, Dozing
  <1>5. Waits(u)'
    BY <1>2, <1>3 DEF Where, Waits
  <1>6. Queues'
    BY <1>1, <1>2 DEF Queues
  <1>7. Owners(u)'
    <2>1. \A q \in Proc : Dormant(u, q) <=> Dormant(w, q)
      BY <1>3 DEF Dormant
    <2>2. Dozes' <=> Dozes
      BY <1>1 DEF Dozes
    <2>3. QED BY <1>2, <2>1, <2>2 DEF Owners, Dormant
  <1>8. QED BY <1>4, <1>5, <1>6, <1>7, Moved DEF Requeues

LEMMA NonEmpty ==
  ASSUME NEW T, NEW s \in Seq(T), s # <<>>
  PROVE  /\ Len(s) \in Nat \ {0} /\ DOMAIN s = 1 .. Len(s) /\ 1 \in DOMAIN s /\ Len(s) \in DOMAIN s
         /\ Head(s) = s[1] /\ \A i \in DOMAIN s : s[i] \in T
  OBVIOUS

Labels == KernelPc \union {"user", "idle"}

LEMMA Went ==
  ASSUME TypeOK, NEW c \in Core, NEW label \in Labels, Goto(c, label)
  PROVE  pc' \in [Core -> Labels] /\ pc'[c] = label /\ \A d \in Core \ {c} : pc'[d] = pc[d]
  BY DEF TypeOK, Goto, Labels

----------------------------------------------------------------------------
(* Scheduling                                                               *)

LEMMA SwitchStep ==
  ASSUME NEW w, Inv(w), NEW c \in Core, Switch(c)
  PROVE  ProcessInv'
  <1>1. /\ TypeOK /\ w \in [Proc -> Place] /\ pc[c] = "switch" /\ ~asserted
        /\ UNCHANGED <<heap, queueLock, spawned, flags, current, arg, requeue, sleeps, blocks, rest>>
    BY DEF Switch, At, Inv
  <1>2. PICK p : p = current[c]
    OBVIOUS
  <1>3. p \in Proc
    BY <1>1, <1>2 DEF Inv, Path, TypeOK
  <1>4. requeue[c] => w[p] = OnCore(c) /\ "finished" \notin flags[p]
    <2>1. Executing(c)
      BY <1>1, <1>2, <1>3, ProcessAssumption DEF Executing
    <2>2. QED BY <1>2, <2>1, CurrentIs
  <1>5. ~requeue[c] => Dozes /\ Dormant(w, p)
    BY <1>1, <1>2 DEF Inv, Path
  <1>6. "finished" \notin flags[p]
    BY <1>3, <1>4, <1>5, DormantIs
  <1>7. PICK label : label = IF requeue[c] THEN "requeue" ELSE "next"
    OBVIOUS
  <1>8. saved' = [saved EXCEPT ![p] = "kernel"] /\ Goto(c, label)
    BY <1>2, <1>6, <1>7 DEF Switch
  <1>9. pc' \in [Core -> Labels] /\ pc'[c] = label /\ \A d \in Core \ {c} : pc'[d] = pc[d]
    BY <1>1, <1>7, <1>8, Went DEF Labels, KernelPc
  <1>10. Moves(w, w, c, p, w[p])
    <2>1. c = BootCore \/ Simple
      BY <1>1, Active
    <2>2. TypeOK'
      BY <1>1, <1>3, <1>8, <1>9 DEF TypeOK, sleeps, blocks, rest, Labels
    <2>3. Whole(heap')
      BY <1>1 DEF Inv
    <2>4. Mine(c, w[p])
      BY <1>4, <1>5, Places1 DEF Mine, Dormant
    <2>5. OthersKeep(c) /\ Unless(p) /\ saved'[p] = "kernel"
      BY <1>1, <1>3, <1>8, <1>9 DEF OthersKeep, Unless, blocks, TypeOK
    <2>6. heap'.owner[p] # None <=> w[p] = InReady
      BY <1>1, <1>3 DEF Inv, Where, Readies, IsReady
    <2>7. \A q \in Proc : Keeps(c, q)' <=> w[q] = OnCore(c)
      <3>1. \A q \in Proc : Keeps(c, q)' <=> Keeps(c, q)
        BY <1>1, <1>7, <1>9 DEF Keeps, Executing
      <3>2. QED BY <3>1 DEF Inv, Where, Runs
    <2>8. \A q \in Proc : InHand(c, q)' <=> w[q] = HandOf(c)
      <3>1. \A q \in Proc : InHand(c, q)' <=> InHand(c, q)
        BY <1>1, <1>7, <1>9 DEF InHand
      <3>2. QED BY <3>1 DEF Inv, Where, Hands
    <2>9. Path(w, c)'
      <3>1. Path(w, c)
        BY DEF Inv
      <3>2. QED BY <1>1, <1>2, <1>7, <1>9, <2>5, <3>1 DEF Path, rest, Simple, Dozes
    <2>10. Standing(w, p)'
      <3>1. Standing(w, p)
        BY <1>3 DEF Inv
      <3>2. QED BY <1>1, <1>6, <2>5, <3>1 DEF Standing
    <2>11. w = [q \in Proc |-> IF q = p THEN w[p] ELSE w[q]]
      BY <1>1
    <2>12. w[p] \in Place
      BY <1>1, <1>3
    <2>13. QED BY <1>1, <1>2, <1>3, <2>1, <2>2, <2>3, <2>4, <2>5, <2>6, <2>7, <2>8, <2>9, <2>10, <2>11, <2>12
               DEF Moves, rest
  <1>11. pc'[BootCore] = "expired" <=> pc[BootCore] = "expired"
    BY <1>1, <1>7, <1>9, ProcessAssumption
  <1>12. UNCHANGED <<sleepers, waiters, nodeOwner>>
    BY <1>1 DEF sleeps, blocks, rest
  <1>13. QED BY <1>10, <1>11, <1>12, QueuesKeep
LEMMA RequeueStep ==
  ASSUME NEW w, Inv(w), NEW c \in Core, Requeue(c)
  PROVE  ProcessInv'
  <1>1. /\ TypeOK /\ w \in [Proc -> Place] /\ pc[c] = "requeue" /\ Executing(c)
        /\ UNCHANGED <<queueLock, spawned, flags, saved, current, arg, requeue, sleepers, sleepLock, blocks, rest>>
    BY DEF Requeue, At, Inv, Path, Executing
  <1>2. PICK p : p = current[c]
    OBVIOUS
  <1>3. /\ p \in Proc /\ w[p] = OnCore(c) /\ "finished" \notin flags[p] /\ p \in spawned
        /\ heap.owner[p] = None /\ saved[p] = "kernel"
    <2>1. saved[p] = "kernel"
      BY <1>1, <1>2 DEF Inv, Path
    <2>2. QED BY <1>1, <1>2, <2>1, CurrentIs
  <1>4. heap' = L!PrependNode(heap, Ready, p) /\ left' = [left EXCEPT ![p] = 0] /\ Goto(c, "next")
    BY <1>2 DEF Requeue, MakeReady
  <1>5. Whole(heap') /\ \A m \in Proc : heap'.owner[m] = IF m = p THEN Ready ELSE heap.owner[m]
    BY <1>3, <1>4, MadeReady DEF Inv
  <1>6. pc' \in [Core -> Labels] /\ pc'[c] = "next" /\ \A d \in Core \ {c} : pc'[d] = pc[d]
    BY <1>1, <1>4, Went DEF Labels, KernelPc
  <1>7. PICK u : u = [q \in Proc |-> IF q = p THEN InReady ELSE w[q]]
    OBVIOUS
  <1>8. Moves(w, u, c, p, InReady)
    <2>1. c = BootCore \/ Simple
      BY <1>1, Active
    <2>2. TypeOK'
      <3>1. heap' \in L!Heap
        BY <1>5, WholeHeap
      <3>2. QED BY <1>1, <1>3, <1>4, <1>6, <3>1, ProcessAssumption DEF TypeOK, blocks, rest, Labels
    <2>3. Mine(c, w[p]) /\ Mine(c, InReady) /\ InReady \in Place
      BY <1>3, Places1, PlaceTypes DEF Mine
    <2>4. OthersKeep(c) /\ Unless(p)
      BY <1>1, <1>5, <1>6 DEF OthersKeep, Unless, blocks
    <2>5. heap'.owner[p] # None
      BY <1>3, <1>5, ProcessAssumption
    <2>6. \A q \in Proc : Keeps(c, q)' <=> u[q] = OnCore(c)
      <3>1. \A q \in Proc : w[q] = OnCore(c) => q = p
        BY <1>2 DEF Inv, Where, Runs, Keeps
      <3>2. QED BY <1>6, <1>7, <3>1, Places1 DEF Keeps, Executing
    <2>7. \A q \in Proc : InHand(c, q)' <=> u[q] = HandOf(c)
      <3>1. \A q \in Proc : w[q] # HandOf(c)
        BY <1>1 DEF Inv, Where, Hands, InHand
      <3>2. QED BY <1>6, <1>7, <3>1, Places1 DEF InHand
    <2>8. Path(u, c)'
      <3>1. c \in setup.cores \/ Simple
        BY <1>1 DEF Inv, Path
      <3>2. QED BY <1>1, <1>6, <3>1 DEF Path, rest, Simple
    <2>9. Standing(u, p)'
      BY <1>1, <1>3, <1>7, Places1 DEF Standing
    <2>10. QED BY <1>1, <1>2, <1>3, <1>5, <1>6, <1>7, <2>1, <2>2, <2>3, <2>4, <2>5, <2>6, <2>7, <2>8, <2>9
               DEF Moves, rest
  <1>9. pc'[BootCore] = "expired" <=> pc[BootCore] = "expired"
    BY <1>1, <1>6, ProcessAssumption
  <1>10. UNCHANGED <<sleepers, waiters, nodeOwner>>
    BY <1>1 DEF blocks, rest
  <1>11. ~Dormant(w, p) /\ InReady # Asleep /\ \A q \in Queue : InReady # Awaits(q)
    BY <1>3, Places1 DEF Dormant
  <1>12. QED BY <1>8, <1>9, <1>10, <1>11, QueuesKeep

(* No process changes its place.                                            *)
Stays(w, c) ==
  /\ c \in Core /\ (c = BootCore \/ Simple) /\ pc[c] \notin {"kick", "switch"}
  /\ setup' = setup /\ asserted' = asserted /\ OthersKeep(c) /\ Unless(None)
  /\ TypeOK' /\ Whole(heap')
  /\ \A q \in Proc : Keeps(c, q)' <=> Keeps(c, q)
  /\ \A q \in Proc : InHand(c, q)' <=> InHand(c, q)
  /\ Path(w, c)'
  /\ UNCHANGED <<sleepers, waiters, nodeOwner>>
  /\ pc'[c] = "expired" <=> pc[c] = "expired"

LEMMA Stayed ==
  ASSUME NEW w, Inv(w), NEW c, Stays(w, c)
  PROVE  ProcessInv'
  <1>1. /\ c \in Core /\ (c = BootCore \/ Simple) /\ pc[c] \notin {"kick", "switch"} /\ Path(w, c)'
        /\ setup' = setup /\ asserted' = asserted /\ OthersKeep(c) /\ Unless(None)
        /\ TypeOK' /\ Whole(heap') /\ UNCHANGED <<sleepers, waiters, nodeOwner>>
        /\ pc'[c] = "expired" <=> pc[c] = "expired"
    BY DEF Stays
  <1>2. w \in [Proc -> Place] /\ None \notin Proc /\ Gone \in Place /\ BootCore \in Core
    BY PlaceTypes, ProcessAssumption DEF Inv
  <1>3. w = [q \in Proc |-> IF q = None THEN Gone ELSE w[q]]
    BY <1>2
  <1>4. \A q \in Proc : Keeps(c, q)' <=> w[q] = OnCore(c)
    BY <1>1 DEF Stays, Inv, Where, Runs
  <1>5. \A q \in Proc : InHand(c, q)' <=> w[q] = HandOf(c)
    BY <1>1 DEF Stays, Inv, Where, Hands
  <1>6. Moves(w, w, c, None, Gone)
    BY <1>1, <1>2, <1>3, <1>4, <1>5 DEF Moves
  <1>7. pc'[BootCore] = "expired" <=> pc[BootCore] = "expired"
    BY <1>1, <1>2 DEF OthersKeep
  <1>8. QED BY <1>1, <1>2, <1>6, <1>7, QueuesKeep

LEMMA ClaimStep ==
  ASSUME NEW w, Inv(w), NEW c \in Core, Claim(c)
  PROVE  ProcessInv'
  <1>1. /\ TypeOK /\ w \in [Proc -> Place] /\ pc[c] = "claim" /\ Goto(c, "load") /\ ~asserted
        /\ UNCHANGED <<heap, spawned, saved, current, arg, requeue, sleeps, blocks, nodeOwner, pending, setup>>
        /\ queueLock' = None
    BY DEF Claim, At, Inv
  <1>2. asserted' = asserted
    <2>1. arg[c] # None => "finished" \notin flags[arg[c]]
      BY <1>1, HandIs
    <2>2. asserted' = FALSE
      BY <2>1 DEF Claim
    <2>3. asserted = FALSE
      BY <1>1 DEF TypeOK
    <2>4. QED BY <2>2, <2>3
  <1>3. flags' = [p \in Proc |-> IF p = arg[c] THEN flags[p] \union {"running"} ELSE flags[p]]
    BY <1>1, <1>2 DEF Claim
  <1>4. flags' \in [Proc -> SUBSET {"running", "finished", "sleeping"}]
        /\ \A q \in Proc : "finished" \in flags'[q] <=> "finished" \in flags[q]
    <2>1. flags \in [Proc -> SUBSET {"running", "finished", "sleeping"}]
      BY <1>1 DEF TypeOK
    <2>2. ASSUME NEW q \in Proc PROVE /\ flags'[q] \in SUBSET {"running", "finished", "sleeping"}
                                      /\ "finished" \in flags'[q] <=> "finished" \in flags[q]
      <3>1. flags'[q] = flags[q] \/ flags'[q] = flags[q] \union {"running"}
        BY <1>3
      <3>2. QED BY <2>1, <3>1
    <2>3. QED BY <1>3, <2>2
  <1>5. pc' \in [Core -> Labels] /\ pc'[c] = "load" /\ \A d \in Core \ {c} : pc'[d] = pc[d]
    BY <1>1, Went DEF Labels, KernelPc
  <1>6. Stays(w, c)
    <2>1. c = BootCore \/ Simple
      BY <1>1, Active
    <2>2. TypeOK'
      BY <1>1, <1>2, <1>4, <1>5 DEF TypeOK, sleeps, blocks, Labels
    <2>3. OthersKeep(c) /\ Unless(None)
      BY <1>1, <1>4, <1>5 DEF OthersKeep, Unless, blocks
    <2>4. Path(w, c)'
      <3>1. c \in setup.cores \/ Simple
        BY <1>1 DEF Inv, Path
      <3>2. QED BY <1>1, <1>5, <3>1 DEF Path, Simple
    <2>5. Whole(heap')
      BY <1>1 DEF Inv
    <2>6. /\ \A q \in Proc : Keeps(c, q)' <=> Keeps(c, q)
          /\ \A q \in Proc : InHand(c, q)' <=> InHand(c, q)
      BY <1>1, <1>5 DEF Keeps, Executing, InHand
    <2>7. UNCHANGED <<sleepers, waiters, nodeOwner>>
      BY <1>1 DEF sleeps, blocks
    <2>8. QED BY <1>1, <1>2, <1>5, <2>1, <2>2, <2>3, <2>4, <2>5, <2>6, <2>7 DEF Stays
  <1>7. QED BY <1>6, Stayed
\* Nothing is on this core's stack, or in its hands, but what the code says.
LEMMA Located ==
  ASSUME NEW w, Inv(w), NEW c \in Core, NEW q \in Proc
  PROVE  /\ w[q] = OnCore(c) => current[c] = q /\ Executing(c) /\ (pc[c] = "switch" => requeue[c])
         /\ w[q] = HandOf(c) => arg[c] = q /\ pc[c] \in {"claim", "load", "fork", "kick", "wakeup"}
  BY DEF Inv, Where, Runs, Hands, Keeps, InHand

LEMMA PickStep ==
  ASSUME NEW w, Inv(w), NEW c \in Core, Pick(c)
  PROVE  ProcessInv'
  <1>1. /\ TypeOK /\ w \in [Proc -> Place] /\ pc[c] = "next" /\ queueLock' = c /\ Whole(heap)
        /\ UNCHANGED <<spawned, flags, saved, current, requeue, sleeps, blocks, rest>>
    BY DEF Pick, At, Inv
  <1>2. (c = BootCore \/ Simple) /\ (c \in setup.cores \/ Simple)
    BY <1>1, Active DEF Inv, Path
  <1>3. UNCHANGED <<sleepers, waiters, nodeOwner, setup, asserted>>
    BY <1>1 DEF sleeps, blocks, rest
  <1>4. \A q \in Proc : w[q] # OnCore(c) /\ w[q] # HandOf(c)
    BY <1>1, Located DEF Executing
  <1>5. PICK p : p = heap.tail[Ready]
    OBVIOUS
  <1>6. CASE p = None
    <2>1. arg' = [arg EXCEPT ![c] = None] /\ Goto(c, "claim") /\ UNCHANGED heap
      BY <1>5, <1>6 DEF Pick
    <2>2. pc' \in [Core -> Labels] /\ pc'[c] = "claim" /\ \A d \in Core \ {c} : pc'[d] = pc[d]
      BY <1>1, <2>1, Went DEF Labels, KernelPc
    <2>3. arg' \in [Core -> Proc \union {None}] /\ arg'[c] = None /\ \A d \in Core \ {c} : arg'[d] = arg[d]
      BY <1>1, <2>1 DEF TypeOK
    <2>4. Stays(w, c)
      <3>1. TypeOK'
        BY <1>1, <2>1, <2>2, <2>3 DEF TypeOK, sleeps, blocks, rest, Labels
      <3>2. OthersKeep(c) /\ Unless(None)
        BY <1>1, <2>1, <2>2, <2>3 DEF OthersKeep, Unless, blocks
      <3>3. Path(w, c)'
        BY <1>1, <1>2, <1>3, <2>2 DEF Path, Simple
      <3>4. /\ \A q \in Proc : Keeps(c, q)' <=> Keeps(c, q)
            /\ \A q \in Proc : InHand(c, q)' <=> InHand(c, q)
        BY <1>1, <2>2, <2>3, ProcessAssumption DEF Keeps, Executing, InHand
      <3>5. QED BY <1>1, <1>2, <1>3, <2>1, <2>2, <3>1, <3>2, <3>3, <3>4 DEF Stays
    <2>5. QED BY <2>4, Stayed
  <1>7. CASE p # None
    <2>1. /\ heap' = L!PopBackNode(heap, Ready)
          /\ \/ "finished" \in flags[p] /\ UNCHANGED <<arg, pc>>
             \/ "finished" \notin flags[p] /\ arg' = [arg EXCEPT ![c] = p] /\ Goto(c, "claim")
      BY <1>5, <1>7 DEF Pick
    <2>2. /\ Whole(heap') /\ p \in Proc /\ heap.owner[p] = Ready
          /\ \A m \in Proc : heap'.owner[m] = IF m = p THEN None ELSE heap.owner[m]
      BY <1>1, <1>5, <1>7, <2>1, Popped
    <2>3. w[p] = InReady
      BY <2>2, ProcessAssumption DEF Inv, Where, Readies, IsReady
    <2>4. heap' \in L!Heap
      BY <2>2, WholeHeap
    <2>5. PICK x : x = IF "finished" \in flags[p] THEN Gone ELSE HandOf(c)
      OBVIOUS
    <2>6. PICK label : label = IF "finished" \in flags[p] THEN "next" ELSE "claim"
      OBVIOUS
    <2>7. pc' \in [Core -> Labels] /\ pc'[c] = label /\ \A d \in Core \ {c} : pc'[d] = pc[d]
      <3>1. CASE "finished" \in flags[p]
        BY <1>1, <2>1, <2>6, <3>1 DEF TypeOK, Labels
      <3>2. CASE "finished" \notin flags[p]
        BY <1>1, <2>1, <2>6, <3>2, Went DEF Labels, KernelPc
      <3>3. QED BY <3>1, <3>2
    <2>8. arg' \in [Core -> Proc \union {None}] /\ (label = "claim" => arg'[c] = p) /\ \A d \in Core \ {c} : arg'[d] = arg[d]
      <3>1. CASE "finished" \in flags[p]
        BY <1>1, <2>1, <2>6, <3>1 DEF TypeOK
      <3>2. CASE "finished" \notin flags[p]
        <4>1. arg' = [arg EXCEPT ![c] = p]
          BY <2>1, <3>2
        <4>2. QED BY <1>1, <2>2, <4>1 DEF TypeOK
      <3>3. QED BY <3>1, <3>2
    <2>9. PICK u : u = [q \in Proc |-> IF q = p THEN x ELSE w[q]]
      OBVIOUS
    <2>10. Moves(w, u, c, p, x)
      <3>1. TypeOK'
        BY <1>1, <2>4, <2>7, <2>8 DEF TypeOK, sleeps, blocks, rest, Labels
      <3>2. OthersKeep(c) /\ Unless(p)
        BY <1>1, <2>2, <2>7, <2>8 DEF OthersKeep, Unless, blocks
      <3>3. Mine(c, w[p]) /\ Mine(c, x) /\ x \in Place
        BY <2>3, <2>5, Places1, PlaceTypes DEF Mine
      <3>4. heap'.owner[p] = None /\ x # InReady
        BY <2>2, <2>5, Places1
      <3>5. \A q \in Proc : Keeps(c, q)' <=> u[q] = OnCore(c)
        BY <1>4, <2>5, <2>6, <2>7, <2>9, Places1 DEF Keeps, Executing
      <3>6. \A q \in Proc : InHand(c, q)' <=> u[q] = HandOf(c)
        BY <1>4, <2>5, <2>6, <2>7, <2>8, <2>9, Places1 DEF InHand
      <3>7. Path(u, c)'
        BY <1>2, <1>3, <2>6, <2>7 DEF Path, Simple
      <3>8. Standing(u, p)'
        <4>1. Standing(w, p)
          BY <2>2 DEF Inv
        <4>2. saved[p] # "none" \/ "finished" \in flags[p]
          <5>1. SUFFICES ASSUME saved[p] = "none", "finished" \notin flags[p] PROVE FALSE
            OBVIOUS
          <5>2. pc[BootCore] = "switch" /\ current[BootCore] = p
            BY <2>3, <4>1, <5>1, Places1 DEF Standing
          <5>3. BootCore \in Core /\ Executing(BootCore)
            BY <2>2, <5>2, ProcessAssumption DEF Executing
          <5>4. CASE requeue[BootCore]
            BY <2>3, <5>2, <5>3, <5>4, CurrentIs, Places1
          <5>5. CASE ~requeue[BootCore]
            BY <2>3, <5>2, <5>3, <5>5, Places1 DEF Inv, Path, Dormant
          <5>6. QED BY <5>4, <5>5
        <4>3. p \in spawned
          BY <2>3, <4>1, Places1 DEF Standing
        <4>4. QED BY <1>1, <2>2, <2>5, <2>9, <4>2, <4>3, Places1 DEF Standing
      <3>9. QED BY <1>1, <1>2, <1>3, <2>2, <2>9, <3>1, <3>2, <3>3, <3>4, <3>5, <3>6, <3>7, <3>8 DEF Moves
    <2>11. pc'[BootCore] = "expired" <=> pc[BootCore] = "expired"
      BY <1>1, <2>6, <2>7, ProcessAssumption
    <2>12. ~Dormant(w, p) /\ x # Asleep /\ \A q \in Queue : x # Awaits(q)
      BY <2>3, <2>5, Places1 DEF Dormant
    <2>13. QED BY <1>3, <2>10, <2>11, <2>12, QueuesKeep
  <1>8. QED BY <1>6, <1>7
LEMMA LoadStep ==
  ASSUME NEW w, Inv(w), NEW c \in Core, Load(c)
  PROVE  ProcessInv'
  <1>1. /\ TypeOK /\ w \in [Proc -> Place] /\ pc[c] = "load" /\ Whole(heap)
        /\ current' = [current EXCEPT ![c] = arg[c]]
        /\ UNCHANGED <<heap, queueLock, spawned, flags, arg, requeue, sleeps, blocks, rest>>
    BY DEF Load, At, Inv
  <1>2. (c = BootCore \/ Simple) /\ (c \in setup.cores \/ Simple)
    BY <1>1, Active DEF Inv, Path
  <1>3. UNCHANGED <<sleepers, waiters, nodeOwner, setup, asserted>>
    BY <1>1 DEF sleeps, blocks, rest
  <1>4. \A q \in Proc : w[q] # OnCore(c) /\ (w[q] = HandOf(c) => q = arg[c])
    BY <1>1, Located DEF Executing
  <1>5. /\ current' \in [Core -> Proc \union {None}] /\ current'[c] = arg[c]
        /\ \A d \in Core \ {c} : current'[d] = current[d]
    BY <1>1 DEF TypeOK
  <1>6. CASE arg[c] = None
    <2>1. Goto(c, "idle") /\ UNCHANGED saved
      BY <1>6 DEF Load
    <2>2. pc' \in [Core -> Labels] /\ pc'[c] = "idle" /\ \A d \in Core \ {c} : pc'[d] = pc[d]
      BY <1>1, <2>1, Went DEF Labels, KernelPc
    <2>3. Stays(w, c)
      <3>1. TypeOK'
        BY <1>1, <1>5, <2>1, <2>2 DEF TypeOK, sleeps, blocks, rest, Labels
      <3>2. OthersKeep(c) /\ Unless(None)
        BY <1>1, <1>5, <2>1, <2>2 DEF OthersKeep, Unless, blocks
      <3>3. Path(w, c)'
        BY <1>2, <1>3, <1>5, <1>6, <2>2 DEF Path, Simple
      <3>4. /\ \A q \in Proc : Keeps(c, q)' <=> Keeps(c, q)
            /\ \A q \in Proc : InHand(c, q)' <=> InHand(c, q)
        BY <1>1, <1>5, <1>6, <2>2, ProcessAssumption DEF Keeps, Executing, InHand
      <3>5. QED BY <1>1, <1>2, <1>3, <2>1, <2>2, <3>1, <3>2, <3>3, <3>4 DEF Stays
    <2>4. QED BY <2>3, Stayed
  <1>7. CASE arg[c] # None
    <2>1. PICK p : p = arg[c]
      OBVIOUS
    <2>2. /\ p \in Proc /\ w[p] = HandOf(c) /\ heap.owner[p] = None /\ p \in spawned
          /\ "finished" \notin flags[p]
      BY <1>1, <1>7, <2>1, HandIs
    <2>3. PICK label \in {"user", "return"} : Goto(c, label) /\ saved' = [saved EXCEPT ![p] = "none"]
      BY <1>7, <2>1 DEF Load
    <2>4. pc' \in [Core -> Labels] /\ pc'[c] = label /\ \A d \in Core \ {c} : pc'[d] = pc[d]
      BY <1>1, <2>3, Went DEF Labels, KernelPc
    <2>5. PICK u : u = [q \in Proc |-> IF q = p THEN OnCore(c) ELSE w[q]]
      OBVIOUS
    <2>6. Moves(w, u, c, p, OnCore(c))
      <3>1. TypeOK'
        BY <1>1, <1>5, <2>2, <2>3, <2>4 DEF TypeOK, sleeps, blocks, rest, Labels
      <3>2. OthersKeep(c) /\ Unless(p)
        BY <1>1, <1>5, <2>2, <2>3, <2>4 DEF OthersKeep, Unless, blocks, TypeOK
      <3>3. Mine(c, w[p]) /\ Mine(c, OnCore(c)) /\ OnCore(c) \in Place /\ OnCore(c) # InReady
        BY <2>2, Places1, PlaceTypes DEF Mine
      <3>4. \A q \in Proc : Keeps(c, q)' <=> u[q] = OnCore(c)
        BY <1>4, <1>5, <2>1, <2>2, <2>4, <2>5, ProcessAssumption DEF Keeps, Executing
      <3>5. \A q \in Proc : InHand(c, q)' <=> u[q] = HandOf(c)
        BY <1>4, <2>1, <2>4, <2>5, Places1 DEF InHand
      <3>6. Path(u, c)'
        BY <1>2, <1>3, <1>5, <1>7, <2>4 DEF Path, Simple
      <3>7. Standing(u, p)'
        BY <1>1, <2>2, <2>5, Places1 DEF Standing
      <3>8. QED BY <1>1, <1>2, <1>3, <2>2, <2>5, <3>1, <3>2, <3>3, <3>4, <3>5, <3>6, <3>7 DEF Moves
    <2>7. pc'[BootCore] = "expired" <=> pc[BootCore] = "expired"
      BY <1>1, <2>4, ProcessAssumption
    <2>8. ~Dormant(w, p) /\ OnCore(c) # Asleep /\ \A q \in Queue : OnCore(c) # Awaits(q)
      BY <2>2, Places1 DEF Dormant
    <2>9. QED BY <1>3, <2>6, <2>7, <2>8, QueuesKeep
  <1>8. QED BY <1>6, <1>7

(* The process in hand is made ready: a child, one to be killed, a waiter.  *)
LEMMA HandReadied ==
  ASSUME NEW w, Inv(w), NEW c \in Core, pc[c] \in {"fork", "kick", "wakeup"}, MakeReady(arg[c]),
         Goto(c, IF pc[c] = "wakeup" THEN "waking" ELSE "return"),
         UNCHANGED <<queueLock, spawned, flags, saved, current, arg, requeue, sleepers, sleepLock, blocks, rest>>
  PROVE  ProcessInv'
  <1>1. /\ TypeOK /\ w \in [Proc -> Place] /\ Whole(heap)
        /\ UNCHANGED <<sleepers, waiters, nodeOwner, setup, asserted>>
    BY DEF Inv, blocks, rest
  <1>2. (c = BootCore \/ Simple) /\ Path(w, c)
    BY Active DEF Inv
  <1>3. arg[c] # None
    BY <1>2 DEF Path
  <1>4. PICK p : p = arg[c]
    OBVIOUS
  <1>5. /\ p \in Proc /\ w[p] = HandOf(c) /\ heap.owner[p] = None /\ p \in spawned
        /\ "finished" \in flags[p] \/ saved[p] # "none"
    BY <1>2, <1>3, <1>4, HandIs DEF Path
  <1>6. heap' = L!PrependNode(heap, Ready, p) /\ left' = [left EXCEPT ![p] = 0]
    BY <1>4 DEF MakeReady
  <1>7. Whole(heap') /\ \A m \in Proc : heap'.owner[m] = IF m = p THEN Ready ELSE heap.owner[m]
    BY <1>1, <1>5, <1>6, MadeReady
  <1>8. PICK label : label = IF pc[c] = "wakeup" THEN "waking" ELSE "return"
    OBVIOUS
  <1>9. pc' \in [Core -> Labels] /\ pc'[c] = label /\ \A d \in Core \ {c} : pc'[d] = pc[d]
    BY <1>1, <1>8, Went DEF Labels, KernelPc
  <1>10. PICK u : u = [q \in Proc |-> IF q = p THEN InReady ELSE w[q]]
    OBVIOUS
  <1>11. Moves(w, u, c, p, InReady)
    <2>1. TypeOK'
      <3>1. heap' \in L!Heap
        BY <1>7, WholeHeap
      <3>2. QED BY <1>1, <1>5, <1>6, <1>9, <3>1, ProcessAssumption DEF TypeOK, blocks, rest, Labels
    <2>2. Mine(c, w[p]) /\ Mine(c, InReady) /\ InReady \in Place
      BY <1>5, Places1, PlaceTypes DEF Mine
    <2>3. OthersKeep(c) /\ Unless(p)
      BY <1>1, <1>7, <1>9 DEF OthersKeep, Unless, blocks
    <2>4. heap'.owner[p] # None
      BY <1>5, <1>7, ProcessAssumption
    <2>5. \A q \in Proc : Keeps(c, q)' <=> u[q] = OnCore(c)
      <3>1. \A q \in Proc : Keeps(c, q)' <=> Keeps(c, q)
        BY <1>8, <1>9 DEF Keeps, Executing
      <3>2. \A q \in Proc : u[q] = OnCore(c) <=> w[q] = OnCore(c)
        BY <1>5, <1>10, Places1
      <3>3. QED BY <3>1, <3>2 DEF Inv, Where, Runs
    <2>6. \A q \in Proc : InHand(c, q)' <=> u[q] = HandOf(c)
      <3>1. \A q \in Proc : u[q] # HandOf(c)
        BY <1>4, <1>10, Located, Places1
      <3>2. QED BY <1>8, <1>9, <3>1 DEF InHand
    <2>7. Path(u, c)'
      <3>1. blocks' = blocks
        OBVIOUS
      <3>2. QED BY <1>1, <1>2, <1>8, <1>9, <3>1 DEF Path, Simple, blocks
    <2>8. Standing(u, p)'
      BY <1>5, <1>10, Places1 DEF Standing
    <2>9. QED BY <1>1, <1>2, <1>4, <1>5, <1>7, <1>10, <2>1, <2>2, <2>3, <2>4, <2>5, <2>6, <2>7, <2>8 DEF Moves
  <1>12. pc'[BootCore] = "expired" <=> pc[BootCore] = "expired"
    BY <1>8, <1>9, ProcessAssumption
  <1>13. ~Dormant(w, p) /\ InReady # Asleep /\ \A q \in Queue : InReady # Awaits(q)
    BY <1>5, Places1 DEF Dormant
  <1>14. QED BY <1>1, <1>11, <1>12, <1>13, QueuesKeep

LEMMA ReadyingStep ==
  ASSUME NEW w, Inv(w), NEW c \in Core, ForkReady(c) \/ KillReady(c) \/ Wakeup(c)
  PROVE  ProcessInv'
  <1>1. CASE ForkReady(c)
    BY <1>1, HandReadied DEF ForkReady, At
  <1>2. CASE KillReady(c)
    BY <1>2, HandReadied DEF KillReady, At
  <1>3. CASE Wakeup(c)
    BY <1>3, HandReadied DEF Wakeup, At
  <1>4. QED BY <1>1, <1>2, <1>3
----------------------------------------------------------------------------
(* System calls, signals and the return to the program                      *)

LEMMA ForkStep ==
  ASSUME NEW w, Inv(w), NEW c \in Core, NEW p \in Proc, Fork(c, p)
  PROVE  ProcessInv'
  <1>1. /\ TypeOK /\ w \in [Proc -> Place] /\ pc[c] = "user" /\ Whole(heap)
        /\ p \notin spawned /\ spawned' = spawned \union {p}
        /\ saved' = [saved EXCEPT ![p] = "fork"] /\ arg' = [arg EXCEPT ![c] = p] /\ Goto(c, "fork")
        /\ UNCHANGED <<heap, queueLock, flags, current, requeue, sleeps, blocks, rest>>
    BY DEF Fork, At, Inv
  <1>2. (c = BootCore \/ Simple) /\ (c \in setup.cores \/ Simple) /\ current[c] # None
    BY <1>1, Active DEF Inv, Path
  <1>3. UNCHANGED <<sleepers, waiters, nodeOwner, setup, asserted>>
    BY <1>1 DEF sleeps, blocks, rest
  <1>4. w[p] = Gone /\ "finished" \notin flags[p] /\ heap.owner[p] = None
    <2>1. w[p] = Gone /\ "finished" \notin flags[p]
      BY <1>1 DEF Inv, Standing
    <2>2. QED BY <2>1, Places1 DEF Inv, Where, Readies, IsReady
  <1>5. /\ arg' \in [Core -> Proc \union {None}] /\ arg'[c] = p
        /\ \A d \in Core \ {c} : arg'[d] = arg[d]
    BY <1>1 DEF TypeOK
  <1>6. pc' \in [Core -> Labels] /\ pc'[c] = "fork" /\ \A d \in Core \ {c} : pc'[d] = pc[d]
    BY <1>1, Went DEF Labels, KernelPc
  <1>7. PICK u : u = [q \in Proc |-> IF q = p THEN HandOf(c) ELSE w[q]]
    OBVIOUS
  <1>8. Moves(w, u, c, p, HandOf(c))
    <2>1. TypeOK'
      BY <1>1, <1>5, <1>6 DEF TypeOK, sleeps, blocks, rest, Labels
    <2>2. OthersKeep(c) /\ Unless(p) /\ saved'[p] = "fork"
      BY <1>1, <1>5, <1>6 DEF OthersKeep, Unless, blocks, TypeOK
    <2>3. Mine(c, w[p]) /\ Mine(c, HandOf(c)) /\ HandOf(c) \in Place /\ HandOf(c) # InReady
      BY <1>4, Places1, PlaceTypes DEF Mine
    <2>4. \A q \in Proc : Keeps(c, q)' <=> u[q] = OnCore(c)
      <3>1. \A q \in Proc : Keeps(c, q)' <=> Keeps(c, q)
        BY <1>1, <1>6 DEF Keeps, Executing
      <3>2. \A q \in Proc : u[q] = OnCore(c) <=> w[q] = OnCore(c)
        BY <1>4, <1>7, Places1
      <3>3. QED BY <3>1, <3>2 DEF Inv, Where, Runs
    <2>5. \A q \in Proc : InHand(c, q)' <=> u[q] = HandOf(c)
      <3>1. \A q \in Proc : w[q] # HandOf(c)
        BY <1>1, Located
      <3>2. QED BY <1>5, <1>6, <1>7, <3>1 DEF InHand
    <2>6. Path(u, c)'
      BY <1>1, <1>2, <1>3, <1>5, <1>6, ProcessAssumption DEF Path, Simple
    <2>7. Standing(u, p)'
      BY <1>1, <1>4, <1>7, <2>2, Places1 DEF Standing
    <2>8. QED BY <1>1, <1>2, <1>3, <1>4, <1>7, <2>1, <2>2, <2>3, <2>4, <2>5, <2>6, <2>7 DEF Moves
  <1>9. pc'[BootCore] = "expired" <=> pc[BootCore] = "expired"
    BY <1>1, <1>6, ProcessAssumption
  <1>10. ~Dormant(w, p) /\ HandOf(c) # Asleep /\ \A q \in Queue : HandOf(c) # Awaits(q)
    BY <1>4, Places1 DEF Dormant
  <1>11. QED BY <1>3, <1>8, <1>9, <1>10, QueuesKeep

(* k_process_exit, called by the process or for a signal.                   *)
LEMMA Ended ==
  ASSUME NEW w, Inv(w), NEW c \in Core, pc[c] \in {"user", "return"},
         flags' = [flags EXCEPT ![current[c]] = {"finished"}], Goto(c, "next"),
         pending' \in [Proc -> SUBSET Signal],
         UNCHANGED <<heap, queueLock, spawned, saved, current, arg, requeue, sleeps, blocks, nodeOwner, asserted, setup>>
  PROVE  ProcessInv'
  <1>1. /\ TypeOK /\ w \in [Proc -> Place] /\ Whole(heap)
        /\ UNCHANGED <<sleepers, waiters, nodeOwner, setup, asserted>>
    BY DEF Inv, sleeps, blocks
  <1>2. (c = BootCore \/ Simple) /\ (c \in setup.cores \/ Simple) /\ Executing(c)
    BY Active DEF Inv, Path, Executing
  <1>3. PICK p : p = current[c]
    OBVIOUS
  <1>4. /\ p \in Proc /\ w[p] = OnCore(c) /\ "finished" \notin flags[p] /\ p \in spawned /\ heap.owner[p] = None
    BY <1>2, <1>3, CurrentIs
  <1>5. /\ flags' \in [Proc -> SUBSET {"running", "finished", "sleeping"}]
        /\ flags'[p] = {"finished"} /\ \A q \in Proc \ {p} : flags'[q] = flags[q]
    BY <1>1, <1>3, <1>4 DEF TypeOK
  <1>6. pc' \in [Core -> Labels] /\ pc'[c] = "next" /\ \A d \in Core \ {c} : pc'[d] = pc[d]
    BY <1>1, Went DEF Labels, KernelPc
  <1>7. PICK u : u = [q \in Proc |-> IF q = p THEN Gone ELSE w[q]]
    OBVIOUS
  <1>8. Moves(w, u, c, p, Gone)
    <2>1. TypeOK'
      BY <1>1, <1>5, <1>6 DEF TypeOK, sleeps, blocks, Labels
    <2>2. OthersKeep(c) /\ Unless(p)
      BY <1>1, <1>5, <1>6 DEF OthersKeep, Unless, blocks
    <2>3. Mine(c, w[p]) /\ Mine(c, Gone) /\ Gone \in Place /\ Gone # InReady
      BY <1>4, Places1, PlaceTypes DEF Mine
    <2>4. \A q \in Proc : Keeps(c, q)' <=> u[q] = OnCore(c)
      BY <1>3, <1>6, <1>7, Located, Places1 DEF Keeps, Executing
    <2>5. \A q \in Proc : InHand(c, q)' <=> u[q] = HandOf(c)
      BY <1>6, <1>7, Located, Places1 DEF InHand
    <2>6. Path(u, c)'
      BY <1>1, <1>2, <1>6 DEF Path, Simple
    <2>7. Standing(u, p)'
      BY <1>1, <1>4, <1>5, <1>7 DEF Standing
    <2>8. QED BY <1>1, <1>2, <1>4, <1>7, <2>1, <2>2, <2>3, <2>4, <2>5, <2>6, <2>7 DEF Moves
  <1>9. pc'[BootCore] = "expired" <=> pc[BootCore] = "expired"
    BY <1>1, <1>6, ProcessAssumption
  <1>10. ~Dormant(w, p) /\ Gone # Asleep /\ \A q \in Queue : Gone # Awaits(q)
    BY <1>4, Places1 DEF Dormant
  <1>11. QED BY <1>1, <1>8, <1>9, <1>10, QueuesKeep

LEMMA ExitStep ==
  ASSUME NEW w, Inv(w), NEW c \in Core, Exit(c)
  PROVE  ProcessInv'
  <1>1. /\ pc[c] = "user" /\ flags' = [flags EXCEPT ![current[c]] = {"finished"}] /\ Goto(c, "next")
        /\ UNCHANGED <<heap, queueLock, spawned, saved, current, arg, requeue, sleeps, blocks, rest>>
    BY DEF Exit, At
  <1>2. pending' \in [Proc -> SUBSET Signal] /\ UNCHANGED <<nodeOwner, asserted, setup>>
    BY <1>1 DEF rest, Inv, TypeOK
  <1>3. QED BY <1>1, <1>2, Ended

(* A core goes from one label to another, with no process in a new place.   *)
LEMMA Passed ==
  ASSUME NEW w, Inv(w), NEW c \in Core, NEW label \in Labels, Goto(c, label),
         c = BootCore \/ Simple, pc[c] \notin {"kick", "switch", "expired"}, label # "expired",
         TypeOK', UNCHANGED <<heap, spawned, flags, saved, current, sleepers, waiters, nodeOwner, setup, asserted>>,
         \A d \in Core \ {c} : arg'[d] = arg[d] /\ requeue'[d] = requeue[d] /\ waking'[d] = waking[d],
         \A q \in Proc : (Keeps(c, q)' <=> Keeps(c, q)) /\ (InHand(c, q)' <=> InHand(c, q)),
         Path(w, c)'
  PROVE  ProcessInv'
  <1>1. pc' \in [Core -> Labels] /\ pc'[c] = label /\ \A d \in Core \ {c} : pc'[d] = pc[d]
    BY Went DEF Inv
  <1>2. OthersKeep(c) /\ Unless(None)
    BY <1>1 DEF OthersKeep, Unless
  <1>3. Whole(heap') /\ UNCHANGED <<sleepers, waiters, nodeOwner>>
    BY DEF Inv
  <1>4. Stays(w, c)
    BY <1>1, <1>2, <1>3 DEF Stays
  <1>5. QED BY <1>4, Stayed
LEMMA KillStep ==
  ASSUME NEW w, Inv(w), NEW c \in Core, NEW p \in Proc, NEW sig \in Signal, Kill(c, p, sig)
  PROVE  ProcessInv'
  <1>1. /\ TypeOK /\ pc[c] = "user" /\ p \in spawned /\ "kill" \in setup.calls
        /\ pending' = [pending EXCEPT ![p] = @ \union {sig}] /\ arg' = [arg EXCEPT ![c] = p]
        /\ UNCHANGED <<sched, current, requeue, sleeps, blocks, nodeOwner, asserted, setup>>
    BY DEF Kill, At, Inv
  <1>2. (c = BootCore \/ Simple) /\ (c \in setup.cores \/ Simple) /\ current[c] # None
    BY <1>1, Active DEF Inv, Path
  <1>3. PICK label : label = IF p = current[c] THEN "return" ELSE "kill"
    OBVIOUS
  <1>4. Goto(c, label)
    BY <1>3 DEF Kill
  <1>5. pc' \in [Core -> Labels] /\ pc'[c] = label /\ \A d \in Core \ {c} : pc'[d] = pc[d]
    BY <1>1, <1>3, <1>4, Went DEF Labels, KernelPc
  <1>6. /\ arg' \in [Core -> Proc \union {None}] /\ arg'[c] = p
        /\ \A d \in Core \ {c} : arg'[d] = arg[d]
    BY <1>1 DEF TypeOK
  <1>7. TypeOK'
    BY <1>1, <1>5, <1>6 DEF TypeOK, sched, sleeps, blocks, Labels
  <1>8. \A q \in Proc : (Keeps(c, q)' <=> Keeps(c, q)) /\ (InHand(c, q)' <=> InHand(c, q))
    BY <1>1, <1>3, <1>5 DEF Keeps, Executing, InHand
  <1>9. Path(w, c)'
    BY <1>1, <1>2, <1>3, <1>5, <1>6, ProcessAssumption DEF Path, Simple, sched
  <1>10. /\ UNCHANGED <<heap, spawned, flags, saved, current, sleepers, waiters, nodeOwner, setup, asserted>>
         /\ \A d \in Core \ {c} : arg'[d] = arg[d] /\ requeue'[d] = requeue[d] /\ waking'[d] = waking[d]
    BY <1>1, <1>6 DEF sched, sleeps, blocks
  <1>11. label \in Labels \ {"expired"}
    BY <1>3 DEF Labels, KernelPc
  <1>12. QED BY <1>1, <1>2, <1>4, <1>7, <1>8, <1>9, <1>10, <1>11, Passed

LEMMA KillCheckStep ==
  ASSUME NEW w, Inv(w), NEW c \in Core, KillCheck(c)
  PROVE  ProcessInv'
  <1>1. /\ TypeOK /\ w \in [Proc -> Place] /\ pc[c] = "kill" /\ Whole(heap)
        /\ UNCHANGED <<sched, current, arg, requeue, sleeps, blocks, rest>>
    BY DEF KillCheck, At, Inv
  <1>2. /\ (c = BootCore \/ Simple) /\ (c \in setup.cores \/ Simple) /\ current[c] # None
        /\ arg[c] # None /\ "kill" \in setup.calls /\ arg[c] # current[c] /\ arg[c] \in spawned
    BY <1>1, Active DEF Inv, Path
  <1>3. UNCHANGED <<heap, queueLock, spawned, flags, saved, sleepers, left, sleepLock, waiters, waking, blockLock,
                    nodeOwner, pending, setup, asserted>>
    BY <1>1 DEF sched, sleeps, blocks, rest
  <1>4. CASE Goto(c, "return")
    <2>1. pc' \in [Core -> Labels] /\ pc'[c] = "return" /\ \A d \in Core \ {c} : pc'[d] = pc[d]
      BY <1>1, <1>4, Went DEF Labels, KernelPc
    <2>2. TypeOK'
      BY <1>1, <1>3, <2>1 DEF TypeOK, Labels
    <2>3. \A q \in Proc : (Keeps(c, q)' <=> Keeps(c, q)) /\ (InHand(c, q)' <=> InHand(c, q))
      BY <1>1, <2>1 DEF Keeps, Executing, InHand
    <2>4. Path(w, c)'
      BY <1>1, <1>2, <1>3, <2>1 DEF Path, Simple
    <2>5. "return" \in Labels \ {"expired"}
      BY DEF Labels, KernelPc
    <2>6. QED BY <1>1, <1>2, <1>3, <1>4, <2>2, <2>3, <2>4, <2>5, Passed
  <1>5. CASE Goto(c, "kick") /\ ~IsReady(arg[c])
    <2>1. pc' \in [Core -> Labels] /\ pc'[c] = "kick" /\ \A d \in Core \ {c} : pc'[d] = pc[d]
      BY <1>1, <1>5, Went DEF Labels, KernelPc
    <2>2. PICK p : p = arg[c]
      OBVIOUS
    <2>3. p \in Proc /\ p \in spawned /\ heap.owner[p] = None /\ Standing(w, p)
      BY <1>1, <1>2, <1>5, <2>2 DEF Inv, TypeOK, IsReady
    <2>4. w[p] = Gone
      <3>1. w[p] # InReady
        BY <2>3 DEF Inv, Where, Readies, IsReady
      <3>2. ASSUME NEW d \in Core PROVE w[p] # OnCore(d) /\ w[p] # HandOf(d)
        <4>1. CASE d = c
          BY <1>1, <1>2, <2>2, <2>3, <4>1, Located
        <4>2. CASE d # c
          <5>1. pc[d] = "idle" /\ current[d] = None
            BY <1>2, <4>2, Calling, Solo
          <5>2. QED BY <2>3, <5>1, Located DEF Executing
        <4>3. QED BY <4>1, <4>2
      <3>3. ~Dormant(w, p)
        BY <1>2, <2>3, Calling, DormantIs
      <3>4. w[p] \in Place
        BY <1>1, <2>3
      <3>5. QED BY <3>1, <3>2, <3>3, <3>4 DEF Place, Dormant
    <2>5. "finished" \in flags[p]
      BY <2>3, <2>4 DEF Standing
    <2>6. PICK u : u = [q \in Proc |-> IF q = p THEN HandOf(c) ELSE w[q]]
      OBVIOUS
    <2>7. Moves(w, u, c, p, HandOf(c))
      <3>1. TypeOK'
        BY <1>1, <1>3, <2>1 DEF TypeOK, Labels
      <3>2. OthersKeep(c) /\ Unless(p)
        BY <1>1, <1>3, <2>1 DEF OthersKeep, Unless
      <3>3. Mine(c, w[p]) /\ Mine(c, HandOf(c)) /\ HandOf(c) \in Place /\ HandOf(c) # InReady
        BY <2>4, Places1, PlaceTypes DEF Mine
      <3>4. \A q \in Proc : Keeps(c, q)' <=> u[q] = OnCore(c)
        <4>1. \A q \in Proc : Keeps(c, q)' <=> Keeps(c, q)
          BY <1>1, <2>1 DEF Keeps, Executing
        <4>2. \A q \in Proc : u[q] = OnCore(c) <=> w[q] = OnCore(c)
          BY <2>4, <2>6, Places1
        <4>3. QED BY <4>1, <4>2 DEF Inv, Where, Runs
      <3>5. \A q \in Proc : InHand(c, q)' <=> u[q] = HandOf(c)
        BY <1>1, <2>1, <2>2, <2>6, Located DEF InHand
      <3>6. Path(u, c)'
        BY <1>1, <1>2, <1>3, <2>1, <2>2, <2>5 DEF Path, Simple
      <3>7. Standing(u, p)'
        BY <1>3, <2>1, <2>3, <2>5, <2>6, Places1 DEF Standing
      <3>8. QED BY <1>1, <1>2, <1>3, <2>3, <2>6, <3>1, <3>2, <3>3, <3>4, <3>5, <3>6, <3>7 DEF Moves
    <2>8. pc'[BootCore] = "expired" <=> pc[BootCore] = "expired"
      BY <1>1, <2>1, ProcessAssumption
    <2>9. ~Dormant(w, p) /\ HandOf(c) # Asleep /\ \A q \in Queue : HandOf(c) # Awaits(q)
      BY <2>4, Places1 DEF Dormant
    <2>10. QED BY <1>3, <2>7, <2>8, <2>9, QueuesKeep
  <1>6. QED BY <1>4, <1>5 DEF KillCheck

LEMMA ReturnStep ==
  ASSUME NEW w, Inv(w), NEW c \in Core, Return(c)
  PROVE  ProcessInv'
  <1>1. /\ TypeOK /\ pc[c] = "return"
        /\ UNCHANGED <<heap, queueLock, spawned, saved, current, arg, requeue, sleeps, blocks, nodeOwner, asserted, setup>>
    BY DEF Return, At, Inv
  <1>2. (c = BootCore \/ Simple) /\ (c \in setup.cores \/ Simple) /\ current[c] # None
    BY <1>1, Active DEF Inv, Path
  <1>3. current[c] \in Proc
    BY <1>1, <1>2 DEF TypeOK
  <1>4. PICK p : p = current[c]
    OBVIOUS
  <1>5. pending' \in [Proc -> SUBSET Signal]
    <2>1. pending \in [Proc -> SUBSET Signal]
      BY <1>1 DEF TypeOK
    <2>2. pending' = pending \/ \E sig \in pending[p] : pending' = [pending EXCEPT ![p] = @ \ {sig}]
      BY <1>4 DEF Return
    <2>3. QED BY <1>3, <1>4, <2>1, <2>2
  <1>6. CASE Goto(c, "user") /\ UNCHANGED flags
    <2>1. pc' \in [Core -> Labels] /\ pc'[c] = "user" /\ \A d \in Core \ {c} : pc'[d] = pc[d]
      BY <1>1, <1>6, Went DEF Labels
    <2>2. TypeOK'
      BY <1>1, <1>5, <1>6, <2>1 DEF TypeOK, sleeps, blocks, Labels
    <2>3. \A q \in Proc : (Keeps(c, q)' <=> Keeps(c, q)) /\ (InHand(c, q)' <=> InHand(c, q))
      BY <1>1, <2>1 DEF Keeps, Executing, InHand
    <2>4. Path(w, c)'
      BY <1>1, <1>2, <2>1 DEF Path, Simple
    <2>5. "user" \in Labels \ {"expired"}
      BY DEF Labels
    <2>6. UNCHANGED <<sleepers, waiters, waking>>
      BY <1>1 DEF sleeps, blocks
    <2>7. QED BY <1>1, <1>2, <1>6, <2>2, <2>3, <2>4, <2>5, <2>6, Passed
  <1>7. CASE flags' = [flags EXCEPT ![p] = {"finished"}] /\ Goto(c, "next")
    BY <1>1, <1>4, <1>5, <1>7, Ended
  <1>8. QED BY <1>4, <1>6, <1>7 DEF Return
----------------------------------------------------------------------------
(* Timer and device interrupts that find nobody to wake                     *)

LEMMA TickEnded ==
  ASSUME NEW w, Inv(w), NEW c \in Core, pc[c] \in {"user", "idle", "timing"}, TickEnd(c),
         c = BootCore \/ Simple, c \in setup.cores \/ Simple, sleepLock' \in Core \union {None},
         UNCHANGED <<sched, current, arg, sleepers, left, blocks, rest>>
  PROVE  ProcessInv'
  <1>1. /\ TypeOK /\ UNCHANGED <<heap, queueLock, spawned, flags, saved, current, arg, sleepers, left,
                                 waiters, waking, blockLock, nodeOwner, pending, setup, asserted>>
    BY DEF Inv, sched, blocks, rest
  <1>2. PICK label : label = IF current[c] = None THEN "next" ELSE "switch"
    OBVIOUS
  <1>3. Goto(c, label) /\ requeue' = [requeue EXCEPT ![c] = TRUE]
    BY <1>2 DEF TickEnd
  <1>4. label \in Labels \ {"expired"}
    BY <1>2 DEF Labels, KernelPc
  <1>5. pc' \in [Core -> Labels] /\ pc'[c] = label /\ \A d \in Core \ {c} : pc'[d] = pc[d]
    BY <1>1, <1>3, <1>4, Went
  <1>6. /\ requeue' \in [Core -> BOOLEAN] /\ requeue'[c]
        /\ \A d \in Core \ {c} : requeue'[d] = requeue[d]
    BY <1>1, <1>3 DEF TypeOK
  <1>7. TypeOK'
    BY <1>1, <1>5, <1>6 DEF TypeOK, Labels
  <1>8. \A q \in Proc : (Keeps(c, q)' <=> Keeps(c, q)) /\ (InHand(c, q)' <=> InHand(c, q))
    BY <1>1, <1>2, <1>5, <1>6 DEF Keeps, Executing, InHand
  <1>9. Path(w, c)'
    BY <1>1, <1>2, <1>5, <1>6 DEF Path, Simple
  <1>10. QED BY <1>1, <1>3, <1>4, <1>6, <1>7, <1>8, <1>9, Passed

LEMMA TickStep ==
  ASSUME NEW w, Inv(w), NEW c \in Core, Tick(c)
  PROVE  ProcessInv'
  <1>1. /\ TypeOK /\ pc[c] \in {"user", "idle"} /\ c \in setup.cores
        /\ UNCHANGED <<sched, current, arg, sleeps, blocks, rest>>
    BY DEF Tick, Preemptible, Inv
  <1>2. c = BootCore \/ Simple
    BY <1>1, Active
  <1>3. UNCHANGED <<heap, queueLock, spawned, flags, saved, sleepers, left, sleepLock, waiters, waking, blockLock,
                    nodeOwner, pending, setup, asserted>>
    BY <1>1 DEF sched, sleeps, blocks, rest
  <1>4. CASE Goto(c, "timing") /\ UNCHANGED requeue
    <2>1. pc' \in [Core -> Labels] /\ pc'[c] = "timing" /\ \A d \in Core \ {c} : pc'[d] = pc[d]
      BY <1>1, <1>4, Went DEF Labels, KernelPc
    <2>2. TypeOK'
      BY <1>1, <1>3, <1>4, <2>1 DEF TypeOK, Labels
    <2>3. \A q \in Proc : (Keeps(c, q)' <=> Keeps(c, q)) /\ (InHand(c, q)' <=> InHand(c, q))
      BY <1>1, <1>4, <2>1 DEF Keeps, Executing, InHand
    <2>4. Path(w, c)'
      BY <1>1, <1>3, <2>1 DEF Path
    <2>5. "timing" \in Labels \ {"expired"}
      BY DEF Labels, KernelPc
    <2>6. QED BY <1>1, <1>2, <1>3, <1>4, <2>2, <2>3, <2>4, <2>5, Passed
  <1>5. CASE TickEnd(c)
    <2>1. sleepLock' \in Core \union {None}
      BY <1>1, <1>3 DEF TypeOK
    <2>2. UNCHANGED <<sched, current, arg, sleepers, left, blocks, rest>>
      BY <1>1, <1>3
    <2>3. QED BY <1>1, <1>2, <1>5, <2>1, <2>2, TickEnded
  <1>6. QED BY <1>4, <1>5 DEF Tick

LEMMA TimingStep ==
  ASSUME NEW w, Inv(w), NEW c \in Core, Timing(c)
  PROVE  ProcessInv'
  <1>1. /\ TypeOK /\ pc[c] = "timing"
        /\ UNCHANGED <<sched, current, arg, sleepers, left, blocks, rest>>
    BY DEF Timing, At, Inv
  <1>2. (c = BootCore \/ Simple) /\ (c \in setup.cores \/ Simple)
    BY <1>1, Active DEF Inv, Path
  <1>3. UNCHANGED <<heap, queueLock, spawned, flags, saved, waiters, waking, blockLock,
                    nodeOwner, pending, setup, asserted>>
    BY <1>1 DEF sched, blocks, rest
  <1>4. CASE ~HeadDue
    <2>1. sleepLock' = None /\ TickEnd(c)
      BY <1>4 DEF Timing
    <2>2. QED BY <1>1, <1>2, <2>1, TickEnded
  <1>5. CASE HeadDue
    <2>1. /\ sleepers # <<>> /\ sleepLock' = c /\ UNCHANGED requeue
          /\ Goto(c, IF IsReady(Head(sleepers).proc) THEN "expired" ELSE "expire")
      BY <1>5 DEF Timing, HeadDue
    <2>2. sleepers \in Seq([proc : Proc, own : BOOLEAN])
      BY <1>1 DEF TypeOK
    <2>3. 1 \in DOMAIN sleepers /\ Head(sleepers) = sleepers[1] /\ sleepers[1] \in [proc : Proc, own : BOOLEAN]
      BY <2>1, <2>2, NonEmpty
    <2>4. PICK p \in Proc : p = sleepers[1].proc
      BY <2>3
    <2>5. pc[BootCore] # "expired"
      <3>1. CASE c = BootCore
        BY <1>1, <3>1
      <3>2. CASE Simple
        BY <3>2, ProcessAssumption DEF Inv, Path, Simple
      <3>3. QED BY <1>2, <3>1, <3>2
    <2>6. w[p] = Asleep
      BY <2>3, <2>4, <2>5 DEF Inv, Where, Sleeps, Dozing
    <2>7. ~IsReady(p) /\ Dozes
      BY <2>6, DormantIs DEF Dormant, IsReady
    <2>8. Goto(c, "expire")
      BY <2>1, <2>3, <2>4, <2>7
    <2>9. pc' \in [Core -> Labels] /\ pc'[c] = "expire" /\ \A d \in Core \ {c} : pc'[d] = pc[d]
      BY <1>1, <2>8, Went DEF Labels, KernelPc
    <2>10. TypeOK'
      BY <1>1, <1>3, <2>1, <2>9 DEF TypeOK, Labels
    <2>11. \A q \in Proc : (Keeps(c, q)' <=> Keeps(c, q)) /\ (InHand(c, q)' <=> InHand(c, q))
      BY <1>1, <2>1, <2>9 DEF Keeps, Executing, InHand
    <2>12. Path(w, c)'
      <3>1. "sleep" \in setup.calls
        BY <2>1 DEF Inv, Queues
      <3>2. QED BY <1>1, <1>2, <1>3, <2>1, <2>9, <3>1 DEF Path, Simple
    <2>13. "expire" \in Labels \ {"expired"}
      BY DEF Labels, KernelPc
    <2>14. QED BY <1>1, <1>2, <1>3, <2>1, <2>8, <2>10, <2>11, <2>12, <2>13, Passed
  <1>6. QED BY <1>4, <1>5

LEMMA IrqStep ==
  ASSUME NEW w, Inv(w), NEW r \in Queue, Irq(r)
  PROVE  ProcessInv'
  <1>1. PICK c : c = BootCore
    OBVIOUS
  <1>2. /\ TypeOK /\ c \in Core /\ pc[c] \in {"user", "idle"} /\ "block" \in setup.calls
        /\ waking' = [waking EXCEPT ![c] = r] /\ Goto(c, "waking")
        /\ UNCHANGED <<sched, current, arg, requeue, sleeps, waiters, blockLock, rest>>
    BY <1>1, ProcessAssumption DEF Irq, Preemptible, Inv
  <1>3. UNCHANGED <<heap, queueLock, spawned, flags, saved, sleepers, left, sleepLock,
                    nodeOwner, pending, setup, asserted>>
    BY <1>2 DEF sched, sleeps, rest
  <1>4. pc' \in [Core -> Labels] /\ pc'[c] = "waking" /\ \A d \in Core \ {c} : pc'[d] = pc[d]
    BY <1>2, Went DEF Labels, KernelPc
  <1>5. /\ waking' \in [Core -> Queue \union {None}] /\ waking'[c] = r
        /\ \A d \in Core \ {c} : waking'[d] = waking[d]
    BY <1>2 DEF TypeOK
  <1>6. TypeOK'
    BY <1>2, <1>3, <1>4, <1>5 DEF TypeOK, Labels
  <1>7. \A q \in Proc : (Keeps(c, q)' <=> Keeps(c, q)) /\ (InHand(c, q)' <=> InHand(c, q))
    <2>1. pc[c] = "idle" => current[c] = None
      BY <1>2 DEF Inv, Path
    <2>2. QED BY <1>2, <1>4, <2>1 DEF Keeps, Executing, InHand
  <1>8. Path(w, c)'
    <2>1. c \in setup.cores
      <3>1. setup \in Setups
        BY <1>2 DEF TypeOK
      <3>2. QED BY <1>1, <3>1, ProcessAssumption
    <2>2. QED BY <1>2, <1>3, <1>4, <1>5, <2>1 DEF Path
  <1>9. "waking" \in Labels \ {"expired"}
    BY DEF Labels, KernelPc
  <1>10. QED BY <1>1, <1>2, <1>3, <1>5, <1>6, <1>7, <1>8, <1>9, Passed

LEMMA TimeStep ==
  ASSUME NEW w, Inv(w), left' \in [Proc -> 0 .. MaxSleep],
         UNCHANGED <<sched, cores, sleepers, sleepLock, blocks, rest>>
  PROVE  ProcessInv'
  <1>1. UNCHANGED <<heap, queueLock, spawned, flags, saved, current, pc, arg, requeue, sleepers, sleepLock,
                    waiters, waking, blockLock, nodeOwner, pending, setup, asserted>>
    BY DEF sched, cores, blocks, rest
  <1>2. TypeOK'
    BY <1>1 DEF Inv, TypeOK
  <1>3. Where(w)'
    BY <1>1 DEF Inv, Where, Runs, Hands, Readies, Sleeps, Waits, Keeps, Executing, InHand, IsReady, Dozing
  <1>4. \A c \in Core : Path(w, c)'
    BY <1>1 DEF Inv, Path, Simple, Dozes, Dormant
  <1>5. Queues' /\ Owners(w)'
    BY <1>1 DEF Inv, Queues, Owners, Dozes, Dormant
  <1>6. \A p \in Proc : Standing(w, p)'
    BY <1>1 DEF Inv, Standing
  <1>7. Inv(w)'
    BY <1>1, <1>2, <1>3, <1>4, <1>5, <1>6 DEF Inv, AssertHolds, Sound
  <1>8. w \in [Proc -> Place]
    BY DEF Inv
  <1>9. QED BY <1>7, <1>8 DEF ProcessInv

LEMMA ElapseStep ==
  ASSUME NEW w, Inv(w), Elapse
  PROVE  ProcessInv'
  <1>1. left \in [Proc -> 0 .. MaxSleep] /\ MaxSleep \in Nat
    BY ProcessAssumption DEF Inv, TypeOK
  <1>2. left' = [p \in Proc |-> IF left[p] = 0 THEN 0 ELSE left[p] - 1]
    BY DEF Elapse
  <1>3. left' \in [Proc -> 0 .. MaxSleep]
    BY <1>1, <1>2
  <1>4. QED BY <1>3, TimeStep DEF Elapse
----------------------------------------------------------------------------
(* Going to sleep and waking up                                             *)

Entry == [proc : Proc, own : BOOLEAN]

\* The one core a program that sleeps or waits runs on.
LEMMA DozesAlone ==
  ASSUME NEW w, Inv(w), Dozes, NEW c \in Core, pc[c] # "idle"
  PROVE  c = BootCore /\ c \in setup.cores /\ ~Simple
  <1>1. c = BootCore /\ ~Simple
    BY Calling, Solo
  <1>2. setup \in Setups
    BY DEF Inv, TypeOK
  <1>3. QED BY <1>1, <1>2, ProcessAssumption

\* A process that runs has its node free.
LEMMA NodeFree ==
  ASSUME NEW w, Inv(w), Dozes, NEW c \in Core, pc[c] = "user"
  PROVE  nodeOwner[current[c]] = None
  <1>1. Executing(c)
    BY DEF Inv, Path, Executing
  <1>2. current[c] \in Proc /\ w[current[c]] = OnCore(c)
    BY <1>1, CurrentIs
  <1>3. ~Dormant(w, current[c])
    BY <1>2, Places1 DEF Dormant
  <1>4. pc[BootCore] # "expired"
    BY DozesAlone
  <1>5. QED BY <1>2, <1>3, <1>4 DEF Inv, Owners

LEMMA BlockStep ==
  ASSUME NEW w, Inv(w), NEW c \in Core, NEW r \in Queue, Block(c, r)
  PROVE  ProcessInv'
  <1>1. /\ TypeOK /\ w \in [Proc -> Place] /\ pc[c] = "user" /\ Whole(heap) /\ "block" \in setup.calls
        /\ requeue' = [requeue EXCEPT ![c] = FALSE] /\ Goto(c, "switch")
        /\ UNCHANGED <<heap, queueLock, spawned, saved, current, arg, sleeps, waking, blockLock, pending, asserted, setup>>
    BY DEF Block, At, Inv
  <1>2. Dozes /\ c = BootCore /\ c \in setup.cores
    BY <1>1, DozesAlone DEF Dozes
  <1>3. PICK p : p = current[c]
    OBVIOUS
  <1>4. /\ p \in Proc /\ w[p] = OnCore(c) /\ "finished" \notin flags[p] /\ p \in spawned /\ heap.owner[p] = None
        /\ p # None /\ nodeOwner[p] = None
    <2>1. Executing(c)
      BY <1>1 DEF Inv, Path, Executing
    <2>2. QED BY <1>1, <1>2, <1>3, <2>1, CurrentIs, NodeFree, ProcessAssumption
  <1>5. /\ flags' = [flags EXCEPT ![p] = {"sleeping"}]
        /\ waiters' = [waiters EXCEPT ![r] = Append(@, p)]
        /\ nodeOwner' = [nodeOwner EXCEPT ![p] = r]
    BY <1>3, <1>4 DEF Block, IsLocked
  <1>6. pc' \in [Core -> Labels] /\ pc'[c] = "switch" /\ \A d \in Core \ {c} : pc'[d] = pc[d]
    BY <1>1, Went DEF Labels, KernelPc
  <1>7. /\ requeue' \in [Core -> BOOLEAN] /\ ~requeue'[c] /\ \A d \in Core \ {c} : requeue'[d] = requeue[d]
    BY <1>1 DEF TypeOK
  <1>8. /\ flags' \in [Proc -> SUBSET {"running", "finished", "sleeping"}]
        /\ flags'[p] = {"sleeping"} /\ \A q \in Proc \ {p} : flags'[q] = flags[q]
    BY <1>1, <1>4, <1>5 DEF TypeOK
  <1>9. /\ nodeOwner' \in [Proc -> Queue \union {None, "sleep", "garbage"}]
        /\ \A q \in Proc \ {p} : nodeOwner'[q] = nodeOwner[q]
    BY <1>1, <1>4, <1>5 DEF TypeOK
  <1>10. PICK s : s = waiters[r]
    OBVIOUS
  <1>11. /\ s \in Seq(Proc) /\ Len(s) \in Nat /\ DOMAIN s = 1 .. Len(s) /\ Append(s, p) \in Seq(Proc)
         /\ DOMAIN Append(s, p) = 1 .. Len(s) + 1 /\ Append(s, p)[Len(s) + 1] = p
         /\ \A i \in 1 .. Len(s) : Append(s, p)[i] = s[i] /\ s[i] # p
    <2>1. s \in Seq(Proc)
      BY <1>1, <1>10 DEF TypeOK
    <2>2. \A i \in DOMAIN s : s[i] # p
      BY <1>4, <1>10, Places1 DEF Inv, Where, Waits
    <2>3. QED BY <1>4, <2>1, <2>2
  <1>12. /\ waiters' \in [Queue -> Seq(Proc)] /\ waiters'[r] = Append(s, p)
         /\ \A q \in Queue \ {r} : waiters'[q] = waiters[q]
    BY <1>1, <1>5, <1>10, <1>11 DEF TypeOK
  <1>13. PICK u : u = [q \in Proc |-> IF q = p THEN Awaits(r) ELSE w[q]]
    OBVIOUS
  <1>14. Moves(w, u, c, p, Awaits(r))
    <2>1. TypeOK'
      BY <1>1, <1>6, <1>7, <1>8, <1>9, <1>12 DEF TypeOK, sleeps, Labels
    <2>2. OthersKeep(c) /\ Unless(p)
      BY <1>1, <1>6, <1>7, <1>8 DEF OthersKeep, Unless
    <2>3. Mine(c, w[p]) /\ Mine(c, Awaits(r)) /\ Awaits(r) \in Place /\ Awaits(r) # InReady
      BY <1>4, Places1, PlaceTypes DEF Mine
    <2>4. \A q \in Proc : Keeps(c, q)' <=> u[q] = OnCore(c)
      BY <1>3, <1>6, <1>7, <1>13, Located, Places1 DEF Keeps, Executing
    <2>5. \A q \in Proc : InHand(c, q)' <=> u[q] = HandOf(c)
      BY <1>1, <1>6, <1>13, Located, Places1 DEF InHand
    <2>6. Path(u, c)'
      BY <1>1, <1>2, <1>3, <1>4, <1>6, <1>13 DEF Path, Dozes, Dormant
    <2>7. Standing(u, p)'
      BY <1>1, <1>2, <1>3, <1>4, <1>6, <1>8, <1>13, Places1 DEF Standing
    <2>8. QED BY <1>1, <1>2, <1>3, <1>4, <1>13, <2>1, <2>2, <2>3, <2>4, <2>5, <2>6, <2>7 DEF Moves
  <1>15. Sleeps(u)'
    <2>1. \A q \in Proc : Dozing(q)' <=> Dozing(q)
      BY <1>1, <1>2, <1>6 DEF Dozing, sleeps
    <2>2. \A q \in Proc : u[q] = Asleep <=> w[q] = Asleep
      BY <1>4, <1>13, Places1
    <2>3. QED BY <2>1, <2>2 DEF Inv, Where, Sleeps
  <1>16. Waits(u)'
    <2>1. ASSUME NEW q \in Queue, NEW m \in Proc
          PROVE  (\E i \in DOMAIN waiters'[q] : waiters'[q][i] = m) <=> u[m] = Awaits(q)
      <3>1. (\E i \in DOMAIN waiters[q] : waiters[q][i] = m) <=> w[m] = Awaits(q)
        BY DEF Inv, Where, Waits
      <3>2. CASE q # r
        <4>1. u[m] = Awaits(q) <=> w[m] = Awaits(q)
          BY <1>4, <1>13, <3>2, Places1
        <4>2. QED BY <1>12, <3>1, <3>2, <4>1
      <3>3. CASE q = r /\ m = p
        <4>1. Len(s) + 1 \in DOMAIN Append(s, p)
          BY <1>11
        <4>2. QED BY <1>11, <1>12, <1>13, <3>3, <4>1
      <3>4. CASE q = r /\ m # p
        <4>1. (\E i \in DOMAIN Append(s, p) : Append(s, p)[i] = m) <=> (\E i \in DOMAIN s : s[i] = m)
          <5>1. 1 .. Len(s) + 1 = (1 .. Len(s)) \union {Len(s) + 1}
            BY <1>11
          <5>2. QED BY <1>11, <3>4, <5>1
        <4>2. QED BY <1>10, <1>12, <1>13, <3>1, <3>4, <4>1
      <3>5. QED BY <3>2, <3>3, <3>4
    <2>2. QED BY <2>1 DEF Waits
  <1>17. Queues'
    <2>1. ASSUME NEW q \in Queue, NEW i \in DOMAIN waiters'[q], NEW j \in DOMAIN waiters'[q],
                 waiters'[q][i] = waiters'[q][j]
          PROVE  i = j
      <3>1. \A k, l \in DOMAIN waiters[q] : waiters[q][k] = waiters[q][l] => k = l
        BY DEF Inv, Queues
      <3>2. CASE q # r
        BY <1>12, <2>1, <3>1, <3>2
      <3>3. CASE q = r
        <4>1. i \in 1 .. Len(s) + 1 /\ j \in 1 .. Len(s) + 1 /\ Append(s, p)[i] = Append(s, p)[j]
          BY <1>11, <1>12, <2>1, <3>3
        <4>2. CASE i \in 1 .. Len(s) /\ j \in 1 .. Len(s)
          BY <1>10, <1>11, <3>1, <3>3, <4>1, <4>2
        <4>3. CASE i = Len(s) + 1 \/ j = Len(s) + 1
          <5>1. i = Len(s) + 1 \/ i \in 1 .. Len(s)
            BY <1>11, <4>1
          <5>2. j = Len(s) + 1 \/ j \in 1 .. Len(s)
            BY <1>11, <4>1
          <5>3. QED BY <1>11, <4>1, <4>3, <5>1, <5>2
        <4>4. i = Len(s) + 1 \/ i \in 1 .. Len(s)
          BY <1>11, <4>1
        <4>5. j = Len(s) + 1 \/ j \in 1 .. Len(s)
          BY <1>11, <4>1
        <4>6. QED BY <4>2, <4>3, <4>4, <4>5
      <3>4. QED BY <3>2, <3>3
    <2>2. QED BY <1>1, <2>1 DEF Inv, Queues, sleeps
  <1>18. Owners(u)'
    <2>1. ASSUME NEW q \in Proc, nodeOwner'[q] # None PROVE Dormant(u, q)
      <3>1. CASE q = p
        BY <1>13, <3>1 DEF Dormant
      <3>2. CASE q # p
        <4>1. Dormant(w, q)
          BY <1>1, <1>2, <1>9, <2>1, <3>2 DEF Inv, Owners
        <4>2. QED BY <1>13, <3>2, <4>1 DEF Dormant
      <3>3. QED BY <3>1, <3>2
    <2>2. ASSUME NEW i \in DOMAIN sleepers, ~sleepers[i].own PROVE nodeOwner'[sleepers[i].proc] = None
      <3>1. sleepers[i].proc \in Proc
        <4>1. sleepers \in Seq(Entry)
          BY <1>1 DEF TypeOK, Entry
        <4>2. sleepers[i] \in Entry
          BY <4>1
        <4>3. QED BY <4>2 DEF Entry
      <3>2. sleepers[i].proc # p
        <4>1. ~Dozing(p)
          BY <1>4, Places1 DEF Inv, Where, Sleeps
        <4>2. QED BY <1>1, <1>2, <4>1 DEF Dozing
      <3>3. nodeOwner[sleepers[i].proc] = None
        BY <1>2, <2>2 DEF Inv, Owners
      <3>4. QED BY <1>9, <3>1, <3>2, <3>3
    <2>3. QED BY <1>1, <2>1, <2>2 DEF Owners, Dormant, sleeps
  <1>19. QED BY <1>14, <1>15, <1>16, <1>17, <1>18, Moved DEF Requeues
LEMMA SubSeqIs ==
  ASSUME NEW T, NEW s \in Seq(T), NEW m \in 1 .. Len(s) + 1, NEW n \in m - 1 .. Len(s)
  PROVE  /\ SubSeq(s, m, n) \in Seq(T) /\ Len(SubSeq(s, m, n)) = n - m + 1
         /\ \A j \in 1 .. n - m + 1 : SubSeq(s, m, n)[j] = s[m + j - 1]
  OBVIOUS

LEMMA ConcatIs ==
  ASSUME NEW T, NEW s \in Seq(T), NEW t \in Seq(T)
  PROVE  /\ s \o t \in Seq(T) /\ Len(s \o t) = Len(s) + Len(t)
         /\ \A j \in 1 .. Len(s) + Len(t) : (s \o t)[j] = IF j <= Len(s) THEN s[j] ELSE t[j - Len(s)]
  OBVIOUS

LEMMA EnqueueIs ==
  ASSUME sleepers \in Seq(Entry), NEW p \in Proc, NEW i \in 0 .. Len(sleepers)
  PROVE  /\ Enqueue(p, i) \in Seq(Entry) /\ DOMAIN Enqueue(p, i) = 1 .. Len(sleepers) + 1
         /\ \A j \in 1 .. i : Enqueue(p, i)[j] = sleepers[j]
         /\ Enqueue(p, i)[i + 1] = [proc |-> p, own |-> i = 0]
         /\ \A j \in i + 1 .. Len(sleepers) : Enqueue(p, i)[j + 1] = sleepers[j]
  <1> DEFINE a == SubSeq(sleepers, 1, i)
             e == [proc |-> p, own |-> i = 0]
             b == SubSeq(sleepers, i + 1, Len(sleepers))
             n == Len(sleepers)
  <1>1. n \in Nat /\ i \in Nat /\ i <= n /\ e \in Entry
    BY DEF Entry
  <1>2. a \in Seq(Entry) /\ Len(a) = i /\ \A j \in 1 .. i : a[j] = sleepers[j]
    <2>1. 1 \in 1 .. n + 1 /\ i \in 1 - 1 .. n /\ i - 1 + 1 = i /\ \A j \in 1 .. i : 1 + j - 1 = j
      BY <1>1
    <2> HIDE DEF n
    <2>2. /\ a \in Seq(Entry) /\ Len(a) = i - 1 + 1
          /\ \A j \in 1 .. i - 1 + 1 : a[j] = sleepers[1 + j - 1]
      BY <2>1, SubSeqIs DEF n
    <2>3. QED BY <2>1, <2>2
  <1>3. b \in Seq(Entry) /\ Len(b) = n - i /\ \A j \in 1 .. n - i : b[j] = sleepers[i + j]
    <2>1. i + 1 \in 1 .. n + 1 /\ n \in (i + 1) - 1 .. n /\ n - (i + 1) + 1 = n - i
          /\ \A j \in 1 .. n - i : (i + 1) + j - 1 = i + j
      BY <1>1
    <2>2. /\ b \in Seq(Entry) /\ Len(b) = n - (i + 1) + 1
          /\ \A j \in 1 .. n - (i + 1) + 1 : b[j] = sleepers[(i + 1) + j - 1]
      BY <2>1, SubSeqIs
    <2>3. QED BY <2>1, <2>2
  <1>4. Enqueue(p, i) = a \o <<e>> \o b
    BY DEF Enqueue
  <1> HIDE DEF a, b, e
  <1>5. /\ a \o <<e>> \in Seq(Entry) /\ Len(a \o <<e>>) = i + 1
        /\ \A j \in 1 .. i : (a \o <<e>>)[j] = sleepers[j]
        /\ (a \o <<e>>)[i + 1] = e
    <2>1. <<e>> \in Seq(Entry) /\ Len(<<e>>) = 1 /\ <<e>>[1] = e
      BY <1>1
    <2>2. /\ a \o <<e>> \in Seq(Entry) /\ Len(a \o <<e>>) = i + 1
          /\ \A j \in 1 .. i + 1 : (a \o <<e>>)[j] = IF j <= i THEN a[j] ELSE <<e>>[j - i]
      BY <1>2, <2>1, ConcatIs
    <2>3. (\A j \in 1 .. i : j \in 1 .. i + 1 /\ j <= i) /\ i + 1 \in 1 .. i + 1 /\ ~(i + 1 <= i) /\ (i + 1) - i = 1
      BY <1>1
    <2>4. QED BY <1>2, <2>1, <2>2, <2>3
  <1> DEFINE h == a \o <<e>>
  <1> HIDE DEF h
  <1>6. /\ h \in Seq(Entry) /\ Len(h) = i + 1 /\ (\A j \in 1 .. i : h[j] = sleepers[j]) /\ h[i + 1] = e
    BY <1>5 DEF h
  <1>7. /\ h \o b \in Seq(Entry) /\ Len(h \o b) = n + 1
        /\ \A j \in 1 .. n + 1 : (h \o b)[j] = IF j <= i + 1 THEN h[j] ELSE b[j - (i + 1)]
    <2>1. (i + 1) + (n - i) = n + 1
      BY <1>1
    <2>2. /\ h \o b \in Seq(Entry) /\ Len(h \o b) = Len(h) + Len(b)
          /\ \A j \in 1 .. Len(h) + Len(b) : (h \o b)[j] = IF j <= Len(h) THEN h[j] ELSE b[j - Len(h)]
      BY <1>3, <1>6, ConcatIs
    <2>3. QED BY <1>3, <1>6, <2>1, <2>2
  <1>8. \A j \in 1 .. i : (h \o b)[j] = sleepers[j]
    <2>1. \A j \in 1 .. i : j \in 1 .. n + 1 /\ j <= i + 1
      BY <1>1
    <2>2. QED BY <1>6, <1>7, <2>1
  <1>9. (h \o b)[i + 1] = e
    <2>1. i + 1 \in 1 .. n + 1 /\ i + 1 <= i + 1
      BY <1>1
    <2>2. QED BY <1>6, <1>7, <2>1
  <1>10. \A j \in i + 1 .. n : (h \o b)[j + 1] = sleepers[j]
    <2>1. \A j \in i + 1 .. n : /\ j + 1 \in 1 .. n + 1 /\ ~(j + 1 <= i + 1) /\ (j + 1) - (i + 1) = j - i
                                /\ j - i \in 1 .. n - i /\ i + (j - i) = j
      BY <1>1
    <2>2. \A j \in i + 1 .. n : (h \o b)[j + 1] = b[j - i]
      BY <1>7, <2>1
    <2>3. \A j \in i + 1 .. n : b[j - i] = sleepers[j]
      <3>1. \A j \in i + 1 .. n : b[j - i] = sleepers[i + (j - i)]
        BY <1>3, <2>1
      <3>2. QED BY <2>1, <3>1
    <2>4. QED BY <2>2, <2>3
  <1>11. Enqueue(p, i) = h \o b
    BY <1>4 DEF h
  <1>12. QED BY <1>7, <1>8, <1>9, <1>10, <1>11 DEF e

(* The scan stops somewhere.                                                *)
LEMMA PositionIs ==
  ASSUME sleepers \in Seq(Entry), NEW wake \in [Proc -> Nat], NEW p \in Proc
  PROVE  Position(wake, p) \in 0 .. Len(sleepers)
  <1> DEFINE Stop == {i \in 0 .. Len(sleepers) : i < Len(sleepers) => wake[sleepers[i + 1].proc] > wake[p]}
  <1>1. Len(sleepers) \in Nat
    OBVIOUS
  <1>2. Stop # {} /\ Stop \subseteq Nat
    <2>1. Len(sleepers) \in Stop
      BY <1>1
    <2>2. QED BY <1>1, <2>1
  <1>3. PICK i \in Stop : \A j \in Stop : i <= j
    <2> HIDE DEF Stop
    <2>1. QED BY <1>2, Lists, LP!LeastExists
  <1>4. ASSUME NEW j \in 1 .. i PROVE wake[sleepers[j].proc] <= wake[p]
    <2>1. j - 1 \in 0 .. Len(sleepers) /\ j - 1 < i /\ (j - 1) + 1 = j /\ j \in 1 .. Len(sleepers)
      BY <1>1
    <2>2. j - 1 \notin Stop
      <3>1. \A k \in Stop : i <= k
        BY <1>3
      <3>2. i \in Nat /\ ~(i <= j - 1)
        BY <1>1, <2>1
      <3> HIDE DEF Stop
      <3>3. QED BY <3>1, <3>2
    <2>3. ~(wake[sleepers[j].proc] > wake[p])
      BY <2>1, <2>2
    <2>4. sleepers[j].proc \in Proc
      <3>1. sleepers[j] \in Entry
        BY <2>1
      <3>2. QED BY <3>1 DEF Entry
    <2>5. wake[sleepers[j].proc] \in Nat /\ wake[p] \in Nat
      BY <2>4
    <2>6. QED BY <2>3, <2>5
  <1>5. \E k \in 0 .. Len(sleepers) :
          /\ \A j \in 1 .. k : wake[sleepers[j].proc] <= wake[p]
          /\ k < Len(sleepers) => wake[sleepers[k + 1].proc] > wake[p]
    BY <1>3, <1>4
  <1>6. QED BY <1>5 DEF Position
LEMMA SleepStep ==
  ASSUME NEW w, Inv(w), NEW c \in Core, Sleep(c)
  PROVE  ProcessInv'
  <1>1. /\ TypeOK /\ w \in [Proc -> Place] /\ pc[c] = "user" /\ Whole(heap) /\ "sleep" \in setup.calls
        /\ requeue' = [requeue EXCEPT ![c] = FALSE] /\ Goto(c, "switch")
        /\ UNCHANGED <<heap, queueLock, spawned, saved, current, arg, sleepLock, blocks, pending, asserted, setup>>
    BY DEF Sleep, At, Inv
  <1>2. Dozes /\ c = BootCore /\ c \in setup.cores
    BY <1>1, DozesAlone DEF Dozes
  <1>3. PICK p : p = current[c]
    OBVIOUS
  <1>4. /\ p \in Proc /\ w[p] = OnCore(c) /\ "finished" \notin flags[p] /\ p \in spawned /\ heap.owner[p] = None
        /\ p # None /\ nodeOwner[p] = None
    <2>1. Executing(c)
      BY <1>1 DEF Inv, Path, Executing
    <2>2. QED BY <1>1, <1>2, <1>3, <2>1, CurrentIs, NodeFree, ProcessAssumption
  <1>5. PICK length \in 0 .. MaxSleep :
          LET wake == [left EXCEPT ![p] = length]
              i == Position(wake, p) IN
          /\ left' = wake /\ sleepers' = Enqueue(p, i)
          /\ nodeOwner' = [nodeOwner EXCEPT ![p] = IF i = 0 THEN "sleep" ELSE @]
    BY <1>3, <1>4 DEF Sleep, IsLocked
  <1>6. PICK i : i = Position([left EXCEPT ![p] = length], p)
    OBVIOUS
  <1>7. flags' = [flags EXCEPT ![p] = {"sleeping"}] /\ sleepers' = Enqueue(p, i)
        /\ left' = [left EXCEPT ![p] = length]
        /\ nodeOwner' = [nodeOwner EXCEPT ![p] = IF i = 0 THEN "sleep" ELSE @]
    BY <1>3, <1>4, <1>5, <1>6 DEF Sleep, IsLocked
  <1>8. pc' \in [Core -> Labels] /\ pc'[c] = "switch" /\ \A d \in Core \ {c} : pc'[d] = pc[d]
    BY <1>1, Went DEF Labels, KernelPc
  <1>9. /\ requeue' \in [Core -> BOOLEAN] /\ ~requeue'[c] /\ \A d \in Core \ {c} : requeue'[d] = requeue[d]
    BY <1>1 DEF TypeOK
  <1>10. /\ flags' \in [Proc -> SUBSET {"running", "finished", "sleeping"}]
         /\ flags'[p] = {"sleeping"} /\ \A q \in Proc \ {p} : flags'[q] = flags[q]
    BY <1>1, <1>4, <1>7 DEF TypeOK
  <1>11. /\ nodeOwner' \in [Proc -> Queue \union {None, "sleep", "garbage"}]
         /\ \A q \in Proc \ {p} : nodeOwner'[q] = nodeOwner[q]
         /\ i # 0 => nodeOwner'[p] = None
    BY <1>1, <1>4, <1>7 DEF TypeOK
  <1>12. left' \in [Proc -> 0 .. MaxSleep] /\ left' \in [Proc -> Nat]
    BY <1>1, <1>4, <1>7, ProcessAssumption DEF TypeOK
  <1>13. sleepers \in Seq(Entry) /\ Len(sleepers) \in Nat /\ DOMAIN sleepers = 1 .. Len(sleepers)
    BY <1>1 DEF TypeOK, Entry
  <1>14. i \in 0 .. Len(sleepers)
    BY <1>4, <1>6, <1>7, <1>12, <1>13, PositionIs
  <1>15. /\ sleepers' \in Seq(Entry) /\ DOMAIN sleepers' = 1 .. Len(sleepers) + 1
         /\ \A j \in 1 .. i : sleepers'[j] = sleepers[j]
         /\ sleepers'[i + 1] = [proc |-> p, own |-> i = 0]
         /\ \A j \in i + 1 .. Len(sleepers) : sleepers'[j + 1] = sleepers[j]
    BY <1>4, <1>7, <1>13, <1>14, EnqueueIs
  <1>16. \A j \in DOMAIN sleepers : sleepers[j].proc \in Proc /\ sleepers[j].proc # p
    <2>1. \A j \in DOMAIN sleepers : sleepers[j] \in Entry
      BY <1>13
    <2>2. ~Dozing(p)
      BY <1>4, Places1 DEF Inv, Where, Sleeps
    <2>3. QED BY <1>1, <1>2, <2>1, <2>2 DEF Dozing, Entry
  <1>17. \A j \in DOMAIN sleepers' :
           \/ j \in 1 .. i /\ j \in DOMAIN sleepers /\ sleepers'[j] = sleepers[j]
           \/ j = i + 1 /\ sleepers'[j].proc = p /\ (~sleepers'[j].own => i # 0)
           \/ j - 1 \in i + 1 .. Len(sleepers) /\ j - 1 \in DOMAIN sleepers /\ sleepers'[j] = sleepers[j - 1]
    <2>1. ASSUME NEW j \in DOMAIN sleepers'
          PROVE  j \in 1 .. i \/ j = i + 1 \/ (j - 1 \in i + 1 .. Len(sleepers) /\ (j - 1) + 1 = j)
      BY <1>13, <1>14, <1>15
    <2>2. (\A j \in 1 .. i : j \in DOMAIN sleepers) /\ (\A j \in i + 1 .. Len(sleepers) : j \in DOMAIN sleepers)
      BY <1>13, <1>14
    <2>3. sleepers'[i + 1].proc = p /\ (~sleepers'[i + 1].own => i # 0)
      <3>1. sleepers'[i + 1] = [proc |-> p, own |-> i = 0]
        BY <1>15
      <3>2. [proc |-> p, own |-> i = 0].proc = p /\ ([proc |-> p, own |-> i = 0].own <=> i = 0)
        BY Zenon
      <3>3. QED BY <3>1, <3>2, Zenon
    <2>4. QED BY <1>15, <2>1, <2>2, <2>3
  <1>18. \A j \in DOMAIN sleepers : \E k \in DOMAIN sleepers' : sleepers'[k] = sleepers[j]
    <2>1. ASSUME NEW j \in DOMAIN sleepers
          PROVE  \/ j \in 1 .. i /\ j \in DOMAIN sleepers'
                 \/ j \in i + 1 .. Len(sleepers) /\ j + 1 \in DOMAIN sleepers'
      BY <1>13, <1>14, <1>15
    <2>2. QED BY <1>15, <2>1
  <1>19. PICK u : u = [q \in Proc |-> IF q = p THEN Asleep ELSE w[q]]
    OBVIOUS
  <1>20. Moves(w, u, c, p, Asleep)
    <2>1. TypeOK'
      BY <1>1, <1>8, <1>9, <1>10, <1>11, <1>12, <1>15 DEF TypeOK, blocks, Labels, Entry
    <2>2. OthersKeep(c) /\ Unless(p)
      BY <1>1, <1>8, <1>9, <1>10 DEF OthersKeep, Unless, blocks
    <2>3. Mine(c, w[p]) /\ Mine(c, Asleep) /\ Asleep \in Place /\ Asleep # InReady
      BY <1>4, Places1, PlaceTypes DEF Mine
    <2>4. \A q \in Proc : Keeps(c, q)' <=> u[q] = OnCore(c)
      BY <1>3, <1>8, <1>9, <1>19, Located, Places1 DEF Keeps, Executing
    <2>5. \A q \in Proc : InHand(c, q)' <=> u[q] = HandOf(c)
      BY <1>1, <1>8, <1>19, Located, Places1 DEF InHand
    <2>6. Path(u, c)'
      BY <1>1, <1>2, <1>3, <1>4, <1>8, <1>19 DEF Path, Dozes, Dormant
    <2>7. Standing(u, p)'
      BY <1>1, <1>2, <1>3, <1>4, <1>8, <1>10, <1>19, Places1 DEF Standing
    <2>8. QED BY <1>1, <1>2, <1>3, <1>4, <1>19, <2>1, <2>2, <2>3, <2>4, <2>5, <2>6, <2>7 DEF Moves
  <1>21. Sleeps(u)'
    <2>1. ASSUME NEW q \in Proc PROVE Dozing(q)' <=> u[q] = Asleep
      <3>1. Dozing(q) <=> w[q] = Asleep
        BY DEF Inv, Where, Sleeps
      <3>2. (Dozing(q)' <=> \E j \in DOMAIN sleepers' : sleepers'[j].proc = q)
            /\ (Dozing(q) <=> \E j \in DOMAIN sleepers : sleepers[j].proc = q)
        BY <1>1, <1>2, <1>8 DEF Dozing
      <3>3. CASE q = p
        <4>1. i + 1 \in DOMAIN sleepers' /\ sleepers'[i + 1].proc = p
          BY <1>13, <1>14, <1>15
        <4>2. QED BY <1>19, <3>2, <3>3, <4>1
      <3>4. CASE q # p
        BY <1>17, <1>18, <1>19, <3>1, <3>2, <3>4
      <3>5. QED BY <3>3, <3>4
    <2>2. QED BY <2>1 DEF Sleeps
  <1>22. Waits(u)'
    <2>1. \A q \in Proc, r \in Queue : u[q] = Awaits(r) <=> w[q] = Awaits(r)
      BY <1>4, <1>19, Places1
    <2>2. QED BY <1>1, <2>1 DEF Inv, Where, Waits, blocks
  <1>23. Queues'
    <2>1. ASSUME NEW j \in DOMAIN sleepers', NEW k \in DOMAIN sleepers', sleepers'[j].proc = sleepers'[k].proc
          PROVE  j = k
      <3>1. \A m, n \in DOMAIN sleepers : sleepers[m].proc = sleepers[n].proc => m = n
        BY DEF Inv, Queues
      <3>2. i \in Int /\ j \in Int /\ k \in Int
        BY <1>13, <1>14, <1>15
      <3>3. CASE j = i + 1 \/ k = i + 1
        <4>1. sleepers'[i + 1].proc = p
          BY <1>15
        <4>2. j # i + 1 => sleepers'[j].proc # p
          BY <1>16, <1>17
        <4>3. k # i + 1 => sleepers'[k].proc # p
          BY <1>16, <1>17
        <4>4. QED BY <2>1, <3>3, <4>1, <4>2, <4>3
      <3>4. CASE j # i + 1 /\ k # i + 1
        <4>1. \/ j \in 1 .. i /\ j \in DOMAIN sleepers /\ sleepers'[j] = sleepers[j]
              \/ j - 1 \in i + 1 .. Len(sleepers) /\ j - 1 \in DOMAIN sleepers /\ sleepers'[j] = sleepers[j - 1]
          BY <1>17, <3>4
        <4>2. \/ k \in 1 .. i /\ k \in DOMAIN sleepers /\ sleepers'[k] = sleepers[k]
              \/ k - 1 \in i + 1 .. Len(sleepers) /\ k - 1 \in DOMAIN sleepers /\ sleepers'[k] = sleepers[k - 1]
          BY <1>17, <3>4
        <4>3. CASE j \in 1 .. i /\ k \in 1 .. i
          <5>1. ~(j - 1 \in i + 1 .. Len(sleepers)) /\ ~(k - 1 \in i + 1 .. Len(sleepers))
            BY <3>2, <4>3
          <5>2. QED BY <2>1, <3>1, <4>1, <4>2, <5>1
        <4>4. CASE j \in 1 .. i /\ k \notin 1 .. i
          <5>1. j # k - 1
            BY <3>2, <4>2, <4>4
          <5>2. ~(j - 1 \in i + 1 .. Len(sleepers))
            BY <3>2, <4>4
          <5>3. QED BY <2>1, <3>1, <4>1, <4>2, <4>4, <5>1, <5>2
        <4>5. CASE j \notin 1 .. i /\ k \in 1 .. i
          <5>1. j - 1 # k
            BY <3>2, <4>1, <4>5
          <5>2. ~(k - 1 \in i + 1 .. Len(sleepers))
            BY <3>2, <4>5
          <5>3. QED BY <2>1, <3>1, <4>1, <4>2, <4>5, <5>1, <5>2
        <4>6. CASE j \notin 1 .. i /\ k \notin 1 .. i
          <5>1. j - 1 = k - 1
            BY <2>1, <3>1, <4>1, <4>2, <4>6
          <5>2. QED BY <3>2, <5>1
        <4>7. QED BY <4>3, <4>4, <4>5, <4>6
      <3>5. QED BY <3>3, <3>4
    <2>2. QED BY <1>1, <2>1 DEF Inv, Queues, blocks
  <1>24. Owners(u)'
    <2>1. ASSUME NEW q \in Proc, nodeOwner'[q] # None PROVE Dormant(u, q)
      <3>1. CASE q = p
        BY <1>19, <3>1 DEF Dormant
      <3>2. CASE q # p
        <4>1. Dormant(w, q)
          BY <1>1, <1>2, <1>11, <2>1, <3>2 DEF Inv, Owners
        <4>2. QED BY <1>19, <3>2, <4>1 DEF Dormant
      <3>3. QED BY <3>1, <3>2
    <2>2. ASSUME NEW j \in DOMAIN sleepers', ~sleepers'[j].own PROVE nodeOwner'[sleepers'[j].proc] = None
      <3>1. CASE j = i + 1 /\ sleepers'[j].proc = p /\ (~sleepers'[j].own => i # 0)
        BY <1>11, <2>2, <3>1
      <3>2. ASSUME NEW k \in DOMAIN sleepers, sleepers'[j] = sleepers[k] PROVE nodeOwner'[sleepers'[j].proc] = None
        <4>1. nodeOwner[sleepers[k].proc] = None
          BY <1>2, <2>2, <3>2 DEF Inv, Owners
        <4>2. QED BY <1>11, <1>16, <3>2, <4>1
      <3>3. QED BY <1>17, <3>1, <3>2
    <2>3. QED BY <2>1, <2>2 DEF Owners, Dormant
  <1>25. QED BY <1>20, <1>21, <1>22, <1>23, <1>24, Moved DEF Requeues
LEMMA ExpireStep ==
  ASSUME NEW w, Inv(w), NEW c \in Core, Expire(c)
  PROVE  ProcessInv'
  <1>1. /\ TypeOK /\ w \in [Proc -> Place] /\ pc[c] = "expire" /\ Whole(heap) /\ Goto(c, "expired")
        /\ "sleep" \in setup.calls /\ sleepers # <<>> /\ sleepers \in Seq(Entry)
        /\ UNCHANGED <<queueLock, spawned, flags, saved, current, arg, requeue, sleepers, sleepLock, blocks, rest>>
    BY DEF Expire, At, Inv, Path, TypeOK, Entry
  <1>2. UNCHANGED <<waiters, waking, blockLock, nodeOwner, pending, setup, asserted>>
    BY <1>1 DEF blocks, rest
  <1>3. Dozes /\ c = BootCore /\ c \in setup.cores
    BY <1>1, DozesAlone DEF Dozes
  <1>4. 1 \in DOMAIN sleepers /\ Head(sleepers) = sleepers[1] /\ sleepers[1] \in Entry
    BY <1>1, NonEmpty
  <1>5. PICK p \in Proc : p = sleepers[1].proc
    BY <1>4 DEF Entry
  <1>6. w[p] = Asleep
    <2>1. Dozing(p)
      BY <1>1, <1>3, <1>4, <1>5 DEF Dozing
    <2>2. QED BY <2>1 DEF Inv, Where, Sleeps
  <1>7. "finished" \notin flags[p] /\ heap.owner[p] = None /\ p \in spawned
    BY <1>6, DormantIs DEF Dormant
  <1>8. heap' = L!PrependNode(heap, Ready, p) /\ left' = [left EXCEPT ![p] = 0]
    BY <1>4, <1>5 DEF Expire, MakeReady
  <1>9. Whole(heap') /\ \A m \in Proc : heap'.owner[m] = IF m = p THEN Ready ELSE heap.owner[m]
    BY <1>1, <1>7, <1>8, MadeReady
  <1>10. pc' \in [Core -> Labels] /\ pc'[c] = "expired" /\ \A d \in Core \ {c} : pc'[d] = pc[d]
    BY <1>1, Went DEF Labels, KernelPc
  <1>11. PICK u : u = [q \in Proc |-> IF q = p THEN InReady ELSE w[q]]
    OBVIOUS
  <1>12. Moves(w, u, c, p, InReady)
    <2>1. TypeOK'
      <3>1. heap' \in L!Heap
        BY <1>9, WholeHeap
      <3>2. QED BY <1>1, <1>2, <1>8, <1>10, <3>1, ProcessAssumption DEF TypeOK, Labels
    <2>2. Mine(c, w[p]) /\ Mine(c, InReady) /\ InReady \in Place
      BY <1>6, Places1, PlaceTypes DEF Mine
    <2>3. OthersKeep(c) /\ Unless(p)
      BY <1>1, <1>2, <1>9, <1>10 DEF OthersKeep, Unless
    <2>4. heap'.owner[p] # None
      BY <1>9, ProcessAssumption
    <2>5. \A q \in Proc : Keeps(c, q)' <=> u[q] = OnCore(c)
      <3>1. \A q \in Proc : Keeps(c, q)' <=> Keeps(c, q)
        BY <1>1, <1>10 DEF Keeps, Executing
      <3>2. \A q \in Proc : u[q] = OnCore(c) <=> w[q] = OnCore(c)
        BY <1>6, <1>11, Places1
      <3>3. QED BY <3>1, <3>2 DEF Inv, Where, Runs
    <2>6. \A q \in Proc : InHand(c, q)' <=> u[q] = HandOf(c)
      BY <1>1, <1>10, <1>11, Located, Places1 DEF InHand
    <2>7. Path(u, c)'
      BY <1>1, <1>2, <1>3, <1>10 DEF Path
    <2>8. Standing(u, p)'
      <3>1. saved[p] # "none"
        BY <1>1, <1>3, <1>6, <1>7, Places1 DEF Inv, Standing
      <3>2. QED BY <1>1, <1>7, <1>11, <3>1, Places1 DEF Standing
    <2>9. QED BY <1>1, <1>2, <1>3, <1>9, <1>11, <2>1, <2>2, <2>3, <2>4, <2>5, <2>6, <2>7, <2>8 DEF Moves
  <1>13. Sleeps(u)'
    <2>1. ASSUME NEW q \in Proc PROVE Dozing(q)' <=> u[q] = Asleep
      <3>1. Dozing(q)' <=> \E i \in DOMAIN sleepers : sleepers[i].proc = q /\ i # 1
        BY <1>1, <1>3, <1>10 DEF Dozing
      <3>2. (\E i \in DOMAIN sleepers : sleepers[i].proc = q) <=> w[q] = Asleep
        BY <1>1, <1>3 DEF Dozing, Inv, Where, Sleeps
      <3>3. \A i \in DOMAIN sleepers : sleepers[i].proc = p => i = 1
        BY <1>4, <1>5 DEF Inv, Queues
      <3>4. QED BY <1>5, <1>11, <3>1, <3>2, <3>3, Places1
    <2>2. QED BY <2>1 DEF Sleeps
  <1>14. Waits(u)'
    <2>1. \A q \in Proc, r \in Queue : u[q] = Awaits(r) <=> w[q] = Awaits(r)
      BY <1>6, <1>11, Places1
    <2>2. QED BY <1>2, <2>1 DEF Inv, Where, Waits
  <1>15. Queues'
    BY <1>1, <1>2 DEF Inv, Queues
  <1>16. Owners(u)'
    <2>1. ASSUME NEW q \in Proc, nodeOwner[q] # None PROVE q = p \/ Dormant(w, q)
      BY <1>1, <1>3, <2>1 DEF Inv, Owners
    <2>2. \A q \in Proc : q # p /\ Dormant(w, q) => Dormant(u, q)
      BY <1>11 DEF Dormant
    <2>3. \A i \in DOMAIN sleepers : ~sleepers[i].own => nodeOwner[sleepers[i].proc] = None
      BY <1>3 DEF Inv, Owners
    <2>4. \A q \in Proc : nodeOwner'[q] # None =>
             Dormant(u, q) \/ (pc'[BootCore] = "expired" /\ q = sleepers'[1].proc)
      BY <1>1, <1>2, <1>3, <1>5, <1>10, <2>1, <2>2
    <2>5. QED BY <1>1, <1>2, <2>3, <2>4 DEF Owners, Dormant
  <1>17. QED BY <1>12, <1>13, <1>14, <1>15, <1>16, Moved DEF Requeues

LEMMA ExpiredStep ==
  ASSUME NEW w, Inv(w), NEW c \in Core, Expired(c)
  PROVE  ProcessInv'
  <1>1. /\ TypeOK /\ w \in [Proc -> Place] /\ pc[c] = "expired" /\ Whole(heap) /\ Goto(c, "timing")
        /\ "sleep" \in setup.calls /\ sleepers # <<>> /\ sleepers \in Seq(Entry) /\ sleepers' = Tail(sleepers)
        /\ UNCHANGED <<sched, current, arg, requeue, sleepLock, left, blocks, pending, asserted, setup>>
    BY DEF Expired, At, Inv, Path, TypeOK, Entry
  <1>2. UNCHANGED <<heap, queueLock, spawned, flags, saved, waiters, waking, blockLock>>
    BY <1>1 DEF sched, blocks
  <1>3. Dozes /\ c = BootCore /\ c \in setup.cores
    BY <1>1, DozesAlone DEF Dozes
  <1>4. 1 \in DOMAIN sleepers /\ Head(sleepers) = sleepers[1] /\ sleepers[1] \in Entry
        /\ Len(sleepers) \in Nat \ {0} /\ DOMAIN sleepers = 1 .. Len(sleepers)
    BY <1>1, NonEmpty
  <1>5. PICK p \in Proc : p = sleepers[1].proc
    BY <1>4 DEF Entry
  <1>6. /\ sleepers' \in Seq(Entry) /\ DOMAIN sleepers' = 1 .. Len(sleepers) - 1
        /\ \A i \in 1 .. Len(sleepers) - 1 : sleepers'[i] = sleepers[i + 1]
    BY <1>1
  <1>7. /\ \A i \in DOMAIN sleepers' : i \in Int /\ i + 1 \in DOMAIN sleepers /\ i + 1 # 1 /\ sleepers'[i] = sleepers[i + 1]
        /\ \A i \in DOMAIN sleepers : i # 1 => i - 1 \in DOMAIN sleepers' /\ sleepers'[i - 1] = sleepers[i]
    <2>1. ASSUME NEW i \in DOMAIN sleepers'
          PROVE  i \in Int /\ i + 1 \in DOMAIN sleepers /\ i + 1 # 1 /\ sleepers'[i] = sleepers[i + 1]
      BY <1>4, <1>6
    <2>2. ASSUME NEW i \in DOMAIN sleepers, i # 1
          PROVE  i - 1 \in DOMAIN sleepers' /\ sleepers'[i - 1] = sleepers[i]
      <3>1. i - 1 \in 1 .. Len(sleepers) - 1 /\ (i - 1) + 1 = i
        BY <1>4, <2>2
      <3>2. QED BY <1>6, <3>1
    <2>3. QED BY <2>1, <2>2
  <1>8. /\ nodeOwner' \in [Proc -> Queue \union {None, "sleep", "garbage"}]
        /\ nodeOwner'[p] = None /\ \A q \in Proc \ {p} : nodeOwner'[q] = nodeOwner[q]
    <2>1. nodeOwner' = [nodeOwner EXCEPT ![p] = IF sleepers[1].own THEN None ELSE @]
      BY <1>4, <1>5 DEF Expired
    <2>2. ~sleepers[1].own => nodeOwner[p] = None
      BY <1>3, <1>4, <1>5 DEF Inv, Owners
    <2>3. QED BY <1>1, <2>1, <2>2 DEF TypeOK
  <1>9. pc' \in [Core -> Labels] /\ pc'[c] = "timing" /\ \A d \in Core \ {c} : pc'[d] = pc[d]
    BY <1>1, Went DEF Labels, KernelPc
  <1>10. Moves(w, w, c, None, Gone)
    <2>1. TypeOK'
      BY <1>1, <1>2, <1>6, <1>8, <1>9 DEF TypeOK, Labels, Entry
    <2>2. None \notin Proc /\ Gone \in Place
      BY PlaceTypes, ProcessAssumption
    <2>3. OthersKeep(c) /\ Unless(None)
      BY <1>1, <1>2, <1>9 DEF OthersKeep, Unless
    <2>4. \A q \in Proc : Keeps(c, q)' <=> w[q] = OnCore(c)
      <3>1. \A q \in Proc : Keeps(c, q)' <=> Keeps(c, q)
        BY <1>1, <1>9 DEF Keeps, Executing
      <3>2. QED BY <3>1 DEF Inv, Where, Runs
    <2>5. \A q \in Proc : InHand(c, q)' <=> w[q] = HandOf(c)
      BY <1>1, <1>9, Located DEF InHand
    <2>6. Path(w, c)'
      BY <1>1, <1>3, <1>9 DEF Path
    <2>7. w = [q \in Proc |-> IF q = None THEN Gone ELSE w[q]]
      BY <1>1, <2>2
    <2>8. QED BY <1>1, <1>2, <1>3, <2>1, <2>2, <2>3, <2>4, <2>5, <2>6, <2>7 DEF Moves
  <1>11. Sleeps(w)'
    <2>1. ASSUME NEW q \in Proc PROVE Dozing(q)' <=> w[q] = Asleep
      <3>1. Dozing(q)' <=> \E i \in DOMAIN sleepers' : sleepers'[i].proc = q
        BY <1>3, <1>9 DEF Dozing
      <3>2. (\E i \in DOMAIN sleepers : sleepers[i].proc = q /\ i # 1) <=> w[q] = Asleep
        BY <1>1, <1>3 DEF Dozing, Inv, Where, Sleeps
      <3>3. QED BY <1>7, <3>1, <3>2
    <2>2. QED BY <2>1 DEF Sleeps
  <1>12. Waits(w)'
    BY <1>2 DEF Inv, Where, Waits
  <1>13. Queues'
    <2>1. ASSUME NEW i \in DOMAIN sleepers', NEW j \in DOMAIN sleepers', sleepers'[i].proc = sleepers'[j].proc
          PROVE  i = j
      <3>1. i + 1 = j + 1
        BY <1>7, <2>1 DEF Inv, Queues
      <3>2. i \in Int /\ j \in Int
        BY <1>7
      <3>3. QED BY <3>1, <3>2
    <2>2. QED BY <1>1, <1>2, <2>1 DEF Inv, Queues
  <1>14. Owners(w)'
    <2>1. \A q \in Proc : nodeOwner'[q] # None => Dormant(w, q)
      BY <1>3, <1>5, <1>8 DEF Inv, Owners
    <2>2. ASSUME NEW i \in DOMAIN sleepers', ~sleepers'[i].own PROVE nodeOwner'[sleepers'[i].proc] = None
      <3>1. nodeOwner[sleepers'[i].proc] = None
        BY <1>3, <1>7, <2>2 DEF Inv, Owners
      <3>2. sleepers'[i].proc \in Proc
        <4>1. sleepers'[i] \in Entry
          BY <1>6
        <4>2. QED BY <4>1 DEF Entry
      <3>3. QED BY <1>8, <3>1, <3>2
    <2>3. QED BY <2>1, <2>2 DEF Owners, Dormant
  <1>15. QED BY <1>10, <1>11, <1>12, <1>13, <1>14, Moved DEF Requeues
LEMMA WakingStep ==
  ASSUME NEW w, Inv(w), NEW c \in Core, Waking(c)
  PROVE  ProcessInv'
  <1>1. /\ TypeOK /\ w \in [Proc -> Place] /\ pc[c] = "waking" /\ Whole(heap)
        /\ "block" \in setup.calls /\ waking[c] \in Queue
        /\ UNCHANGED <<sched, current, requeue, sleeps, pending, asserted, setup>>
    BY DEF Waking, At, Inv, Path
  <1>2. UNCHANGED <<heap, queueLock, spawned, flags, saved, sleepers, sleepLock, left>>
    BY <1>1 DEF sched, sleeps
  <1>3. Dozes /\ c = BootCore /\ c \in setup.cores
    BY <1>1, DozesAlone DEF Dozes
  <1>4. PICK r \in Queue : r = waking[c]
    BY <1>1
  <1>5. PICK s : s = waiters[r]
    OBVIOUS
  <1>6. s \in Seq(Proc)
    BY <1>1, <1>5 DEF TypeOK
  <1>7. CASE s = <<>>
    <2>1. PICK label : label = IF current[c] = None THEN "next" ELSE "return"
      OBVIOUS
    <2>2. /\ blockLock' = None /\ waking' = [waking EXCEPT ![c] = None] /\ Goto(c, label)
          /\ UNCHANGED <<waiters, nodeOwner, arg>>
      BY <1>4, <1>5, <1>7, <2>1 DEF Waking
    <2>3. label \in Labels \ {"expired"}
      BY <2>1 DEF Labels, KernelPc
    <2>4. pc' \in [Core -> Labels] /\ pc'[c] = label /\ \A d \in Core \ {c} : pc'[d] = pc[d]
      BY <1>1, <2>2, <2>3, Went
    <2>5. waking' \in [Core -> Queue \union {None}] /\ \A d \in Core \ {c} : waking'[d] = waking[d]
      BY <1>1, <2>2 DEF TypeOK
    <2>6. TypeOK'
      BY <1>1, <1>2, <2>2, <2>4, <2>5 DEF TypeOK, Labels
    <2>7. \A q \in Proc : (Keeps(c, q)' <=> Keeps(c, q)) /\ (InHand(c, q)' <=> InHand(c, q))
      BY <1>1, <2>1, <2>2, <2>4 DEF Keeps, Executing, InHand
    <2>8. Path(w, c)'
      BY <1>1, <1>3, <2>1, <2>4 DEF Path
    <2>9. QED BY <1>1, <1>2, <1>3, <2>2, <2>3, <2>5, <2>6, <2>7, <2>8, Passed
  <1>8. CASE s # <<>>
    <2>1. Len(s) \in Nat \ {0} /\ DOMAIN s = 1 .. Len(s) /\ Len(s) \in DOMAIN s /\ \A i \in DOMAIN s : s[i] \in Proc
      BY <1>6, <1>8, NonEmpty
    <2>2. PICK p \in Proc : p = s[Len(s)]
      BY <2>1
    <2>3. w[p] = Awaits(r)
      BY <1>5, <2>1, <2>2 DEF Inv, Where, Waits
    <2>4. "finished" \notin flags[p] /\ heap.owner[p] = None /\ p \in spawned
      BY <2>3, DormantIs DEF Dormant
    <2>5. PICK t : t = SubSeq(s, 1, Len(s) - 1)
      OBVIOUS
    <2>6. /\ blockLock' = c /\ waiters' = [waiters EXCEPT ![r] = t]
          /\ nodeOwner' = [nodeOwner EXCEPT ![p] = None] /\ arg' = [arg EXCEPT ![c] = p]
          /\ Goto(c, "wakeup") /\ UNCHANGED waking
      BY <1>4, <1>5, <1>8, <2>2, <2>4, <2>5 DEF Waking
    <2>7. /\ t \in Seq(Proc) /\ DOMAIN t = 1 .. Len(s) - 1
          /\ \A i \in 1 .. Len(s) - 1 : t[i] = s[i] /\ i \in DOMAIN s /\ i # Len(s)
          /\ \A i \in DOMAIN s : i # Len(s) => i \in 1 .. Len(s) - 1
      <3>1. 1 \in 1 .. Len(s) + 1 /\ Len(s) - 1 \in 1 - 1 .. Len(s) /\ Len(s) - 1 - 1 + 1 = Len(s) - 1
        BY <2>1
      <3>2. /\ t \in Seq(Proc) /\ Len(t) = Len(s) - 1 - 1 + 1
            /\ \A j \in 1 .. Len(s) - 1 - 1 + 1 : t[j] = s[1 + j - 1]
        BY <1>6, <2>5, <3>1, SubSeqIs
      <3>3. \A i \in 1 .. Len(s) - 1 : t[i] = s[i] /\ i \in DOMAIN s /\ i # Len(s)
        <4>1. \A i \in 1 .. Len(s) - 1 : i \in 1 .. Len(s) - 1 - 1 + 1 /\ 1 + i - 1 = i
          BY <2>1
        <4>2. \A i \in 1 .. Len(s) - 1 : t[i] = s[i]
          <5>1. TAKE i \in 1 .. Len(s) - 1
          <5>2. t[i] = s[1 + i - 1]
            BY <3>2, <4>1, Zenon
          <5>3. QED BY <4>1, <5>2, Zenon
        <4>3. \A i \in 1 .. Len(s) - 1 : i \in DOMAIN s /\ i # Len(s)
          <5>1. PICK n : n = Len(s)
            OBVIOUS
          <5>2. DOMAIN s = 1 .. n
            BY <2>1, <5>1
          <5>3. \A i \in 1 .. n - 1 : i \in 1 .. n /\ i # n
            <6>1. n \in Nat
              BY <2>1, <5>1, Zenon
            <6>2. QED BY <6>1
          <5>4. QED BY <5>1, <5>2, <5>3, Zenon
        <4>4. QED BY <4>2, <4>3
      <3>4. DOMAIN t = 1 .. Len(s) - 1
        BY <2>1, <3>2
      <3>5. \A i \in DOMAIN s : i # Len(s) => i \in 1 .. Len(s) - 1
        BY <2>1
      <3>6. QED BY <3>2, <3>3, <3>4, <3>5
    <2>8. /\ waiters' \in [Queue -> Seq(Proc)] /\ waiters'[r] = t
          /\ \A q \in Queue \ {r} : waiters'[q] = waiters[q]
      BY <1>1, <2>6, <2>7 DEF TypeOK
    <2>9. /\ nodeOwner' \in [Proc -> Queue \union {None, "sleep", "garbage"}]
          /\ nodeOwner'[p] = None /\ \A q \in Proc \ {p} : nodeOwner'[q] = nodeOwner[q]
      BY <1>1, <2>6 DEF TypeOK
    <2>10. pc' \in [Core -> Labels] /\ pc'[c] = "wakeup" /\ \A d \in Core \ {c} : pc'[d] = pc[d]
      BY <1>1, <2>6, Went DEF Labels, KernelPc
    <2>11. /\ arg' \in [Core -> Proc \union {None}] /\ arg'[c] = p
           /\ \A d \in Core \ {c} : arg'[d] = arg[d]
      BY <1>1, <2>6 DEF TypeOK
    <2>12. PICK u : u = [q \in Proc |-> IF q = p THEN HandOf(c) ELSE w[q]]
      OBVIOUS
    <2>13. Moves(w, u, c, p, HandOf(c))
      <3>1. TypeOK'
        BY <1>1, <1>2, <2>6, <2>8, <2>9, <2>10, <2>11 DEF TypeOK, Labels
      <3>2. OthersKeep(c) /\ Unless(p)
        BY <1>1, <1>2, <2>6, <2>10, <2>11 DEF OthersKeep, Unless
      <3>3. Mine(c, w[p]) /\ Mine(c, HandOf(c)) /\ HandOf(c) \in Place /\ HandOf(c) # InReady
        BY <2>3, Places1, PlaceTypes DEF Mine
      <3>4. \A q \in Proc : Keeps(c, q)' <=> u[q] = OnCore(c)
        <4>1. \A q \in Proc : Keeps(c, q)' <=> Keeps(c, q)
          BY <1>1, <2>10 DEF Keeps, Executing
        <4>2. \A q \in Proc : u[q] = OnCore(c) <=> w[q] = OnCore(c)
          BY <2>3, <2>12, Places1
        <4>3. QED BY <4>1, <4>2 DEF Inv, Where, Runs
      <3>5. \A q \in Proc : InHand(c, q)' <=> u[q] = HandOf(c)
        BY <1>1, <2>10, <2>11, <2>12, Located DEF InHand
      <3>6. Path(u, c)'
        BY <1>1, <1>3, <1>4, <2>6, <2>10, <2>11, ProcessAssumption DEF Path
      <3>7. Standing(u, p)'
        <4>1. saved[p] # "none"
          BY <1>1, <1>3, <2>3, <2>4, Places1 DEF Inv, Standing
        <4>2. QED BY <1>2, <2>4, <2>12, <4>1, Places1 DEF Standing
      <3>8. QED BY <1>1, <1>2, <1>3, <2>4, <2>12, <3>1, <3>2, <3>3, <3>4, <3>5, <3>6, <3>7 DEF Moves
    <2>14. Sleeps(u)'
      <3>1. \A q \in Proc : Dozing(q)' <=> Dozing(q)
        BY <1>1, <1>2, <1>3, <2>10 DEF Dozing
      <3>2. \A q \in Proc : u[q] = Asleep <=> w[q] = Asleep
        BY <2>3, <2>12, Places1
      <3>3. QED BY <3>1, <3>2 DEF Inv, Where, Sleeps
    <2>15. \A i, j \in DOMAIN s : s[i] = s[j] => i = j
      BY <1>5 DEF Inv, Queues
    <2>16. Waits(u)'
      <3>1. ASSUME NEW q \in Queue, NEW m \in Proc
            PROVE  (\E i \in DOMAIN waiters'[q] : waiters'[q][i] = m) <=> u[m] = Awaits(q)
        <4>1. (\E i \in DOMAIN waiters[q] : waiters[q][i] = m) <=> w[m] = Awaits(q)
          BY DEF Inv, Where, Waits
        <4>2. CASE q # r
          <5>1. u[m] = Awaits(q) <=> w[m] = Awaits(q)
            BY <2>3, <2>12, <4>2, Places1
          <5>2. QED BY <2>8, <4>1, <4>2, <5>1
        <4>3. CASE q = r /\ m = p
          <5>1. u[m] # Awaits(q)
            BY <2>12, <4>3, Places1
          <5>2. \A i \in DOMAIN t : t[i] # p
            <6>1. ASSUME NEW i \in DOMAIN t, t[i] = p PROVE FALSE
              <7>1. i \in DOMAIN s /\ i # Len(s) /\ s[i] = p
                BY <2>7, <6>1
              <7>2. QED BY <2>1, <2>2, <2>15, <7>1
            <6>2. QED BY <6>1
          <5>3. QED BY <2>8, <4>3, <5>1, <5>2
        <4>4. CASE q = r /\ m # p
          <5>1. (\E i \in DOMAIN t : t[i] = m) <=> (\E i \in DOMAIN s : s[i] = m)
            BY <2>2, <2>7, <4>4
          <5>2. u[m] = w[m]
            BY <2>12, <4>4
          <5>3. QED BY <1>5, <2>8, <4>1, <4>4, <5>1, <5>2
        <4>5. QED BY <4>2, <4>3, <4>4
      <3>2. QED BY <3>1 DEF Waits
    <2>17. Queues'
      <3>1. ASSUME NEW q \in Queue, NEW i \in DOMAIN waiters'[q], NEW j \in DOMAIN waiters'[q],
                   waiters'[q][i] = waiters'[q][j]
            PROVE  i = j
        <4>1. CASE q # r
          BY <2>8, <3>1, <4>1 DEF Inv, Queues
        <4>2. CASE q = r
          BY <2>7, <2>8, <2>15, <3>1, <4>2
        <4>3. QED BY <4>1, <4>2
      <3>2. QED BY <1>1, <1>2, <3>1 DEF Inv, Queues
    <2>18. Owners(u)'
      <3>1. ASSUME NEW q \in Proc, nodeOwner'[q] # None PROVE Dormant(u, q)
        <4>1. q # p /\ Dormant(w, q)
          BY <1>1, <1>3, <2>9, <3>1 DEF Inv, Owners
        <4>2. QED BY <2>12, <4>1 DEF Dormant
      <3>2. ASSUME NEW i \in DOMAIN sleepers, ~sleepers[i].own PROVE nodeOwner'[sleepers[i].proc] = None
        <4>1. nodeOwner[sleepers[i].proc] = None
          BY <1>3, <3>2 DEF Inv, Owners
        <4>2. sleepers[i].proc \in Proc
          <5>1. sleepers \in Seq(Entry)
            BY <1>1 DEF TypeOK, Entry
          <5>2. sleepers[i] \in Entry
            BY <3>2, <5>1
          <5>3. QED BY <5>2 DEF Entry
        <4>3. QED BY <2>9, <4>1, <4>2
      <3>3. QED BY <1>2, <3>1, <3>2 DEF Owners, Dormant
    <2>19. QED BY <2>13, <2>14, <2>16, <2>17, <2>18, Moved DEF Requeues
  <1>9. QED BY <1>7, <1>8
----------------------------------------------------------------------------
(* The invariant                                                            *)

\* The queue made at first holds the young processes.
LEMMA FirstQueue ==
  ASSUME Init
  PROVE  Whole(heap) /\ \A p \in Proc : heap.owner[p] = IF p \in setup.young THEN Ready ELSE None
  <1> DEFINE n == Cardinality(setup.young)
  <1>1. PICK s \in [1 .. n -> setup.young] : {s[i] : i \in DOMAIN s} = setup.young /\ heap = Queued(s)
    BY DEF Init
  <1>2. setup.young \subseteq Proc /\ IsFiniteSet(setup.young) /\ n \in Nat
    <2>1. setup \in Setups /\ Setups \subseteq Setup /\ IsFiniteSet(Proc)
      BY ProcessAssumption DEF Init
    <2>2. setup.young \subseteq Proc
      BY <2>1 DEF Setup
    <2>3. QED BY <2>1, <2>2, FS_Subset, FS_CardinalityType
  <1> HIDE DEF n
  <1>3. s \in Surjection(1 .. n, setup.young)
    BY <1>1 DEF Surjection
  <1>4. IsFiniteSet(1 .. n) /\ Cardinality(1 .. n) = n
    BY <1>2, FS_Interval
  <1>5. s \in Injection(1 .. n, setup.young)
    BY <1>2, <1>3, <1>4, FS_Surjection DEF n
  <1>6. \A i, j \in 1 .. n : s[i] = s[j] => i = j
    BY <1>5 DEF Injection, IsInjective
  <1>7. s \in [1 .. n -> Proc]
    BY <1>1, <1>2
  <1>8. Holds(heap, s, n)
    BY <1>1, <1>2, <1>6, <1>7, QueuedHolds
  <1>9. \A p \in Proc : (\E j \in 1 .. n : s[j] = p) <=> p \in setup.young
    BY <1>1
  <1>10. QED BY <1>8, <1>9 DEF Holds

LEMMA InitInv ==
  ASSUME SoundSetups, Init
  PROVE  ProcessInv
  <1>1. setup \in Setups /\ setup \in Setup /\ BootCore \in setup.cores /\ InitProc \notin setup.young
        /\ BootCore \in Core /\ InitProc \in Proc /\ None \notin Proc /\ Sound(setup)
    BY ProcessAssumption DEF Init, SoundSetups
  <1>2. setup.young \subseteq Proc /\ setup.calls \subseteq Calls
    BY <1>1 DEF Setup
  <1>3. Whole(heap) /\ \A p \in Proc : heap.owner[p] = IF p \in setup.young THEN Ready ELSE None
    BY FirstQueue
  <1>4. /\ spawned = setup.young \union {InitProc}
        /\ flags = [p \in Proc |-> IF p = InitProc THEN {"running"} ELSE {}]
        /\ saved = [p \in Proc |-> IF p \in setup.young THEN "fork" ELSE "none"]
        /\ current = [c \in Core |-> IF c = BootCore THEN InitProc ELSE None]
        /\ pc = [c \in Core |-> IF c = BootCore THEN "user" ELSE "idle"]
        /\ arg = [c \in Core |-> None] /\ sleepers = <<>> /\ waiters = [q \in Queue |-> <<>>]
        /\ asserted = FALSE
    BY DEF Init
  <1>5. TypeOK
    <2>1. heap \in L!Heap
      BY <1>3, WholeHeap
    <2>2. pc \in [Core -> KernelPc \union {"user", "idle"}]
      BY <1>4
    <2>3. nodeOwner \in [Proc -> Queue \union {None, "sleep", "garbage"}]
      BY DEF Init
    <2>4. left \in [Proc -> 0 .. MaxSleep]
      BY ProcessAssumption DEF Init
    <2>5. /\ flags \in [Proc -> SUBSET {"running", "finished", "sleeping"}]
          /\ saved \in [Proc -> {"none", "kernel", "fork"}]
          /\ current \in [Core -> Proc \union {None}] /\ arg \in [Core -> Proc \union {None}]
      BY <1>1, <1>4
    <2>6. sleepers \in Seq([proc : Proc, own : BOOLEAN]) /\ waiters \in [Queue -> Seq(Proc)]
      BY <1>4
    <2>7. pending \in [Proc -> SUBSET Signal] /\ requeue \in [Core -> BOOLEAN]
          /\ waking \in [Core -> Queue \union {None}]
      BY DEF Init
    <2>8. queueLock = None /\ sleepLock = None /\ blockLock = None
      BY DEF Init
    <2>9. QED BY <1>1, <1>2, <1>4, <2>1, <2>2, <2>3, <2>4, <2>5, <2>6, <2>7, <2>8 DEF TypeOK
  <1>6. PICK w : w = [p \in Proc |-> IF p = InitProc THEN OnCore(BootCore)
                                     ELSE IF p \in setup.young THEN InReady ELSE Gone]
    OBVIOUS
  <1>7. w \in [Proc -> Place]
    BY <1>1, <1>6, PlaceTypes
  <1>8. Runs(w) /\ Hands(w)
    BY <1>1, <1>4, <1>6, Places1 DEF Runs, Hands, Keeps, Executing, InHand
  <1>9. Readies(w)
    BY <1>1, <1>3, <1>6, Places1, ProcessAssumption DEF Readies, IsReady
  <1>10. Sleeps(w) /\ Waits(w)
    BY <1>4, <1>6, Places1 DEF Sleeps, Dozing, Waits
  <1>11. \A c \in Core : Path(w, c)
    BY <1>1, <1>4 DEF Path
  <1>12. Queues
    BY <1>4 DEF Queues
  <1>13. Owners(w)
    <2>1. SUFFICES ASSUME Dozes PROVE Owners(w)
      BY DEF Owners
    <2>2. ~setup.dirty
      BY <1>1, <2>1 DEF Sound, Dozes
    <2>3. \A p \in Proc : nodeOwner[p] = None
      BY <2>2 DEF Init
    <2>4. QED BY <1>4, <2>3 DEF Owners
  <1>14. \A p \in Proc : Standing(w, p)
    BY <1>1, <1>4, <1>6, Places1 DEF Standing
  <1>15. Inv(w)
    BY <1>1, <1>3, <1>4, <1>5, <1>7, <1>8, <1>9, <1>10, <1>11, <1>12, <1>13, <1>14 DEF Inv, Where, AssertHolds
  <1>16. QED BY <1>7, <1>15 DEF ProcessInv

LEMMA NextInv == ProcessInv /\ [Next]_vars => ProcessInv'
  <1> SUFFICES ASSUME ProcessInv, [Next]_vars PROVE ProcessInv'
    OBVIOUS
  <1>1. PICK w \in [Proc -> Place] : Inv(w)
    BY DEF ProcessInv
  <1>2. ASSUME NEW c \in Core, Kernel(c) PROVE ProcessInv'
    BY <1>1, <1>2, SwitchStep, RequeueStep, PickStep, ClaimStep, LoadStep, ReadyingStep, KillCheckStep,
       ReturnStep, TimingStep, ExpireStep, ExpiredStep, WakingStep DEF Kernel
  <1>3. ASSUME NEW c \in Core, Program(c) PROVE ProcessInv'
    BY <1>1, <1>3, ForkStep, KillStep, ExitStep, SleepStep, BlockStep DEF Program
  <1>4. CASE UNCHANGED vars
    <2>1. UNCHANGED <<sched, cores, sleepers, sleepLock, left, blocks, rest>>
      BY <1>4 DEF vars, sleeps
    <2>2. left' \in [Proc -> 0 .. MaxSleep]
      BY <1>1, <2>1 DEF Inv, TypeOK
    <2>3. QED BY <1>1, <2>1, <2>2, TimeStep
  <1>5. QED BY <1>1, <1>2, <1>3, <1>4, TickStep, ElapseStep, IrqStep DEF Next

(* At every moment each process has one place and every part of the state  *)
(* agrees with it.                                                          *)
THEOREM ProcessInvariant == SoundSetups /\ Spec => []ProcessInv
  <1> SUFFICES ASSUME SoundSetups PROVE Spec => []ProcessInv
    OBVIOUS
  <1>1. Init => ProcessInv
    BY InitInv
  <1>2. QED BY <1>1, NextInv, PTL DEF Spec
----------------------------------------------------------------------------
(* What the invariant gives                                                 *)

\* A set whose elements are all equal has one, or none.
LEMMA One ==
  ASSUME NEW S, NEW b, b <=> \E x \in S : TRUE, \A x, y \in S : x = y
  PROVE  Cardinality(S) = IF b THEN 1 ELSE 0
  <1>1. CASE S = {}
    BY <1>1, FS_EmptySet
  <1>2. CASE S # {}
    <2>1. PICK x : x \in S
      BY <1>2
    <2>2. S = {x}
      BY <2>1
    <2>3. b
      BY <2>1
    <2>4. QED BY <2>2, <2>3, FS_Singleton
  <1>3. QED BY <1>1, <1>2

\* Where the process is asleep, in the queue without the entry being taken off.
LEMMA SleepingIs ==
  ASSUME NEW w, Inv(w), NEW p \in Proc
  PROVE  Cardinality({i \in DOMAIN Sleeping : Sleeping[i].proc = p}) = IF w[p] = Asleep THEN 1 ELSE 0
  <1>1. /\ sleepers \in Seq(Entry)
        /\ \A i, j \in DOMAIN sleepers : sleepers[i].proc = sleepers[j].proc => i = j
        /\ Dozing(p) <=> w[p] = Asleep
    BY DEF Inv, TypeOK, Entry, Queues, Where, Sleeps
  <1> DEFINE S == {i \in DOMAIN Sleeping : Sleeping[i].proc = p}
  <1>2. CASE pc[BootCore] = "expired"
    <2>1. Sleeping = Tail(sleepers)
      BY <1>2, ProcessAssumption DEF Sleeping
    <2>2. sleepers # <<>>
      BY <1>2, ProcessAssumption DEF Inv, Path
    <2>3. Len(sleepers) \in Nat \ {0} /\ DOMAIN sleepers = 1 .. Len(sleepers)
      BY <1>1, <2>2, NonEmpty
    <2>4. PICK t : t = Tail(sleepers)
      OBVIOUS
    <2>5. DOMAIN t = 1 .. Len(sleepers) - 1 /\ \A i \in 1 .. Len(sleepers) - 1 : t[i] = sleepers[i + 1]
      BY <1>1, <2>2, <2>4
    <2>6. \A i \in DOMAIN t : i \in Int /\ i + 1 \in DOMAIN sleepers /\ i + 1 # 1 /\ t[i] = sleepers[i + 1]
      BY <2>3, <2>5
    <2>7. ASSUME NEW i \in DOMAIN sleepers, i # 1
          PROVE  i - 1 \in DOMAIN t /\ t[i - 1] = sleepers[i]
      <3>1. i - 1 \in 1 .. Len(sleepers) - 1 /\ (i - 1) + 1 = i
        BY <2>3, <2>7
      <3>2. QED BY <2>5, <3>1
    <2>8. S = {i \in DOMAIN t : t[i].proc = p}
      BY <2>1, <2>4
    <2>9. \A i, j \in S : i = j
      <3>1. ASSUME NEW i \in S, NEW j \in S PROVE i = j
        <4>1. /\ i \in Int /\ i + 1 \in DOMAIN sleepers /\ sleepers[i + 1].proc = p
              /\ j \in Int /\ j + 1 \in DOMAIN sleepers /\ sleepers[j + 1].proc = p
          BY <2>6, <2>8, <3>1
        <4>2. i + 1 = j + 1
          BY <1>1, <4>1
        <4>3. QED BY <4>1, <4>2
      <3>2. QED BY <3>1
    <2>10. (w[p] = Asleep) <=> \E i \in S : TRUE
      <3>1. ASSUME NEW i \in S PROVE Dozing(p)
        BY <1>2, <2>6, <2>8, <3>1 DEF Dozing
      <3>2. ASSUME Dozing(p) PROVE \E i \in S : TRUE
        <4>1. PICK i \in DOMAIN sleepers : sleepers[i].proc = p /\ i # 1
          BY <1>2, <3>2 DEF Dozing
        <4>2. i - 1 \in DOMAIN t /\ t[i - 1].proc = p
          BY <2>7, <4>1
        <4>3. QED BY <2>8, <4>2
      <3>3. QED BY <1>1, <3>1, <3>2
    <2> HIDE DEF S
    <2>11. Cardinality(S) = IF w[p] = Asleep THEN 1 ELSE 0
      BY <2>9, <2>10, One
    <2>12. QED BY <2>11 DEF S
  <1>3. CASE pc[BootCore] # "expired"
    <2>1. ASSUME NEW c \in Core, pc[c] = "expired" PROVE FALSE
      <3>1. Dozes
        BY <2>1 DEF Inv, Path, Dozes
      <3>2. QED BY <1>3, <2>1, <3>1, DozesAlone
    <2>2. Sleeping = sleepers
      BY <2>1 DEF Sleeping
    <2>3. S = {i \in DOMAIN sleepers : sleepers[i].proc = p}
      BY <2>2
    <2>4. \A i, j \in S : i = j
      BY <1>1, <2>3
    <2>5. (w[p] = Asleep) <=> \E i \in S : TRUE
      BY <1>1, <1>3, <2>3 DEF Dozing
    <2> HIDE DEF S
    <2>6. Cardinality(S) = IF w[p] = Asleep THEN 1 ELSE 0
      BY <2>4, <2>5, One
    <2>7. QED BY <2>6 DEF S
  <1>4. QED BY <1>2, <1>3

\* Where the process waits for a device.
LEMMA WaitingIs ==
  ASSUME NEW w, Inv(w), NEW p \in Proc
  PROVE  Cardinality({qi \in Queue \X (1 .. Max) :
              qi[2] \in DOMAIN waiters[qi[1]] /\ waiters[qi[1]][qi[2]] = p})
           = IF \E q \in Queue : w[p] = Awaits(q) THEN 1 ELSE 0
  <1> DEFINE S == {qi \in Queue \X (1 .. Max) :
                     qi[2] \in DOMAIN waiters[qi[1]] /\ waiters[qi[1]][qi[2]] = p}
  <1>1. /\ \A q \in Queue : waiters[q] \in Seq(Proc)
        /\ \A q \in Queue : \A i, j \in DOMAIN waiters[q] : waiters[q][i] = waiters[q][j] => i = j
        /\ \A q \in Queue : (\E i \in DOMAIN waiters[q] : waiters[q][i] = p) <=> w[p] = Awaits(q)
    BY DEF Inv, TypeOK, Queues, Where, Waits
  <1>2. ASSUME NEW q \in Queue PROVE DOMAIN waiters[q] \subseteq 1 .. Max
    <2>1. PICK s \in Seq(Proc) : s = waiters[q]
      BY <1>1
    <2>2. DOMAIN s = 1 .. Len(s) /\ Len(s) \in Nat
      BY <2>1
    <2>3. LP!Distinct(s)
      BY <1>1, <2>1, <2>2 DEF LP!Distinct
    <2>4. Len(s) <= LP!Cardinality(Proc) /\ LP!Cardinality(Proc) \in Nat
      BY <2>3, Lists, LP!Bounded
    <2>5. LP!Cardinality(Proc) = Cardinality(Proc)
      BY DEF LP!Cardinality, Cardinality
    <2>6. QED BY <2>1, <2>2, <2>4, <2>5 DEF Max
  <1>3. \A x, y \in S : x = y
    <2>1. ASSUME NEW x \in S, NEW y \in S PROVE x = y
      <3>1. /\ x[1] \in Queue /\ x = <<x[1], x[2]>> /\ x[2] \in DOMAIN waiters[x[1]] /\ waiters[x[1]][x[2]] = p
            /\ y[1] \in Queue /\ y = <<y[1], y[2]>> /\ y[2] \in DOMAIN waiters[y[1]] /\ waiters[y[1]][y[2]] = p
        BY <2>1
      <3>2. w[p] = Awaits(x[1]) /\ w[p] = Awaits(y[1])
        BY <1>1, <3>1
      <3>3. x[1] = y[1]
        BY <3>2, Places1
      <3>4. x[2] = y[2]
        BY <1>1, <3>1, <3>3
      <3>5. QED BY <3>1, <3>3, <3>4
    <2>2. QED BY <2>1
  <1>4. (\E q \in Queue : w[p] = Awaits(q)) <=> \E x \in S : TRUE
    <2>1. ASSUME NEW q \in Queue, w[p] = Awaits(q) PROVE \E x \in S : TRUE
      <3>1. PICK i \in DOMAIN waiters[q] : waiters[q][i] = p
        BY <1>1, <2>1
      <3>2. i \in 1 .. Max
        BY <1>2, <3>1
      <3>3. <<q, i>> \in S
        BY <3>1, <3>2
      <3>4. QED BY <3>3
    <2>2. ASSUME NEW x \in S PROVE \E q \in Queue : w[p] = Awaits(q)
      <3>1. x[1] \in Queue /\ x[2] \in DOMAIN waiters[x[1]] /\ waiters[x[1]][x[2]] = p
        BY <2>2
      <3>2. QED BY <1>1, <3>1
    <2>3. QED BY <2>1, <2>2
  <1> HIDE DEF S
  <1>5. Cardinality(S) = IF \E q \in Queue : w[p] = Awaits(q) THEN 1 ELSE 0
    BY <1>3, <1>4, One
  <1>6. QED BY <1>5 DEF S

\* A place counts once in Places, and no place counts twice.
LEMMA PlacesIs ==
  ASSUME NEW w, Inv(w), NEW p \in Proc, w[p] # Gone
  PROVE  Places(p) = 1
  <1>1. /\ \A c \in Core : Keeps(c, p) <=> w[p] = OnCore(c)
        /\ \A c \in Core : InHand(c, p) <=> w[p] = HandOf(c)
        /\ IsReady(p) <=> w[p] = InReady
        /\ w[p] \in Place /\ Whole(heap)
    BY DEF Inv, Where, Runs, Hands, Readies
  <1> DEFINE A == {c \in Core : Keeps(c, p)}
             B == {c \in Core : InHand(c, p)}
             R == {i \in DOMAIN ReadySeq : ReadySeq[i] = p}
             a == \E c \in Core : w[p] = OnCore(c)
             b == \E c \in Core : w[p] = HandOf(c)
             q == \E r \in Queue : w[p] = Awaits(r)
  <1>2. Cardinality(A) = IF a THEN 1 ELSE 0
    <2>1. a <=> \E c \in A : TRUE
      BY <1>1
    <2>2. \A c, d \in A : c = d
      BY <1>1, Places1
    <2> HIDE DEF A, a
    <2>3. QED BY <2>1, <2>2, One
  <1>3. Cardinality(B) = IF b THEN 1 ELSE 0
    <2>1. b <=> \E c \in B : TRUE
      BY <1>1
    <2>2. \A c, d \in B : c = d
      BY <1>1, Places1
    <2> HIDE DEF B, b
    <2>3. QED BY <2>1, <2>2, One
  <1>4. Cardinality(R) = IF w[p] = InReady THEN 1 ELSE 0
    <2>1. (w[p] = InReady) <=> \E i \in R : TRUE
      BY <1>1, ReadyIs
    <2>2. \A i, j \in R : i = j
      BY <1>1, ReadyIs
    <2> HIDE DEF R
    <2>3. QED BY <2>1, <2>2, One
  <1>5. Times(p, ReadySeq) = Cardinality(R)
    BY DEF Times
  <1>6. /\ a => ~b /\ w[p] # InReady /\ w[p] # Asleep /\ ~q
        /\ b => w[p] # InReady /\ w[p] # Asleep /\ ~q
        /\ w[p] = InReady => w[p] # Asleep /\ ~q
        /\ w[p] = Asleep => ~q
    BY Places1
  <1>7. a \/ b \/ w[p] = InReady \/ w[p] = Asleep \/ q
    BY <1>1 DEF Place
  <1> HIDE DEF A, B, R, a, b, q
  <1>8. Places(p) = (IF a THEN 1 ELSE 0) + (IF b THEN 1 ELSE 0) + (IF w[p] = InReady THEN 1 ELSE 0)
                    + (IF w[p] = Asleep THEN 1 ELSE 0) + (IF q THEN 1 ELSE 0)
    <2>1. Places(p) = Cardinality(A) + Cardinality(B) + Times(p, ReadySeq)
            + (IF w[p] = Asleep THEN 1 ELSE 0) + (IF q THEN 1 ELSE 0)
      BY SleepingIs, WaitingIs DEF Places, A, B, q
    <2>2. QED BY <1>2, <1>3, <1>4, <1>5, <2>1
  <1>9. QED BY <1>6, <1>7, <1>8

\* Two cores never run the same process.
LEMMA RunsOnce ==
  ASSUME NEW w, Inv(w)
  PROVE  RunOnce
  <1>1. SUFFICES ASSUME NEW c \in Core, NEW d \in Core, c # d, Executing(c), Executing(d),
                        current[c] = current[d]
                 PROVE  FALSE
    BY DEF RunOnce
  <1>2. CASE \A e \in {c, d} : pc[e] = "switch" => requeue[e]
    <2>1. w[current[c]] = OnCore(c) /\ w[current[d]] = OnCore(d)
      BY <1>1, <1>2, CurrentIs
    <2>2. QED BY <1>1, <2>1, Places1
  <1>3. CASE \E e \in {c, d} : pc[e] = "switch" /\ ~requeue[e]
    <2>1. Dozes /\ ~Simple
      BY <1>3, Calling DEF Inv, Path
    <2>2. \A e \in {c, d} : e = BootCore
      <3>1. ASSUME NEW e \in {c, d}, e # BootCore PROVE FALSE
        <4>1. current[e] = None
          BY <2>1, <3>1, Solo
        <4>2. QED BY <1>1, <3>1, <4>1 DEF Executing
      <3>2. QED BY <3>1
    <2>3. QED BY <1>1, <2>2
  <1>4. QED BY <1>2, <1>3

(* At any moment each process that has not finished is in one place, and    *)
(* none runs on two cores: k_process_make_ready and the queues neither lose *)
(* a process nor hand it out twice.                                         *)
THEOREM EachOnce == SoundSetups /\ Spec => []OnePlace
  <1>1. ProcessInv => OnePlace
    <2>1. SUFFICES ASSUME NEW w, Inv(w) PROVE OnePlace
      BY DEF ProcessInv
    <2>2. ASSUME NEW p \in spawned, "finished" \notin flags[p] PROVE Places(p) = 1
      <3>1. p \in Proc
        BY <2>1, <2>2 DEF Inv, TypeOK
      <3>2. w[p] # Gone
        BY <2>1, <2>2, <3>1 DEF Inv, Standing
      <3>3. QED BY <2>1, <3>1, <3>2, PlacesIs
    <2>3. TypeOK
      BY <2>1 DEF Inv
    <2>4. QED BY <2>1, <2>2, <2>3, RunsOnce DEF OnePlace
  <1>2. QED BY <1>1, ProcessInvariant, PTL

(* The ready queue is a whole list whose nodes are the ready processes:     *)
(* no path of the kernel links a node that is linked already.               *)
THEOREM ReadyListWhole == SoundSetups /\ Spec => []ReadyWhole
  <1>1. ProcessInv => ReadyWhole
    BY ReadyIs DEF ProcessInv, Inv
  <1>2. QED BY <1>1, ProcessInvariant, PTL

(* The assertion of k_process_get_ready, which reads the flags a second     *)
(* time after the test that skips finished processes, never fails.          *)
THEOREM AssertionHolds == SoundSetups /\ Spec => []AssertHolds
  <1>1. ProcessInv => AssertHolds
    BY DEF ProcessInv, Inv
  <1>2. QED BY <1>1, ProcessInvariant, PTL

(* A core resumes a process only in a context that was saved since the      *)
(* process last ran.                                                        *)
THEOREM ResumesSaved == SoundSetups /\ Spec => FreshContext
  <1>1. ProcessInv => [\A c \in Core : Load(c) /\ arg[c] # None => saved[arg[c]] # "none"]_vars
    <2>1. SUFFICES ASSUME NEW w, Inv(w), NEW c \in Core, Load(c), arg[c] # None
                   PROVE  saved[arg[c]] # "none"
      BY DEF ProcessInv
    <2>2. pc[c] = "load"
      BY <2>1 DEF Load, At
    <2>3. QED BY <2>1, <2>2, HandIs
  <1>2. QED BY <1>1, ProcessInvariant, PTL DEF FreshContext
=============================================================================
