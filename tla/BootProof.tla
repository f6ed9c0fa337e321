------------------------------ MODULE BootProof ------------------------------
(***************************************************************************)
(* Proofs about Boot for every number of modules, processors and programs: *)
(* the order in which modules are started, the handshake that starts the   *)
(* processors, and the log they share.                                     *)
(***************************************************************************)
EXTENDS Boot, TLAPS, FiniteSetTheorems, SequenceTheorems, WellFoundedInduction

----------------------------------------------------------------------------
(* The modules                                                              *)

Deps(m) == setup.modules[m].deps
Provided(scope) == \E m \in ToSet(loaded) : scope \in ToSet(Scopes(m))
Calling == {calls[k].module : k \in DOMAIN calls}

\* A module is unread, to be loaded, being loaded, or was called.
Apart ==
  /\ IsInjective(to_load) /\ IsInjective(called)
  /\ \A k, l \in DOMAIN calls : calls[k].module = calls[l].module => k = l
  /\ ToSet(to_load) \cap Calling = {} /\ ToSet(called) \cap (ToSet(to_load) \union Calling) = {}

\* What a call has checked is provided; the call below it will provide the next.
Checked ==
  \A k \in DOMAIN calls :
    LET d == calls[k].dep
        deps == Deps(calls[k].module) IN
    /\ \A i \in 1 .. d - 1 : i \in DOMAIN deps => Provided(deps[i])
    /\ k < Len(calls) => d \in DOMAIN deps /\ deps[d] \in ToSet(Scopes(calls[k + 1].module))

\* What __k_preload_module makes of the files.
Images == {LoadImage(setup.modules[m].image) : m \in Modules}

LoadInv ==
  /\ setup \in Setups
  /\ images \in Seq(Images) /\ Len(images) <= Len(setup.modules)
  /\ to_load \in Seq(1 .. Len(images)) /\ called \in Seq(Modules) /\ loaded \in Seq(Modules)
  /\ calls \in Seq([module : Modules, dep : Nat \ {0}])
  /\ Apart /\ Checked
  /\ ToSet(loaded) = {m \in ToSet(called) : setup.modules[m].result = 0}
  /\ loading = "read" => called = <<>> /\ calls = <<>>
  /\ loading \in {"choose", "done"} => calls = <<>>
  /\ loading \in {"check", "call"} => calls # <<>>
  /\ loading = "call" => Top.dep > Len(Deps(Top.module))
  /\ InOrder

----------------------------------------------------------------------------
(* The processors                                                           *)

BootPcs == {"modules", "cores", "release", "wait", "exec", "user", "spoken",
            "panic", "crit", "stopped", "halted"}
OtherPcs == {"parked", "init", "idle", "lower", "scheduled", "ran",
             "panic", "crit", "stopped", "halted"}
Stages == {"quiet", "lock", "fill", "first", "second", "unlock"}
Lines == {<<>>} \union ({"ready", "spawned", "panic"} \X Cpu)
Entry == [owner : Cpu \union {0}, lapic : Nat, idle : BOOLEAN]

TypeInv ==
  /\ TypeOK
  /\ setup \in Setups
  /\ pc \in [Cpu -> BootPcs \union OtherPcs]
  /\ pc[BSP] \in BootPcs /\ \A p \in Cpu \ {BSP} : pc[p] \in OtherPcs
  /\ cores \in [0 .. MaxCores - 1 -> Entry]
  /\ say \in [Cpu -> [stage : Stages, line : Lines]]
  /\ target \in [Cpu -> Nat]

\* Who starts is the processor the loop is at, and the flag is up for it.
Handshake ==
  /\ \A p \in Cpu : pc[p] \in {"init", "idle", "lower"} => p = core /\ flag
  /\ pc[BSP] \in {"release", "wait"} => core \in Cpu /\ core # BSP
  /\ pc[BSP] = "release" => flag
  /\ \A p \in Cpu : pc[p] \in {"init", "idle", "lower"} => pc[BSP] \notin {"modules", "cores", "release"}
  /\ \A p \in Cpu \ {BSP} :
       p > core \/ (p = core /\ pc[BSP] \in {"modules", "cores", "release"})
         => pc[p] \in {"parked", "halted"}
  /\ pc[BSP] = "modules" => core_count = 0
  /\ core_count > 0 /\ pc[BSP] \in {"exec", "user", "spoken"} => core > Len(setup.lapics)

\* The entry of cores[] that belongs to p is complete.
Full(p) == cores[Number(p)] = [owner |-> p, lapic |-> setup.lapics[p], idle |-> TRUE]

Entries1 ==
  BootFirst =>
    /\ pc[BSP] # "modules" => cores[0].owner = BSP /\ cores[0].idle
    /\ \A p \in Cpu \ {BSP} :
         /\ pc[p] = "idle" => cores[Number(p)].owner = p /\ cores[Number(p)].lapic = setup.lapics[p]
         /\ pc[p] \in {"lower", "scheduled", "ran"} => Full(p)
    /\ \A p \in Cpu : p < core => Full(p)
    /\ pc[BSP] = "wait" /\ ~flag => Full(core)

\* Every id in cores[] is that of a processor with this number.
Ids == \A n \in DOMAIN cores : cores[n].lapic # 0 =>
         \E p \in Cpu : Number(p) = n /\ cores[n].lapic = setup.lapics[p]

StartInv == TypeInv /\ Handshake /\ Entries1 /\ Ids

----------------------------------------------------------------------------
(* The log                                                                  *)

Holds(p) == say[p].stage \in {"fill", "first", "second", "unlock"}
Printed(line) == \E i \in DOMAIN out : out[i].line = line
Ready(p) == \E i \in DOMAIN out : out[i] = [line |-> <<"ready", p>>, half |-> "second"]

\* As long as nobody panics, the lock keeps the buffer and the output apart.
Locked ==
  /\ \A p \in Cpu : pc[p] # "halted"
  /\ \A p \in Cpu : Holds(p) => locked
  /\ \A p, q \in Cpu : Holds(p) /\ Holds(q) => p = q
  /\ \A p \in Cpu : say[p].stage \in {"first", "second"} => buffer = say[p].line

\* Each line is said by one processor, at one place in its code.
Said ==
  /\ \A p \in Cpu : say[p].stage # "quiet" =>
       \/ say[p].line = <<"ready", p>> /\ (IF p = BSP THEN core > BSP ELSE pc[p] = "lower")
       \/ say[p].line = <<"spawned", p>> /\ pc[p] \in {"ran", "spoken"}
  /\ \A p \in Cpu : Printed(<<"ready", p>>) => IF p = BSP THEN core > BSP ELSE pc[p] \in {"lower", "scheduled", "ran"}
  /\ \A p \in Cpu : Printed(<<"spawned", p>>) => pc[p] \in {"ran", "spoken"}
  /\ \A p \in Cpu : say[p].stage \in {"lock", "fill", "first"} => ~Printed(say[p].line)
  /\ \A p \in Cpu \ {BSP} :
       pc[p] \in {"scheduled", "ran"} \/ (pc[p] = "lower" /\ say[p].stage \in {"unlock", "quiet"})
         => Ready(p)

Halves ==
  /\ out \in Seq([line : Lines, half : {"first", "second"}])
  /\ Whole(out)
  /\ Len(out) % 2 = 1 <=> \E p \in Cpu : say[p].stage = "second"
  /\ \A p \in Cpu : say[p].stage = "second" => out[Len(out)].line = say[p].line

QuietInv == Panicking = {} => Locked /\ Said /\ Halves

\* The last processor is alone with the log from its panic on.
Deserted(p) == \A q \in Cpu \ {p} : pc[q] \in {"parked", "halted"}
LastWords(p) ==
  Len(out) > 1 /\ SubSeq(out, Len(out) - 1, Len(out))
                    = << [line |-> <<"panic", p>>, half |-> "first"],
                         [line |-> <<"panic", p>>, half |-> "second"] >>
PanicInv ==
  \A p \in Cpu : pc[p] \in {"crit", "stopped"} /\ Deserted(p) =>
    /\ say[p].stage # "quiet" => pc[p] = "crit" /\ say[p].line = <<"panic", p>>
    /\ say[p].stage \in {"first", "second"} => buffer = <<"panic", p>>
    /\ say[p].stage = "second" => Len(out) > 0 /\ out[Len(out)] = [line |-> <<"panic", p>>, half |-> "first"]
    /\ say[p].stage \in {"unlock", "quiet"} => LastWords(p)

LogInv ==
  /\ out \in Seq([line : Lines, half : {"first", "second"}]) /\ buffer \in Lines
  /\ QuietInv /\ PanicInv

----------------------------------------------------------------------------
(* Taking one entry out of a list without repetitions.                     *)
LEMMA RemoveAtSpec ==
  ASSUME NEW S, NEW s \in Seq(S), NEW i \in DOMAIN s
  PROVE  /\ RemoveAt(s, i) \in Seq(S)
         /\ Len(RemoveAt(s, i)) = Len(s) - 1
         /\ \A j \in 1 .. Len(s) - 1 : RemoveAt(s, i)[j] = IF j < i THEN s[j] ELSE s[j + 1]
  <1> DEFINE a == SubSeq(s, 1, i - 1)
             b == SubSeq(s, i + 1, Len(s))
  <1>1. /\ a \in Seq(S) /\ Len(a) = i - 1 /\ \A j \in 1 .. i - 1 : a[j] = s[j]
        /\ b \in Seq(S) /\ Len(b) = Len(s) - i /\ \A j \in 1 .. Len(s) - i : b[j] = s[i + j]
    OBVIOUS
  <1>2. RemoveAt(s, i) = a \o b
    BY DEF RemoveAt
  <1> HIDE DEF a, b
  <1>3. /\ a \o b \in Seq(S) /\ Len(a \o b) = Len(a) + Len(b)
        /\ \A j \in 1 .. Len(a) + Len(b) : (a \o b)[j] = IF j <= Len(a) THEN a[j] ELSE b[j - Len(a)]
    BY <1>1, SMTT(30)
  <1>4. i \in 1 .. Len(s) /\ Len(s) \in Nat
    OBVIOUS
  <1>5. ASSUME NEW j \in 1 .. Len(s) - 1
        PROVE  (a \o b)[j] = IF j < i THEN s[j] ELSE s[j + 1]
    <2>1. CASE j < i
      <3>1. j \in 1 .. i - 1 /\ j <= Len(a) /\ j \in 1 .. Len(a) + Len(b)
        BY <1>1, <1>4, <2>1
      <3>2. QED BY <1>1, <1>3, <2>1, <3>1
    <2>2. CASE ~(j < i)
      <3>1. /\ ~(j <= Len(a)) /\ j \in 1 .. Len(a) + Len(b)
            /\ j - Len(a) \in 1 .. Len(s) - i /\ i + (j - Len(a)) = j + 1
        BY <1>1, <1>4, <2>2, SMTT(30)
      <3>2. QED BY <1>1, <1>3, <2>2, <3>1
    <2>3. QED BY <2>1, <2>2
  <1>6. Len(a \o b) = Len(s) - 1
    BY <1>1, <1>3, <1>4
  <1>7. QED BY <1>2, <1>3, <1>5, <1>6

LEMMA RemoveAtSet ==
  ASSUME NEW S, NEW s \in Seq(S), NEW i \in DOMAIN s, IsInjective(s)
  PROVE  IsInjective(RemoveAt(s, i)) /\ ToSet(RemoveAt(s, i)) = ToSet(s) \ {s[i]}
  <1> DEFINE t == RemoveAt(s, i)
  <1>1. /\ t \in Seq(S) /\ Len(t) = Len(s) - 1
        /\ \A j \in 1 .. Len(s) - 1 : t[j] = IF j < i THEN s[j] ELSE s[j + 1]
    BY RemoveAtSpec
  <1> HIDE DEF t
  <1>2. IsInjective(t)
    <2> SUFFICES ASSUME NEW j \in DOMAIN t, NEW k \in DOMAIN t, t[j] = t[k] PROVE j = k
      BY DEF IsInjective
    <2>1. \A n \in DOMAIN t : \E m \in DOMAIN s : t[n] = s[m] /\ m = IF n < i THEN n ELSE n + 1
      BY <1>1
    <2>2. DOMAIN t \subseteq Int /\ i \in Int
      BY <1>1
    <2>3. PICK m \in DOMAIN s, n \in DOMAIN s : /\ t[j] = s[m] /\ m = IF j < i THEN j ELSE j + 1
                                               /\ t[k] = s[n] /\ n = IF k < i THEN k ELSE k + 1
      BY <2>1
    <2>4. m = n
      BY <2>3 DEF IsInjective
    <2>5. QED BY <2>2, <2>3, <2>4
  <1>3. \A j \in DOMAIN t : t[j] \in ToSet(s) /\ t[j] # s[i]
    BY <1>1 DEF IsInjective, ToSet
  <1>4. \A j \in DOMAIN s : j # i => s[j] \in ToSet(t)
    <2> SUFFICES ASSUME NEW j \in DOMAIN s, j # i PROVE \E k \in DOMAIN t : t[k] = s[j]
      BY DEF ToSet
    <2>1. CASE j < i
      BY <1>1, <2>1
    <2>2. CASE j > i
      <3>1. j - 1 \in DOMAIN t /\ t[j - 1] = s[j]
        BY <1>1, <2>2
      <3>2. QED BY <3>1
    <2>3. QED BY <2>1, <2>2
  <1>5. QED BY <1>2, <1>3, <1>4 DEF ToSet, t

LEMMA NonEmpty ==
  ASSUME NEW S, NEW s \in Seq(S), s # <<>>
  PROVE  /\ Len(s) \in Nat \ {0} /\ DOMAIN s = 1 .. Len(s) /\ s[Len(s)] \in S
         /\ \A k \in DOMAIN s : s[k] \in S
  <1>1. Len(s) # 0
    BY EmptySeq
  <1>2. QED BY <1>1

LEMMA AppendSet ==
  ASSUME NEW S, NEW s \in Seq(S), NEW x \in S
  PROVE  /\ ToSet(Append(s, x)) = ToSet(s) \union {x}
         /\ IsInjective(s) /\ x \notin ToSet(s) => IsInjective(Append(s, x))
  <1>1. /\ Append(s, x) \in Seq(S) /\ Len(Append(s, x)) = Len(s) + 1
        /\ \A i \in 1 .. Len(s) : Append(s, x)[i] = s[i]
        /\ Append(s, x)[Len(s) + 1] = x
    OBVIOUS
  <1>2. ToSet(Append(s, x)) \subseteq ToSet(s) \union {x}
    BY <1>1 DEF ToSet
  <1>3. \A i \in DOMAIN s : i \in DOMAIN Append(s, x) /\ Append(s, x)[i] = s[i]
    BY <1>1
  <1>4. Len(s) + 1 \in DOMAIN Append(s, x)
    BY <1>1
  <1>5. ToSet(s) \union {x} \subseteq ToSet(Append(s, x))
    BY <1>1, <1>3, <1>4 DEF ToSet
  <1>6. ASSUME IsInjective(s), x \notin ToSet(s) PROVE IsInjective(Append(s, x))
    BY <1>1, <1>6 DEF IsInjective, ToSet
  <1>7. QED BY <1>2, <1>5, <1>6

\* What a step of k_load_modules does not touch.
Constants == UNCHANGED <<setup, images, loaded, called>>

LEMMA LoaderInitInv == LoaderInit => LoadInv
  <1> SUFFICES ASSUME LoaderInit PROVE LoadInv
    OBVIOUS
  <1>1. Len(setup.modules) \in Nat
    BY LoaderAssumption DEF LoaderInit
  <1>2. ToSet(<<>>) = {} /\ IsInjective(<<>>)
    BY DEF ToSet, IsInjective
  <1>3. InOrder
    BY <1>2 DEF LoaderInit, InOrder
  <1>4. QED
    BY <1>1, <1>2, <1>3 DEF LoaderInit, LoadInv, Apart, Checked

(* A file that was prepared is new on the list to_load.                    *)
LEMMA PreloadStep == LoadInv /\ Preload => LoadInv'
  <1> SUFFICES ASSUME LoadInv, Preload PROVE LoadInv'
    OBVIOUS
  <1> DEFINE m == Len(images) + 1
             image == LoadImage(setup.modules[m].image)
  <1>1. /\ called = <<>> /\ calls = <<>> /\ UNCHANGED <<setup, loaded, calls, called>>
        /\ loading = "read" /\ setup \in Setups
        /\ images \in Seq(Images) /\ Len(images) \in Nat /\ to_load \in Seq(1 .. Len(images))
    BY DEF LoadInv, Preload
  <1>2. CASE m \notin Modules
    <2>1. loading' = "choose" /\ UNCHANGED <<images, to_load>>
      BY <1>2 DEF Preload
    <2>2. Images' = Images /\ Modules' = Modules /\ Apart' /\ Checked' /\ InOrder'
      BY <1>1, <2>1 DEF LoadInv, Images, Modules, Apart, Calling, Checked, InOrder, Scopes
    <2>3. QED BY <1>1, <2>1, <2>2 DEF LoadInv
  <1>3. CASE m \in Modules
    <2>1. loading' = "read" /\ images' = Append(images, image)
          /\ to_load' \in {to_load, Append(to_load, m)}
      BY <1>1, <1>3 DEF Preload
    <2>2. image \in Images /\ Images' = Images /\ Modules' = Modules
      BY <1>1, <1>3 DEF Images, Modules
    <2> HIDE DEF image
    <2>3. images' \in Seq(Images) /\ Len(images') = Len(images) + 1 /\ Len(images') <= Len(setup.modules)
      BY <1>1, <1>3, <2>1, <2>2, LoaderAssumption DEF Modules
    <2>4. \A i \in DOMAIN to_load : to_load[i] \in 1 .. m
      BY <1>1
    <2>5. to_load \in Seq(1 .. m) /\ m \notin ToSet(to_load) /\ m \in 1 .. m
      BY <1>1, <2>4 DEF ToSet
    <2>9. Append(to_load, m) \in Seq(1 .. m)
      BY <2>5
    <2>6. to_load' \in Seq(1 .. m) /\ IsInjective(to_load')
      <3>1. IsInjective(to_load)
        BY DEF LoadInv, Apart
      <3>2. IsInjective(Append(to_load, m))
        BY <2>5, <3>1, AppendSet
      <3>3. QED BY <2>1, <2>5, <2>9, <3>1, <3>2
    <2>7. Apart' /\ Checked' /\ InOrder'
      BY <1>1, <2>2, <2>6 DEF LoadInv, Apart, Calling, Checked, InOrder, Scopes, ToSet, IsInjective
    <2>8. QED BY <1>1, <2>1, <2>2, <2>3, <2>6, <2>7 DEF LoadInv
  <1>4. QED BY <1>2, <1>3

(* __load_recursive of a module takes it from the list to the calls.       *)
LEMMA EnterStep ==
  ASSUME LoadInv, NEW i \in DOMAIN to_load, Enter(i), Constants,
         calls # <<>> => /\ Top.dep \in DOMAIN Deps(Top.module)
                         /\ Deps(Top.module)[Top.dep] \in ToSet(Scopes(to_load[i]))
  PROVE  LoadInv'
  <1> DEFINE c == [module |-> to_load[i], dep |-> 1]
  <1>1. /\ setup \in Setups /\ setup' = setup /\ images' = images /\ loaded' = loaded /\ called' = called
        /\ loading' = "check" /\ calls' = Append(calls, c)
        /\ to_load' = RemoveAt(to_load, i)
    BY DEF LoadInv, Constants, Enter
  <1>2. c \in [module : Modules, dep : Nat \ {0}]
    <2>1. to_load[i] \in 1 .. Len(images) /\ Len(images) <= Len(setup.modules)
      BY SMTT(30) DEF LoadInv
    <2>2. QED BY <1>1, <2>1, LoaderAssumption DEF Modules, LoadInv
  <1>3. /\ calls \in Seq([module : Modules, dep : Nat \ {0}]) /\ to_load \in Seq(1 .. Len(images))
        /\ Len(calls) \in Nat /\ DOMAIN calls = 1 .. Len(calls) /\ Apart /\ Checked
    BY DEF LoadInv
  <1>4. /\ DOMAIN calls' = 1 .. Len(calls) + 1
        /\ calls' \in Seq([module : Modules, dep : Nat \ {0}]) /\ Len(calls') = Len(calls) + 1
        /\ \A k \in 1 .. Len(calls) : calls'[k] = calls[k]
        /\ calls'[Len(calls) + 1] = c
    BY <1>1, <1>2, <1>3
  <1>5. /\ to_load' \in Seq(1 .. Len(images)) /\ IsInjective(to_load')
        /\ ToSet(to_load') = ToSet(to_load) \ {c.module}
    BY <1>1, <1>3, RemoveAtSpec, RemoveAtSet DEF LoadInv, Apart
  <1>6. c.module \in ToSet(to_load)
    BY DEF ToSet
  <1> HIDE DEF c
  <1>a. \A k \in DOMAIN calls' : k \in DOMAIN calls \/ k = Len(calls) + 1
    BY <1>3, <1>4
  <1>b. \A k \in DOMAIN calls : calls'[k] = calls[k]
    BY <1>3, <1>4
  <1>7. Calling' \subseteq Calling \union {c.module}
    <2>2. \A k \in DOMAIN calls' : calls'[k].module \in Calling \union {c.module}
      BY <1>4, <1>a, <1>b DEF Calling
    <2>3. QED BY <2>2 DEF Calling
  <1>8. Apart'
    <2>1. \A k, l \in DOMAIN calls' : calls'[k].module = calls'[l].module => k = l
      <3>1. \A k \in DOMAIN calls : calls[k].module # c.module
        BY <1>3, <1>6 DEF Apart, Calling
      <3>2. QED BY <1>3, <1>4, <1>a, <1>b, <3>1 DEF Apart
    <2>2. IsInjective(called') /\ ToSet(called') = ToSet(called)
      BY <1>1, <1>3 DEF Apart
    <2>3. ToSet(to_load') \cap Calling' = {}
      BY <1>3, <1>5, <1>7 DEF Apart
    <2>4. ToSet(called') \cap (ToSet(to_load') \union Calling') = {}
      BY <1>3, <1>5, <1>6, <1>7, <2>2 DEF Apart
    <2>5. QED BY <1>5, <2>1, <2>2, <2>3, <2>4 DEF Apart
  <1>9. Checked'
    <2>1. \A m : (Provided(m)' <=> Provided(m)) /\ Deps(m)' = Deps(m) /\ Scopes(m)' = Scopes(m)
      BY <1>1 DEF Provided, Deps, Scopes
    <2> SUFFICES ASSUME NEW k \in DOMAIN calls'
                 PROVE  LET d == calls'[k].dep
                            deps == Deps(calls'[k].module) IN
                        /\ \A j \in 1 .. d - 1 : j \in DOMAIN deps => Provided(deps[j])
                        /\ k < Len(calls') => d \in DOMAIN deps /\ deps[d] \in ToSet(Scopes(calls'[k + 1].module))
      BY <2>1 DEF Checked
    <2>2. CASE k = Len(calls) + 1
      BY <1>4, <2>2 DEF c
    <2>3. CASE k = Len(calls) /\ k # 0
      <3>1. calls # <<>> /\ k \in DOMAIN calls /\ calls'[k] = Top /\ calls[k] = Top
        BY <1>3, <1>4, <2>3 DEF Top
      <3>2. calls'[k + 1].module = to_load[i]
        BY <1>4, <2>3 DEF c
      <3>3. QED BY <1>3, <3>1, <3>2 DEF Checked
    <2>4. CASE k < Len(calls)
      <3>1. k \in DOMAIN calls /\ k + 1 \in DOMAIN calls
        BY <1>3, <1>4, <2>4, SMTT(30)
      <3>2. calls'[k] = calls[k] /\ calls'[k + 1] = calls[k + 1]
        BY <3>1, <1>b
      <3>3. QED BY <1>3, <2>4, <3>1, <3>2 DEF Checked
    <2>5. QED BY <1>3, <1>4, <2>2, <2>3, <2>4
  <1>10. InOrder' /\ Images' = Images /\ Modules' = Modules
    BY <1>1 DEF LoadInv, InOrder, Scopes, Images, Modules
  <1>11. ToSet(loaded') = {m \in ToSet(called') : setup'.modules[m].result = 0}
    BY <1>1 DEF LoadInv
  <1>12. calls' # <<>>
    BY <1>3, <1>4
  <1>13. QED
    BY <1>1, <1>4, <1>5, <1>8, <1>9, <1>10, <1>11, <1>12 DEF LoadInv

(* A failure forgets the calls, and only them.                             *)
LEMMA FailStep ==
  ASSUME LoadInv, Constants, UNCHANGED to_load, calls' = <<>>, loading' \in {"choose", "done"}
  PROVE  LoadInv'
  <1>1. Images' = Images /\ Modules' = Modules /\ InOrder' /\ Checked'
    BY DEF LoadInv, Constants, InOrder, Scopes, Images, Modules, Checked
  <1>2. Calling' = {}
    BY DEF Calling
  <1>3. Apart'
    <2>1. DOMAIN calls' = {} /\ called' = called /\ to_load' = to_load /\ Apart
      BY DEF LoadInv, Constants
    <2>2. QED BY <1>2, <2>1 DEF Apart
  <1>4. ToSet(loaded') = {m \in ToSet(called') : setup'.modules[m].result = 0}
    BY DEF LoadInv, Constants
  <1>5. QED BY <1>1, <1>3, <1>4 DEF LoadInv, Constants

(* The way back to the caller, and on to its next dependency.              *)
LEMMA AdvancedSpec ==
  ASSUME NEW st \in Seq([module : Modules, dep : Nat \ {0}]), st # <<>>
  PROVE  /\ Advanced(st) \in Seq([module : Modules, dep : Nat \ {0}])
         /\ Len(Advanced(st)) = Len(st) /\ Advanced(st) # <<>>
         /\ \A k \in DOMAIN st : /\ Advanced(st)[k].module = st[k].module
                                 /\ k < Len(st) => Advanced(st)[k].dep = st[k].dep
         /\ Advanced(st)[Len(st)].dep = st[Len(st)].dep + 1
  <1>1. /\ Len(st) \in Nat \ {0} /\ DOMAIN st = 1 .. Len(st)
        /\ \A k \in DOMAIN st : st[k] \in [module : Modules, dep : Nat \ {0}]
    BY NonEmpty, ZenonT(30)
  <1> DEFINE last == [st[Len(st)] EXCEPT !.dep = @ + 1]
  <1>2. last \in [module : Modules, dep : Nat \ {0}] /\ last.module = st[Len(st)].module
        /\ last.dep = st[Len(st)].dep + 1
    BY <1>1
  <1>3. Advanced(st) = [st EXCEPT ![Len(st)] = last]
    BY DEF Advanced
  <1> HIDE DEF last
  <1>4. Advanced(st) \in Seq([module : Modules, dep : Nat \ {0}]) /\ Len(Advanced(st)) = Len(st)
    BY <1>1, <1>2, <1>3, ExceptSeq
  <1>5. \A k \in DOMAIN st : Advanced(st)[k] = IF k = Len(st) THEN last ELSE st[k]
    BY <1>1, <1>3
  <1>6. QED BY <1>1, <1>2, <1>4, <1>5

LEMMA AdvanceStep ==
  ASSUME LoadInv, Constants, UNCHANGED to_load, loading' = "check", calls # <<>>,
         calls' = Advanced(calls), Provided(Deps(Top.module)[Top.dep])
  PROVE  LoadInv'
  <1>1. /\ calls \in Seq([module : Modules, dep : Nat \ {0}]) /\ Apart /\ Checked
        /\ Len(calls) \in Nat \ {0} /\ DOMAIN calls = 1 .. Len(calls)
        /\ \A k \in DOMAIN calls : calls[k].dep \in Nat \ {0}
    <2>1. calls \in Seq([module : Modules, dep : Nat \ {0}]) /\ Apart /\ Checked
      BY DEF LoadInv
    <2>2. /\ Len(calls) \in Nat \ {0} /\ DOMAIN calls = 1 .. Len(calls)
          /\ \A k \in DOMAIN calls : calls[k] \in [module : Modules, dep : Nat \ {0}]
      BY <2>1, NonEmpty, ZenonT(30)
    <2>3. QED BY <2>1, <2>2
  <1>2. /\ calls' \in Seq([module : Modules, dep : Nat \ {0}]) /\ DOMAIN calls' = DOMAIN calls
        /\ Len(calls') = Len(calls) /\ calls' # <<>>
        /\ \A k \in DOMAIN calls : /\ calls'[k].module = calls[k].module
                                   /\ k < Len(calls) => calls'[k].dep = calls[k].dep
        /\ calls'[Len(calls)].dep = Top.dep + 1
    <2>1. calls # <<>> /\ calls' = Advanced(calls)
      OBVIOUS
    <2>2. /\ Advanced(calls) \in Seq([module : Modules, dep : Nat \ {0}])
          /\ Len(Advanced(calls)) = Len(calls) /\ Advanced(calls) # <<>>
          /\ \A k \in DOMAIN calls : /\ Advanced(calls)[k].module = calls[k].module
                                     /\ k < Len(calls) => Advanced(calls)[k].dep = calls[k].dep
          /\ Advanced(calls)[Len(calls)].dep = calls[Len(calls)].dep + 1
      BY <1>1, <2>1, AdvancedSpec
    <2>3. DOMAIN Advanced(calls) = 1 .. Len(Advanced(calls))
      BY <2>2
    <2>4. QED BY <1>1, <2>1, <2>2, <2>3 DEF Top
  <1>3. Images' = Images /\ Modules' = Modules /\ InOrder'
    BY DEF LoadInv, Constants, InOrder, Scopes, Images, Modules
  <1>4. Calling' = Calling
    BY <1>2 DEF Calling
  <1>5. Apart'
    BY <1>1, <1>2, <1>4 DEF Constants, Apart
  <1>6. Checked'
    <2>1. \A m : (Provided(m)' <=> Provided(m)) /\ Deps(m)' = Deps(m) /\ Scopes(m)' = Scopes(m)
      BY DEF Constants, Provided, Deps, Scopes
    <2> SUFFICES ASSUME NEW k \in DOMAIN calls'
                 PROVE  LET d == calls'[k].dep
                            deps == Deps(calls'[k].module) IN
                        /\ \A j \in 1 .. d - 1 : j \in DOMAIN deps => Provided(deps[j])
                        /\ k < Len(calls') => d \in DOMAIN deps /\ deps[d] \in ToSet(Scopes(calls'[k + 1].module))
      BY <2>1 DEF Checked
    <2>2. CASE k = Len(calls)
      <3>1. calls[k] = Top /\ Top.dep \in Nat \ {0}
        BY <1>1, <2>2 DEF Top
      <3>2. \A j \in 1 .. Top.dep : j \in 1 .. Top.dep - 1 \/ j = Top.dep
        BY <3>1
      <3>3. QED BY <1>1, <1>2, <2>2, <3>1, <3>2 DEF Checked
    <2>3. CASE k < Len(calls)
      <3>1. k \in DOMAIN calls /\ k + 1 \in DOMAIN calls
        BY <1>1, <1>2, <2>3
      <3>2. QED BY <1>1, <1>2, <2>3, <3>1 DEF Checked
    <2>4. QED BY <1>1, <1>2, <2>2, <2>3
  <1>7. ToSet(loaded') = {m \in ToSet(called') : setup'.modules[m].result = 0}
    BY DEF LoadInv, Constants
  <1>8. QED BY <1>2, <1>3, <1>5, <1>6, <1>7 DEF LoadInv, Constants

LEMMA TopSpec ==
  ASSUME NEW R, calls \in Seq(R), calls # <<>>
  PROVE  /\ Len(calls) \in Nat \ {0} /\ DOMAIN calls = 1 .. Len(calls) /\ Len(calls) \in DOMAIN calls
         /\ Top = calls[Len(calls)] /\ Top \in R
  <1>1. /\ Len(calls) \in Nat \ {0} /\ DOMAIN calls = 1 .. Len(calls) /\ calls[Len(calls)] \in R
    BY NonEmpty
  <1>2. QED BY <1>1 DEF Top

LEMMA FrontSpec ==
  ASSUME NEW R, NEW s \in Seq(R), Len(s) > 1
  PROVE  /\ Front(s) \in Seq(R) /\ Len(Front(s)) = Len(s) - 1 /\ DOMAIN Front(s) = 1 .. Len(s) - 1
         /\ \A k \in 1 .. Len(s) - 1 : Front(s)[k] = s[k]
         /\ Front(s) # <<>>
  <1>1. /\ SubSeq(s, 1, Len(s) - 1) \in Seq(R) /\ Len(SubSeq(s, 1, Len(s) - 1)) = Len(s) - 1
        /\ \A k \in 1 .. Len(s) - 1 : SubSeq(s, 1, Len(s) - 1)[k] = s[k]
    OBVIOUS
  <1>2. Front(s) = SubSeq(s, 1, Len(s) - 1)
    BY DEF Front
  <1>3. Front(s) # <<>>
    <2>1. Len(Front(s)) # Len(<<>>)
      BY <1>1, <1>2
    <2>2. QED BY <2>1
  <1>4. DOMAIN Front(s) = 1 .. Len(s) - 1
    BY <1>1, <1>2
  <1>5. QED BY <1>1, <1>2, <1>3, <1>4

(* What Checked says of one call.                                          *)
LEMMA CheckedAt ==
  ASSUME LoadInv, NEW k \in DOMAIN calls, NEW m, m = calls[k].module
  PROVE  /\ calls[k].dep \in Nat \ {0}
         /\ \A i \in 1 .. calls[k].dep - 1 : i \in DOMAIN Deps(m) => Provided(Deps(m)[i])
         /\ k < Len(calls) => /\ calls[k].dep \in DOMAIN Deps(m)
                              /\ Deps(m)[calls[k].dep] \in ToSet(Scopes(calls[k + 1].module))
  <1> DEFINE R == [module : Modules, dep : Nat \ {0}]
  <1>1. Checked /\ calls \in Seq(R)
    BY DEF LoadInv
  <1>2. calls[k] \in R
    <2> HIDE DEF R
    <2>1. QED BY <1>1
  <1>3. QED BY <1>1, <1>2 DEF Checked

(* A module that is called depends only on modules that were called.       *)
LEMMA CalledInOrder ==
  ASSUME LoadInv, Call
  PROVE  /\ Top.module \in Modules /\ Top.module \in Calling /\ Top.module \notin ToSet(called)
         /\ called' \in Seq(Modules) /\ ToSet(called') = ToSet(called) \union {Top.module}
         /\ InOrder'
  <1> DEFINE m == Top.module
  <1>1. /\ called \in Seq(Modules) /\ called' = Append(called, m) /\ setup' = setup
        /\ calls \in Seq([module : Modules, dep : Nat \ {0}]) /\ calls # <<>>
        /\ Checked /\ InOrder /\ Apart /\ Top.dep > Len(Deps(m))
    BY DEF LoadInv, Call
  <1>2. /\ Len(calls) \in Nat \ {0} /\ Len(calls) \in DOMAIN calls
        /\ Top \in [module : Modules, dep : Nat \ {0}] /\ Top = calls[Len(calls)]
    BY <1>1, TopSpec
  <1>3. m \in Modules /\ m \in Calling /\ m \notin ToSet(called)
    BY <1>1, <1>2 DEF Top, Calling, Apart
  <1>4. ToSet(called') = ToSet(called) \union {m} /\ IsInjective(called')
    BY <1>1, <1>3, AppendSet DEF Apart
  <1>5. /\ called' \in Seq(Modules) /\ DOMAIN called' = 1 .. Len(called) + 1
        /\ \A i \in DOMAIN called : called'[i] = called[i]
        /\ called'[Len(called) + 1] = m
    BY <1>1, <1>3
  <1>6. Len(called) \in Nat /\ DOMAIN called = 1 .. Len(called)
    BY <1>1
  <1>7. Deps(m) \in Seq(STRING)
    BY <1>3, LoaderAssumption DEF LoadInv, Deps, Modules
  <1>8. \A scope \in ToSet(Deps(m)) : Provided(scope)
    <2> SUFFICES ASSUME NEW i \in DOMAIN Deps(m) PROVE Provided(Deps(m)[i])
      BY DEF ToSet
    <2>1. i \in 1 .. Top.dep - 1
      BY <1>1, <1>2, <1>7
    <2>2. QED BY <1>1, <1>2, <2>1 DEF Checked, Top
  <1>9. ASSUME NEW scope, Provided(scope)
        PROVE  \E j \in DOMAIN called : setup.modules[called[j]].result = 0 /\ scope \in ToSet(Scopes(called[j]))
    <2>1. PICK x \in ToSet(loaded) : scope \in ToSet(Scopes(x))
      BY <1>9 DEF Provided
    <2>2. x \in ToSet(called) /\ setup.modules[x].result = 0
      BY <2>1 DEF LoadInv
    <2>3. PICK j \in DOMAIN called : called[j] = x
      BY <2>2 DEF ToSet
    <2>4. QED BY <2>1, <2>2, <2>3
  <1>10. ASSUME NEW i \in DOMAIN called', NEW scope \in ToSet(setup.modules[called'[i]].deps)
         PROVE  \E j \in 1 .. i - 1 : /\ setup.modules[called'[j]].result = 0
                                      /\ scope \in ToSet(Scopes(called'[j]))
    <2>2. CASE i = Len(called) + 1
      <3>1. scope \in ToSet(Deps(m))
        BY <1>1, <1>5, <1>10, <2>2 DEF Deps
      <3>2. PICK j \in DOMAIN called : setup.modules[called[j]].result = 0 /\ scope \in ToSet(Scopes(called[j]))
        BY <1>8, <1>9, <3>1
      <3>3. j \in 1 .. i - 1 /\ called'[j] = called[j]
        BY <1>5, <1>6, <2>2
      <3>4. setup.modules[called'[j]].result = 0 /\ scope \in ToSet(Scopes(called'[j]))
        BY <3>2, <3>3
      <3>5. QED BY <3>3, <3>4
    <2>3. CASE i # Len(called) + 1
      <3>1. i \in DOMAIN called /\ called'[i] = called[i]
        BY <1>5, <1>6, <2>3
      <3>2. PICK j \in 1 .. i - 1 : setup.modules[called[j]].result = 0 /\ scope \in ToSet(Scopes(called[j]))
        BY <1>1, <1>10, <3>1 DEF InOrder
      <3>3. j \in DOMAIN called /\ called'[j] = called[j]
        BY <1>5, <1>6, <3>1
      <3>4. setup.modules[called'[j]].result = 0 /\ scope \in ToSet(Scopes(called'[j]))
        BY <3>2, <3>3
      <3>5. QED BY <3>2, <3>4
    <2>4. QED BY <2>2, <2>3
  <1>11. InOrder'
    BY <1>1, <1>4, <1>10 DEF InOrder, Scopes
  <1>12. QED BY <1>3, <1>4, <1>5, <1>11

LEMMA CallStep == LoadInv /\ Call => LoadInv'
  <1> SUFFICES ASSUME LoadInv, Call PROVE LoadInv'
    OBVIOUS
  <1> DEFINE m == Top.module
             R == [module : Modules, dep : Nat \ {0}]
             st == Front(calls)
  <1>1. /\ m \in Modules /\ m \in Calling /\ m \notin ToSet(called)
        /\ called' \in Seq(Modules) /\ ToSet(called') = ToSet(called) \union {m} /\ InOrder'
    BY CalledInOrder
  <1>2. /\ setup' = setup /\ images' = images /\ to_load' = to_load
        /\ Images' = Images /\ Modules' = Modules
        /\ \A x : Scopes(x)' = Scopes(x) /\ Deps(x)' = Deps(x)
    BY DEF Call, Images, Modules, Scopes, Deps
  <1>3. /\ calls \in Seq(R) /\ Len(calls) \in Nat \ {0} /\ DOMAIN calls = 1 .. Len(calls)
        /\ Apart /\ Checked /\ calls # <<>> /\ called \in Seq(Modules) /\ loaded \in Seq(Modules)
    <2>1. calls \in Seq(R) /\ calls # <<>> /\ Apart /\ Checked
      BY DEF LoadInv, Call
    <2>2. Len(calls) \in Nat \ {0} /\ DOMAIN calls = 1 .. Len(calls)
      BY <2>1, TopSpec
    <2>3. QED BY <2>1, <2>2 DEF LoadInv
  <1>4. IsInjective(called')
    BY <1>1 DEF InOrder
  <1>5. CASE calls' = <<>>
    <2>1. Calling' = {} /\ DOMAIN calls' = {}
      BY <1>5 DEF Calling
    <2>2. ToSet(called') \cap ToSet(to_load) = {}
      BY <1>1, <1>3 DEF Apart
    <2>3. Apart' /\ Checked'
      BY <1>2, <1>3, <1>4, <2>1, <2>2 DEF Apart, Checked
    <2>4. loading' = "choose"
      <3>1. CASE setup.modules[m].result # 0 \/ Len(calls) = 1
        BY <3>1 DEF Call, Fail
      <3>2. CASE setup.modules[m].result = 0 /\ Len(calls) # 1
        <4>1. calls' = Advanced(st)
          BY <3>2 DEF Call
        <4>2. st \in Seq(R) /\ st # <<>>
          BY <1>3, <3>2, FrontSpec
        <4>3. QED BY <1>5, <4>1, <4>2, AdvancedSpec
      <3>3. QED BY <3>1, <3>2
    <2>5. loaded' \in Seq(Modules) /\ ToSet(loaded') = {x \in ToSet(called') : setup'.modules[x].result = 0}
      <3>1. CASE setup.modules[m].result # 0
        BY <1>1, <1>2, <1>3, <3>1 DEF Call, LoadInv
      <3>2. CASE setup.modules[m].result = 0
        <4>1. loaded' = Append(loaded, m)
          BY <3>2 DEF Call
        <4>2. QED BY <1>1, <1>2, <1>3, <3>2, <4>1, AppendSet DEF LoadInv
      <3>3. QED BY <3>1, <3>2
    <2>6. QED BY <1>1, <1>2, <1>5, <2>3, <2>4, <2>5 DEF LoadInv
  <1>6. CASE calls' # <<>>
    <2>1. /\ setup.modules[m].result = 0 /\ loaded' = Append(loaded, m) /\ Len(calls) # 1
          /\ calls' = Advanced(st) /\ loading' = "check"
      BY <1>6 DEF Call, Fail
    <2>2. /\ st \in Seq(R) /\ Len(st) = Len(calls) - 1 /\ Len(st) \in Nat \ {0} /\ DOMAIN st = 1 .. Len(st)
          /\ \A k \in DOMAIN st : k \in DOMAIN calls /\ k # Len(calls) /\ st[k] = calls[k]
      <3>1. Len(calls) > 1
        BY <1>3, <2>1
      <3>2. /\ st \in Seq(R) /\ Len(st) = Len(calls) - 1 /\ DOMAIN st = 1 .. Len(calls) - 1
            /\ \A k \in 1 .. Len(calls) - 1 : st[k] = calls[k]
        <4>1. calls \in Seq(R) /\ Len(calls) > 1
          BY <1>3, <3>1
        <4> HIDE DEF R
        <4>2. QED BY <4>1, FrontSpec
      <3> HIDE DEF st
      <3>3. QED BY <1>3, <3>1, <3>2
    <2>3. st # <<>>
      BY <1>3, <2>1, FrontSpec
    <2> HIDE DEF st
    <2>4. /\ calls' \in Seq(R) /\ Len(calls') = Len(st)
          /\ \A k \in DOMAIN st : /\ calls'[k].module = st[k].module
                                  /\ k < Len(st) => calls'[k].dep = st[k].dep
          /\ calls'[Len(st)].dep = st[Len(st)].dep + 1
      BY <2>1, <2>2, <2>3, AdvancedSpec
    <2>5. DOMAIN calls' = DOMAIN st /\ \A k \in DOMAIN st : calls'[k].module = calls[k].module
      BY <2>2, <2>4, SMTT(30)
    <2>6. Calling' \subseteq Calling \ {m}
      <3>1. \A k \in DOMAIN st : calls[k].module \in Calling /\ calls[k].module # m
        BY <1>3, <2>2, TopSpec DEF Calling, Apart
      <3>2. QED BY <2>5, <3>1 DEF Calling
    <2>7. Apart'
      <3>1. \A k, l \in DOMAIN calls' : calls'[k].module = calls'[l].module => k = l
        BY <1>3, <2>2, <2>5 DEF Apart
      <3>2. ToSet(called') \cap (ToSet(to_load) \union Calling') = {}
        BY <1>1, <1>3, <2>6 DEF Apart
      <3>3. QED BY <1>2, <1>3, <1>4, <2>6, <3>1, <3>2 DEF Apart
    <2>8. loaded' \in Seq(Modules) /\ ToSet(loaded') = ToSet(loaded) \union {m}
      BY <1>1, <1>3, <2>1, AppendSet
    <2> DEFINE Then(scope) == \E x \in ToSet(loaded') : scope \in ToSet(Scopes(x))
    <2>9. /\ \A scope : Provided(scope) \/ scope \in ToSet(Scopes(m)) => Then(scope)
          /\ \A scope : Then(scope) => Provided(scope)'
      BY <1>2, <2>8 DEF Provided
    <2> HIDE DEF Then
    <2>10. Checked'
      <3> SUFFICES ASSUME NEW k \in DOMAIN st
                   PROVE  LET d == calls'[k].dep
                              deps == Deps(calls'[k].module) IN
                          /\ \A j \in 1 .. d - 1 : j \in DOMAIN deps => Then(deps[j])
                          /\ k < Len(st) => d \in DOMAIN deps /\ deps[d] \in ToSet(Scopes(calls'[k + 1].module))
        <4>1. DOMAIN calls' = DOMAIN st /\ Len(calls') = Len(st)
          BY <2>4, <2>5
        <4>2. QED BY <1>2, <2>9, <4>1 DEF Checked
      <3> DEFINE x == calls[k].module
                 e == calls[k].dep
      <3>1. k \in DOMAIN calls /\ k < Len(calls) /\ calls'[k].module = x
        BY <1>3, <2>2, <2>5
      <3>2. /\ e \in Nat \ {0} /\ e \in DOMAIN Deps(x)
            /\ \A i \in 1 .. e - 1 : i \in DOMAIN Deps(x) => Provided(Deps(x)[i])
            /\ Deps(x)[e] \in ToSet(Scopes(calls[k + 1].module))
        BY <3>1, CheckedAt
      <3>3. CASE k = Len(st)
        <4>1. calls'[k].dep = e + 1
          BY <2>2, <2>4, <3>3
        <4>2. calls[k + 1].module = m
          <5>1. k + 1 = Len(calls)
            BY <1>3, <2>2, <3>3
          <5>2. QED BY <1>3, <5>1, TopSpec
        <4>3. Then(Deps(x)[e])
          BY <1>2, <2>9, <3>2, <4>2
        <4> HIDE DEF x, e
        <4>4. ASSUME NEW j \in 1 .. e, j \in DOMAIN Deps(x) PROVE Then(Deps(x)[j])
          <5>1. CASE j = e
            BY <4>3, <5>1
          <5>2. CASE j # e
            <6>1. j \in 1 .. e - 1
              BY <3>2, <5>2
            <6>2. QED BY <1>2, <2>9, <3>2, <4>4, <6>1
          <5>3. QED BY <5>1, <5>2
        <4>5. (e + 1) - 1 = e
          BY <3>2
        <4>6. ~(k < Len(st))
          BY <2>2, <3>3
        <4>7. QED BY <3>1, <4>1, <4>4, <4>5, <4>6
      <3>4. CASE k # Len(st)
        <4>1. k < Len(st) /\ k + 1 \in DOMAIN st
          BY <2>2, <3>4
        <4>2. calls'[k].dep = e /\ calls'[k + 1].module = calls[k + 1].module
          BY <2>2, <2>4, <2>5, <4>1
        <4> HIDE DEF x, e
        <4>3. \A j \in 1 .. e - 1 : j \in DOMAIN Deps(x) => Then(Deps(x)[j])
          BY <1>2, <2>9, <3>2
        <4>4. QED BY <3>1, <3>2, <4>2, <4>3
      <3>5. QED BY <3>3, <3>4
    <2>11. ToSet(loaded') = {x \in ToSet(called') : setup'.modules[x].result = 0}
      BY <1>1, <1>2, <2>1, <2>8 DEF LoadInv
    <2>12. QED BY <1>1, <1>2, <1>6, <2>1, <2>4, <2>7, <2>8, <2>10, <2>11 DEF LoadInv
  <1>7. QED BY <1>5, <1>6

\* Looking for a scope in a list of modules finds the first that has any.
LEMMA DecidingUnique ==
  ASSUME NEW R, NEW s \in Seq(R), NEW i \in Deciding(s), NEW j \in Deciding(s)
  PROVE  i = j
  <1>1. i \in Nat /\ j \in Nat /\ 1 <= i /\ 1 <= j
    BY DEF Deciding
  <1>2. Scopes(s[i]) # <<>> /\ Scopes(s[j]) # <<>>
        /\ (\A k \in 1 .. i - 1 : Scopes(s[k]) = <<>>) /\ (\A k \in 1 .. j - 1 : Scopes(s[k]) = <<>>)
    BY DEF Deciding
  <1>3. QED BY <1>1, <1>2

LEMMA FoundIn ==
  ASSUME LoadInv, NEW s \in Seq(Modules), NEW scope, NEW i \in Deciding(s), Find(s, scope) = "found"
  PROVE  i \in DOMAIN s /\ scope \in ToSet(Scopes(s[i]))
  <1>1. PICK j \in Deciding(s) : Head(Scopes(s[j])) = scope
    BY DEF Find
  <1>2. i = j
    BY DecidingUnique
  <1>3. i \in DOMAIN s /\ Scopes(s[i]) # <<>>
    BY DEF Deciding
  <1>4. Scopes(s[i]) \in Seq(STRING)
    BY <1>3, LoaderAssumption DEF LoadInv, Modules, Scopes
  <1>5. 1 \in DOMAIN Scopes(s[i]) /\ Head(Scopes(s[i])) = Scopes(s[i])[1]
    <2>1. Len(Scopes(s[i])) \in Nat \ {0} /\ DOMAIN Scopes(s[i]) = 1 .. Len(Scopes(s[i]))
      BY <1>3, <1>4, NonEmpty
    <2>2. QED BY <1>4, <2>1
  <1>6. QED BY <1>1, <1>2, <1>3, <1>5 DEF ToSet

\* Where only loading changes.
LEMMA Untouched ==
  ASSUME LoadInv, UNCHANGED <<setup, images, to_load, loaded, calls, called>>
  PROVE  /\ Images' = Images /\ Modules' = Modules /\ Top' = Top /\ \A m : Deps(m)' = Deps(m)
         /\ InOrder' /\ Checked' /\ Apart'
         /\ ToSet(loaded') = {m \in ToSet(called') : setup'.modules[m].result = 0}
  <1>1. Images' = Images /\ Modules' = Modules /\ Top' = Top
    BY DEF Images, Modules, Top
  <1>2. \A m : Deps(m)' = Deps(m) /\ Scopes(m)' = Scopes(m) /\ (Provided(m)' <=> Provided(m))
    BY DEF Deps, Scopes, Provided
  <1>3. InOrder'
    BY <1>2 DEF LoadInv, InOrder, Scopes
  <1>4. Checked'
    BY <1>2 DEF LoadInv, Checked
  <1>5. Apart'
    <2>1. Apart /\ Calling' = Calling
      BY DEF LoadInv, Calling
    <2>2. QED BY <2>1 DEF Apart
  <1>6. ToSet(loaded') = {m \in ToSet(called') : setup'.modules[m].result = 0}
    BY DEF LoadInv
  <1>7. QED BY <1>1, <1>2, <1>3, <1>4, <1>5, <1>6

LEMMA CheckStep == LoadInv /\ Check => LoadInv'
  <1> SUFFICES ASSUME LoadInv, Check PROVE LoadInv'
    OBVIOUS
  <1> DEFINE deps == Deps(Top.module)
             scope == deps[Top.dep]
  <1>1. /\ Constants /\ calls # <<>> /\ calls \in Seq([module : Modules, dep : Nat \ {0}])
        /\ loaded \in Seq(Modules) /\ to_load \in Seq(1 .. Len(images))
        /\ 1 .. Len(images) \subseteq Modules
    <2>1. Len(images) \in Nat /\ Len(images) <= Len(setup.modules) /\ setup \in Setups
      BY DEF LoadInv
    <2>2. 1 .. Len(images) \subseteq Modules
      BY <2>1, LoaderAssumption DEF Modules
    <2>3. QED BY <2>2 DEF LoadInv, Check, Constants
  <1>2. to_load \in Seq(Modules)
    <2>1. \A S, T : S \subseteq T => Seq(S) \subseteq Seq(T)
      OBVIOUS
    <2>2. QED BY <1>1, <2>1
  <1>3. Top.module \in Modules /\ Top.dep \in Nat \ {0} /\ deps \in Seq(STRING)
    <2>1. Top \in [module : Modules, dep : Nat \ {0}]
      BY <1>1, TopSpec
    <2>2. QED BY <2>1, LoaderAssumption DEF LoadInv, Deps, Modules
  <1>4. CASE Top.dep > Len(deps)
    <2>1. loading' = "call" /\ UNCHANGED <<to_load, calls>>
      BY <1>4 DEF Check, Deps
    <2>2. /\ Images' = Images /\ Modules' = Modules /\ InOrder' /\ Checked' /\ Apart'
          /\ ToSet(loaded') = {m \in ToSet(called') : setup'.modules[m].result = 0}
      BY <1>1, <2>1, Untouched DEF Constants
    <2>3. QED BY <1>1, <1>4, <2>1, <2>2 DEF LoadInv, Constants, Top, Deps
  <1>5. CASE ~(Top.dep > Len(deps))
    <2>0. Top.dep \in DOMAIN deps
      BY <1>3, <1>5
    <2>1. CASE Find(loaded, scope) = "found"
      <3>1. calls' = Advanced(calls) /\ UNCHANGED <<loading, to_load>> /\ loading = "check"
        BY <1>5, <2>1 DEF Check, Deps
      <3>2. PICK i \in Deciding(loaded) : TRUE
        BY <2>1 DEF Find
      <3>3. Provided(scope)
        <4>1. i \in DOMAIN loaded /\ scope \in ToSet(Scopes(loaded[i]))
          BY <1>1, <2>1, <3>2, FoundIn
        <4>2. loaded[i] \in ToSet(loaded)
          BY <4>1 DEF ToSet
        <4>3. QED BY <4>1, <4>2 DEF Provided
      <3>4. QED BY <1>1, <3>1, <3>3, AdvanceStep
    <2>2. CASE Find(loaded, scope) # "found" /\ UNCHANGED <<calls, to_load>> /\ loading' = "hang"
      <3>1. /\ Images' = Images /\ Modules' = Modules /\ InOrder' /\ Checked' /\ Apart'
            /\ ToSet(loaded') = {m \in ToSet(called') : setup'.modules[m].result = 0}
        BY <1>1, <2>2, Untouched DEF Constants
      <3>2. QED BY <1>1, <2>2, <3>1 DEF LoadInv, Constants
    <2>3. CASE Find(to_load, scope) = "found" /\ \E i \in Deciding(to_load) : Enter(i)
      <3>1. PICK i \in Deciding(to_load) : Enter(i)
        BY <2>3
      <3>2. i \in DOMAIN to_load /\ scope \in ToSet(Scopes(to_load[i]))
        BY <1>2, <2>3, FoundIn
      <3>3. QED BY <1>1, <2>0, <3>1, <3>2, EnterStep
    <2>4. CASE Fail /\ UNCHANGED to_load
      BY <1>1, <2>4, FailStep DEF Fail
    <2>5. QED BY <1>5, <2>1, <2>2, <2>3, <2>4 DEF Check, Deps
  <1>6. QED BY <1>4, <1>5

LEMMA ChooseStep == LoadInv /\ Choose => LoadInv'
  <1> SUFFICES ASSUME LoadInv, Choose PROVE LoadInv'
    OBVIOUS
  <1>1. Constants /\ calls = <<>> /\ to_load \in Seq(1 .. Len(images))
    BY DEF LoadInv, Choose, Constants
  <1>2. CASE to_load = <<>>
    <2>1. loading' = "done" /\ UNCHANGED <<to_load, calls>>
      BY <1>2 DEF Choose
    <2>2. QED BY <1>1, <2>1, FailStep
  <1>3. CASE to_load # <<>>
    <2>1. 1 \in DOMAIN to_load
      <3>1. Len(to_load) \in Nat \ {0} /\ DOMAIN to_load = 1 .. Len(to_load)
        BY <1>1, <1>3, NonEmpty
      <3>2. QED BY <3>1
    <2>2. Enter(1)
      BY <1>3 DEF Choose
    <2>3. QED BY <1>1, <2>1, <2>2, EnterStep
  <1>4. QED BY <1>2, <1>3

LEMMA LoadModulesStep == LoadInv /\ (LoadModules \/ UNCHANGED loadvars) => LoadInv'
  <1>1. ASSUME LoadInv, UNCHANGED loadvars PROVE LoadInv'
    <2>1. UNCHANGED <<setup, loading, images, to_load, loaded, calls, called>>
      BY <1>1 DEF loadvars
    <2>2. /\ Images' = Images /\ Modules' = Modules /\ Top' = Top /\ \A m : Deps(m)' = Deps(m)
          /\ InOrder' /\ Checked' /\ Apart'
          /\ ToSet(loaded') = {m \in ToSet(called') : setup'.modules[m].result = 0}
      BY <1>1, <2>1, Untouched
    <2>3. QED BY <1>1, <2>1, <2>2 DEF LoadInv, Top, Deps
  <1>2. QED BY <1>1, PreloadStep, ChooseStep, CheckStep, CallStep DEF LoadModules

LEMMA LoadOrNot == [Next]_vars => LoadModules \/ UNCHANGED loadvars
  <1>1. Main => LoadModules \/ UNCHANGED loadvars
    BY DEF Main, Load, k_process_init, StartCore, Release, Wait, Exec
  <1>2. ASSUME NEW p, Step(p) \/ Die(p) PROVE LoadModules \/ UNCHANGED loadvars
    BY <1>1, <1>2 DEF Step, InitCore, CreateIdle, Lower, Speak, Log, Silence, Shout, Stop, Die
  <1>3. QED BY <1>2 DEF Next, vars

LEMMA SameSetup == [Next]_vars => setup' = setup
  <1>1. LoadModules \/ UNCHANGED loadvars => setup' = setup
    BY DEF LoadModules, Preload, Choose, Check, Call, loadvars
  <1>2. QED BY <1>1, LoadOrNot

(* The stack of calls, the list of modules still to load and the modules   *)
(* called are disjoint, and a call has checked what lies before the         *)
(* dependency it has come to (__load_recursive, __loaded_modules).          *)
THEOREM LoaderInvariant == Spec => []LoadInv
  <1>1. Init => LoadInv
    BY LoaderInitInv DEF Init
  <1>2. LoadInv /\ [Next]_vars => LoadInv'
    BY LoadOrNot, LoadModulesStep
  <1>3. QED BY <1>1, <1>2, PTL DEF Spec

(* Whatever scopes the modules have and need, and whichever fail, each is  *)
(* started once at most and after all that it depends on.                  *)
THEOREM ModulesInOrder == Spec => []InOrder
  <1>1. LoadInv => InOrder
    BY DEF LoadInv
  <1>2. QED BY <1>1, LoaderInvariant, PTL

----------------------------------------------------------------------------
(* The modules that are loaded in the end                                   *)

\* Prepared modules that were tried and are given up.
Prepared == {m \in 1 .. Len(images) : images[m].ok}
Kept == ToSet(to_load) \union Calling \union ToSet(loaded)
Dropped == Prepared \ Kept

\* They fail themselves, or nobody is left who could provide for them.
Hopeless(m) ==
  \/ setup.modules[m].result # 0
  \/ \E scope \in ToSet(Deps(m)) : \A x \in Modules \cap Prepared : scope \in ToSet(Scopes(x)) => x \in Dropped

DropInv ==
  /\ loading = "read" => Dropped = {}
  /\ loading # "read" => Len(images) = Len(setup.modules)
  /\ Kept \subseteq Prepared
  /\ OneProviderEach => \A m \in Dropped : Hopeless(m)

SmallerThan == {ss \in Nat \X Nat : ss[1] < ss[2]}

LEMMA SmallerWellFounded == IsWellFoundedOn(SmallerThan, Nat)
  BY NatLessThanWellFounded DEF OpToRel, SmallerThan

LEMMA LeastExists ==
  ASSUME NEW S, S \subseteq Nat, S # {}
  PROVE  \E x \in S : \A y \in S : x <= y
  <1>1. PICK x \in S : \A y \in S : <<y, x>> \notin SmallerThan
    BY SmallerWellFounded, WFMin, Zenon
  <1>2. ASSUME NEW y \in S PROVE x <= y
    <2>1. x \in Nat /\ y \in Nat
      OBVIOUS
    <2>2. y < x => <<y, x>> \in SmallerThan
      BY <2>1 DEF SmallerThan
    <2>3. QED BY <1>1, <2>1, <2>2
  <1>3. QED BY <1>2

\* A list in which no scope is found has modules without scopes only.
LEMMA NoneFound ==
  ASSUME NEW s \in Seq(Modules), NEW scope, Find(s, scope) = "none"
  PROVE  \A i \in DOMAIN s : Scopes(s[i]) = <<>>
  <1> DEFINE Bad == {i \in DOMAIN s : Scopes(s[i]) # <<>>}
  <1>1. SUFFICES ASSUME Bad # {} PROVE FALSE
    OBVIOUS
  <1>2. DOMAIN s = 1 .. Len(s) /\ Len(s) \in Nat
    OBVIOUS
  <1>3. Bad \subseteq Nat
    BY <1>2
  <1>4. PICK x \in Bad : \A y \in Bad : x <= y
    <2> HIDE DEF Bad
    <2>1. QED BY <1>1, <1>3, LeastExists
  <1>5. \A j \in 1 .. x - 1 : Scopes(s[j]) = <<>>
    <2> SUFFICES ASSUME NEW j \in 1 .. x - 1, Scopes(s[j]) # <<>> PROVE FALSE
      OBVIOUS
    <2>1. j \in Bad /\ j < x
      BY <1>2
    <2>2. QED BY <1>3, <1>4, <2>1
  <1>6. x \in Deciding(s)
    BY <1>5 DEF Deciding
  <1>7. QED BY <1>6 DEF Find

\* What was hopeless stays so, since nobody comes back.
LEMMA DropStep ==
  ASSUME DropInv, UNCHANGED <<setup, images>>, loading # "read", loading' # "read",
         Kept' \subseteq Kept,
         OneProviderEach => \A m \in Kept \ Kept' : Hopeless(m)'
  PROVE  DropInv'
  <1>1. Prepared' = Prepared /\ Modules' = Modules /\ \A x : Scopes(x)' = Scopes(x) /\ Deps(x)' = Deps(x)
    BY DEF Prepared, Modules, Scopes, Deps
  <1>2. Dropped \subseteq Dropped' /\ Dropped' \subseteq Dropped \union ((Kept \ Kept') \cap Prepared)
    BY <1>1 DEF Dropped
  <1>3. OneProviderEach' <=> OneProviderEach
    BY <1>1 DEF OneProviderEach
  <1>4. ASSUME NEW m, Hopeless(m) PROVE Hopeless(m)'
    <2>1. CASE setup.modules[m].result # 0
      BY <2>1 DEF Hopeless
    <2>2. CASE setup.modules[m].result = 0
      <3>1. PICK scope \in ToSet(Deps(m)) :
              \A x \in Modules \cap Prepared : scope \in ToSet(Scopes(x)) => x \in Dropped
        BY <1>4, <2>2 DEF Hopeless
      <3>2. scope \in ToSet(Deps(m)') /\ \A x \in Modules' \cap Prepared' : scope \in ToSet(Scopes(x)') => x \in Dropped'
        BY <1>1, <1>2, <3>1
      <3>3. QED BY <3>2 DEF Hopeless
    <2>3. QED BY <2>1, <2>2
  <1>5. OneProviderEach' => \A m \in Dropped' : Hopeless(m)'
    <2> SUFFICES ASSUME OneProviderEach, NEW m \in Dropped' PROVE Hopeless(m)'
      BY <1>3
    <2>1. CASE m \in Dropped
      BY <1>4, <2>1 DEF DropInv
    <2>2. CASE m \notin Dropped
      BY <1>2, <2>2
    <2>3. QED BY <2>1, <2>2
  <1>6. Kept' \subseteq Prepared'
    BY <1>1 DEF DropInv
  <1>7. QED BY <1>5, <1>6 DEF DropInv

\* The calls end in a failure: everything that was being loaded is given up.
LEMMA CallsGone ==
  ASSUME LoadInv, DropInv, UNCHANGED <<setup, images, to_load, loaded>>, calls' = <<>>
  PROVE  /\ Kept' \subseteq Kept /\ Kept \subseteq Kept' \union Calling
         /\ Calling \subseteq Dropped' /\ Dropped \subseteq Dropped'
         /\ Modules' = Modules /\ Prepared' = Prepared
         /\ \A x : Scopes(x)' = Scopes(x) /\ Deps(x)' = Deps(x)
  <1>1. Prepared' = Prepared /\ Modules' = Modules /\ \A x : Scopes(x)' = Scopes(x) /\ Deps(x)' = Deps(x)
    BY DEF Prepared, Modules, Scopes, Deps
  <1>2. Calling' = {}
    BY DEF Calling
  <1>3. Kept' = ToSet(to_load) \union ToSet(loaded)
    BY <1>2 DEF Kept
  <1>4. Calling \cap (ToSet(to_load) \union ToSet(loaded)) = {}
    <2>1. ToSet(loaded) \subseteq ToSet(called) /\ Apart
      BY DEF LoadInv
    <2>2. QED BY <2>1 DEF Apart
  <1>5. Calling \subseteq Prepared
    BY DEF DropInv, Kept
  <1>6. QED BY <1>1, <1>3, <1>4, <1>5 DEF Dropped, Kept

LEMMA GiveUp ==
  ASSUME LoadInv, DropInv, UNCHANGED <<setup, images, to_load, loaded>>, calls' = <<>>,
         calls # <<>>, loading # "read", loading' # "read",
         NEW top, top = Top.module, OneProviderEach => Hopeless(top)'
  PROVE  DropInv'
  <1>1. /\ Kept' \subseteq Kept /\ Kept \subseteq Kept' \union Calling
        /\ Calling \subseteq Dropped' /\ Modules' = Modules /\ Prepared' = Prepared
        /\ \A x : Scopes(x)' = Scopes(x) /\ Deps(x)' = Deps(x)
    BY CallsGone
  <1>2. ASSUME OneProviderEach, NEW m \in Kept \ Kept' PROVE Hopeless(m)'
    <2>1. PICK k \in DOMAIN calls : m = calls[k].module
      <3>1. m \in Calling
        BY <1>1
      <3>2. QED BY <3>1 DEF Calling
    <2>0. calls \in Seq([module : Modules, dep : Nat \ {0}])
      BY DEF LoadInv
    <2>2. /\ calls \in Seq([module : Modules, dep : Nat \ {0}])
          /\ Len(calls) \in Nat \ {0} /\ DOMAIN calls = 1 .. Len(calls) /\ Top = calls[Len(calls)]
      BY <2>0, TopSpec
    <2>3. CASE k = Len(calls)
      <3>1. m = top
        BY <2>1, <2>2, <2>3
      <3>2. QED BY <1>2, <3>1
    <2>4. CASE k < Len(calls)
      <3>1. /\ calls[k].dep \in DOMAIN Deps(m)
            /\ Deps(m)[calls[k].dep] \in ToSet(Scopes(calls[k + 1].module))
        BY <2>1, <2>4, CheckedAt
      <3> DEFINE scope == Deps(m)[calls[k].dep]
                 next == calls[k + 1].module
      <3>2. scope \in ToSet(Deps(m))
        BY <3>1 DEF ToSet
      <3>3. k + 1 \in DOMAIN calls
        BY <2>2, <2>4
      <3>4. next \in Calling
        BY <3>3 DEF Calling
      <3>5. next \in Modules
        <4> DEFINE R == [module : Modules, dep : Nat \ {0}]
        <4>1. calls \in Seq(R)
          BY <2>2
        <4>2. calls[k + 1] \in R
          <5> HIDE DEF R
          <5>1. QED BY <3>3, <4>1
        <4>3. QED BY <4>2
      <3> HIDE DEF scope, next
      <3>6. ASSUME NEW x \in Modules \cap Prepared, scope \in ToSet(Scopes(x)) PROVE x \in Dropped'
        <4>1. scope \in ToSet(Scopes(next))
          BY <3>1 DEF scope, next
        <4>2. x = next
          BY <1>2, <3>5, <3>6, <4>1 DEF OneProviderEach, Scopes
        <4>3. QED BY <1>1, <3>4, <4>2
      <3>7. scope \in ToSet(Deps(m)') /\ \A x \in Modules' \cap Prepared' : scope \in ToSet(Scopes(x)') => x \in Dropped'
        BY <1>1, <3>2, <3>6
      <3>8. QED BY <3>7 DEF Hopeless
    <2>5. QED BY <2>2, <2>3, <2>4
  <1>3. QED BY <1>1, <1>2, DropStep

\* Where nothing is given up.
LEMMA NothingDropped ==
  ASSUME DropInv, UNCHANGED <<setup, images>>, loading # "read", loading' # "read", Kept' = Kept
  PROVE  DropInv'
  BY DropStep

LEMMA EnterKeeps ==
  ASSUME LoadInv, NEW i \in DOMAIN to_load, Enter(i), UNCHANGED loaded
  PROVE  Kept' = Kept
  <1> DEFINE m == to_load[i]
             c == [module |-> m, dep |-> 1]
  <1>1. calls' = Append(calls, c) /\ to_load' = RemoveAt(to_load, i)
    BY DEF Enter
  <1>2. to_load \in Seq(1 .. Len(images)) /\ IsInjective(to_load) /\ calls \in Seq([module : Modules, dep : Nat \ {0}])
    BY DEF LoadInv, Apart
  <1>3. ToSet(to_load') = ToSet(to_load) \ {m} /\ m \in ToSet(to_load)
    <2>1. ToSet(RemoveAt(to_load, i)) = ToSet(to_load) \ {to_load[i]}
      BY <1>2, RemoveAtSet
    <2>2. QED BY <1>1, <2>1 DEF ToSet
  <1>4. Calling' = Calling \union {m}
    <2>1. /\ DOMAIN calls = 1 .. Len(calls) /\ Len(calls) \in Nat
      BY <1>2
    <2>2. /\ DOMAIN calls' = 1 .. Len(calls) + 1 /\ calls'[Len(calls) + 1] = c
          /\ \A k \in DOMAIN calls : calls'[k] = calls[k]
      BY <1>1, <1>2
    <2>3. c.module = m
      OBVIOUS
    <2> HIDE DEF c, m
    <2>4. Calling' \subseteq Calling \union {m}
      <3>1. \A k \in DOMAIN calls' : k \in DOMAIN calls \/ k = Len(calls) + 1
        BY <2>1, <2>2
      <3>2. QED BY <2>2, <2>3, <3>1 DEF Calling
    <2>5. Calling \subseteq Calling'
      <3>1. \A k \in DOMAIN calls : k \in DOMAIN calls'
        BY <2>1, <2>2
      <3>2. QED BY <2>2, <3>1 DEF Calling
    <2>6. m \in Calling'
      <3>1. Len(calls) + 1 \in DOMAIN calls'
        BY <2>1, <2>2
      <3>2. QED BY <2>2, <2>3, <3>1 DEF Calling
    <2>7. QED BY <2>4, <2>5, <2>6
  <1>5. QED BY <1>3, <1>4 DEF Kept

LEMMA PreloadDrops == LoadInv /\ DropInv /\ Preload => DropInv'
  <1> SUFFICES ASSUME LoadInv, DropInv, Preload PROVE DropInv'
    OBVIOUS
  <1> DEFINE m == Len(images) + 1
             image == LoadImage(setup.modules[m].image)
  <1>1. /\ UNCHANGED <<setup, loaded, calls, called>> /\ loading = "read" /\ setup \in Setups
        /\ images \in Seq(Images) /\ to_load \in Seq(1 .. Len(images)) /\ Len(images) <= Len(setup.modules)
        /\ Dropped = {} /\ Kept \subseteq Prepared
    BY DEF LoadInv, DropInv, Preload
  <1>2. Len(images) \in Nat /\ Len(setup.modules) \in Nat /\ Modules = 1 .. Len(setup.modules)
    BY <1>1, LoaderAssumption DEF Modules
  <1>3. Calling' = Calling
    BY <1>1 DEF Calling
  <1>4. CASE m \notin Modules
    <2>1. loading' = "choose" /\ UNCHANGED <<images, to_load>>
      BY <1>4 DEF Preload
    <2>2. Kept' = Kept /\ Prepared' = Prepared
      BY <1>1, <1>3, <2>1 DEF Kept, Prepared
    <2>3. Dropped' = {}
      BY <1>1, <2>2 DEF Dropped
    <2>4. Len(images') = Len(setup'.modules)
      BY <1>1, <1>2, <1>4, <2>1
    <2>5. QED BY <1>1, <2>1, <2>2, <2>3, <2>4 DEF DropInv
  <1>5. CASE m \in Modules
    <2>1. loading' = "read" /\ images' = Append(images, image)
          /\ to_load' = IF image.ok THEN Append(to_load, m) ELSE to_load
      BY <1>1, <1>5 DEF Preload
    <2>2. image \in Images
      BY <1>5 DEF Images
    <2> HIDE DEF image
    <2>3. /\ Len(images') = Len(images) + 1 /\ images'[m] = image
          /\ \A x \in 1 .. Len(images) : images'[x] = images[x]
      BY <1>1, <1>2, <2>1, <2>2
    <2>4. Prepared' = IF image.ok THEN Prepared \union {m} ELSE Prepared
      <3>1. \A x \in 1 .. Len(images') : x \in 1 .. Len(images) \/ x = m
        BY <1>2, <2>3
      <3>2. 1 .. Len(images) \subseteq 1 .. Len(images') /\ m \in 1 .. Len(images')
        BY <1>2, <2>3
      <3> HIDE DEF m
      <3>3. QED BY <2>3, <3>1, <3>2 DEF Prepared
    <2>5. ToSet(to_load') = IF image.ok THEN ToSet(to_load) \union {m} ELSE ToSet(to_load)
      <3>1. \A S, T : S \subseteq T => Seq(S) \subseteq Seq(T)
        OBVIOUS
      <3>2. to_load \in Seq(1 .. m) /\ m \in 1 .. m
        <4>1. 1 .. Len(images) \subseteq 1 .. m /\ m \in 1 .. m
          BY <1>2
        <4> HIDE DEF m
        <4>2. QED BY <1>1, <3>1, <4>1
      <3> HIDE DEF m
      <3>3. ToSet(Append(to_load, m)) = ToSet(to_load) \union {m}
        BY <3>2, AppendSet
      <3>4. QED BY <2>1, <3>3
    <2> HIDE DEF m
    <2>6. Kept' = IF image.ok THEN Kept \union {m} ELSE Kept
      BY <1>1, <1>3, <2>5 DEF Kept
    <2>7. Dropped' = {} /\ Kept' \subseteq Prepared'
      BY <1>1, <2>4, <2>6 DEF Dropped
    <2>8. QED BY <2>1, <2>7 DEF DropInv
  <1>6. QED BY <1>4, <1>5

LEMMA ChooseDrops == LoadInv /\ DropInv /\ Choose => DropInv'
  <1> SUFFICES ASSUME LoadInv, DropInv, Choose PROVE DropInv'
    OBVIOUS
  <1>1. UNCHANGED <<setup, images, loaded>> /\ loading = "choose" /\ to_load \in Seq(1 .. Len(images))
    BY DEF LoadInv, Choose
  <1>2. CASE to_load = <<>>
    <2>1. loading' = "done" /\ UNCHANGED <<to_load, calls>>
      BY <1>2 DEF Choose
    <2>2. Kept' = Kept
      BY <1>1, <2>1 DEF Kept, Calling
    <2>3. QED BY <1>1, <2>1, <2>2, NothingDropped
  <1>3. CASE to_load # <<>>
    <2>1. 1 \in DOMAIN to_load
      <3>1. Len(to_load) \in Nat \ {0} /\ DOMAIN to_load = 1 .. Len(to_load)
        BY <1>1, <1>3, NonEmpty
      <3>2. QED BY <3>1
    <2>2. Enter(1)
      BY <1>3 DEF Choose
    <2>3. loading' = "check" /\ Kept' = Kept
      BY <1>1, <2>1, <2>2, EnterKeeps DEF Enter
    <2>4. QED BY <1>1, <2>3, NothingDropped
  <1>4. QED BY <1>2, <1>3

LEMMA CheckDrops == LoadInv /\ DropInv /\ Check => DropInv'
  <1> SUFFICES ASSUME LoadInv, DropInv, Check PROVE DropInv'
    OBVIOUS
  <1> DEFINE deps == Deps(Top.module)
             scope == deps[Top.dep]
  <1>1. /\ UNCHANGED <<setup, images, loaded>> /\ loading = "check" /\ calls # <<>>
        /\ calls \in Seq([module : Modules, dep : Nat \ {0}])
        /\ loaded \in Seq(Modules) /\ to_load \in Seq(1 .. Len(images))
        /\ 1 .. Len(images) \subseteq Modules
    <2>1. Len(images) \in Nat /\ Len(images) <= Len(setup.modules) /\ setup \in Setups
      BY DEF LoadInv
    <2>2. 1 .. Len(images) \subseteq Modules
      BY <2>1, LoaderAssumption DEF Modules
    <2>3. QED BY <2>2 DEF LoadInv, Check
  <1>2. to_load \in Seq(Modules)
    <2>1. \A S, T : S \subseteq T => Seq(S) \subseteq Seq(T)
      OBVIOUS
    <2>2. QED BY <1>1, <2>1
  <1>3. Top.module \in Modules /\ Top.dep \in Nat \ {0} /\ deps \in Seq(STRING)
    <2>1. Top \in [module : Modules, dep : Nat \ {0}]
      BY <1>1, TopSpec
    <2>2. QED BY <2>1, LoaderAssumption DEF LoadInv, Deps, Modules
  <1>4. CASE loading' # "read" /\ UNCHANGED <<to_load, calls>>
    <2>1. Kept' = Kept
      BY <1>1, <1>4 DEF Kept, Calling
    <2>2. QED BY <1>1, <1>4, <2>1, NothingDropped
  <1>5. CASE calls' = Advanced(calls) /\ UNCHANGED <<loading, to_load>>
    <2>0. /\ Len(calls) \in Nat \ {0} /\ DOMAIN calls = 1 .. Len(calls)
      BY <1>1, TopSpec
    <2>1. /\ calls' \in Seq([module : Modules, dep : Nat \ {0}]) /\ Len(calls') = Len(calls)
          /\ \A k \in DOMAIN calls : calls'[k].module = calls[k].module
      BY <1>1, <1>5, AdvancedSpec
    <2>2. DOMAIN calls' = DOMAIN calls
      BY <2>0, <2>1
    <2>3. Calling' = Calling
      BY <2>1, <2>2 DEF Calling
    <2>4. Kept' = Kept
      BY <1>1, <1>5, <2>3 DEF Kept
    <2>5. QED BY <1>1, <1>5, <2>4, NothingDropped
  <1>6. CASE \E i \in Deciding(to_load) : Enter(i)
    <2>1. PICK i \in Deciding(to_load) : Enter(i)
      BY <1>6
    <2>2. i \in DOMAIN to_load /\ loading' = "check"
      BY <2>1 DEF Deciding, Enter
    <2>3. Kept' = Kept
      BY <1>1, <2>1, <2>2, EnterKeeps
    <2>4. QED BY <1>1, <2>2, <2>3, NothingDropped
  <1>7. CASE /\ ~(Top.dep > Len(deps)) /\ Find(loaded, scope) = "none" /\ Find(to_load, scope) = "none"
             /\ Fail /\ UNCHANGED to_load
    <2>1. calls' = <<>> /\ loading' = "choose" /\ UNCHANGED to_load
      BY <1>7 DEF Fail
    <2>2. Top.dep \in DOMAIN deps
      BY <1>3, <1>7
    <2>3. \A i \in DOMAIN loaded : Scopes(loaded[i]) = <<>>
      BY <1>1, <1>7, NoneFound
    <2>4. \A i \in DOMAIN to_load : Scopes(to_load[i]) = <<>>
      BY <1>2, <1>7, NoneFound
    <2>5. /\ Calling \subseteq Dropped' /\ Dropped \subseteq Dropped'
          /\ Modules' = Modules /\ Prepared' = Prepared
          /\ \A x : Scopes(x)' = Scopes(x) /\ Deps(x)' = Deps(x)
      BY <1>1, <2>1, CallsGone
    <2>6. PICK top : top = Top.module
      OBVIOUS
    <2> HIDE DEF scope
    <2>7. ASSUME NEW x \in Modules \cap Prepared, scope \in ToSet(Scopes(x)) PROVE x \in Dropped'
      <3>1. Scopes(x) # <<>>
        BY <2>7 DEF ToSet
      <3>2. x \notin ToSet(loaded) \union ToSet(to_load)
        BY <2>3, <2>4, <3>1 DEF ToSet
      <3>3. x \in Dropped \union Calling
        BY <2>7, <3>2 DEF Dropped, Kept
      <3>4. QED BY <2>5, <3>3
    <2>8. scope \in ToSet(Deps(top))
      BY <2>2, <2>6 DEF ToSet, scope
    <2>9. scope \in ToSet(Deps(top)') /\ \A x \in Modules' \cap Prepared' : scope \in ToSet(Scopes(x)') => x \in Dropped'
      BY <2>5, <2>7, <2>8
    <2>10. Hopeless(top)'
      BY <2>9 DEF Hopeless
    <2>11. QED BY <1>1, <2>1, <2>6, <2>10, GiveUp
  <1>8. QED
    <2>1. CASE Top.dep > Len(deps)
      BY <1>4, <2>1 DEF Check, Deps
    <2>2. CASE ~(Top.dep > Len(deps)) /\ Find(loaded, scope) = "found"
      BY <1>5, <2>2 DEF Check, Deps
    <2>3. CASE ~(Top.dep > Len(deps)) /\ Find(loaded, scope) # "found" /\ "hang" \in {Find(loaded, scope), Find(to_load, scope)}
      <3>1. loading' = "hang" /\ UNCHANGED <<to_load, calls>>
        BY <2>3 DEF Check, Deps
      <3>2. QED BY <1>4, <3>1
    <2>4. CASE ~(Top.dep > Len(deps)) /\ "hang" \notin {Find(loaded, scope), Find(to_load, scope)} /\ Find(loaded, scope) # "found"
      <3>1. Find(loaded, scope) = "none" /\ Find(to_load, scope) \in {"none", "found"}
        BY <2>4 DEF Find
      <3>2. CASE Find(to_load, scope) = "found"
        BY <1>6, <2>4, <3>1, <3>2 DEF Check, Deps
      <3>3. CASE Find(to_load, scope) = "none"
        BY <1>7, <2>4, <3>1, <3>3 DEF Check, Deps
      <3>4. QED BY <3>1, <3>2, <3>3
    <2>5. QED BY <2>1, <2>2, <2>3, <2>4

LEMMA CallDrops == LoadInv /\ DropInv /\ Call => DropInv'
  <1> SUFFICES ASSUME LoadInv, DropInv, Call PROVE DropInv'
    OBVIOUS
  <1> DEFINE m == Top.module
             R == [module : Modules, dep : Nat \ {0}]
             st == Front(calls)
  <1>1. /\ UNCHANGED <<setup, images, to_load>> /\ calls # <<>> /\ loading = "call" /\ loading' # "read"
        /\ calls \in Seq(R) /\ loaded \in Seq(Modules)
    BY DEF LoadInv, Call, Fail
  <1>2. /\ Len(calls) \in Nat \ {0} /\ DOMAIN calls = 1 .. Len(calls) /\ m = calls[Len(calls)].module
        /\ m \in Modules /\ m \in Calling
    <2>1. /\ Len(calls) \in Nat \ {0} /\ DOMAIN calls = 1 .. Len(calls) /\ m = calls[Len(calls)].module /\ Top \in R
      BY <1>1, TopSpec
    <2>2. QED BY <2>1 DEF Calling
  <1>3. CASE setup.modules[m].result # 0
    <2>1. calls' = <<>> /\ loaded' = loaded
      BY <1>3 DEF Call, Fail
    <2>2. PICK top : top = m
      OBVIOUS
    <2>3. Hopeless(top)'
      BY <1>1, <1>3, <2>2 DEF Hopeless
    <2>4. QED BY <1>1, <2>1, <2>2, <2>3, GiveUp
  <1>4. CASE setup.modules[m].result = 0
    <2>1. loaded' = Append(loaded, m)
      BY <1>4 DEF Call
    <2>2. ToSet(loaded') = ToSet(loaded) \union {m}
      BY <1>1, <1>2, <2>1, AppendSet
    <2>3. Calling' \union {m} = Calling
      <3>1. CASE Len(calls) = 1
        <4>1. Calling' = {}
          BY <1>4, <3>1 DEF Call, Calling
        <4>2. \A k \in DOMAIN calls : k = Len(calls)
          BY <1>2, <3>1
        <4>3. Calling = {m}
          BY <1>2, <4>2 DEF Calling
        <4>4. QED BY <4>1, <4>3
      <3>2. CASE Len(calls) # 1
        <4>1. calls' = Advanced(st)
          BY <1>4, <3>2 DEF Call
        <4>2. Len(calls) > 1
          BY <1>2, <3>2
        <4>3. /\ st \in Seq(R) /\ Len(st) = Len(calls) - 1 /\ DOMAIN st = 1 .. Len(calls) - 1
              /\ (\A k \in 1 .. Len(calls) - 1 : st[k] = calls[k]) /\ st # <<>>
          <5>1. calls \in Seq(R)
            BY <1>1
          <5> HIDE DEF R
          <5>2. QED BY <4>2, <5>1, FrontSpec
        <4> HIDE DEF st
        <4>4. /\ calls' \in Seq(R) /\ Len(calls') = Len(st)
              /\ \A k \in DOMAIN st : calls'[k].module = st[k].module
          BY <4>1, <4>3, AdvancedSpec
        <4>5. DOMAIN calls' = 1 .. Len(calls) - 1
          BY <1>2, <4>3, <4>4
        <4> HIDE DEF R, m
        <4>6. \A k \in DOMAIN calls' : k \in DOMAIN calls /\ calls'[k].module = calls[k].module
          BY <1>2, <4>3, <4>4, <4>5
        <4>7. \A k \in DOMAIN calls : k \in DOMAIN calls' \/ k = Len(calls)
          BY <1>2, <4>5
        <4>8. QED BY <1>2, <4>6, <4>7 DEF Calling
      <3>3. QED BY <3>1, <3>2
    <2>4. Kept' = Kept
      BY <1>1, <2>2, <2>3 DEF Kept
    <2>5. QED BY <1>1, <2>4, NothingDropped
  <1>5. QED BY <1>3, <1>4

LEMMA LoadDrops == LoadInv /\ DropInv /\ (LoadModules \/ UNCHANGED loadvars) => DropInv'
  <1>1. ASSUME DropInv, UNCHANGED loadvars PROVE DropInv'
    <2>1. UNCHANGED <<setup, loading, images, to_load, loaded, calls, called>>
      BY <1>1 DEF loadvars
    <2>2. /\ Kept' = Kept /\ Prepared' = Prepared /\ Dropped' = Dropped
      BY <2>1 DEF Kept, Prepared, Dropped, Calling
    <2>3. (OneProviderEach' <=> OneProviderEach) /\ \A m : Hopeless(m)' <=> Hopeless(m)
      BY <2>1, <2>2 DEF OneProviderEach, Hopeless, Modules, Scopes, Deps
    <2>4. QED BY <1>1, <2>1, <2>2, <2>3 DEF DropInv
  <1>2. QED BY <1>1, PreloadDrops, ChooseDrops, CheckDrops, CallDrops DEF LoadModules

LEMMA DropInit == LoaderInit => DropInv
  <1> SUFFICES ASSUME LoaderInit PROVE DropInv
    OBVIOUS
  <1>1. images = <<>> /\ to_load = <<>> /\ loaded = <<>> /\ calls = <<>> /\ loading = "read"
    BY DEF LoaderInit
  <1>2. Prepared = {} /\ Kept = {}
    BY <1>1 DEF Prepared, Kept, Calling, ToSet
  <1>3. QED BY <1>1, <1>2 DEF DropInv, Dropped

(* When all is done, what is loaded could be, and whatever could be is.    *)
More(S) == {m \in Modules : /\ images[m].ok /\ setup.modules[m].result = 0
                            /\ ToSet(Deps(m)) \subseteq UNION {ToSet(Scopes(x)) : x \in S}}

LEMMA StartableLeast ==
  Startable = {m \in Modules : \A S \in SUBSET Modules : More(S) \subseteq S => m \in S}
  BY DEF Startable, More, Deps, Scopes

LEMMA LoadedStartable ==
  ASSUME LoadInv, DropInv PROVE ToSet(loaded) \subseteq Startable
  <1>1. /\ ToSet(loaded) = {m \in ToSet(called) : setup.modules[m].result = 0}
        /\ called \in Seq(Modules) /\ loaded \in Seq(Modules) /\ InOrder
    BY DEF LoadInv
  <1>2. ToSet(loaded) \subseteq Modules
    BY <1>1 DEF ToSet
  <1>3. ASSUME NEW S \in SUBSET Modules, More(S) \subseteq S PROVE ToSet(loaded) \subseteq S
    <2> DEFINE Bad == {i \in DOMAIN called : setup.modules[called[i]].result = 0 /\ called[i] \notin S}
    <2>1. SUFFICES ASSUME Bad # {} PROVE FALSE
      BY <1>1 DEF ToSet
    <2>2. Bad \subseteq Nat /\ DOMAIN called = 1 .. Len(called) /\ Len(called) \in Nat
      BY <1>1
    <2>3. PICK i \in Bad : \A j \in Bad : i <= j
      <3> HIDE DEF Bad
      <3>1. QED BY <2>1, <2>2, LeastExists
    <2> DEFINE m == called[i]
    <2>4. m \in Modules /\ setup.modules[m].result = 0 /\ m \in ToSet(loaded) /\ m \notin S
      BY <1>1, <2>3 DEF ToSet
    <2>5. images[m].ok
      BY <2>4 DEF DropInv, Kept, Prepared
    <2>6. ASSUME NEW scope \in ToSet(Deps(m)) PROVE \E x \in S : scope \in ToSet(Scopes(x))
      <3>1. PICK j \in 1 .. i - 1 : setup.modules[called[j]].result = 0 /\ scope \in ToSet(Scopes(called[j]))
        BY <1>1, <2>3 DEF InOrder, Deps
      <3>2. j \in DOMAIN called /\ ~(i <= j)
        BY <2>2, <2>3
      <3>3. called[j] \in S
        BY <2>3, <3>1, <3>2
      <3>4. QED BY <3>1, <3>3
    <2>7. m \in More(S)
      BY <2>4, <2>5, <2>6 DEF More
    <2>8. QED BY <1>3, <2>4, <2>7
  <1>4. QED BY <1>2, <1>3, StartableLeast

LEMMA StartableLoaded ==
  ASSUME LoadInv, DropInv, loading = "done", to_load = <<>>, OneProviderEach
  PROVE  Startable \subseteq ToSet(loaded)
  <1>1. calls = <<>> /\ loaded \in Seq(Modules) /\ Len(images) = Len(setup.modules) /\ setup \in Setups
    BY DEF LoadInv, DropInv
  <1>2. Kept = ToSet(loaded) /\ ToSet(loaded) \in SUBSET Modules
    BY <1>1 DEF Kept, Calling, ToSet
  <1>3. Modules = 1 .. Len(images)
    BY <1>1, LoaderAssumption DEF Modules
  <1>4. ASSUME NEW m \in More(ToSet(loaded)), m \notin ToSet(loaded) PROVE FALSE
    <2>1. /\ m \in Modules /\ images[m].ok /\ setup.modules[m].result = 0
          /\ \A scope \in ToSet(Deps(m)) : \E x \in ToSet(loaded) : scope \in ToSet(Scopes(x))
      BY <1>4 DEF More
    <2>2. m \in Dropped
      BY <1>2, <1>3, <1>4, <2>1 DEF Dropped, Prepared
    <2>3. PICK scope \in ToSet(Deps(m)) : \A x \in Modules \cap Prepared : scope \in ToSet(Scopes(x)) => x \in Dropped
      BY <2>1, <2>2 DEF DropInv, Hopeless
    <2>4. PICK x \in ToSet(loaded) : scope \in ToSet(Scopes(x))
      BY <2>1
    <2>5. x \in Modules \cap Prepared /\ x \notin Dropped
      BY <1>2, <2>4 DEF DropInv, Dropped
    <2>6. QED BY <2>3, <2>4, <2>5
  <1>5. More(ToSet(loaded)) \subseteq ToSet(loaded)
    BY <1>4
  <1>6. QED BY <1>2, <1>5, StartableLeast

\* The loader is done when no module is left to try.
DoneInv == loading = "done" => to_load = <<>>

LEMMA DoneStep == DoneInv /\ (LoadModules \/ UNCHANGED loadvars) => DoneInv'
  BY DEF DoneInv, LoadModules, Preload, Choose, Check, Call, Enter, Fail, loadvars

(* Each module is started once at most and after what it depends on, and   *)
(* in the end exactly those are loaded that can be, whatever is missing,   *)
(* circular or fails, if each scope has one provider.                      *)
THEOREM RightModules == Spec => []ModulesRight
  <1>1. Init => DropInv /\ DoneInv
    BY DropInit DEF Init, LoaderInit, DoneInv
  <1>2. LoadInv /\ DropInv /\ DoneInv /\ [Next]_vars => DropInv' /\ DoneInv'
    BY LoadOrNot, LoadDrops, DoneStep
  <1>3. LoadInv /\ DropInv /\ DoneInv => ModulesRight
    <2> SUFFICES ASSUME LoadInv, DropInv, DoneInv PROVE ModulesRight
      OBVIOUS
    <2>1. InOrder
      BY DEF LoadInv
    <2>2. loading = "done" /\ OneProviderEach => ToSet(loaded) = Startable
      BY LoadedStartable, StartableLoaded DEF DoneInv
    <2>3. QED BY <2>1, <2>2 DEF ModulesRight
  <1>4. QED BY <1>1, <1>2, <1>3, LoaderInvariant, PTL DEF Spec

----------------------------------------------------------------------------
LEMMA SetupFacts ==
  ASSUME setup \in Setups
  PROVE  /\ MaxCores \in Nat \ {0} /\ Len(setup.lapics) \in Nat /\ Len(setup.lapics) <= MaxCores
         /\ Cpu = 1 .. Len(setup.lapics) /\ BSP \in Cpu
         /\ \A p \in Cpu : setup.lapics[p] \in Nat
         /\ \A p, q \in Cpu : setup.lapics[p] = setup.lapics[q] => p = q
         /\ \A p \in Cpu : Number(p) \in 0 .. MaxCores - 1
         /\ BootFirst => \A p \in Cpu : Number(p) = p - 1
         /\ Len(setup.programs) \in Nat
  <1>1. /\ setup.lapics \in Seq(Nat) /\ IsInjective(setup.lapics) /\ Len(setup.lapics) <= MaxCores
        /\ setup.boot \in DOMAIN setup.lapics /\ MaxCores \in Nat \ {0} /\ Len(setup.programs) \in Nat
    BY BootAssumption
  <1>2. Cpu = 1 .. Len(setup.lapics) /\ Len(setup.lapics) \in Nat
    BY <1>1 DEF Cpu
  <1>3. \A p, q \in Cpu : setup.lapics[p] = setup.lapics[q] => p = q
    BY <1>1 DEF IsInjective, Cpu
  <1>4. \A p \in Cpu : Number(p) \in 0 .. MaxCores - 1
    BY <1>1, <1>2 DEF Number
  <1>5. BootFirst => \A p \in Cpu : Number(p) = p - 1
    BY <1>2 DEF BootFirst, Number
  <1>6. QED BY <1>1, <1>2, <1>3, <1>4, <1>5, SMTT(30) DEF BSP, Cpu

LEMMA StartInitInv == Init => StartInv
  <1> SUFFICES ASSUME Init PROVE StartInv
    OBVIOUS
  <1>1. setup \in Setups
    BY DEF Init, LoaderInit
  <1>2. TypeOK
    <2>1. /\ loading = "read" /\ core = 1 /\ flag = FALSE /\ locked = FALSE /\ core_count = 0 /\ program = 0
          /\ \A n \in DOMAIN cores : cores[n].owner = 0
          /\ \A p \in Cpu : say[p].stage = "quiet"
      BY DEF Init, LoaderInit, Nobody, Quiet
    <2>2. core \in 1 .. Len(setup.lapics) + 1 /\ core_count \in 0 .. MaxCores /\ program \in 0 .. Len(setup.programs)
      BY <1>1, <2>1, SetupFacts
    <2>3. QED BY <2>1, <2>2 DEF TypeOK
  <1>a. TypeInv
    <2>1. pc \in [Cpu -> BootPcs \union OtherPcs] /\ pc[BSP] \in BootPcs
          /\ \A p \in Cpu \ {BSP} : pc[p] \in OtherPcs
      BY <1>1, SetupFacts DEF Init, BootPcs, OtherPcs
    <2>2. cores \in [0 .. MaxCores - 1 -> Entry] /\ target \in [Cpu -> Nat]
      BY DEF Init, Nobody, Entry
    <2>3. say \in [Cpu -> [stage : Stages, line : Lines]]
      <3>1. Quiet \in [stage : Stages, line : Lines]
        BY DEF Quiet, Stages, Lines
      <3>2. QED BY <3>1 DEF Init
    <2>4. QED BY <1>1, <1>2, <2>1, <2>2, <2>3 DEF TypeInv
  <1>3. Handshake
    BY <1>1, SetupFacts DEF Init, Handshake
  <1>4. Entries1 /\ Ids
    BY <1>1, SetupFacts DEF Init, Entries1, Ids, Nobody
  <1>5. QED BY <1>a, <1>3, <1>4 DEF StartInv

\* The parts of a processor's step that leave the processors as they are.
LEMMA StartSame ==
  ASSUME StartInv, UNCHANGED <<setup, pc, smp, exec, target>>, TypeInv'
  PROVE  StartInv'
  <1>1. Cpu' = Cpu /\ BSP' = BSP /\ (BootFirst' <=> BootFirst) /\ \A p : Number(p)' = Number(p) /\ (Full(p)' <=> Full(p))
    BY DEF Cpu, BSP, BootFirst, Number, Full, smp
  <1>2. Handshake'
    BY <1>1 DEF StartInv, Handshake, smp
  <1>3. Entries1' /\ Ids'
    BY <1>1 DEF StartInv, Entries1, Ids, smp
  <1>4. QED BY <1>2, <1>3 DEF StartInv

LEMMA StartLoad == StartInv /\ Load => StartInv'
  <1> SUFFICES ASSUME StartInv, Load PROVE StartInv'
    OBVIOUS
  <1>1. setup' = setup /\ UNCHANGED bootvars
        /\ loading' \in {"read", "choose", "check", "call", "hang", "done"}
    BY DEF Load, LoadModules, Preload, Choose, Check, Call, Enter, Fail, StartInv, TypeInv, TypeOK
  <1>2. TypeInv'
    BY <1>1 DEF StartInv, TypeInv, TypeOK, bootvars, smp, exec, log, Cpu, BSP, Entry, Lines
  <1>3. QED BY <1>1, <1>2, StartSame DEF bootvars

LEMMA StartLog == \A p \in Cpu : StartInv /\ Log(p) => StartInv'
  <1> SUFFICES ASSUME NEW p \in Cpu, StartInv, Log(p) PROVE StartInv'
    OBVIOUS
  <1>1. UNCHANGED <<loadvars, pc, smp, exec, target>>
    BY DEF Log
  <1>2. locked' \in BOOLEAN /\ say' \in [Cpu -> [stage : Stages, line : Lines]]
    <2>1. say \in [Cpu -> [stage : Stages, line : Lines]] /\ locked \in BOOLEAN
      BY DEF StartInv, TypeInv, TypeOK
    <2>2. locked' \in {locked, TRUE, FALSE}
      BY DEF Log, Lock, Fill, Put, Unlock
    <2>3. \/ \E stage \in Stages : say' = [say EXCEPT ![p].stage = stage]
          \/ say' = [say EXCEPT ![p] = Quiet]
      BY DEF Log, Lock, Fill, Put, Unlock, Stage, Stages
    <2>4. Quiet \in [stage : Stages, line : Lines]
      BY DEF Quiet, Stages, Lines
    <2> HIDE DEF Stages, Lines
    <2>5. say' \in [Cpu -> [stage : Stages, line : Lines]]
      <3>1. ASSUME NEW stage \in Stages, say' = [say EXCEPT ![p].stage = stage]
            PROVE  say' \in [Cpu -> [stage : Stages, line : Lines]]
        BY <2>1, <3>1
      <3>2. CASE say' = [say EXCEPT ![p] = Quiet]
        BY <2>1, <2>4, <3>2
      <3>3. QED BY <2>3, <3>1, <3>2
    <2>6. QED BY <2>1, <2>2, <2>5
  <1>3. TypeInv'
    BY <1>1, <1>2 DEF StartInv, TypeInv, TypeOK, loadvars, smp, exec, Cpu, BSP, Entry, Lines, Stages
  <1>4. QED BY <1>1, <1>3, StartSame DEF loadvars

LEMMA StartRelease == StartInv /\ Release => StartInv'
  <1> SUFFICES ASSUME StartInv, Release PROVE StartInv'
    OBVIOUS
  <1>1. /\ UNCHANGED <<loadvars, smp, exec, log, say, target>> /\ setup \in Setups
        /\ pc[BSP] = "release" /\ pc' = [pc EXCEPT ![BSP] = "wait", ![core] = "init"]
    BY DEF Release, At, StartInv, TypeInv
  <1>2. core \in Cpu /\ core # BSP /\ BSP \in Cpu /\ flag /\ pc \in [Cpu -> BootPcs \union OtherPcs]
        /\ pc[BSP] \in BootPcs /\ \A p \in Cpu \ {BSP} : pc[p] \in OtherPcs
    BY <1>1, SetupFacts DEF StartInv, Handshake, TypeInv
  <1>3. /\ setup' = setup /\ Cpu' = Cpu /\ BSP' = BSP /\ (BootFirst' <=> BootFirst)
        /\ \A p : Number(p)' = Number(p) /\ (Full(p)' <=> Full(p))
    BY <1>1 DEF Cpu, BSP, BootFirst, Number, Full, smp, loadvars
  <1>4. /\ pc' \in [Cpu -> BootPcs \union OtherPcs] /\ pc'[BSP] = "wait" /\ pc'[core] = "init"
        /\ \A p \in Cpu \ {BSP, core} : pc'[p] = pc[p]
    BY <1>1, <1>2 DEF BootPcs, OtherPcs
  <1>5. TypeInv'
    BY <1>1, <1>2, <1>3, <1>4 DEF StartInv, TypeInv, TypeOK, loadvars, smp, exec, log, Entry, Lines, BootPcs, OtherPcs
  <1>6. Handshake'
    BY <1>1, <1>2, <1>3, <1>4, SetupFacts DEF StartInv, Handshake, smp, loadvars
  <1>7. Entries1' /\ Ids'
    BY <1>1, <1>2, <1>3, <1>4 DEF StartInv, Entries1, Ids, smp
  <1>8. QED BY <1>5, <1>6, <1>7 DEF StartInv

\* What the rest of the steps rely on.
LEMMA StartFacts ==
  ASSUME StartInv
  PROVE  /\ setup \in Setups /\ Cpu = 1 .. Len(setup.lapics) /\ Len(setup.lapics) \in Nat /\ BSP \in Cpu
         /\ pc \in [Cpu -> BootPcs \union OtherPcs] /\ cores \in [0 .. MaxCores - 1 -> Entry]
         /\ say \in [Cpu -> [stage : Stages, line : Lines]] /\ target \in [Cpu -> Nat]
         /\ pc[BSP] \in BootPcs /\ \A p \in Cpu \ {BSP} : pc[p] \in OtherPcs
         /\ \A p \in Cpu : Number(p) \in 0 .. MaxCores - 1
         /\ BootFirst => \A p, q \in Cpu : Number(p) = Number(q) => p = q
         /\ core \in 1 .. Len(setup.lapics) + 1 /\ core_count \in 0 .. MaxCores
         /\ flag \in BOOLEAN /\ locked \in BOOLEAN /\ MaxCores \in Nat \ {0}
         /\ \A p \in Cpu : setup.lapics[p] \in Nat
  <1>1. setup \in Setups
    BY DEF StartInv, TypeInv
  <1>2. BootFirst => \A p, q \in Cpu : Number(p) = Number(q) => p = q
    BY <1>1, SetupFacts
  <1>3. QED BY <1>1, <1>2, SetupFacts DEF StartInv, TypeInv, TypeOK

LEMMA SetupSame ==
  ASSUME setup' = setup, UNCHANGED cores
  PROVE  /\ Cpu' = Cpu /\ BSP' = BSP /\ (BootFirst' <=> BootFirst)
         /\ \A p : Number(p)' = Number(p) /\ (Full(p)' <=> Full(p))
  BY DEF Cpu, BSP, BootFirst, Number, Full

LEMMA TypeStep ==
  ASSUME StartInv, UNCHANGED <<setup, loading>>,
         core' \in 1 .. Len(setup.lapics) + 1, flag' \in BOOLEAN, locked' \in BOOLEAN,
         core_count' \in 0 .. MaxCores, program' \in 0 .. Len(setup.programs),
         pc' \in [Cpu -> BootPcs \union OtherPcs],
         pc'[BSP] \in BootPcs, \A p \in Cpu \ {BSP} : pc'[p] \in OtherPcs,
         cores' \in [0 .. MaxCores - 1 -> Entry], target' \in [Cpu -> Nat],
         say' \in [Cpu -> [stage : Stages, line : Lines]]
  PROVE  TypeInv'
  <1>1. Cpu' = Cpu /\ BSP' = BSP /\ Entry' = Entry /\ Lines' = Lines /\ setup' \in Setups
    BY StartFacts DEF Cpu, BSP, Entry, Lines
  <1>2. \A n \in DOMAIN cores' : cores'[n].owner \in Cpu \union {0}
    BY DEF Entry
  <1>3. \A p \in Cpu : say'[p].stage \in Stages
    OBVIOUS
  <1>4. TypeOK'
    BY <1>1, <1>2, <1>3 DEF StartInv, TypeInv, TypeOK, Stages
  <1>5. QED BY <1>1, <1>4 DEF TypeInv

LEMMA StartWait == StartInv /\ Wait => StartInv'
  <1> SUFFICES ASSUME StartInv, Wait PROVE StartInv'
    OBVIOUS
  <1>1. /\ UNCHANGED <<loadvars, flag, cores, core_count, exec, log, say, target>>
        /\ pc[BSP] = "wait" /\ pc' = [pc EXCEPT ![BSP] = "cores"] /\ core' = core + 1 /\ ~flag
    BY DEF Wait, At, Goto
  <1>2. setup' = setup /\ core \in Cpu /\ core # BSP
    BY <1>1 DEF loadvars, StartInv, Handshake
  <1>s. /\ Cpu' = Cpu /\ BSP' = BSP /\ (BootFirst' <=> BootFirst)
        /\ \A p : Number(p)' = Number(p) /\ (Full(p)' <=> Full(p))
    BY <1>1, <1>2, SetupSame
  <1>c. core \in Nat /\ \A p \in Cpu : p \in Nat /\ (p > core + 1 => p > core) /\ (p = core + 1 => p > core)
                                         /\ (p < core + 1 => p < core \/ p = core)
    BY <1>2, StartFacts
  <1>3. pc' \in [Cpu -> BootPcs \union OtherPcs] /\ pc'[BSP] = "cores" /\ \A p \in Cpu \ {BSP} : pc'[p] = pc[p]
    BY <1>1, StartFacts DEF BootPcs
  <1>4. TypeInv'
    <2>1. core' \in 1 .. Len(setup.lapics) + 1
      BY <1>1, <1>2, StartFacts
    <2>2. program \in 0 .. Len(setup.programs)
      BY DEF StartInv, TypeInv, TypeOK
    <2>3. pc'[BSP] \in BootPcs
      BY <1>3 DEF BootPcs
    <2>4. QED BY <1>1, <1>3, <2>1, <2>2, <2>3, StartFacts, TypeStep DEF loadvars, exec, log
  <1>5. Handshake'
    BY <1>1, <1>2, <1>3, StartFacts, <1>s, <1>c DEF StartInv, Handshake
  <1>6. Entries1' /\ Ids'
    <2>1. BootFirst => \A p \in Cpu : p < core' => Full(p)
      BY <1>1, <1>c DEF StartInv, Entries1
    <2>2. QED BY <1>1, <1>2, <1>3, <1>s, <2>1 DEF StartInv, Entries1, Ids
  <1>7. QED BY <1>4, <1>5, <1>6 DEF StartInv

LEMMA StartExec == StartInv /\ Exec => StartInv'
  <1> SUFFICES ASSUME StartInv, Exec PROVE StartInv'
    OBVIOUS
  <1>1. PICK label \in {"panic", "user"} :
          /\ UNCHANGED <<loadvars, smp, log, say, target>> /\ program' = program + 1
          /\ pc[BSP] \in {"exec", "user"} /\ pc' = [pc EXCEPT ![BSP] = label]
          /\ program < Len(setup.programs)
    BY DEF Exec, At, Goto
  <1>2. setup' = setup /\ UNCHANGED <<core, flag, cores, core_count>>
    BY <1>1 DEF loadvars, smp
  <1>3. pc' \in [Cpu -> BootPcs \union OtherPcs] /\ pc'[BSP] = label /\ \A p \in Cpu \ {BSP} : pc'[p] = pc[p]
    BY <1>1, StartFacts DEF BootPcs
  <1>4. program' \in 0 .. Len(setup.programs)
    <2>1. program \in 0 .. Len(setup.programs) /\ Len(setup.programs) \in Nat
      BY StartFacts, SetupFacts DEF StartInv, TypeInv, TypeOK
    <2>2. QED BY <1>1, <2>1
  <1>5. TypeInv'
    BY <1>1, <1>2, <1>3, <1>4, StartFacts, SetupSame DEF StartInv, TypeInv, TypeOK, loadvars, log, Entry, Lines, BootPcs
  <1>6. Handshake'
    BY <1>1, <1>2, <1>3, StartFacts, SetupSame DEF StartInv, Handshake
  <1>7. Entries1'
    BY <1>1, <1>2, <1>3, StartFacts, SetupSame, SMTT(30) DEF StartInv, Entries1
  <1>8. Ids'
    BY <1>2, SetupSame DEF StartInv, Ids
  <1>9. QED BY <1>5, <1>6, <1>7, <1>8 DEF StartInv

LEMMA StartFirst == StartInv /\ k_process_init => StartInv'
  <1> SUFFICES ASSUME StartInv, k_process_init PROVE StartInv'
    OBVIOUS
  <1>1. PICK label \in {"cores", "exec"} :
          /\ UNCHANGED <<loadvars, core, flag, exec, log, say, target>>
          /\ pc[BSP] = "modules" /\ pc' = [pc EXCEPT ![BSP] = label]
          /\ label = "exec" => core_count' = core_count
    BY DEF k_process_init, Goto
  <1>a. cores' = [cores EXCEPT ![0] = [@ EXCEPT !.owner = BSP, !.idle = TRUE]]
        /\ core_count' \in {core_count, MaxCores, Len(setup.lapics)}
    BY DEF k_process_init
  <1>2. /\ setup' = setup /\ Cpu' = Cpu /\ BSP' = BSP /\ (BootFirst' <=> BootFirst)
        /\ \A p : Number(p)' = Number(p)
    BY <1>1 DEF loadvars, Cpu, BSP, BootFirst, Number
  <1>3. pc' \in [Cpu -> BootPcs \union OtherPcs] /\ pc'[BSP] = label /\ \A p \in Cpu \ {BSP} : pc'[p] = pc[p]
    BY <1>1, StartFacts DEF BootPcs
  <1>4. /\ cores' \in [0 .. MaxCores - 1 -> Entry]
        /\ cores'[0].owner = BSP /\ cores'[0].idle = TRUE /\ cores'[0].lapic = cores[0].lapic
        /\ \A n \in 1 .. MaxCores - 1 : cores'[n] = cores[n]
    <2>1. cores \in [0 .. MaxCores - 1 -> Entry] /\ 0 \in 0 .. MaxCores - 1 /\ BSP \in Cpu \union {0}
      BY StartFacts
    <2> DEFINE e == [cores[0] EXCEPT !.owner = BSP, !.idle = TRUE]
    <2>2. e \in Entry /\ e.owner = BSP /\ e.idle = TRUE /\ e.lapic = cores[0].lapic
      BY <2>1 DEF Entry
    <2> HIDE DEF e
    <2>3. cores' = [cores EXCEPT ![0] = e]
      BY <1>a DEF e
    <2>4. QED BY <2>1, <2>2, <2>3
  <1>5. core_count' \in 0 .. MaxCores
    BY <1>a, StartFacts, SetupFacts
  <1>6. TypeInv'
    BY <1>1, <1>2, <1>3, <1>4, <1>5, StartFacts DEF StartInv, TypeInv, TypeOK, loadvars, log, exec, Entry, Lines, BootPcs
  <1>7. Handshake'
    BY <1>1, <1>2, <1>3, StartFacts DEF StartInv, Handshake
  <1>8. Entries1'
    <2>1. ASSUME NEW p \in Cpu, BootFirst, Full(p) PROVE Full(p)'
      <3>1. CASE p = BSP
        <4>1. Number(p) = 0 /\ 0 \in 0 .. MaxCores - 1
          BY <3>1, StartFacts DEF Number
        <4>2. cores'[0] \in Entry
          BY <1>4, <4>1
        <4>3. cores[0].owner = p /\ cores[0].lapic = setup.lapics[p] /\ cores[0].idle = TRUE
          BY <2>1, <4>1 DEF Full
        <4>4. cores'[0] = [owner |-> p, lapic |-> setup.lapics[p], idle |-> TRUE]
          BY <1>4, <3>1, <4>2, <4>3 DEF Entry
        <4>5. QED BY <1>2, <4>1, <4>4 DEF Full
      <3>2. CASE p # BSP
        <4>1. Number(p) \in 1 .. MaxCores - 1
          BY <2>1, <3>2, StartFacts, SetupFacts DEF Number, BootFirst
        <4>2. QED BY <1>2, <1>4, <2>1, <4>1 DEF Full
      <3>3. QED BY <3>1, <3>2
    <2>2. QED BY <1>1, <1>2, <1>3, <1>4, <2>1, StartFacts DEF StartInv, Entries1, Handshake
  <1>9. Ids'
    <2>1. \A n \in DOMAIN cores : cores'[n].lapic = cores[n].lapic
      BY <1>4, StartFacts
    <2>2. DOMAIN cores' = DOMAIN cores
      BY <1>4, StartFacts
    <2>3. QED BY <1>2, <2>1, <2>2 DEF StartInv, Ids
  <1>10. QED BY <1>6, <1>7, <1>8, <1>9 DEF StartInv

\* A line that is begun.
LEMMA BeginTyped ==
  ASSUME StartInv, NEW p \in Cpu, NEW line \in Lines, Begin(p, line)
  PROVE  say' \in [Cpu -> [stage : Stages, line : Lines]]
  <1> DEFINE s == [stage |-> "lock", line |-> line]
  <1>1. s \in [stage : Stages, line : Lines]
    BY DEF Stages
  <1> HIDE DEF s
  <1>2. say' = [say EXCEPT ![p] = s]
    BY DEF Begin, s
  <1>3. QED BY <1>1, <1>2, StartFacts

LEMMA StartStartCore == StartInv /\ StartCore => StartInv'
  <1> SUFFICES ASSUME StartInv, StartCore PROVE StartInv'
    OBVIOUS
  <1>1. UNCHANGED <<loadvars, core_count, exec, log, target>> /\ setup' = setup /\ loading' = loading
        /\ pc[BSP] = "cores" /\ say[BSP] = Quiet
    BY DEF StartCore, loadvars, At
  <1>2. program' \in 0 .. Len(setup.programs) /\ locked' = locked
    BY <1>1 DEF StartInv, TypeInv, TypeOK, exec, log
  <1>3. CASE core > Len(setup.lapics)
    <2>1. pc' = [pc EXCEPT ![BSP] = "exec"] /\ UNCHANGED <<core, flag, cores, say>>
      <3>1. core # BSP
        BY <1>3, StartFacts
      <3>2. QED BY <1>3, <3>1 DEF StartCore, Goto
    <2>2. pc' \in [Cpu -> BootPcs \union OtherPcs] /\ pc'[BSP] = "exec" /\ \A p \in Cpu \ {BSP} : pc'[p] = pc[p]
      BY <2>1, StartFacts DEF BootPcs
    <2>3. /\ Cpu' = Cpu /\ BSP' = BSP /\ (BootFirst' <=> BootFirst)
          /\ \A p : Number(p)' = Number(p) /\ (Full(p)' <=> Full(p))
      BY <1>1, <2>1, SetupSame
    <2>4. TypeInv'
      <3>1. pc'[BSP] \in BootPcs
        BY <2>2 DEF BootPcs
      <3>2. QED BY <1>1, <1>2, <2>1, <2>2, <3>1, StartFacts, TypeStep
    <2>5. Handshake'
      BY <1>1, <1>3, <2>1, <2>2, <2>3, StartFacts DEF StartInv, Handshake
    <2>6. Entries1' /\ Ids'
      BY <1>1, <2>1, <2>2, <2>3, StartFacts, SMTT(30) DEF StartInv, Entries1, Ids
    <2>7. QED BY <2>4, <2>5, <2>6 DEF StartInv
  <1>4. CASE ~(core > Len(setup.lapics)) /\ core = BSP
    <2>1. /\ cores' = [cores EXCEPT ![0].lapic = setup.lapics[BSP]]
          /\ Begin(BSP, <<"ready", BSP>>) /\ core' = core + 1 /\ UNCHANGED <<pc, flag>>
      BY <1>4 DEF StartCore
    <2>2. /\ Cpu' = Cpu /\ BSP' = BSP /\ (BootFirst' <=> BootFirst)
          /\ \A p : Number(p)' = Number(p)
      BY <1>1 DEF Cpu, BSP, BootFirst, Number
    <2>3. /\ cores' \in [0 .. MaxCores - 1 -> Entry]
          /\ cores'[0].owner = cores[0].owner /\ cores'[0].idle = cores[0].idle
          /\ cores'[0].lapic = setup.lapics[BSP]
          /\ \A n \in 1 .. MaxCores - 1 : cores'[n] = cores[n]
      <3>1. cores \in [0 .. MaxCores - 1 -> Entry] /\ 0 \in 0 .. MaxCores - 1 /\ setup.lapics[BSP] \in Nat
        BY StartFacts
      <3> DEFINE e == [cores[0] EXCEPT !.lapic = setup.lapics[BSP]]
      <3>2. e \in Entry /\ e.owner = cores[0].owner /\ e.idle = cores[0].idle /\ e.lapic = setup.lapics[BSP]
        BY <3>1 DEF Entry
      <3>3. cores' = [cores EXCEPT ![0] = e]
        BY <2>1
      <3> HIDE DEF e
      <3>4. QED BY <3>1, <3>2, <3>3
    <2>4. TypeInv'
      <3>1. core' \in 1 .. Len(setup.lapics) + 1
        BY <1>4, <2>1, StartFacts
      <3>2. <<"ready", BSP>> \in Lines
        BY StartFacts DEF Lines
      <3>3. say' \in [Cpu -> [stage : Stages, line : Lines]]
        BY <2>1, <3>2, StartFacts, BeginTyped
      <3>4. QED BY <1>1, <1>2, <2>1, <2>3, <3>1, <3>3, StartFacts, TypeStep
    <2>5. core \in Nat /\ \A p \in Cpu : p \in Nat /\ (p > core + 1 => p > core) /\ (p = core + 1 => p > core)
                                             /\ (p < core + 1 => p < core \/ p = core)
      BY StartFacts
    <2>6. Handshake'
      BY <1>1, <1>4, <2>1, <2>2, <2>5, StartFacts DEF StartInv, Handshake
    <2>7. BootFirst => \A p \in Cpu : p < core' => Full(p)'
      <3> SUFFICES ASSUME BootFirst, NEW p \in Cpu, p < core + 1 PROVE Full(p)'
        BY <2>1
      <3>1. p = BSP
        <4>1. BSP = 1 /\ core = 1 /\ Cpu = 1 .. Len(setup.lapics)
          BY <1>4, StartFacts DEF BootFirst
        <4>2. QED BY <4>1
      <3>2. Number(p) = 0 /\ 0 \in 0 .. MaxCores - 1
        BY <3>1, StartFacts DEF Number
      <3>3. cores'[0] \in Entry /\ cores'[0].owner = p /\ cores'[0].idle = TRUE /\ cores'[0].lapic = setup.lapics[p]
        <4>1. cores[0].owner = BSP /\ cores[0].idle
          BY <1>1 DEF StartInv, Entries1
        <4>2. cores'[0] \in Entry
          BY <2>3, <3>2
        <4>3. cores'[0].idle \in BOOLEAN
          BY <4>2 DEF Entry
        <4>4. QED BY <2>3, <3>1, <4>1, <4>2, <4>3
      <3>4. cores'[0] = [owner |-> p, lapic |-> setup.lapics[p], idle |-> TRUE]
        BY <3>3 DEF Entry
      <3>5. QED BY <1>1, <2>2, <3>2, <3>4 DEF Full
    <2>8. BootFirst => \A p \in Cpu \ {BSP} :
            /\ Number(p) \in 1 .. MaxCores - 1 /\ cores'[Number(p)] = cores[Number(p)]
            /\ Full(p) => Full(p)'
      <3> SUFFICES ASSUME BootFirst, NEW p \in Cpu \ {BSP}
                   PROVE  /\ Number(p) \in 1 .. MaxCores - 1 /\ cores'[Number(p)] = cores[Number(p)]
                          /\ Full(p) => Full(p)'
        OBVIOUS
      <3>1. Number(p) \in 1 .. MaxCores - 1
        BY StartFacts, SetupFacts DEF Number, BootFirst
      <3>2. QED BY <1>1, <2>2, <2>3, <3>1 DEF Full
    <2>9. Entries1'
      BY <1>1, <2>1, <2>2, <2>3, <2>7, <2>8 DEF StartInv, Entries1
    <2>10. Ids'
      <3>1. Number(BSP) = 0 /\ BSP \in Cpu /\ DOMAIN cores' = DOMAIN cores /\ DOMAIN cores = 0 .. MaxCores - 1
        BY <2>3, StartFacts DEF Number
      <3>2. ASSUME NEW n \in DOMAIN cores, n # 0 PROVE cores'[n].lapic = cores[n].lapic
        BY <2>3, <3>1, <3>2
      <3>3. QED BY <1>1, <2>2, <2>3, <3>1, <3>2 DEF StartInv, Ids
    <2>11. QED BY <2>4, <2>6, <2>9, <2>10 DEF StartInv
  <1>5. CASE ~(core > Len(setup.lapics)) /\ core # BSP
    <2>1. flag' = TRUE /\ pc' = [pc EXCEPT ![BSP] = "release"] /\ UNCHANGED <<core, cores, say>>
      BY <1>5 DEF StartCore, Goto
    <2>2. pc' \in [Cpu -> BootPcs \union OtherPcs] /\ pc'[BSP] = "release" /\ \A p \in Cpu \ {BSP} : pc'[p] = pc[p]
      BY <2>1, StartFacts DEF BootPcs
    <2>3. /\ Cpu' = Cpu /\ BSP' = BSP /\ (BootFirst' <=> BootFirst)
          /\ \A p : Number(p)' = Number(p) /\ (Full(p)' <=> Full(p))
      BY <1>1, <2>1, SetupSame
    <2>4. TypeInv'
      <3>1. pc'[BSP] \in BootPcs
        BY <2>2 DEF BootPcs
      <3>2. QED BY <1>1, <1>2, <2>1, <2>2, <3>1, StartFacts, TypeStep
    <2>5. core \in Cpu
      BY <1>5, StartFacts
    <2>6. Handshake'
      BY <1>1, <1>5, <2>1, <2>2, <2>3, <2>5, StartFacts DEF StartInv, Handshake
    <2>7. Entries1' /\ Ids'
      BY <1>1, <2>1, <2>2, <2>3, StartFacts, SMTT(30) DEF StartInv, Entries1, Ids
    <2>8. QED BY <2>4, <2>6, <2>7 DEF StartInv
  <1>6. QED BY <1>3, <1>4, <1>5

LEMMA StartInitCore == \A p \in Cpu : StartInv /\ InitCore(p) => StartInv'
  <1> SUFFICES ASSUME NEW p \in Cpu, StartInv, InitCore(p) PROVE StartInv'
    OBVIOUS
  <1>1. /\ UNCHANGED <<loadvars, core, flag, core_count, exec, log, say, target>>
        /\ setup' = setup /\ loading' = loading /\ program' = program /\ locked' = locked
        /\ pc[p] = "init" /\ pc' = [pc EXCEPT ![p] = "idle"]
        /\ cores' = [cores EXCEPT ![Number(p)] = [@ EXCEPT !.owner = p, !.lapic = setup.lapics[p]]]
    BY DEF InitCore, At, Goto, loadvars, exec, log
  <1>2. /\ Cpu' = Cpu /\ BSP' = BSP /\ (BootFirst' <=> BootFirst) /\ \A q : Number(q)' = Number(q)
    BY <1>1 DEF Cpu, BSP, BootFirst, Number
  <1>3. p # BSP /\ p = core /\ flag /\ pc[BSP] \notin {"modules", "cores", "release"}
    <2>1. pc[BSP] # "init"
      BY StartFacts DEF BootPcs
    <2>2. QED BY <1>1, <2>1 DEF StartInv, Handshake
  <1>4. pc' \in [Cpu -> BootPcs \union OtherPcs] /\ pc'[p] = "idle" /\ \A q \in Cpu \ {p} : pc'[q] = pc[q]
    BY <1>1, StartFacts DEF OtherPcs
  <1>5. /\ cores' \in [0 .. MaxCores - 1 -> Entry]
        /\ cores'[Number(p)].owner = p /\ cores'[Number(p)].lapic = setup.lapics[p]
        /\ \A n \in 0 .. MaxCores - 1 : n # Number(p) => cores'[n] = cores[n]
    <2>1. cores \in [0 .. MaxCores - 1 -> Entry] /\ Number(p) \in 0 .. MaxCores - 1
          /\ setup.lapics[p] \in Nat /\ p \in Cpu \union {0}
      BY StartFacts
    <2> DEFINE e == [cores[Number(p)] EXCEPT !.owner = p, !.lapic = setup.lapics[p]]
    <2>2. e \in Entry /\ e.owner = p /\ e.lapic = setup.lapics[p]
      BY <2>1 DEF Entry
    <2>3. cores' = [cores EXCEPT ![Number(p)] = e]
      BY <1>1
    <2> HIDE DEF e
    <2>4. QED BY <2>1, <2>2, <2>3
  <1>6. TypeInv'
    <2>1. pc'[BSP] \in BootPcs /\ \A q \in Cpu \ {BSP} : pc'[q] \in OtherPcs
      BY <1>3, <1>4, StartFacts DEF OtherPcs
    <2>2. program \in 0 .. Len(setup.programs)
      BY DEF StartInv, TypeInv, TypeOK
    <2>3. QED BY <1>1, <1>4, <1>5, <2>1, <2>2, StartFacts, TypeStep
  <1>7. Handshake'
    BY <1>1, <1>2, <1>3, <1>4, StartFacts DEF StartInv, Handshake
  <1>8. ASSUME BootFirst, NEW q \in Cpu, q # p
        PROVE  cores'[Number(q)] = cores[Number(q)] /\ (Full(q) => Full(q)')
    <2>1. Number(q) # Number(p) /\ Number(q) \in 0 .. MaxCores - 1
      BY <1>8, StartFacts
    <2>2. QED BY <1>1, <1>2, <1>5, <2>1 DEF Full
  <1>9. BootFirst => cores'[0] = cores[0]
    <2>1. Number(BSP) = 0 /\ BSP \in Cpu
      BY StartFacts DEF Number
    <2>2. QED BY <1>3, <1>8, <2>1
  <1>10. Entries1'
    <2>1. BootFirst => (pc'[BSP] # "modules" => cores'[0].owner = BSP /\ cores'[0].idle)
      BY <1>1, <1>2, <1>3, <1>4, <1>5, <1>8, <1>9, StartFacts DEF StartInv, Entries1
    <2>2. ASSUME BootFirst, NEW q \in Cpu \ {BSP}
          PROVE  /\ pc'[q] = "idle" => cores'[Number(q)].owner = q /\ cores'[Number(q)].lapic = setup.lapics[q]
                 /\ pc'[q] \in {"lower", "scheduled", "ran"} => Full(q)'
      BY <1>1, <1>2, <1>3, <1>4, <1>5, <1>8, <1>9, StartFacts, <2>2, SMTT(30) DEF StartInv, Entries1
    <2>3. ASSUME BootFirst, NEW q \in Cpu, q < core PROVE Full(q)'
      BY <1>1, <1>2, <1>3, <1>4, <1>5, <1>8, <1>9, StartFacts, <2>3 DEF StartInv, Entries1
    <2>4. BootFirst => (pc'[BSP] = "wait" /\ ~flag' => Full(core)')
      BY <1>1, <1>2, <1>3, <1>4, <1>5, <1>8, <1>9, StartFacts DEF StartInv, Entries1, Handshake
    <2>5. QED BY <1>1, <1>2, <2>1, <2>2, <2>3, <2>4 DEF Entries1
  <1>11. Ids'
    BY <1>1, <1>2, <1>5, StartFacts DEF StartInv, Ids
  <1>12. QED BY <1>6, <1>7, <1>10, <1>11 DEF StartInv

LEMMA StartCreateIdle == \A p \in Cpu : StartInv /\ CreateIdle(p) => StartInv'
  <1> SUFFICES ASSUME NEW p \in Cpu, StartInv, CreateIdle(p) PROVE StartInv'
    OBVIOUS
  <1>1. /\ UNCHANGED <<loadvars, core, flag, core_count, exec, log, target>>
        /\ setup' = setup /\ loading' = loading /\ program' = program /\ locked' = locked
        /\ pc[p] = "idle" /\ pc' = [pc EXCEPT ![p] = "lower"]
        /\ cores' = [cores EXCEPT ![Number(p)].idle = TRUE] /\ Begin(p, <<"ready", p>>)
    BY DEF CreateIdle, At, Goto, loadvars, exec, log
  <1>2. /\ Cpu' = Cpu /\ BSP' = BSP /\ (BootFirst' <=> BootFirst) /\ \A q : Number(q)' = Number(q)
    BY <1>1 DEF Cpu, BSP, BootFirst, Number
  <1>3. p # BSP /\ p = core /\ flag /\ pc[BSP] \notin {"modules", "cores", "release"}
    <2>1. pc[BSP] # "idle"
      BY StartFacts DEF BootPcs
    <2>2. QED BY <1>1, <2>1 DEF StartInv, Handshake
  <1>4. pc' \in [Cpu -> BootPcs \union OtherPcs] /\ pc'[p] = "lower" /\ \A q \in Cpu \ {p} : pc'[q] = pc[q]
    BY <1>1, StartFacts DEF OtherPcs
  <1>5. /\ cores' \in [0 .. MaxCores - 1 -> Entry]
        /\ cores'[Number(p)].owner = cores[Number(p)].owner
        /\ cores'[Number(p)].lapic = cores[Number(p)].lapic /\ cores'[Number(p)].idle = TRUE
        /\ \A n \in 0 .. MaxCores - 1 : n # Number(p) => cores'[n] = cores[n]
    <2>1. cores \in [0 .. MaxCores - 1 -> Entry] /\ Number(p) \in 0 .. MaxCores - 1
      BY StartFacts
    <2> DEFINE e == [cores[Number(p)] EXCEPT !.idle = TRUE]
    <2>2. e \in Entry /\ e.owner = cores[Number(p)].owner /\ e.lapic = cores[Number(p)].lapic /\ e.idle = TRUE
      BY <2>1 DEF Entry
    <2>3. cores' = [cores EXCEPT ![Number(p)] = e]
      BY <1>1
    <2> HIDE DEF e
    <2>4. QED BY <2>1, <2>2, <2>3
  <1>6. TypeInv'
    <2>1. pc'[BSP] \in BootPcs /\ \A q \in Cpu \ {BSP} : pc'[q] \in OtherPcs
      BY <1>3, <1>4, StartFacts DEF OtherPcs
    <2>2. program \in 0 .. Len(setup.programs)
      BY DEF StartInv, TypeInv, TypeOK
    <2>3. <<"ready", p>> \in Lines
      BY DEF Lines
    <2>4. say' \in [Cpu -> [stage : Stages, line : Lines]]
      BY <1>1, <2>3, BeginTyped
    <2>5. QED BY <1>1, <1>4, <1>5, <2>1, <2>2, <2>4, StartFacts, TypeStep
  <1>7. Handshake'
    BY <1>1, <1>2, <1>3, <1>4, StartFacts DEF StartInv, Handshake
  <1>8. ASSUME BootFirst, NEW q \in Cpu, q # p
        PROVE  cores'[Number(q)] = cores[Number(q)] /\ (Full(q) => Full(q)')
    <2>1. Number(q) # Number(p) /\ Number(q) \in 0 .. MaxCores - 1
      BY <1>8, StartFacts
    <2>2. QED BY <1>1, <1>2, <1>5, <2>1 DEF Full
  <1>9. BootFirst => cores'[0] = cores[0]
    <2>1. Number(BSP) = 0 /\ BSP \in Cpu
      BY StartFacts DEF Number
    <2>2. QED BY <1>3, <1>8, <2>1
  <1>10. BootFirst => Full(p)'
    <2>1. BootFirst => cores[Number(p)].owner = p /\ cores[Number(p)].lapic = setup.lapics[p]
      BY <1>1, <1>3 DEF StartInv, Entries1
    <2>2. cores'[Number(p)] \in Entry
      BY <1>5, StartFacts
    <2>3. BootFirst => cores'[Number(p)] = [owner |-> p, lapic |-> setup.lapics[p], idle |-> TRUE]
      BY <1>5, <2>1, <2>2 DEF Entry
    <2>4. QED BY <1>1, <1>2, <2>3 DEF Full
  <1>11. Entries1'
    <2>1. BootFirst => (pc'[BSP] # "modules" => cores'[0].owner = BSP /\ cores'[0].idle)
      BY <1>1, <1>2, <1>3, <1>4, <1>8, <1>9, <1>10, StartFacts DEF StartInv, Entries1
    <2>2. ASSUME BootFirst, NEW q \in Cpu \ {BSP}
          PROVE  /\ pc'[q] = "idle" => cores'[Number(q)].owner = q /\ cores'[Number(q)].lapic = setup.lapics[q]
                 /\ pc'[q] \in {"lower", "scheduled", "ran"} => Full(q)'
      <3>1. CASE q = p
        BY <1>4, <1>10, <2>2, <3>1
      <3>2. CASE q # p
        <4>1. cores'[Number(q)] = cores[Number(q)] /\ (Full(q) => Full(q)') /\ pc'[q] = pc[q]
          BY <1>4, <1>8, <2>2, <3>2
        <4>2. QED BY <2>2, <4>1 DEF StartInv, Entries1
      <3>3. QED BY <3>1, <3>2
    <2>3. ASSUME BootFirst, NEW q \in Cpu, q < core PROVE Full(q)'
      BY <1>1, <1>2, <1>3, <1>4, <1>8, <1>9, <1>10, StartFacts, <2>3 DEF StartInv, Entries1
    <2>4. BootFirst => (pc'[BSP] = "wait" /\ ~flag' => Full(core)')
      BY <1>1, <1>2, <1>3, <1>4, <1>8, <1>9, <1>10, StartFacts DEF StartInv, Entries1, Handshake
    <2>5. QED BY <1>1, <1>2, <2>1, <2>2, <2>3, <2>4 DEF Entries1
  <1>12. Ids'
    <2>1. \A n \in DOMAIN cores : cores'[n].lapic = cores[n].lapic
      BY <1>5, StartFacts
    <2>2. DOMAIN cores' = DOMAIN cores
      BY <1>5, StartFacts
    <2>3. QED BY <1>1, <1>2, <2>1, <2>2 DEF StartInv, Ids
  <1>13. QED BY <1>6, <1>7, <1>11, <1>12 DEF StartInv

\* A step that only moves one processor.
LEMMA StartMove ==
  ASSUME StartInv, UNCHANGED <<setup, loading, core, cores, core_count, program>>,
         flag' \in BOOLEAN, locked' \in BOOLEAN, target' \in [Cpu -> Nat],
         say' \in [Cpu -> [stage : Stages, line : Lines]],
         NEW p \in Cpu, NEW label, pc' = [pc EXCEPT ![p] = label],
         pc[p] \notin {"parked", "halted", "stopped", "modules"},
         \/ flag' = flag /\ label \in {"panic", "crit", "stopped"}
         \/ flag' = flag /\ p = BSP /\ pc[p] = "user" /\ label = "spoken"
         \/ flag' = flag /\ p # BSP /\ pc[p] = "scheduled" /\ label = "ran"
         \/ flag' = FALSE /\ p # BSP /\ pc[p] = "lower" /\ label = "scheduled"
  PROVE  StartInv'
  <1>1. /\ Cpu' = Cpu /\ BSP' = BSP /\ (BootFirst' <=> BootFirst)
        /\ \A q : Number(q)' = Number(q) /\ (Full(q)' <=> Full(q))
    BY SetupSame
  <1>2. pc' \in [Cpu -> BootPcs \union OtherPcs] /\ pc'[p] = label /\ \A q \in Cpu \ {p} : pc'[q] = pc[q]
    BY StartFacts DEF OtherPcs, BootPcs
  <1>3. TypeInv'
    <2>1. pc'[BSP] \in BootPcs /\ \A q \in Cpu \ {BSP} : pc'[q] \in OtherPcs
      BY <1>2, StartFacts DEF BootPcs, OtherPcs
    <2>2. program \in 0 .. Len(setup.programs)
      BY DEF StartInv, TypeInv, TypeOK
    <2>3. QED BY <1>2, <2>1, <2>2, StartFacts, TypeStep
  <1>4. Handshake'
    BY <1>1, <1>2, StartFacts DEF StartInv, Handshake
  <1>5. Entries1'
    <2>1. BootFirst => (pc'[BSP] # "modules" => cores'[0].owner = BSP /\ cores'[0].idle)
      BY <1>1, <1>2, StartFacts DEF StartInv, Entries1
    <2>2. ASSUME BootFirst, NEW q \in Cpu \ {BSP}
          PROVE  /\ pc'[q] = "idle" => cores'[Number(q)].owner = q /\ cores'[Number(q)].lapic = setup.lapics[q]
                 /\ pc'[q] \in {"lower", "scheduled", "ran"} => Full(q)'
      BY <1>1, <1>2, StartFacts, <2>2 DEF StartInv, Entries1
    <2>3. ASSUME BootFirst, NEW q \in Cpu, q < core PROVE Full(q)'
      BY <1>1, <1>2, StartFacts, <2>3 DEF StartInv, Entries1
    <2>4. BootFirst => (pc'[BSP] = "wait" /\ ~flag' => Full(core)')
      BY <1>1, <1>2, StartFacts DEF StartInv, Entries1, Handshake
    <2>5. QED BY <1>1, <2>1, <2>2, <2>3, <2>4 DEF Entries1
  <1>6. Ids'
    BY <1>1 DEF StartInv, Ids
  <1>7. QED BY <1>3, <1>4, <1>5, <1>6 DEF StartInv

LEMMA StartOthers ==
  \A p \in Cpu : StartInv /\ (Lower(p) \/ Speak(p) \/ Shout(p) \/ Stop(p) \/ Die(p)) => StartInv'
  <1> SUFFICES ASSUME NEW p \in Cpu, StartInv PROVE Lower(p) \/ Speak(p) \/ Shout(p) \/ Stop(p) \/ Die(p) => StartInv'
    OBVIOUS
  <1>1. CASE Lower(p)
    <2>1. p # BSP
      BY <1>1, StartFacts DEF Lower, At, BootPcs
    <2>2. QED BY <1>1, <2>1, StartFacts, StartMove DEF Lower, At, Goto, loadvars, exec, log
  <1>2. CASE Speak(p)
    <2>1. IF p = BSP THEN pc[p] = "user" ELSE pc[p] = "scheduled"
      BY <1>2, StartFacts DEF Speak, At, BootPcs, OtherPcs
    <2>2. <<"spawned", p>> \in Lines
      BY DEF Lines
    <2>3. say' \in [Cpu -> [stage : Stages, line : Lines]]
      BY <1>2, <2>2, BeginTyped DEF Speak
    <2>4. QED BY <1>2, <2>1, <2>3, StartFacts, StartMove DEF Speak, Goto, loadvars, exec, log, smp
  <1>3. CASE Shout(p)
    <2>1. <<"panic", p>> \in Lines
      BY DEF Lines
    <2>2. say' \in [Cpu -> [stage : Stages, line : Lines]]
      BY <1>3, <2>1, BeginTyped DEF Shout
    <2>3. QED BY <1>3, <2>2, StartFacts, StartMove DEF Shout, Goto, loadvars, exec, log, smp
  <1>4. CASE Stop(p)
    BY <1>4, StartFacts, StartMove DEF Stop, At, Goto, loadvars, exec, log, smp
  <1>5. CASE Die(p)
    BY <1>5, StartFacts, StartMove DEF Die, Runs, Goto, loadvars, exec, log, smp
  <1>6. QED BY <1>1, <1>2, <1>3, <1>4, <1>5

LEMMA StartSilence == \A p \in Cpu : StartInv /\ Silence(p) => StartInv'
  <1> SUFFICES ASSUME NEW p \in Cpu, StartInv, Silence(p) PROVE StartInv'
    OBVIOUS
  <1>1. /\ UNCHANGED <<loadvars, smp, exec, log, say>> /\ target[p] < core_count
        /\ target' = [target EXCEPT ![p] = @ + 1]
        /\ pc' \in [Cpu -> BootPcs \union OtherPcs] /\ \A q \in Cpu : pc'[q] \in {"halted", pc[q]}
    BY StartFacts DEF Silence, OtherPcs
  <1>2. UNCHANGED <<setup, loading, core, cores, core_count, flag, locked, program>>
    BY <1>1 DEF loadvars, smp, log, exec
  <1>3. /\ Cpu' = Cpu /\ BSP' = BSP /\ (BootFirst' <=> BootFirst)
        /\ \A q : Number(q)' = Number(q) /\ (Full(q)' <=> Full(q))
    BY <1>2, SetupSame
  <1>4. TypeInv'
    <2>1. pc'[BSP] \in BootPcs /\ \A q \in Cpu \ {BSP} : pc'[q] \in OtherPcs
      BY <1>1, StartFacts DEF BootPcs, OtherPcs
    <2>2. program \in 0 .. Len(setup.programs)
      BY DEF StartInv, TypeInv, TypeOK
    <2>3. target' \in [Cpu -> Nat]
      BY <1>1, StartFacts
    <2>4. QED BY <1>1, <1>2, <2>1, <2>2, <2>3, StartFacts, TypeStep
  <1>5. pc[BSP] # "modules"
    BY <1>1, StartFacts DEF StartInv, Handshake
  <1>6. Handshake'
    BY <1>1, <1>2, <1>3, StartFacts DEF StartInv, Handshake
  <1>7. Entries1'
    <2>1. BootFirst => (pc'[BSP] # "modules" => cores'[0].owner = BSP /\ cores'[0].idle)
      BY <1>1, <1>2, <1>3, <1>5, StartFacts DEF StartInv, Entries1
    <2>2. ASSUME BootFirst, NEW q \in Cpu \ {BSP}
          PROVE  /\ pc'[q] = "idle" => cores'[Number(q)].owner = q /\ cores'[Number(q)].lapic = setup.lapics[q]
                 /\ pc'[q] \in {"lower", "scheduled", "ran"} => Full(q)'
      BY <1>1, <1>2, <1>3, <1>5, StartFacts, <2>2 DEF StartInv, Entries1
    <2>3. ASSUME BootFirst, NEW q \in Cpu, q < core PROVE Full(q)'
      BY <1>1, <1>2, <1>3, <1>5, StartFacts, <2>3 DEF StartInv, Entries1
    <2>4. BootFirst => (pc'[BSP] = "wait" /\ ~flag' => Full(core)')
      BY <1>1, <1>2, <1>3, <1>5, StartFacts DEF StartInv, Entries1, Handshake
    <2>5. QED BY <1>2, <1>3, <2>1, <2>2, <2>3, <2>4 DEF Entries1
  <1>8. Ids'
    BY <1>2, <1>3 DEF StartInv, Ids
  <1>9. QED BY <1>4, <1>6, <1>7, <1>8 DEF StartInv

(* While a processor starts, the flag and the goto addresses say which one, *)
(* and each entry of cores[] is of one processor (__try_bootloader).        *)
THEOREM StartInvariant == Spec => []StartInv
  <1>1. StartInv /\ UNCHANGED vars => StartInv'
    <2> SUFFICES ASSUME StartInv, UNCHANGED vars PROVE StartInv'
      OBVIOUS
    <2>1. UNCHANGED <<setup, loading, pc, smp, exec, log, say, target>>
      BY DEF vars, loadvars, bootvars
    <2>2. program \in 0 .. Len(setup.programs)
      BY DEF StartInv, TypeInv, TypeOK
    <2>3. TypeInv'
      BY <2>1, <2>2, StartFacts, TypeStep DEF smp, exec, log
    <2>4. QED BY <2>1, <2>3, StartSame
  <1>2. StartInv /\ [Next]_vars => StartInv'
    BY <1>1, StartLoad, StartFirst, StartStartCore, StartRelease, StartWait, StartExec, StartInitCore,
       StartCreateIdle, StartLog, StartOthers, StartSilence DEF Next, Step, Main
  <1>3. QED BY <1>2, StartInitInv, PTL DEF Spec

(* Whatever the ids and the number of the processors and whichever of them *)
(* is the first: one at a time is started, each gets an entry of its own,  *)
(* and no program runs before all entries are complete.                    *)
THEOREM ProcessorsStart == Spec => []CoresDistinct
  <1>1. StartInv => CoresDistinct
    <2> SUFFICES ASSUME StartInv PROVE CoresDistinct
      OBVIOUS
    <2> DEFINE Starting == {p \in Cpu : pc[p] \in {"init", "idle", "lower"}}
    <2>1. Cardinality(Starting) <= 1
      <3>1. Starting \subseteq {core}
        BY DEF StartInv, Handshake
      <3>2. IsFiniteSet({core}) /\ Cardinality({core}) = 1
        BY FS_Singleton
      <3>3. IsFiniteSet(Starting) /\ Cardinality(Starting) <= Cardinality({core})
        BY <3>1, <3>2, FS_Subset
      <3>4. QED BY <3>2, <3>3
    <2>2. ASSUME BootFirst, NEW p \in Cpu,
                 (p # BSP /\ pc[p] \in {"lower", "scheduled"}) \/ (core_count > 0 /\ pc[BSP] = "user")
          PROVE  Full(p)
      <3>1. CASE p # BSP /\ pc[p] \in {"lower", "scheduled"}
        BY <2>2, <3>1 DEF StartInv, Entries1
      <3>2. CASE core_count > 0 /\ pc[BSP] = "user"
        <4>1. core > Len(setup.lapics)
          BY <3>2 DEF StartInv, Handshake
        <4>2. p < core
          BY <4>1, StartFacts
        <4>3. QED BY <2>2, <4>2 DEF StartInv, Entries1
      <3>3. QED BY <2>2, <3>1, <3>2
    <2>3. TypeOK
      BY DEF StartInv, TypeInv
    <2>4. QED BY <2>1, <2>2, <2>3 DEF CoresDistinct, Full
  <1>2. QED BY <1>1, StartInvariant, PTL

----------------------------------------------------------------------------
(* What the steps of Boot are for the log: silent, the beginning of a line, *)
(* or a step inside k_dev_log.                                              *)
Silent ==
  /\ UNCHANGED <<setup, say, log>> /\ core' \in {core, core + 1}
  /\ \A q \in Cpu : pc'[q] # pc[q] =>
       /\ pc[q] \notin {"scheduled", "ran", "spoken"} /\ pc'[q] \notin {"lower", "ran", "halted"}
       /\ pc[q] = "lower" => pc'[q] = "scheduled" /\ say[q].stage = "quiet"
       /\ pc'[q] = "scheduled" => pc[q] = "lower"

Begun(p) ==
  /\ UNCHANGED <<setup, log>> /\ say[p] = Quiet
  /\ \A q \in Cpu \ {p} : pc'[q] = pc[q]
  /\ \/ Begin(p, <<"ready", p>>) /\ p = BSP /\ core = p /\ core' = p + 1 /\ pc'[p] = pc[p]
     \/ Begin(p, <<"ready", p>>) /\ p # BSP /\ core' = core /\ pc[p] = "idle" /\ pc'[p] = "lower"
     \/ Begin(p, <<"spawned", p>>) /\ core' = core /\ pc[p] \in {"user", "scheduled"}
        /\ pc'[p] = IF p = BSP THEN "spoken" ELSE "ran"

LEMMA NotOneself ==
  ASSUME StartInv, NEW p \in Cpu, Silence(p)
  PROVE  pc[p] = "panic" /\ pc'[p] = "panic"
  <1> DEFINE n == target[p]
             hit == IF n = Number(p) THEN 0 ELSE cores[n].lapic
  <1>1. /\ pc[p] = "panic" /\ n < core_count
        /\ pc' = [q \in Cpu |-> IF hit # 0 /\ setup.lapics[q] = hit THEN "halted" ELSE pc[q]]
    BY DEF Silence
  <1>2. n \in DOMAIN cores /\ 0 \in Nat
    BY <1>1, StartFacts
  <1>3. ~(hit # 0 /\ setup.lapics[p] = hit)
    <2> SUFFICES ASSUME hit # 0, setup.lapics[p] = hit PROVE FALSE
      OBVIOUS
    <2>1. n # Number(p) /\ cores[n].lapic # 0 /\ setup.lapics[p] = cores[n].lapic
      OBVIOUS
    <2>2. PICK q \in Cpu : Number(q) = n /\ cores[n].lapic = setup.lapics[q]
      BY <1>2, <2>1 DEF StartInv, Ids
    <2>3. p = q
      BY <2>1, <2>2, StartFacts, SetupFacts
    <2>4. QED BY <2>1, <2>2, <2>3
  <1> HIDE DEF n, hit
  <1>4. QED BY <1>1, <1>3

\* Whoever panics is not the last of those who do to be halted.
LEMMA PanicStays == StartInv /\ [Next]_vars /\ Panicking # {} => Panicking' # {}
  <1> SUFFICES ASSUME StartInv, [Next]_vars, NEW q \in Cpu, pc[q] \in {"panic", "crit", "stopped"}
               PROVE  \E r \in Cpu : pc'[r] \in {"panic", "crit", "stopped"}
    BY SameSetup DEF Panicking, Cpu
  <1>1. CASE UNCHANGED vars
    BY <1>1 DEF vars, bootvars
  <1>3. ASSUME NEW p \in Cpu, Step(p) \/ Die(p)
        PROVE  \E r \in Cpu : pc'[r] \in {"panic", "crit", "stopped"}
    <2>1. CASE p = BSP /\ Main
      <3>1. CASE Load
        BY <3>1 DEF Load, bootvars
      <3>2. CASE k_process_init
        <4>1. PICK label : pc' = [pc EXCEPT ![BSP] = label] /\ pc[BSP] = "modules"
          BY <3>2 DEF k_process_init, Goto
        <4>2. QED BY <4>1, StartFacts
      <3>3. CASE StartCore
        <4>1. pc' = pc \/ \E label : pc' = [pc EXCEPT ![BSP] = label]
          BY <3>3 DEF StartCore, Goto
        <4>2. pc[BSP] = "cores"
          BY <3>3 DEF StartCore, At
        <4>3. QED BY <4>1, <4>2, StartFacts
      <3>4. CASE Release
        <4>1. /\ pc' = [pc EXCEPT ![BSP] = "wait", ![core] = "init"] /\ pc[BSP] = "release"
              /\ pc[core] \in {"parked", "halted"} /\ core \in Cpu
          BY <3>4, StartFacts DEF Release, At, StartInv, Handshake
        <4>2. QED BY <4>1, StartFacts
      <3>5. CASE Wait
        BY <3>5, StartFacts DEF Wait, At, Goto
      <3>6. CASE Exec
        <4>1. pc[BSP] \in {"exec", "user"} /\ \E label : pc' = [pc EXCEPT ![BSP] = label]
          BY <3>6 DEF Exec, At, Goto
        <4>2. QED BY <4>1, StartFacts
      <3>7. QED BY <2>1, <3>1, <3>2, <3>3, <3>4, <3>5, <3>6 DEF Main
    <2>2. CASE InitCore(p) \/ CreateIdle(p) \/ Lower(p) \/ Speak(p)
      <3>1. /\ pc[p] \in {"init", "idle", "lower", "user", "scheduled"}
            /\ \E label : pc' = [pc EXCEPT ![p] = label]
        BY <2>2 DEF InitCore, CreateIdle, Lower, Speak, At, Goto
      <3>2. QED BY <3>1, StartFacts
    <2>3. CASE Log(p)
      BY <2>3 DEF Log
    <2>4. CASE Silence(p)
      BY <2>4, NotOneself
    <2>5. CASE Shout(p) \/ Stop(p) \/ Die(p)
      <3>1. \E label \in {"panic", "crit", "stopped"} : pc' = [pc EXCEPT ![p] = label]
        BY <2>5 DEF Shout, Stop, Die, Goto
      <3>2. QED BY <3>1, StartFacts
    <2>6. QED BY <1>3, <2>1, <2>2, <2>3, <2>4, <2>5 DEF Step
  <1>4. QED BY <1>1, <1>3 DEF Next

LEMMA Kinds ==
  ASSUME StartInv, [Next]_vars, Panicking = {}, Panicking' = {}
  PROVE  Silent \/ \E p \in Cpu : Begun(p) \/ Log(p)
  <1>1. setup' = setup /\ Cpu' = Cpu
    BY SameSetup DEF Cpu
  <1>2. \A q \in Cpu : pc[q] \notin {"panic", "crit", "stopped"} /\ pc'[q] \notin {"panic", "crit", "stopped"}
    BY <1>1 DEF Panicking
  <1>3. CASE UNCHANGED vars
    BY <1>3 DEF vars, loadvars, bootvars, smp, Silent
  <1>4. ASSUME NEW p \in Cpu, Step(p) \/ Die(p)
        PROVE  Silent \/ Begun(p) \/ Log(p)
    <2>1. CASE p = BSP /\ Main
      <3>1. CASE Load
        BY <1>1, <3>1 DEF Load, bootvars, smp, Silent
      <3>2. CASE k_process_init
        <4>1. /\ \E label \in {"cores", "exec"} : pc' = [pc EXCEPT ![BSP] = label]
              /\ pc[BSP] = "modules" /\ UNCHANGED <<core, say, log>>
          BY <3>2 DEF k_process_init, Goto
        <4>2. QED BY <1>1, <4>1, StartFacts DEF Silent
      <3>3. CASE StartCore
        <4>1. pc[BSP] = "cores" /\ say[BSP] = Quiet /\ UNCHANGED log
          BY <3>3 DEF StartCore, At
        <4>2. \/ /\ \E label \in {"exec", "release"} : pc' = [pc EXCEPT ![BSP] = label]
                 /\ UNCHANGED <<core, say>>
              \/ Begin(BSP, <<"ready", BSP>>) /\ core = BSP /\ core' = core + 1 /\ pc' = pc
          BY <3>3 DEF StartCore, Goto
        <4>3. QED BY <1>1, <2>1, <4>1, <4>2, StartFacts DEF Silent, Begun
      <3>4. CASE Release
        <4>1. /\ pc' = [pc EXCEPT ![BSP] = "wait", ![core] = "init"] /\ pc[BSP] = "release"
              /\ pc[core] \in {"parked", "halted"} /\ core \in Cpu /\ UNCHANGED <<core, say, log>>
          BY <3>4, StartFacts DEF Release, At, StartInv, Handshake, smp
        <4>2. QED BY <1>1, <4>1, StartFacts DEF Silent
      <3>5. CASE Wait
        <4>1. pc[BSP] = "wait" /\ pc' = [pc EXCEPT ![BSP] = "cores"] /\ core' = core + 1 /\ UNCHANGED <<say, log>>
          BY <3>5 DEF Wait, At, Goto
        <4>2. QED BY <1>1, <4>1, StartFacts DEF Silent
      <3>6. CASE Exec
        <4>1. pc[BSP] \in {"exec", "user"} /\ \E label \in {"panic", "user"} : pc' = [pc EXCEPT ![BSP] = label]
              /\ UNCHANGED <<core, say, log>>
          BY <3>6 DEF Exec, At, Goto, smp
        <4>2. QED BY <1>1, <1>2, <4>1, StartFacts DEF Silent
      <3>7. QED BY <2>1, <3>1, <3>2, <3>3, <3>4, <3>5, <3>6 DEF Main
    <2>2. CASE InitCore(p)
      <3>1. pc[p] = "init" /\ pc' = [pc EXCEPT ![p] = "idle"] /\ UNCHANGED <<core, say, log>>
        BY <2>2 DEF InitCore, At, Goto
      <3>2. QED BY <1>1, <3>1, StartFacts DEF Silent
    <2>3. CASE Lower(p)
      <3>1. /\ pc[p] = "lower" /\ pc' = [pc EXCEPT ![p] = "scheduled"] /\ UNCHANGED <<core, say, log>>
            /\ say[p].stage = "quiet"
        BY <2>3 DEF Lower, At, Goto, Quiet
      <3>2. QED BY <1>1, <3>1, StartFacts DEF Silent
    <2>4. CASE CreateIdle(p)
      <3>1. pc[p] = "idle" /\ pc' = [pc EXCEPT ![p] = "lower"] /\ UNCHANGED <<core, log>>
            /\ Begin(p, <<"ready", p>>) /\ say[p] = Quiet
        BY <2>4 DEF CreateIdle, At, Goto
      <3>2. p # BSP
        BY <3>1, StartFacts DEF BootPcs
      <3>3. QED BY <1>1, <3>1, <3>2, StartFacts DEF Begun
    <2>5. CASE Speak(p)
      <3>1. /\ pc[p] \in {"user", "scheduled"} /\ pc' = [pc EXCEPT ![p] = IF p = BSP THEN "spoken" ELSE "ran"]
            /\ UNCHANGED <<core, log>> /\ Begin(p, <<"spawned", p>>) /\ say[p] = Quiet
        BY <2>5 DEF Speak, At, Goto, smp
      <3>2. QED BY <1>1, <3>1, StartFacts DEF Begun
    <2>6. CASE Silence(p) \/ Shout(p) \/ Stop(p)
      <3>1. pc[p] \in {"panic", "crit"}
        BY <2>6 DEF Silence, Shout, Stop, At
      <3>2. QED BY <1>2, <3>1
    <2>7. CASE Die(p)
      <3>1. pc' = [pc EXCEPT ![p] = "panic"]
        BY <2>7 DEF Die, Goto
      <3>2. QED BY <1>2, <3>1, StartFacts
    <2>8. QED BY <1>4, <2>1, <2>2, <2>3, <2>4, <2>5, <2>6, <2>7 DEF Step
  <1>5. QED BY <1>3, <1>4 DEF Next

(* A line on its way: what the lock is for.                                *)
LEMMA LockedStep ==
  ASSUME StartInv, Locked, Said, Panicking = {}, setup' = setup,
         Silent \/ \E p \in Cpu : Begun(p) \/ Log(p)
  PROVE  Locked'
  <1>1. Cpu' = Cpu
    BY DEF Cpu
  <1>2. CASE Silent
    <2>1. \A p \in Cpu : pc'[p] # "halted" /\ (Holds(p)' <=> Holds(p))
      BY <1>2 DEF Silent, Locked, Holds
    <2>2. UNCHANGED <<say, locked, buffer>>
      BY <1>2 DEF Silent, log
    <2>3. QED BY <1>1, <2>1, <2>2 DEF Locked
  <1>3. ASSUME NEW p \in Cpu, Begun(p) PROVE Locked'
    <2>1. /\ UNCHANGED <<locked, buffer>> /\ say[p].stage = "quiet"
          /\ \E line : say' = [say EXCEPT ![p] = [stage |-> "lock", line |-> line]]
      BY <1>3 DEF Begun, Begin, log, Quiet
    <2>2. /\ \A q \in Cpu \ {p} : say'[q] = say[q] /\ (Holds(q)' <=> Holds(q))
          /\ say'[p].stage = "lock" /\ ~Holds(p)'
      BY <2>1, StartFacts DEF Holds
    <2>3. \A q \in Cpu : pc'[q] # "halted"
      BY <1>3 DEF Begun, Locked
    <2>4. QED BY <1>1, <2>1, <2>2, <2>3 DEF Locked
  <1>4. ASSUME NEW p \in Cpu, Log(p) PROVE Locked'
    <2>1. pc' = pc
      BY <1>4 DEF Log
    <2>2. CASE Lock(p)
      <3>1. ~locked /\ locked' = TRUE /\ buffer' = buffer /\ say' = [say EXCEPT ![p].stage = "fill"]
        BY <2>2 DEF Lock, Stage
      <3>2. \A q \in Cpu : ~Holds(q)
        BY <3>1 DEF Locked
      <3>3. say'[p].stage = "fill" /\ \A q \in Cpu \ {p} : say'[q] = say[q]
        BY <3>1, StartFacts
      <3>4. \A q \in Cpu \ {p} : ~Holds(q)'
        BY <3>2, <3>3 DEF Holds
      <3>5. \A q \in Cpu : say'[q].stage \notin {"first", "second"}
        BY <3>2, <3>3 DEF Holds
      <3>6. QED BY <1>1, <2>1, <3>1, <3>4, <3>5 DEF Locked
    <2>3. CASE Fill(p) \/ Put(p)
      <3>1. /\ Holds(p) /\ locked' = locked
            /\ \E stage \in {"first", "second", "unlock"} : say' = [say EXCEPT ![p].stage = stage]
            /\ buffer' = say[p].line
        BY <2>3 DEF Fill, Put, Says, Stage, Holds, Locked
      <3>2. say'[p].stage \in {"first", "second", "unlock"} /\ say'[p].line = say[p].line
            /\ \A q \in Cpu \ {p} : say'[q] = say[q]
        BY <3>1, StartFacts
      <3>3. \A q \in Cpu : Holds(q)' => q = p
        BY <3>1, <3>2 DEF Holds, Locked
      <3>4. locked /\ locked' = locked
        BY <3>1 DEF Locked
      <3>5. \A q \in Cpu : say'[q].stage \in {"first", "second"} => buffer' = say'[q].line
        BY <3>1, <3>2, <3>3 DEF Holds
      <3>6. QED BY <1>1, <2>1, <3>3, <3>4, <3>5 DEF Locked
    <2>4. CASE Unlock(p)
      <3>1. Holds(p) /\ locked' = FALSE /\ say' = [say EXCEPT ![p] = Quiet]
        BY <2>4 DEF Unlock, Says, Holds
      <3>2. say'[p].stage = "quiet" /\ \A q \in Cpu \ {p} : say'[q] = say[q]
        BY <3>1, StartFacts DEF Quiet
      <3>3. \A q \in Cpu : ~Holds(q)'
        BY <3>1, <3>2 DEF Holds, Locked
      <3>4. \A q \in Cpu : say'[q].stage \notin {"first", "second"}
        BY <3>3 DEF Holds
      <3>5. QED BY <1>1, <2>1, <3>3, <3>4 DEF Locked
    <2>5. QED BY <1>4, <2>2, <2>3, <2>4 DEF Log
  <1>5. QED BY <1>2, <1>3, <1>4

\* What is added to the output.
LEMMA PutSpec ==
  ASSUME StartInv, Locked, out \in Seq([line : Lines, half : {"first", "second"}]), NEW p \in Cpu, Put(p)
  PROVE  LET half == say[p].stage
             it == [line |-> say[p].line, half |-> half] IN
         /\ half \in {"first", "second"} /\ it \in [line : Lines, half : {"first", "second"}]
         /\ out' \in Seq([line : Lines, half : {"first", "second"}])
         /\ Len(out) \in Nat /\ Len(out') = Len(out) + 1 /\ DOMAIN out = 1 .. Len(out)
         /\ DOMAIN out' = 1 .. Len(out) + 1
         /\ out'[Len(out) + 1] = it
         /\ \A i \in DOMAIN out : out'[i] = out[i]
         /\ say'[p] = [say[p] EXCEPT !.stage = IF half = "first" THEN "second" ELSE "unlock"]
         /\ \A q \in Cpu \ {p} : say'[q] = say[q]
  <1> DEFINE half == say[p].stage
             it == [line |-> say[p].line, half |-> half]
             R == [line : Lines, half : {"first", "second"}]
  <1>1. half \in {"first", "second"} /\ out' = Append(out, [line |-> buffer, half |-> half])
        /\ say' = [say EXCEPT ![p].stage = IF half = "first" THEN "second" ELSE "unlock"]
    BY DEF Put, Says, Stage
  <1>2. buffer = say[p].line
    BY <1>1 DEF Locked
  <1>3. it \in R
    BY <1>1, StartFacts
  <1>4. out' = Append(out, it) /\ out \in Seq(R)
    BY <1>1, <1>2
  <1>5. /\ say'[p] = [say[p] EXCEPT !.stage = IF half = "first" THEN "second" ELSE "unlock"]
        /\ \A q \in Cpu \ {p} : say'[q] = say[q]
    BY <1>1, StartFacts
  <1> HIDE DEF it, R
  <1>6. /\ out' \in Seq(R) /\ Len(out) \in Nat /\ Len(out') = Len(out) + 1 /\ DOMAIN out = 1 .. Len(out)
        /\ DOMAIN out' = 1 .. Len(out) + 1 /\ out'[Len(out) + 1] = it
        /\ \A i \in DOMAIN out : out'[i] = out[i]
    BY <1>3, <1>4
  <1>7. QED BY <1>1, <1>3, <1>5, <1>6 DEF it, R

LEMMA SaidStep ==
  ASSUME StartInv, Locked, Said, Panicking = {}, setup' = setup,
         out \in Seq([line : Lines, half : {"first", "second"}]),
         Silent \/ \E p \in Cpu : Begun(p) \/ Log(p)
  PROVE  Said'
  <1>1. Cpu' = Cpu /\ BSP' = BSP /\ core \in Nat /\ BSP \in Nat
    BY StartFacts DEF Cpu, BSP
  <1>2. CASE Silent
    <2>1. /\ say' = say /\ out' = out /\ core' \in {core, core + 1}
          /\ \A q \in Cpu : pc'[q] # pc[q] =>
               /\ pc[q] \notin {"scheduled", "ran", "spoken"} /\ pc'[q] \notin {"lower", "ran", "halted"}
               /\ pc[q] = "lower" => pc'[q] = "scheduled" /\ say[q].stage = "quiet"
               /\ pc'[q] = "scheduled" => pc[q] = "lower"
      BY <1>2 DEF Silent, log
    <2>2. \A line : Printed(line)' <=> Printed(line)
      BY <2>1 DEF Printed
    <2>3. \A q : Ready(q)' <=> Ready(q)
      BY <2>1 DEF Ready
    <2>4. \A p \in Cpu : say[p].stage # "quiet" =>
            \/ say[p].line = <<"ready", p>> /\ (IF p = BSP THEN core' > BSP ELSE pc'[p] = "lower")
            \/ say[p].line = <<"spawned", p>> /\ pc'[p] \in {"ran", "spoken"}
      BY <1>1, <2>1 DEF Said
    <2>5. \A p \in Cpu : Printed(<<"ready", p>>) =>
            IF p = BSP THEN core' > BSP ELSE pc'[p] \in {"lower", "scheduled", "ran"}
      BY <1>1, <2>1 DEF Said
    <2>6. \A p \in Cpu : Printed(<<"spawned", p>>) => pc'[p] \in {"ran", "spoken"}
      BY <2>1 DEF Said
    <2>7. \A p \in Cpu \ {BSP} :
            pc'[p] \in {"scheduled", "ran"} \/ (pc'[p] = "lower" /\ say[p].stage \in {"unlock", "quiet"})
              => Ready(p)
      BY <2>1 DEF Said
    <2>8. \A p \in Cpu : say[p].stage \in {"lock", "fill", "first"} => ~Printed(say[p].line)
      BY DEF Said
    <2>9. QED BY <1>1, <2>1, <2>2, <2>3, <2>4, <2>5, <2>6, <2>7, <2>8 DEF Said
  <1>3. ASSUME NEW p \in Cpu, Begun(p) PROVE Said'
    <2>1. out' = out /\ \A q \in Cpu \ {p} : pc'[q] = pc[q] /\ say'[q] = say[q]
      BY <1>3, StartFacts DEF Begun, Begin, log
    <2>2. \A line : Printed(line)' <=> Printed(line)
      BY <2>1 DEF Printed
    <2>3. \A q : Ready(q)' <=> Ready(q)
      BY <2>1 DEF Ready
    <2>4. PICK line : say'[p] = [stage |-> "lock", line |-> line]
      BY <1>3, StartFacts DEF Begun, Begin
    <2>5. \/ line = <<"ready", p>> /\ p = BSP /\ core = p /\ core' = p + 1 /\ pc'[p] = pc[p]
          \/ line = <<"ready", p>> /\ p # BSP /\ core' = core /\ pc[p] = "idle" /\ pc'[p] = "lower"
          \/ line = <<"spawned", p>> /\ core' = core /\ pc[p] \in {"user", "scheduled"}
             /\ pc'[p] = IF p = BSP THEN "spoken" ELSE "ran"
      BY <1>3, <2>4, StartFacts DEF Begun, Begin
    <2>6. ~Printed(line)
      BY <1>1, <2>5 DEF Said
    <2>7. \A q \in Cpu : say'[q].stage # "quiet" =>
            \/ say'[q].line = <<"ready", q>> /\ (IF q = BSP THEN core' > BSP ELSE pc'[q] = "lower")
            \/ say'[q].line = <<"spawned", q>> /\ pc'[q] \in {"ran", "spoken"}
      BY <1>1, <2>1, <2>4, <2>5 DEF Said
    <2>8. \A q \in Cpu : Printed(<<"ready", q>>) =>
            IF q = BSP THEN core' > BSP ELSE pc'[q] \in {"lower", "scheduled", "ran"}
      BY <1>1, <2>1, <2>4, <2>5 DEF Said
    <2>9. \A q \in Cpu : Printed(<<"spawned", q>>) => pc'[q] \in {"ran", "spoken"}
      BY <2>1, <2>5 DEF Said
    <2>10. \A q \in Cpu : say'[q].stage \in {"lock", "fill", "first"} => ~Printed(say'[q].line)
      BY <2>1, <2>4, <2>6 DEF Said
    <2>11. \A q \in Cpu \ {BSP} :
             pc'[q] \in {"scheduled", "ran"} \/ (pc'[q] = "lower" /\ say'[q].stage \in {"unlock", "quiet"})
               => Ready(q)
      <3>1. CASE p = BSP
        BY <2>1, <3>1 DEF Said
      <3>2. CASE p # BSP
        <4>1. pc[p] # "user"
          BY <3>2, StartFacts DEF OtherPcs
        <4>2. pc'[p] = "ran" => Ready(p)
          BY <2>5, <3>2, <4>1 DEF Said
        <4>3. pc'[p] # "scheduled" /\ say'[p].stage = "lock"
          BY <2>4, <2>5, <3>2
        <4>4. QED BY <2>1, <4>2, <4>3 DEF Said
      <3>3. QED BY <3>1, <3>2
    <2>12. QED BY <1>1, <2>2, <2>3, <2>7, <2>8, <2>9, <2>10, <2>11 DEF Said
  <1>4. ASSUME NEW p \in Cpu, Log(p) PROVE Said'
    <2>1. pc' = pc /\ core' = core
      BY <1>4 DEF Log, smp
    <2>2. CASE Lock(p) \/ Fill(p) \/ Unlock(p)
      <3>1. /\ out' = out
            /\ \/ say[p].stage \in {"lock", "fill"} /\ \E stage \in {"fill", "first"} : say' = [say EXCEPT ![p].stage = stage]
               \/ say[p].stage = "unlock" /\ say' = [say EXCEPT ![p] = Quiet]
        BY <2>2 DEF Lock, Fill, Unlock, Says, Stage
      <3>2. /\ \A q \in Cpu \ {p} : say'[q] = say[q]
            /\ \/ say[p].stage \in {"lock", "fill"} /\ say'[p].stage \in {"fill", "first"} /\ say'[p].line = say[p].line
               \/ say[p].stage = "unlock" /\ say'[p].stage = "quiet"
        <4>1. CASE say[p].stage = "unlock" /\ say' = [say EXCEPT ![p] = Quiet]
          BY <4>1, StartFacts DEF Quiet
        <4>2. ASSUME say[p].stage \in {"lock", "fill"}, NEW stage \in {"fill", "first"},
                     say' = [say EXCEPT ![p].stage = stage]
              PROVE  /\ \A q \in Cpu \ {p} : say'[q] = say[q]
                     /\ say'[p].stage = stage /\ say'[p].line = say[p].line
          BY <4>2, StartFacts
        <4>3. QED BY <3>1, <4>1, <4>2
      <3>3. \A line : Printed(line)' <=> Printed(line)
        BY <3>1 DEF Printed
      <3>4. \A q : Ready(q)' <=> Ready(q)
        BY <3>1 DEF Ready
      <3>5. \A q \in Cpu : say'[q].stage # "quiet" =>
              \/ say'[q].line = <<"ready", q>> /\ (IF q = BSP THEN core > BSP ELSE pc[q] = "lower")
              \/ say'[q].line = <<"spawned", q>> /\ pc[q] \in {"ran", "spoken"}
        BY <3>2 DEF Said
      <3>6. \A q \in Cpu : say'[q].stage \in {"lock", "fill", "first"} => ~Printed(say'[q].line)
        BY <3>2 DEF Said
      <3>7. \A q \in Cpu \ {BSP} :
              pc[q] \in {"scheduled", "ran"} \/ (pc[q] = "lower" /\ say'[q].stage \in {"unlock", "quiet"}) => Ready(q)
        BY <3>2 DEF Said
      <3>8. QED BY <1>1, <2>1, <3>3, <3>4, <3>5, <3>6, <3>7 DEF Said
    <2>3. CASE Put(p)
      <3> DEFINE line == say[p].line
      <3>1. /\ say[p].stage \in {"first", "second"} /\ Len(out) \in Nat
            /\ DOMAIN out = 1 .. Len(out) /\ DOMAIN out' = 1 .. Len(out) + 1
            /\ out'[Len(out) + 1] = [line |-> line, half |-> say[p].stage]
            /\ \A i \in DOMAIN out : out'[i] = out[i]
            /\ say'[p] = [say[p] EXCEPT !.stage = IF say[p].stage = "first" THEN "second" ELSE "unlock"]
            /\ \A q \in Cpu \ {p} : say'[q] = say[q]
        BY <2>3, PutSpec
      <3>2. /\ say'[p].line = line
            /\ say'[p].stage = IF say[p].stage = "first" THEN "second" ELSE "unlock"
        BY <3>1, StartFacts
      <3> DEFINE Now(other) == \E i \in DOMAIN out' : out'[i].line = other
      <3>3. \A other : Now(other) => Printed(other) \/ other = line
        <4>1. \A i \in DOMAIN out' : i \in DOMAIN out \/ i = Len(out) + 1
          BY <3>1
        <4>2. QED BY <3>1, <4>1 DEF Printed
      <3>4. \A q : Ready(q) => Ready(q)'
        <4>1. \A i \in DOMAIN out : i \in DOMAIN out'
          BY <3>1
        <4>2. QED BY <3>1, <4>1 DEF Ready
      <3>5. line = <<"ready", p>> /\ say[p].stage = "second" => Ready(p)'
        <4>1. Len(out) + 1 \in DOMAIN out'
          BY <3>1
        <4>2. QED BY <3>1, <4>1 DEF Ready
      <3>6. \/ line = <<"ready", p>> /\ (IF p = BSP THEN core > BSP ELSE pc[p] = "lower")
            \/ line = <<"spawned", p>> /\ pc[p] \in {"ran", "spoken"}
        BY <3>1 DEF Said
      <3>7. ASSUME NEW q \in Cpu, say'[q].stage # "quiet"
            PROVE  \/ say'[q].line = <<"ready", q>> /\ (IF q = BSP THEN core > BSP ELSE pc[q] = "lower")
                   \/ say'[q].line = <<"spawned", q>> /\ pc[q] \in {"ran", "spoken"}
        <4>1. CASE q = p
          BY <3>2, <3>6, <4>1
        <4>2. CASE q # p
          BY <3>1, <3>7, <4>2 DEF Said
        <4>3. QED BY <4>1, <4>2
      <3>8. \A q \in Cpu \ {p} : say[q].stage # "quiet" => say[q].line # line
        BY <3>6 DEF Said
      <3>9. \A q \in Cpu : say'[q].stage \in {"lock", "fill", "first"} => ~Now(say'[q].line)
        <4> SUFFICES ASSUME NEW q \in Cpu, say'[q].stage \in {"lock", "fill", "first"}, Now(say'[q].line)
                     PROVE  FALSE
          OBVIOUS
        <4>1. q # p /\ say'[q] = say[q]
          BY <3>1, <3>2
        <4>2. ~Printed(say[q].line) /\ say[q].line # line
          BY <3>8, <4>1 DEF Said
        <4> HIDE DEF Now, line
        <4>3. QED BY <3>3, <4>1, <4>2
      <3>a. /\ \A q : line = <<"ready", q>> => q = p /\ (IF p = BSP THEN core > BSP ELSE pc[p] = "lower")
            /\ \A q : line = <<"spawned", q>> => q = p /\ pc[p] \in {"ran", "spoken"}
        BY <3>6
      <3>13. \A other : Printed(other)' <=> Now(other)
        BY DEF Printed
      <3> HIDE DEF line, Now
      <3>10. \A q \in Cpu : Now(<<"ready", q>>) =>
               IF q = BSP THEN core > BSP ELSE pc[q] \in {"lower", "scheduled", "ran"}
        BY <3>3, <3>a DEF Said
      <3>11. \A q \in Cpu : Now(<<"spawned", q>>) => pc[q] \in {"ran", "spoken"}
        BY <3>3, <3>a DEF Said
      <3>12. \A q \in Cpu \ {BSP} :
               pc[q] \in {"scheduled", "ran"} \/ (pc[q] = "lower" /\ say'[q].stage \in {"unlock", "quiet"}) => Ready(q)'
        <4> SUFFICES ASSUME NEW q \in Cpu \ {BSP},
                            pc[q] \in {"scheduled", "ran"} \/ (pc[q] = "lower" /\ say'[q].stage \in {"unlock", "quiet"})
                     PROVE  Ready(q)'
          OBVIOUS
        <4>1. CASE q # p \/ pc[q] # "lower"
          BY <3>1, <3>4, <4>1 DEF Said
        <4>2. CASE q = p /\ pc[q] = "lower"
          <5>1. say[p].stage = "second" /\ line = <<"ready", p>>
            BY <3>1, <3>2, <3>6, <4>2
          <5>2. QED BY <3>5, <4>2, <5>1
        <4>3. QED BY <4>1, <4>2
      <3>14. \A q \in Cpu : say'[q].stage # "quiet" =>
               \/ say'[q].line = <<"ready", q>> /\ (IF q = BSP THEN core > BSP ELSE pc[q] = "lower")
               \/ say'[q].line = <<"spawned", q>> /\ pc[q] \in {"ran", "spoken"}
        BY <3>7
      <3>15. QED BY <1>1, <2>1, <3>9, <3>10, <3>11, <3>12, <3>13, <3>14 DEF Said
    <2>4. QED BY <1>4, <2>2, <2>3 DEF Log
  <1>5. QED BY <1>2, <1>3, <1>4

LEMMA Parity == \A n \in Nat : n % 2 \in {0, 1} /\ ((n + 1) % 2 = 1 <=> n % 2 = 0)
  OBVIOUS

LEMMA HalvesStep ==
  ASSUME StartInv, Locked, Said, Halves, Panicking = {}, setup' = setup,
         Silent \/ \E p \in Cpu : Begun(p) \/ Log(p)
  PROVE  Halves'
  <1>1. Cpu' = Cpu /\ Lines' = Lines
    BY DEF Cpu, Lines
  <1>2. ASSUME out' = out,
               \A p \in Cpu : say[p].stage = "second" <=> say'[p].stage = "second",
               \A p \in Cpu : say[p].stage = "second" => say'[p].line = say[p].line
        PROVE  Halves'
    <2>1. \A p \in Cpu : say'[p].stage = "second" => out[Len(out)].line = say'[p].line
      BY <1>2 DEF Halves
    <2>2. Len(out) % 2 = 1 <=> \E p \in Cpu : say'[p].stage = "second"
      BY <1>2 DEF Halves
    <2>3. out \in Seq([line : Lines, half : {"first", "second"}]) /\ Whole(out)
      BY DEF Halves
    <2>4. QED BY <1>1, <1>2, <2>1, <2>2, <2>3 DEF Halves
  <1>3. CASE Silent
    BY <1>2, <1>3 DEF Silent, log
  <1>4. ASSUME NEW p \in Cpu, Begun(p) PROVE Halves'
    <2>1. out' = out /\ say[p].stage = "quiet" /\ say'[p].stage = "lock" /\ \A q \in Cpu \ {p} : say'[q] = say[q]
      <3>1. out' = out /\ say[p].stage = "quiet"
            /\ \E line : say' = [say EXCEPT ![p] = [stage |-> "lock", line |-> line]]
        BY <1>4 DEF Begun, Begin, log, Quiet
      <3>2. QED BY <3>1, StartFacts
    <2>2. QED BY <1>2, <2>1
  <1>5. ASSUME NEW p \in Cpu, Lock(p) \/ Fill(p) \/ Unlock(p) PROVE Halves'
    <2>1. out' = out /\ say[p].stage \in {"lock", "fill", "unlock"}
          /\ \/ \E stage \in {"fill", "first"} : say' = [say EXCEPT ![p].stage = stage]
             \/ say' = [say EXCEPT ![p] = Quiet]
      BY <1>5 DEF Lock, Fill, Unlock, Says, Stage
    <2>2. say'[p].stage \in {"fill", "first", "quiet"} /\ \A q \in Cpu \ {p} : say'[q] = say[q]
      <3>1. CASE say' = [say EXCEPT ![p] = Quiet]
        BY <3>1, StartFacts DEF Quiet
      <3>2. ASSUME NEW stage \in {"fill", "first"}, say' = [say EXCEPT ![p].stage = stage]
            PROVE  say'[p].stage = stage /\ \A q \in Cpu \ {p} : say'[q] = say[q]
        BY <3>2, StartFacts
      <3>3. QED BY <2>1, <3>1, <3>2
    <2>3. QED BY <1>2, <2>1, <2>2
  <1>6. ASSUME NEW p \in Cpu, Put(p) PROVE Halves'
    <2> DEFINE n == Len(out)
               line == say[p].line
               half == say[p].stage
    <2>1. /\ out \in Seq([line : Lines, half : {"first", "second"}]) /\ Whole(out)
          /\ n % 2 = 1 <=> \E q \in Cpu : say[q].stage = "second"
          /\ \A q \in Cpu : say[q].stage = "second" => out[n].line = say[q].line
      BY DEF Halves
    <2>2. /\ half \in {"first", "second"} /\ n \in Nat
          /\ out' \in Seq([line : Lines, half : {"first", "second"}])
          /\ DOMAIN out = 1 .. n /\ DOMAIN out' = 1 .. n + 1 /\ Len(out') = n + 1
          /\ out'[n + 1] = [line |-> line, half |-> half]
          /\ \A i \in DOMAIN out : out'[i] = out[i]
          /\ say'[p] = [say[p] EXCEPT !.stage = IF half = "first" THEN "second" ELSE "unlock"]
          /\ \A q \in Cpu \ {p} : say'[q] = say[q]
      BY <1>6, <2>1, PutSpec
    <2>3. \A q \in Cpu \ {p} : say[q].stage \notin {"first", "second"}
      BY <2>2 DEF Locked, Holds
    <2>4. say'[p].line = line /\ say'[p].stage = IF half = "first" THEN "second" ELSE "unlock"
      BY <2>2, StartFacts
    <2>5. n % 2 = 1 <=> half = "second"
      BY <2>1, <2>2, <2>3
    <2>6. /\ \A i \in DOMAIN out : out[i].half = IF i % 2 = 1 THEN "first" ELSE "second"
          /\ \A i \in DOMAIN out : i % 2 = 0 => out[i].line = out[i - 1].line
          /\ \A i, j \in DOMAIN out : out[i] = out[j] => i = j
          /\ \A i \in DOMAIN out : out[i] \in [line : Lines, half : {"first", "second"}]
      <3> DEFINE R == [line : Lines, half : {"first", "second"}]
      <3>1. out \in Seq(R)
        BY <2>1
      <3> HIDE DEF R
      <3>2. \A i \in DOMAIN out : out[i] \in R
        BY <3>1
      <3>3. /\ \A i \in DOMAIN out : out[i].half = IF i % 2 = 1 THEN "first" ELSE "second"
            /\ \A i \in DOMAIN out : i % 2 = 0 => out[i].line = out[i - 1].line
            /\ \A i, j \in DOMAIN out : out[i] = out[j] => i = j
        BY <2>1 DEF Whole, IsInjective
      <3>4. QED BY <3>2, <3>3 DEF R
    <2> HIDE DEF n, half
    <2>7. (n + 1) % 2 = 1 <=> half = "first"
      <3>1. n % 2 \in {0, 1} /\ ((n + 1) % 2 = 1 <=> n % 2 = 0)
        BY <2>2, Parity
      <3>2. QED BY <2>2, <2>5, <3>1
    <2>8. half = "second" => n \in DOMAIN out /\ out[n].line = line /\ n % 2 = 1
      <3>1. ASSUME half = "second" PROVE n \in DOMAIN out
        <4>1. n % 2 = 1
          BY <2>5, <3>1
        <4>2. n # 0
          BY <4>1
        <4>3. QED BY <2>2, <4>2
      <3>2. half = "second" => out[n].line = line
        BY <2>1 DEF half, n
      <3>3. QED BY <2>5, <3>1, <3>2
    <2>9. \A i \in DOMAIN out : out[i] # [line |-> line, half |-> half]
      <3> SUFFICES ASSUME NEW i \in DOMAIN out, out[i].line = line, out[i].half = half PROVE FALSE
        OBVIOUS
      <3>1. CASE half = "first"
        <4>1. Printed(line)
          BY DEF Printed
        <4>2. QED BY <3>1, <4>1 DEF Said, half
      <3>2. CASE half = "second"
        <4>1. i % 2 # 1 /\ i \in Nat /\ i <= n /\ i > 0
          BY <2>2, <2>6, <3>2
        <4>2. i % 2 = 0 /\ i > 1 /\ (i - 1) % 2 = 1
          BY <4>1
        <4>3. i - 1 \in DOMAIN out
          BY <2>2, <4>1, <4>2
        <4>4. out[i - 1].line = line /\ out[i - 1].half = "first"
          BY <2>6, <4>2, <4>3
        <4>5. out[n].line = line /\ out[n].half = "first" /\ n \in DOMAIN out
          BY <2>6, <2>8, <3>2
        <4>6. out[i - 1] = out[n]
          BY <2>6, <4>3, <4>4, <4>5
        <4>7. QED BY <2>6, <4>1, <4>3, <4>5, <4>6
      <3>3. QED BY <2>2, <3>1, <3>2
    <2>10. Whole(out')
      <3>1. \A i \in DOMAIN out' : i \in DOMAIN out \/ i = n + 1
        BY <2>2
      <3>2. IsInjective(out')
        BY <2>2, <2>6, <2>9, <3>1 DEF IsInjective
      <3>3. ASSUME NEW i \in DOMAIN out'
            PROVE  /\ out'[i].half = IF i % 2 = 1 THEN "first" ELSE "second"
                   /\ i % 2 = 0 => out'[i].line = out'[i - 1].line
        <4>1. CASE i \in DOMAIN out
          <5>1. i % 2 = 0 => i - 1 \in DOMAIN out
            <6>1. i \in Nat \ {0} /\ i <= n
              BY <2>2, <4>1
            <6>2. i % 2 = 0 => i > 1
              BY <6>1
            <6>3. QED BY <2>2, <6>1, <6>2
          <5>2. QED BY <2>2, <2>6, <4>1, <5>1
        <4>2. CASE i = n + 1
          <5>1. out'[i].half = half /\ out'[i].line = line
            BY <2>2, <4>2
          <5>2. half = IF i % 2 = 1 THEN "first" ELSE "second"
            BY <2>2, <2>7, <4>2
          <5>3. ASSUME i % 2 = 0 PROVE out'[i].line = out'[i - 1].line
            <6>1. half = "second" /\ i - 1 = n
              BY <2>2, <2>7, <4>2, <5>3
            <6>2. QED BY <2>2, <2>8, <5>1, <6>1
          <5>4. QED BY <5>1, <5>2, <5>3
        <4>3. QED BY <3>1, <4>1, <4>2
      <3>4. QED BY <3>2, <3>3 DEF Whole
    <2>11. (n + 1) % 2 = 1 <=> \E q \in Cpu : say'[q].stage = "second"
      BY <2>2, <2>3, <2>4, <2>7
    <2>12. \A q \in Cpu : say'[q].stage = "second" => out'[n + 1].line = say'[q].line
      <3>1. out'[n + 1].line = say'[p].line
        BY <2>2, <2>4
      <3>2. \A q \in Cpu : q # p => say'[q].stage # "second"
        BY <2>2, <2>3
      <3>3. QED BY <3>1, <3>2
    <2>13. QED BY <1>1, <2>2, <2>10, <2>11, <2>12 DEF Halves
  <1>7. QED BY <1>3, <1>4, <1>5, <1>6 DEF Log

\* What is typed about the output holds whoever panics.
LEMMA OutTyped ==
  ASSUME StartInv, [Next]_vars, out \in Seq([line : Lines, half : {"first", "second"}]), buffer \in Lines
  PROVE  out' \in Seq([line : Lines, half : {"first", "second"}]) /\ buffer' \in Lines
  <1> DEFINE R == [line : Lines, half : {"first", "second"}]
  <1>1. CASE UNCHANGED <<buffer, out>>
    BY <1>1
  <1>2. ASSUME NEW p \in Cpu, Log(p) PROVE out' \in Seq(R) /\ buffer' \in Lines
    <2>1. CASE Lock(p) \/ Unlock(p)
      BY <1>1, <2>1 DEF Lock, Unlock
    <2>2. CASE Fill(p)
      BY <2>2, StartFacts DEF Fill
    <2>3. CASE Put(p)
      <3>1. PICK half \in {"first", "second"} : out' = Append(out, [line |-> buffer, half |-> half]) /\ buffer' = buffer
        BY <2>3 DEF Put
      <3>2. [line |-> buffer, half |-> half] \in R
        BY <3>1
      <3> HIDE DEF R
      <3>3. out \in Seq(R)
        BY DEF R
      <3>4. QED BY <3>1, <3>2, <3>3
    <2>4. QED BY <1>2, <2>1, <2>2, <2>3 DEF Log
  <1>3. UNCHANGED <<buffer, out>> \/ \E p \in Cpu : Log(p)
    <2>1. Main => UNCHANGED <<buffer, out>>
      BY DEF Main, Load, k_process_init, StartCore, Release, Wait, Exec, log, bootvars
    <2>2. ASSUME NEW p \in Cpu, Step(p) \/ Die(p) PROVE UNCHANGED <<buffer, out>> \/ Log(p)
      BY <2>1, <2>2 DEF Step, InitCore, CreateIdle, Lower, Speak, Silence, Shout, Stop, Die, log
    <2>3. UNCHANGED vars => UNCHANGED <<buffer, out>>
      BY DEF vars, bootvars, log
    <2>4. QED BY <2>2, <2>3 DEF Next
  <1>4. QED BY <1>1, <1>2, <1>3

\* Where the boot processor goes by itself.
LEMMA MainMoves ==
  ASSUME StartInv, Main
  PROVE  /\ pc[BSP] \in {"modules", "cores", "release", "wait", "exec", "user"}
         /\ \/ pc' = pc \/ (\E label \in {"cores", "exec", "release", "panic", "user"} : pc' = [pc EXCEPT ![BSP] = label])
            \/ core # BSP /\ core \in Cpu /\ pc' = [pc EXCEPT ![BSP] = "wait", ![core] = "init"]
  <1>1. CASE Load
    BY <1>1 DEF Load, bootvars
  <1>2. CASE k_process_init
    BY <1>2 DEF k_process_init, Goto
  <1>3. CASE StartCore
    BY <1>3 DEF StartCore, Goto, At
  <1>4. CASE Release
    BY <1>4 DEF Release, At, StartInv, Handshake
  <1>5. CASE Wait
    BY <1>5 DEF Wait, At, Goto
  <1>6. CASE Exec
    BY <1>6 DEF Exec, At, Goto
  <1>7. QED BY <1>1, <1>2, <1>3, <1>4, <1>5, <1>6 DEF Main

\* Whoever else takes a step is not parked or halted after it.
LEMMA Movers ==
  ASSUME StartInv, NEW p \in Cpu, NEW q \in Cpu, p # q,
         Step(q) \/ Die(q), Deserted(p)', pc'[p] \in {"crit", "stopped"}, setup' = setup
  PROVE  FALSE
  <1>1. pc'[q] \in {"parked", "halted"}
    BY DEF Deserted, Cpu
  <1>2. CASE Silence(q)
    BY <1>1, <1>2, NotOneself
  <1>3. CASE q = BSP /\ Main
    <2>1. /\ pc[q] \in {"modules", "cores", "release", "wait", "exec", "user"}
          /\ \/ pc' = pc \/ (\E label \in {"cores", "exec", "release", "panic", "user"} : pc' = [pc EXCEPT ![q] = label])
             \/ core # q /\ core \in Cpu /\ pc' = [pc EXCEPT ![q] = "wait", ![core] = "init"]
      BY <1>3, MainMoves
    <2>2. pc'[q] \notin {"parked", "halted"}
      BY <2>1, StartFacts
    <2>3. QED BY <1>1, <2>2
  <1>4. CASE InitCore(q) \/ CreateIdle(q) \/ Lower(q) \/ Speak(q) \/ Shout(q) \/ Stop(q) \/ Die(q)
    <2>1. \E label \in {"idle", "lower", "scheduled", "spoken", "ran", "crit", "stopped", "panic"} :
            pc' = [pc EXCEPT ![q] = label]
      BY <1>4 DEF InitCore, CreateIdle, Lower, Speak, Shout, Stop, Die, Goto
    <2>2. pc'[q] \notin {"parked", "halted"}
      BY <2>1, StartFacts
    <2>3. QED BY <1>1, <2>2
  <1>5. CASE Log(q)
    <2>1. pc' = pc /\ Runs(q)
      BY <1>5 DEF Log, Lock, Fill, Put, Unlock, Says
    <2>2. QED BY <1>1, <2>1 DEF Runs
  <1>6. QED BY <1>2, <1>3, <1>4, <1>5 DEF Step

LEMMA LastTwo ==
  ASSUME NEW R, NEW s \in Seq(R), Len(s) > 1
  PROVE  SubSeq(s, Len(s) - 1, Len(s)) = <<s[Len(s) - 1], s[Len(s)]>>
  <1> DEFINE t == SubSeq(s, Len(s) - 1, Len(s))
             u == <<s[Len(s) - 1], s[Len(s)]>>
  <1>1. t \in Seq(R) /\ Len(t) = 2 /\ t[1] = s[Len(s) - 1] /\ t[2] = s[Len(s)]
    OBVIOUS
  <1>2. u \in Seq(R) /\ Len(u) = 2 /\ u[1] = s[Len(s) - 1] /\ u[2] = s[Len(s)]
    OBVIOUS
  <1> HIDE DEF t, u
  <1>3. \A i \in 1 .. 2 : t[i] = u[i]
    <2>1. \A i \in 1 .. 2 : i = 1 \/ i = 2
      OBVIOUS
    <2>2. QED BY <1>1, <1>2, <2>1
  <1>4. t = u
    BY <1>1, <1>2, <1>3, SeqEqual
  <1>5. QED BY <1>4 DEF t, u

LEMMA PanicStep ==
  ASSUME StartInv, LogInv, [Next]_vars
  PROVE  PanicInv'
  <1>1. setup' = setup /\ Cpu' = Cpu
    BY SameSetup DEF Cpu
  <1> SUFFICES ASSUME NEW p \in Cpu, pc'[p] \in {"crit", "stopped"}, Deserted(p)'
               PROVE  /\ say'[p].stage # "quiet" => pc'[p] = "crit" /\ say'[p].line = <<"panic", p>>
                      /\ say'[p].stage \in {"first", "second"} => buffer' = <<"panic", p>>
                      /\ say'[p].stage = "second" =>
                           Len(out') > 0 /\ out'[Len(out')] = [line |-> <<"panic", p>>, half |-> "first"]
                      /\ say'[p].stage \in {"unlock", "quiet"} => LastWords(p)'
    BY <1>1 DEF PanicInv
  <1>2. out \in Seq([line : Lines, half : {"first", "second"}]) /\ PanicInv
    BY DEF LogInv
  <1>3. CASE UNCHANGED vars
    <2>1. pc' = pc /\ say' = say /\ buffer' = buffer /\ out' = out
      BY <1>3 DEF vars, bootvars, log
    <2>2. Deserted(p) /\ (LastWords(p)' <=> LastWords(p))
      BY <1>1, <2>1 DEF Deserted, LastWords
    <2>3. QED BY <1>2, <2>1, <2>2 DEF PanicInv
  <1>4. CASE Next
    <2>1. Step(p) \/ Die(p)
      BY <1>1, <1>4, Movers DEF Next
    <2>2. ASSUME pc[p] \in {"crit", "stopped"}, \A q \in Cpu \ {p} : pc'[q] = pc[q]
          PROVE  /\ say[p].stage # "quiet" => pc[p] = "crit" /\ say[p].line = <<"panic", p>>
                 /\ say[p].stage \in {"first", "second"} => buffer = <<"panic", p>>
                 /\ say[p].stage = "second" => Len(out) > 0 /\ out[Len(out)] = [line |-> <<"panic", p>>, half |-> "first"]
                 /\ say[p].stage \in {"unlock", "quiet"} => LastWords(p)
      <3>1. Deserted(p)
        BY <1>1, <2>2 DEF Deserted
      <3>2. QED BY <1>2, <2>2, <3>1 DEF PanicInv
    <2>3. CASE Shout(p)
      <3>1. say' = [say EXCEPT ![p] = [stage |-> "lock", line |-> <<"panic", p>>]] /\ pc' = [pc EXCEPT ![p] = "crit"]
        BY <2>3 DEF Shout, Begin, Goto
      <3>2. say'[p].stage = "lock" /\ say'[p].line = <<"panic", p>> /\ pc'[p] = "crit"
        BY <3>1, StartFacts
      <3>3. QED BY <3>2
    <2>4. CASE Stop(p)
      <3>1. /\ pc[p] = "crit" /\ say[p].stage = "quiet" /\ pc' = [pc EXCEPT ![p] = "stopped"]
            /\ UNCHANGED <<say, buffer, out>>
        BY <2>4 DEF Stop, At, Goto, Quiet, log
      <3>2. \A q \in Cpu \ {p} : pc'[q] = pc[q]
        BY <3>1, StartFacts
      <3>3. LastWords(p)'
        BY <2>2, <3>1, <3>2 DEF LastWords
      <3>4. QED BY <3>1, <3>3
    <2>5. CASE Log(p)
      <3>1. pc' = pc /\ Runs(p)
        BY <2>5 DEF Log, Lock, Fill, Put, Unlock, Says
      <3>2. pc[p] = "crit"
        BY <3>1 DEF Runs
      <3>3. CASE Lock(p) \/ Fill(p)
        <4>1. /\ say[p].stage \in {"lock", "fill"}
              /\ \/ say' = [say EXCEPT ![p].stage = "fill"]
                 \/ say' = [say EXCEPT ![p].stage = "first"] /\ buffer' = say[p].line
          BY <3>3 DEF Lock, Fill, Says, Stage
        <4>2. /\ say'[p].line = say[p].line
              /\ \/ say'[p].stage = "fill"
                 \/ say'[p].stage = "first" /\ buffer' = say[p].line
          <5>1. CASE say' = [say EXCEPT ![p].stage = "fill"]
            BY <5>1, StartFacts
          <5>2. CASE say' = [say EXCEPT ![p].stage = "first"] /\ buffer' = say[p].line
            BY <5>2, StartFacts
          <5>3. QED BY <4>1, <5>1, <5>2
        <4>3. say[p].line = <<"panic", p>>
          BY <2>2, <3>1, <3>2, <4>1
        <4>4. QED BY <3>1, <3>2, <4>2, <4>3
      <3>4. CASE Put(p)
        <4>1. /\ say[p].stage \in {"first", "second"} /\ buffer' = buffer
              /\ out' = Append(out, [line |-> buffer, half |-> say[p].stage])
              /\ say' = [say EXCEPT ![p].stage = IF say[p].stage = "first" THEN "second" ELSE "unlock"]
          BY <3>4 DEF Put, Says, Stage
        <4>2. say'[p].line = say[p].line /\ say'[p].stage = IF say[p].stage = "first" THEN "second" ELSE "unlock"
          BY <4>1, StartFacts
        <4>3. say[p].line = <<"panic", p>> /\ buffer = <<"panic", p>>
          BY <2>2, <3>1, <3>2, <4>1
        <4> DEFINE R == [line : Lines, half : {"first", "second"}]
                   it == [line |-> <<"panic", p>>, half |-> say[p].stage]
        <4>4. it \in R
          BY <4>1 DEF Lines
        <4>5. out \in Seq(R) /\ out' = Append(out, it)
          BY <1>2, <4>1, <4>3
        <4> HIDE DEF R, it
        <4>6. /\ Len(out) \in Nat /\ Len(out') = Len(out) + 1 /\ out'[Len(out) + 1] = it
              /\ \A i \in 1 .. Len(out) : out'[i] = out[i]
              /\ out' \in Seq(R)
          BY <4>4, <4>5
        <4>7. CASE say[p].stage = "first"
          <5>1. Len(out') > 0 /\ out'[Len(out')] = [line |-> <<"panic", p>>, half |-> "first"]
            BY <4>6, <4>7 DEF it
          <5>2. QED BY <3>1, <3>2, <4>1, <4>2, <4>3, <4>7, <5>1
        <4>8. CASE say[p].stage = "second"
          <5>1. Len(out) > 0 /\ out[Len(out)] = [line |-> <<"panic", p>>, half |-> "first"]
            BY <2>2, <3>1, <3>2, <4>8
          <5>2. /\ Len(out') > 1 /\ out'[Len(out') - 1] = [line |-> <<"panic", p>>, half |-> "first"]
                /\ out'[Len(out')] = [line |-> <<"panic", p>>, half |-> "second"]
            BY <4>6, <4>8, <5>1 DEF it
          <5>3. SubSeq(out', Len(out') - 1, Len(out')) = <<out'[Len(out') - 1], out'[Len(out')]>>
            BY <4>6, <5>2, LastTwo
          <5>4. LastWords(p)'
            BY <5>2, <5>3 DEF LastWords
          <5>5. QED BY <3>1, <3>2, <4>2, <4>3, <4>8, <5>4
        <4>9. QED BY <4>1, <4>7, <4>8
      <3>5. CASE Unlock(p)
        <4>1. say[p].stage = "unlock" /\ say' = [say EXCEPT ![p] = Quiet] /\ UNCHANGED <<buffer, out>>
          BY <3>5 DEF Unlock, Says
        <4>2. say'[p].stage = "quiet"
          BY <4>1, StartFacts DEF Quiet
        <4>3. LastWords(p)'
          BY <2>2, <3>1, <3>2, <4>1 DEF LastWords
        <4>4. QED BY <4>2, <4>3
      <3>6. QED BY <2>5, <3>3, <3>4, <3>5 DEF Log
    <2>6. CASE Silence(p)
      BY <2>6, NotOneself
    <2>7. CASE Die(p)
      BY <2>7, StartFacts DEF Die, Goto
    <2>8. CASE InitCore(p) \/ CreateIdle(p) \/ Lower(p) \/ Speak(p)
      <3>1. \E label \in {"idle", "lower", "scheduled", "spoken", "ran"} : pc' = [pc EXCEPT ![p] = label]
        BY <2>8 DEF InitCore, CreateIdle, Lower, Speak, Goto
      <3>2. QED BY <3>1, StartFacts
    <2>9. CASE p = BSP /\ Main
      <3>1. /\ pc[p] \in {"modules", "cores", "release", "wait", "exec", "user"}
            /\ \/ pc' = pc \/ (\E label \in {"cores", "exec", "release", "panic", "user"} : pc' = [pc EXCEPT ![p] = label])
               \/ core # p /\ core \in Cpu /\ pc' = [pc EXCEPT ![p] = "wait", ![core] = "init"]
        BY <2>9, MainMoves
      <3>2. QED BY <3>1, StartFacts
    <2>10. QED BY <2>1, <2>3, <2>4, <2>5, <2>6, <2>7, <2>8, <2>9 DEF Step
  <1>5. QED BY <1>3, <1>4

LEMMA LogInitInv == Init => LogInv
  <1> SUFFICES ASSUME Init PROVE LogInv
    OBVIOUS
  <1>1. /\ setup \in Setups /\ out = <<>> /\ buffer = <<>> /\ locked = FALSE /\ core = 1
        /\ say = [p \in Cpu |-> Quiet] /\ pc = [p \in Cpu |-> IF p = BSP THEN "modules" ELSE "parked"]
    BY DEF Init, LoaderInit
  <1>2. /\ \A p \in Cpu : say[p].stage = "quiet" /\ pc[p] \in {"modules", "parked"}
        /\ \A p \in Cpu \ {BSP} : pc[p] = "parked"
    BY <1>1 DEF Quiet
  <1>3. /\ out \in Seq([line : Lines, half : {"first", "second"}]) /\ Len(out) = 0 /\ DOMAIN out = {}
        /\ buffer \in Lines
    BY <1>1 DEF Lines
  <1>4. Locked
    BY <1>2 DEF Locked, Holds
  <1>5. Said
    <2>1. \A line : ~Printed(line)
      BY <1>3 DEF Printed
    <2>2. QED BY <1>2, <2>1 DEF Said
  <1>6. Halves
    <2>1. Whole(out)
      BY <1>3 DEF Whole, IsInjective
    <2>2. Len(out) % 2 # 1
      BY <1>3
    <2>3. QED BY <1>2, <1>3, <2>1, <2>2 DEF Halves
  <1>7. PanicInv
    BY <1>2 DEF PanicInv
  <1>8. QED BY <1>3, <1>4, <1>5, <1>6, <1>7 DEF LogInv, QuietInv

(* Before a panic whoever is in k_dev_log holds its lock, and the shared    *)
(* buffer and the half of a line that is out are his (k_dev_log, panic).    *)
THEOREM LogInvariant == Spec => []LogInv
  <1>1. StartInv /\ LogInv /\ [Next]_vars => LogInv'
    <2> SUFFICES ASSUME StartInv, LogInv, [Next]_vars PROVE LogInv'
      OBVIOUS
    <2>1. out' \in Seq([line : Lines, half : {"first", "second"}]) /\ buffer' \in Lines
      BY OutTyped DEF LogInv
    <2>2. setup' = setup /\ Lines' = Lines
      BY SameSetup DEF Lines, Cpu
    <2>3. PanicInv'
      BY PanicStep
    <2>4. QuietInv'
      <3> SUFFICES ASSUME Panicking' = {} PROVE Locked' /\ Said' /\ Halves'
        BY DEF QuietInv
      <3>1. Panicking = {}
        BY PanicStays
      <3>2. Locked /\ Said /\ Halves /\ out \in Seq([line : Lines, half : {"first", "second"}])
        BY <3>1 DEF LogInv, QuietInv
      <3>3. Silent \/ \E p \in Cpu : Begun(p) \/ Log(p)
        BY <3>1, Kinds
      <3>4. QED BY <2>2, <3>1, <3>2, <3>3, LockedStep, SaidStep, HalvesStep
    <2>5. QED BY <2>1, <2>2, <2>3, <2>4 DEF LogInv
  <1>2. QED BY <1>1, LogInitInv, StartInvariant, PTL DEF Spec

(* Whatever the processors log and in whatever order, no two lines mix     *)
(* before a panic; and the last that panics has the log to itself.         *)
THEOREM LogKeptApart == Spec => []LogSound
  <1>1. StartInv /\ LogInv => LogSound
    <2> SUFFICES ASSUME StartInv, LogInv PROVE LogSound
      OBVIOUS
    <2>1. ASSUME Panicking = {}, NEW p \in Cpu, pc[p] \in {"scheduled", "ran"}
          PROVE  Ready(p)
      <3>1. p # BSP
        BY <2>1, StartFacts DEF BootPcs
      <3>2. QED BY <2>1, <3>1 DEF LogInv, QuietInv, Said
    <2>2. Panicking = {} => Whole(out)
      BY DEF LogInv, QuietInv, Halves
    <2>3. ASSUME NEW p \in Cpu, pc[p] = "stopped", Deserted(p)
          PROVE  LastWords(p)
      <3>1. say[p].stage = "quiet"
        BY <2>3 DEF LogInv, PanicInv
      <3>2. QED BY <2>3, <3>1 DEF LogInv, PanicInv
    <2>4. QED BY <2>1, <2>2, <2>3 DEF LogSound, Ready, Deserted, LastWords
  <1>2. QED BY <1>1, StartInvariant, LogInvariant, PTL
----------------------------------------------------------------------------
\* From b upwards, one by one.
LEMMA Ladder ==
  ASSUME NEW b \in Nat, NEW n \in Nat, NEW S, b \in S,
         \A k \in b .. n : k \in S /\ k # n => k + 1 \in S
  PROVE  \A k \in b .. n : k \in S
  <1> DEFINE Bad == {k \in b .. n : k \notin S}
  <1>1. SUFFICES ASSUME Bad # {} PROVE FALSE
    OBVIOUS
  <1>2. PICK x \in Bad : \A y \in Bad : x <= y
    <2>1. Bad \subseteq Nat
      OBVIOUS
    <2> HIDE DEF Bad
    <2>2. QED BY <1>1, <2>1, LeastExists
  <1>3. x \in b .. n /\ x \notin S /\ x # b
    OBVIOUS
  <1>4. x - 1 \in b .. n /\ x - 1 # n /\ x = (x - 1) + 1 /\ ~(x <= x - 1)
    BY <1>3
  <1>5. x - 1 \in S
    BY <1>2, <1>4
  <1>6. QED BY <1>3, <1>4, <1>5

----------------------------------------------------------------------------
(* Sequences of sequences, one after the other                              *)

LEMMA MemberOf ==
  ASSUME NEW T, NEW s \in Seq(T), NEW i \in 1 .. Len(s)
  PROVE  s[i] \in T
  OBVIOUS

LEMMA Concat ==
  ASSUME NEW S, NEW s \in Seq(S), NEW t \in Seq(S)
  PROVE  /\ s \o t \in Seq(S) /\ Len(s \o t) = Len(s) + Len(t)
         /\ Len(s) \in Nat /\ Len(t) \in Nat
         /\ \A j \in 1 .. Len(s) : (s \o t)[j] = s[j]
         /\ \A j \in 1 .. Len(t) : (s \o t)[Len(s) + j] = t[j]
  <1>1. /\ s \o t \in Seq(S) /\ Len(s \o t) = Len(s) + Len(t)
        /\ Len(s) \in Nat /\ Len(t) \in Nat
    OBVIOUS
  <1>2. \A j \in 1 .. Len(s) : (s \o t)[j] = s[j]
    BY <1>1
  <1>3. \A j \in 1 .. Len(t) : (s \o t)[Len(s) + j] = t[j]
    BY <1>1
  <1>4. QED BY <1>1, <1>2, <1>3

FlatStep(ss, f, i) == IF i = 1 THEN ss[i] ELSE f[i - 1] \o ss[i]

\* f has the beginnings of the flattened sequence.
Flattens(ss, f) == \A i \in 1 .. Len(ss) : f[i] = FlatStep(ss, f, i)

LEMMA FlattenBy ==
  ASSUME NEW S, NEW ss \in Seq(S), ss # <<>>, NEW g, DOMAIN g = 1 .. Len(ss), Flattens(ss, g),
         g = [i \in 1 .. Len(ss) |-> g[i]]
  PROVE  FlattenSeq(ss) = g[Len(ss)]
  <1>0. Len(ss) \in Nat /\ Len(ss) # 0
    BY EmptySeq
  <1>1. g = [i \in 1 .. Len(ss) |-> FlatStep(ss, g, i)]
    BY DEF Flattens
  <1>2. \E f : f = [i \in 1 .. Len(ss) |-> FlatStep(ss, f, i)] /\ FlattenSeq(ss) = f[Len(ss)]
    BY <1>0, <1>1, Zenon DEF FlattenSeq, FlatStep
  <1>3. PICK f : f = [i \in 1 .. Len(ss) |-> FlatStep(ss, f, i)] /\ FlattenSeq(ss) = f[Len(ss)]
    BY <1>2
  <1>4. \A i \in 1 .. Len(ss) : f[i] = FlatStep(ss, f, i)
    BY <1>3
  <1> DEFINE Same == {i \in 1 .. Len(ss) : f[i] = g[i]}
  <1>5. 1 \in Same
    <2>1. 1 \in 1 .. Len(ss)
      BY <1>0
    <2>2. f[1] = ss[1] /\ g[1] = ss[1]
      BY <1>4, <2>1 DEF Flattens, FlatStep
    <2>3. QED BY <2>1, <2>2
  <1>6. \A i \in 1 .. Len(ss) : i \in Same /\ i # Len(ss) => i + 1 \in Same
    <2> SUFFICES ASSUME NEW i \in 1 .. Len(ss), f[i] = g[i], i # Len(ss) PROVE i + 1 \in Same
      OBVIOUS
    <2>1. i + 1 \in 1 .. Len(ss) /\ i + 1 # 1 /\ (i + 1) - 1 = i
      BY <1>0
    <2>2. f[i + 1] = f[i] \o ss[i + 1] /\ g[i + 1] = g[i] \o ss[i + 1]
      BY <1>4, <2>1 DEF Flattens, FlatStep
    <2>3. QED BY <2>1, <2>2
  <1>7. \A i \in 1 .. Len(ss) : i \in Same
    <2> HIDE DEF Same
    <2>1. QED BY <1>0, <1>5, <1>6, Ladder
  <1>8. QED BY <1>0, <1>3, <1>7

\* f has what the first i of the sequences make together.
Beginnings(S, ss, f) ==
  /\ f \in [0 .. Len(ss) -> Seq(S)] /\ f[0] = <<>>
  /\ \A i \in 1 .. Len(ss) : f[i] = f[i - 1] \o ss[i]

LEMMA BeginningsExist ==
  ASSUME NEW S, NEW ss \in Seq(Seq(S))
  PROVE  \E f : Beginnings(S, ss, f)
  <1> DEFINE Good(k, f) == /\ f \in [0 .. k -> Seq(S)] /\ f[0] = <<>>
                           /\ \A i \in 1 .. k : f[i] = f[i - 1] \o ss[i]
             K == {k \in 0 .. Len(ss) : \E f : Good(k, f)}
  <1>0. Len(ss) \in Nat
    OBVIOUS
  <1>1. 0 \in K
    <2>1. Good(0, [i \in 0 .. 0 |-> <<>>])
      OBVIOUS
    <2> HIDE DEF Good
    <2>2. QED BY <1>0, <2>1
  <1>2. ASSUME NEW k \in 0 .. Len(ss), k \in K, k # Len(ss) PROVE k + 1 \in K
    <2>1. PICK f : Good(k, f)
      BY <1>2
    <2> DEFINE g == [i \in 0 .. k + 1 |-> IF i = k + 1 THEN f[k] \o ss[k + 1] ELSE f[i]]
    <2>2. k + 1 \in 1 .. Len(ss) /\ k \in Nat
      BY <1>0, <1>2
    <2>3. ss[k + 1] \in Seq(S) /\ f[k] \in Seq(S)
      <3>1. ss[k + 1] \in Seq(S)
        BY <2>2, MemberOf
      <3>2. QED BY <2>1, <2>2, <3>1
    <2>4. f[k] \o ss[k + 1] \in Seq(S)
      BY <2>3
    <2>5. \A i \in 0 .. k + 1 : i = k + 1 \/ i \in 0 .. k
      BY <2>2
    <2>6. g \in [0 .. k + 1 -> Seq(S)]
      BY <2>1, <2>4, <2>5
    <2>7. /\ g[0] = <<>> /\ g[k + 1] = f[k] \o ss[k + 1]
          /\ \A i \in 0 .. k : g[i] = f[i]
      <3>1. \A i \in 0 .. k : g[i] = f[i]
        <4>1. \A i \in 0 .. k : i \in 0 .. k + 1 /\ i # k + 1
          BY <2>2
        <4>2. QED BY <4>1
      <3>2. g[k + 1] = f[k] \o ss[k + 1]
        <4>1. k + 1 \in 0 .. k + 1
          BY <2>2
        <4>2. QED BY <4>1
      <3>3. 0 \in 0 .. k /\ f[0] = <<>>
        BY <2>1, <2>2
      <3> HIDE DEF g
      <3>4. QED BY <3>1, <3>2, <3>3
    <2> HIDE DEF g
    <2>8. \A i \in 1 .. k + 1 : g[i] = g[i - 1] \o ss[i]
      <3> SUFFICES ASSUME NEW i \in 1 .. k + 1 PROVE g[i] = g[i - 1] \o ss[i]
        OBVIOUS
      <3>1. CASE i = k + 1
        <4>1. i - 1 = k /\ k \in 0 .. k
          BY <2>2, <3>1
        <4>2. QED BY <2>7, <3>1, <4>1
      <3>2. CASE i # k + 1
        <4>1. i \in 1 .. k /\ i \in 0 .. k /\ i - 1 \in 0 .. k
          BY <2>2, <3>2
        <4>2. QED BY <2>1, <2>7, <4>1
      <3>3. QED BY <3>1, <3>2
    <2>9. Good(k + 1, g)
      BY <2>6, <2>7, <2>8
    <2>10. k + 1 \in 0 .. Len(ss)
      BY <2>2
    <2> HIDE DEF Good
    <2>11. QED BY <2>9, <2>10
  <1>3. \A k \in 0 .. Len(ss) : k \in K
    <2> HIDE DEF K
    <2>1. QED BY <1>0, <1>1, <1>2, Ladder
  <1>4. Len(ss) \in K
    <2> HIDE DEF K
    <2>1. QED BY <1>0, <1>3
  <1>5. PICK f : Good(Len(ss), f)
    BY <1>4
  <1>6. QED BY <1>5 DEF Beginnings

LEMMA BeginningsFlatten ==
  ASSUME NEW S, NEW ss \in Seq(Seq(S)), NEW f, Beginnings(S, ss, f)
  PROVE  FlattenSeq(ss) = f[Len(ss)]
  <1>0. Len(ss) \in Nat
    OBVIOUS
  <1>1. CASE ss = <<>>
    BY <1>1 DEF Beginnings, FlattenSeq
  <1>2. CASE ss # <<>>
    <2> DEFINE g == [i \in 1 .. Len(ss) |-> f[i]]
    <2>1. Len(ss) # 0
      BY <1>2, EmptySeq
    <2>2. ASSUME NEW i \in 1 .. Len(ss) PROVE g[i] = FlatStep(ss, g, i)
      <3>1. f[i] = f[i - 1] \o ss[i]
        BY DEF Beginnings
      <3>2. CASE i = 1
        <4>1. ss[1] \in Seq(S) /\ f[0] = <<>>
          BY <3>2, MemberOf DEF Beginnings
        <4>2. f[0] \o ss[1] = ss[1]
          BY <4>1
        <4>3. f[1] = ss[1]
          <5>1. f[1] = f[0] \o ss[1]
            <6>1. i - 1 = 0
              BY <3>2
            <6>2. QED BY <3>1, <3>2, <6>1
          <5>2. QED BY <4>2, <5>1
        <4>4. g[1] = f[1]
          BY <3>2
        <4> HIDE DEF g
        <4>5. QED BY <3>2, <4>3, <4>4 DEF FlatStep
      <3>3. CASE i # 1
        <4>1. i - 1 \in 1 .. Len(ss)
          BY <1>0, <3>3
        <4>2. QED BY <3>1, <3>3, <4>1 DEF FlatStep
      <3>4. QED BY <3>2, <3>3
    <2>3. Flattens(ss, g)
      BY <2>2 DEF Flattens
    <2>4. DOMAIN g = 1 .. Len(ss) /\ g = [i \in 1 .. Len(ss) |-> g[i]]
      OBVIOUS
    <2>5. g[Len(ss)] = f[Len(ss)]
      BY <1>0, <2>1
    <2> HIDE DEF g
    <2>6. FlattenSeq(ss) = g[Len(ss)]
      BY <1>2, <2>3, <2>4, FlattenBy
    <2>7. QED BY <2>5, <2>6
  <1>3. QED BY <1>1, <1>2

\* So does a beginning of the sequence of sequences.
LEMMA BeginningOf ==
  ASSUME NEW S, NEW ss \in Seq(Seq(S)), NEW f, Beginnings(S, ss, f), NEW k \in 0 .. Len(ss)
  PROVE  FlattenSeq(SubSeq(ss, 1, k)) = f[k]
  <1> DEFINE t == SubSeq(ss, 1, k)
             g == [i \in 0 .. k |-> f[i]]
  <1>0. Len(ss) \in Nat /\ k \in Nat
    OBVIOUS
  <1>1. t \in Seq(Seq(S)) /\ Len(t) = k /\ \A i \in 1 .. k : t[i] = ss[i]
    OBVIOUS
  <1>2. g \in [0 .. k -> Seq(S)] /\ g[0] = <<>>
    BY <1>0 DEF Beginnings
  <1>3. \A i \in 1 .. k : g[i] = g[i - 1] \o t[i]
    <2> SUFFICES ASSUME NEW i \in 1 .. k PROVE g[i] = g[i - 1] \o t[i]
      OBVIOUS
    <2>1. i \in 1 .. Len(ss) /\ i - 1 \in 0 .. k /\ i \in 0 .. k
      BY <1>0
    <2>2. f[i] = f[i - 1] \o ss[i]
      BY <2>1 DEF Beginnings
    <2>3. QED BY <1>1, <2>1, <2>2
  <1> HIDE DEF t, g
  <1>4. Beginnings(S, t, g)
    BY <1>1, <1>2, <1>3 DEF Beginnings
  <1>5. FlattenSeq(t) = g[k]
    BY <1>1, <1>4, BeginningsFlatten
  <1>6. QED BY <1>0, <1>5 DEF g, t

\* Where the members of a flattened sequence are: each sequence begins behind
\* the ones before it.
LEMMA BeginningsGrow ==
  ASSUME NEW S, NEW ss \in Seq(Seq(S)), NEW f, Beginnings(S, ss, f),
         NEW i \in 0 .. Len(ss), NEW k \in i .. Len(ss)
  PROVE  /\ Len(f[i]) \in Nat /\ Len(f[k]) \in Nat /\ Len(f[i]) <= Len(f[k])
         /\ \A j \in 1 .. Len(f[i]) : f[k][j] = f[i][j]
  <1>0. Len(ss) \in Nat /\ i \in Nat
    OBVIOUS
  <1> DEFINE Good(m) == Len(f[i]) <= Len(f[m]) /\ \A j \in 1 .. Len(f[i]) : f[m][j] = f[i][j]
             K == {m \in i .. Len(ss) : Good(m)}
  <1>1. \A m \in 0 .. Len(ss) : f[m] \in Seq(S)
    BY DEF Beginnings
  <1>2. \A m \in 0 .. Len(ss) : Len(f[m]) \in Nat
    BY <1>1
  <1>3. i \in K
    BY <1>0, <1>2
  <1>4. ASSUME NEW m \in i .. Len(ss), m \in K, m # Len(ss) PROVE m + 1 \in K
    <2>1. m + 1 \in 1 .. Len(ss) /\ (m + 1) - 1 = m /\ m \in 0 .. Len(ss) /\ m + 1 \in i .. Len(ss)
      BY <1>0, <1>4
    <2>2. f[m + 1] = f[m] \o ss[m + 1] /\ ss[m + 1] \in Seq(S) /\ f[m] \in Seq(S)
      BY <1>1, <2>1, MemberOf DEF Beginnings
    <2>3. /\ Len(f[m + 1]) = Len(f[m]) + Len(ss[m + 1]) /\ Len(f[m]) \in Nat /\ Len(ss[m + 1]) \in Nat
          /\ \A j \in 1 .. Len(f[m]) : f[m + 1][j] = f[m][j]
      <3> DEFINE a == f[m]
                 b == ss[m + 1]
                 c == f[m + 1]
      <3>1. c = a \o b /\ a \in Seq(S) /\ b \in Seq(S)
        BY <2>2
      <3> HIDE DEF a, b, c
      <3>2. Len(c) = Len(a) + Len(b) /\ Len(a) \in Nat /\ Len(b) \in Nat /\ \A j \in 1 .. Len(a) : c[j] = a[j]
        BY <3>1, Concat
      <3>3. QED BY <3>2 DEF a, b, c
    <2>4. Good(m)
      BY <1>4
    <2>5. Len(f[i]) \in Nat
      BY <1>2
    <2>6. Good(m + 1)
      <3>1. Len(f[i]) <= Len(f[m + 1])
        <4> DEFINE a == Len(f[i])
                   b == Len(f[m])
                   c == Len(f[m + 1])
                   d == Len(ss[m + 1])
        <4>1. a \in Nat /\ b \in Nat /\ d \in Nat /\ a <= b /\ c = b + d
          BY <2>3, <2>4, <2>5
        <4> HIDE DEF a, b, c, d
        <4>2. a <= c
          BY <4>1
        <4>3. QED BY <4>2 DEF a, c
      <3>2. \A j \in 1 .. Len(f[i]) : f[m + 1][j] = f[i][j]
        <4> SUFFICES ASSUME NEW j \in 1 .. Len(f[i]) PROVE f[m + 1][j] = f[i][j]
          OBVIOUS
        <4>1. j \in 1 .. Len(f[m])
          <5> DEFINE a == Len(f[i])
                     b == Len(f[m])
          <5>1. a \in Nat /\ b \in Nat /\ a <= b /\ j \in 1 .. a
            BY <2>3, <2>4, <2>5
          <5> HIDE DEF a, b
          <5>2. j \in 1 .. b
            BY <5>1
          <5>3. QED BY <5>2 DEF b
        <4>2. QED BY <2>3, <2>4, <4>1
      <3>3. QED BY <3>1, <3>2
    <2>7. QED BY <2>1, <2>6
  <1>5. \A m \in i .. Len(ss) : m \in K
    <2> HIDE DEF K
    <2>1. QED BY <1>0, <1>3, <1>4, Ladder
  <1>6. Good(k)
    BY <1>5
  <1>7. QED BY <1>0, <1>2, <1>6

\* Where the members of the sequences are in f.
Laid(ss, f) ==
  \A i \in 1 .. Len(ss) : \A k \in i .. Len(ss) : \A j \in 1 .. Len(ss[i]) :
    /\ Len(f[i]) = Len(f[i - 1]) + Len(ss[i]) /\ Len(f[i - 1]) \in Nat /\ Len(f[k]) \in Nat
    /\ Len(f[i - 1]) + j \in 1 .. Len(f[k]) /\ f[k][Len(f[i - 1]) + j] = ss[i][j]

LEMMA BeginningsMember ==
  ASSUME NEW S, NEW ss \in Seq(Seq(S)), NEW f, Beginnings(S, ss, f)
  PROVE  Laid(ss, f)
  <1> USE DEF Laid
  <1> TAKE i \in 1 .. Len(ss)
  <1> TAKE k \in i .. Len(ss)
  <1> TAKE j \in 1 .. Len(ss[i])
  <1>0. Len(ss) \in Nat /\ i - 1 \in 0 .. Len(ss) /\ i \in 0 .. Len(ss)
    OBVIOUS
  <1>1. f[i] = f[i - 1] \o ss[i] /\ f[i - 1] \in Seq(S) /\ ss[i] \in Seq(S)
    BY <1>0, MemberOf DEF Beginnings
  <1>2. /\ Len(f[i]) = Len(f[i - 1]) + Len(ss[i]) /\ Len(f[i - 1]) \in Nat /\ Len(ss[i]) \in Nat
        /\ f[i][Len(f[i - 1]) + j] = ss[i][j]
    <2> DEFINE a == f[i - 1]
               b == ss[i]
               c == f[i]
    <2>1. c = a \o b /\ a \in Seq(S) /\ b \in Seq(S) /\ j \in 1 .. Len(b)
      BY <1>1
    <2> HIDE DEF a, b, c
    <2>2. Len(c) = Len(a) + Len(b) /\ Len(a) \in Nat /\ Len(b) \in Nat /\ c[Len(a) + j] = b[j]
      BY <2>1, Concat
    <2>3. QED BY <2>2 DEF a, b, c
  <1>3. /\ Len(f[k]) \in Nat /\ Len(f[i]) <= Len(f[k])
        /\ \A m \in 1 .. Len(f[i]) : f[k][m] = f[i][m]
    <2>1. i \in 0 .. Len(ss) /\ k \in i .. Len(ss)
      BY <1>0
    <2>2. QED BY <2>1, BeginningsGrow
  <1>4. Len(f[i - 1]) + j \in 1 .. Len(f[i]) /\ Len(f[i - 1]) + j \in 1 .. Len(f[k])
    <2> DEFINE a == Len(f[i - 1])
               b == Len(ss[i])
               c == Len(f[i])
               d == Len(f[k])
    <2>1. c = a + b /\ a \in Nat /\ b \in Nat /\ d \in Nat /\ c <= d /\ j \in 1 .. b
      BY <1>2, <1>3
    <2> HIDE DEF a, b, c, d
    <2>2. a + j \in 1 .. c /\ a + j \in 1 .. d
      BY <2>1
    <2>3. QED BY <2>2 DEF a, b, c, d
  <1>5. QED BY <1>2, <1>3, <1>4

LEMMA FlattenTyped ==
  ASSUME NEW S, NEW ss \in Seq(Seq(S))
  PROVE  FlattenSeq(ss) \in Seq(S)
  <1>1. PICK f : Beginnings(S, ss, f)
    BY BeginningsExist
  <1>2. Len(ss) \in 0 .. Len(ss)
    OBVIOUS
  <1>3. f[Len(ss)] \in Seq(S)
    BY <1>1, <1>2 DEF Beginnings
  <1>4. QED BY <1>1, <1>3, BeginningsFlatten

----------------------------------------------------------------------------
(* What relocation makes of a module                                        *)

\* The entries come from sections of relocations.
Relocating(image) == {n \in DOMAIN image.sections : image.sections[n].type \in {"REL", "RELA"}}
EntryOf(image) == [at : {n - 1 : n \in Relocating(image)}, rel : ElfEntry]

LEMMA EntriesTyped ==
  ASSUME NEW image \in ElfImage
  PROVE  Entries(image) \in Seq(EntryOf(image))
  <1> DEFINE T == EntryOf(image)
             Of(n) == [j \in DOMAIN image.sections[n].entries |->
                         [at |-> n - 1, rel |-> image.sections[n].entries[j]]]
             ss == [n \in DOMAIN image.sections |->
                      IF image.sections[n].type \in {"REL", "RELA"} THEN Of(n) ELSE <<>>]
  <1>1. image.sections \in Seq(ElfSection)
    BY DEF ElfImage
  <1>2. ASSUME NEW n \in DOMAIN image.sections PROVE ss[n] \in Seq(T)
    <2>1. image.sections[n] \in ElfSection
      BY <1>1
    <2>2. image.sections[n].entries \in Seq(ElfEntry)
      BY <2>1 DEF ElfSection
    <2>3. CASE n \in Relocating(image)
      <3>1. \A r \in ElfEntry : [at |-> n - 1, rel |-> r] \in T
        BY <2>3 DEF EntryOf
      <3>2. ss[n] = Of(n)
        BY <2>3 DEF Relocating
      <3>3. Of(n) \in Seq(T)
        <4> DEFINE es == image.sections[n].entries
        <4>1. es \in Seq(ElfEntry)
          BY <2>2
        <4> HIDE DEF es, T
        <4>2. [j \in DOMAIN es |-> [at |-> n - 1, rel |-> es[j]]] \in Seq(T)
          <5>1. DOMAIN es = 1 .. Len(es) /\ Len(es) \in Nat /\ \A j \in 1 .. Len(es) : es[j] \in ElfEntry
            BY <4>1
          <5>2. \A j \in 1 .. Len(es) : [at |-> n - 1, rel |-> es[j]] \in T
            BY <3>1, <5>1
          <5> DEFINE g == [j \in 1 .. Len(es) |-> [at |-> n - 1, rel |-> es[j]]]
          <5>3. g \in [1 .. Len(es) -> T]
            BY <5>2
          <5> HIDE DEF g
          <5>4. g \in Seq(T)
            BY <5>1, <5>3 DEF Seq
          <5>5. QED BY <5>1, <5>4 DEF g
        <4>3. QED BY <4>2 DEF es
      <3> HIDE DEF ss, T, Of
      <3>4. QED BY <3>2, <3>3
    <2>4. CASE n \notin Relocating(image)
      <3>1. ss[n] = <<>>
        BY <2>4 DEF Relocating
      <3> HIDE DEF ss
      <3>2. QED BY <3>1
    <2>5. QED BY <2>3, <2>4
  <1>3. DOMAIN ss = 1 .. Len(image.sections) /\ Len(image.sections) \in Nat
        /\ DOMAIN image.sections = 1 .. Len(image.sections)
        /\ ss = [n \in 1 .. Len(image.sections) |-> ss[n]]
    BY <1>1
  <1> HIDE DEF ss, T
  <1>4. ss \in Seq(Seq(T))
    <2> DEFINE W == Seq(T)
    <2>1. \A n \in 1 .. Len(image.sections) : ss[n] \in W
      BY <1>2, <1>3
    <2> HIDE DEF W
    <2>2. ss \in [1 .. Len(image.sections) -> W]
      BY <1>3, <2>1
    <2>3. ss \in Seq(W)
      BY <1>3, <2>2 DEF Seq
    <2>4. QED BY <2>3 DEF W
  <1>5. FlattenSeq(ss) \in Seq(T)
    BY <1>4, FlattenTyped
  <1>6. Entries(image) = FlattenSeq(ss)
    BY DEF Entries, ss
  <1>7. QED BY <1>5, <1>6 DEF T

\* Where a section is does not change any more once the loop is behind it, nor
\* that of a section with bits.
LEMMA Settled ==
  ASSUME NEW image \in ElfImage, NEW k \in 0 .. Len(image.sections), NEW i \in Nat,
         Section(image, i).type = "NOBITS" => i < k
  PROVE  SectionData(image, Final(image), i) = SectionData(image, k, i)
  <1>1. Len(image.sections) \in Nat
    BY DEF ElfImage
  <1>2. i \in Allocated(image, k) <=> i \in Allocated(image, Final(image))
    BY <1>1 DEF Allocated, Final
  <1>3. QED BY <1>2 DEF SectionData

LEMMA Bits ==
  ASSUME NEW image \in ElfImage, NEW k, NEW i, Section(image, i).type # "NOBITS"
  PROVE  SectionData(image, k, i) = ImageBase + Section(image, i).offset
  BY DEF SectionData, Allocated

\* The kernel's symbol of a name, if it has one.
LEMMA Lookup ==
  ASSUME SoundFiles, NEW name
  PROVE  LET Offers == {x \in ToSet(Exports) : x.name = name /\ ~x.internal} IN
         /\ Exported(name) # {} <=> Offers # {}
         /\ Exported(name) # {} => k_lookup_symbol(name) = (CHOOSE x \in Offers : TRUE).address
  <1> DEFINE Offers == {x \in ToSet(Exports) : x.name = name /\ ~x.internal}
  <1>1. Exported(name) # {} <=> Offers # {}
    BY DEF Exported, ToSet
  <1>2. ASSUME Exported(name) # {}
        PROVE  k_lookup_symbol(name) = (CHOOSE x \in Offers : TRUE).address
    <2>1. Exported(name) \subseteq Nat
      <3>1. Exports \in Seq([name : STRING, address : Nat, internal : BOOLEAN])
        BY ElfAssumption DEF ElfAssumption
      <3>2. DOMAIN Exports \subseteq Nat
        BY <3>1
      <3>3. QED BY <3>2 DEF Exported
    <2>2. \E i \in Exported(name) : \A j \in Exported(name) : i <= j
      BY <1>2, <2>1, LeastExists
    <2> DEFINE i == CHOOSE n \in Exported(name) : \A j \in Exported(name) : n <= j
    <2>3. i \in Exported(name)
      BY <2>2
    <2>4. k_lookup_symbol(name) = Exports[i].address
      BY DEF k_lookup_symbol
    <2> HIDE DEF i
    <2>5. Exports[i] \in Offers
      BY <2>3 DEF Exported, ToSet
    <2>6. (CHOOSE x \in Offers : TRUE) \in Offers
      BY <2>5
    <2>7. (CHOOSE x \in Offers : TRUE) = Exports[i]
      BY <2>5, <2>6 DEF SoundFiles
    <2>8. QED BY <2>4, <2>7
  <1>3. QED BY <1>1, <1>2

\* The files of a setup are as SoundFiles says of all.
Sound(image) ==
  LET E == Entries(image) IN
  /\ \A e \in ToSet(E) : /\ e.rel.sym < Len(image.symbols)
                        /\ Section(image, e.at).info \in Sections(image)
                        /\ Section(image, Section(image, e.at).info).type # "NOBITS"
  /\ \A i, j \in {n \in DOMAIN E : E[n].rel.type # "NONE"} :
       Place(image, E[i].at, E[i].rel) = Place(image, E[j].at, E[j].rel) => i = j

LEMMA SoundImage ==
  ASSUME SoundFiles, NEW s \in Setups, NEW m \in DOMAIN s.modules
  PROVE  s.modules[m].image \in ElfImage /\ Sound(s.modules[m].image)
  BY LoaderAssumption DEF SoundFiles, Sound

LEMMA EntryFacts ==
  ASSUME NEW image \in ElfImage, NEW e \in EntryOf(image), e.rel.sym < Len(image.symbols)
  PROVE  /\ e.rel \in ElfEntry /\ e.at \in 0 .. Len(image.sections)
         /\ Section(image, e.at).type \in {"REL", "RELA"}
         /\ image.symbols[e.rel.sym + 1] \in ElfSymbol
  <1>1. image.sections \in Seq(ElfSection) /\ image.symbols \in Seq(ElfSymbol)
    BY DEF ElfImage
  <1>2. e.rel \in ElfEntry /\ \E n \in Relocating(image) : e.at = n - 1
    BY DEF EntryOf
  <1>3. PICK n \in Relocating(image) : e.at = n - 1
    BY <1>2
  <1>4. n \in 1 .. Len(image.sections) /\ Len(image.sections) \in Nat
    BY <1>1, <1>3 DEF Relocating
  <1>5. e.at \in 0 .. Len(image.sections) /\ e.at + 1 = n
    BY <1>3, <1>4
  <1>6. Section(image, e.at).type \in {"REL", "RELA"}
    BY <1>3, <1>5 DEF Section, Relocating
  <1>7. e.rel.sym \in Nat
    BY <1>2 DEF ElfEntry
  <1>8. e.rel.sym + 1 \in 1 .. Len(image.symbols)
    BY <1>1, <1>7
  <1>9. image.symbols[e.rel.sym + 1] \in ElfSymbol
    BY <1>1, <1>8, MemberOf
  <1>10. QED BY <1>2, <1>5, <1>6, <1>9

\* What one entry makes of its place.
LEMMA EntryRight ==
  ASSUME SoundFiles, NEW image \in ElfImage, NEW e \in EntryOf(image),
         e.rel.sym < Len(image.symbols),
         Section(image, Section(image, e.at).info).type # "NOBITS",
         Relocated(image, e.at, e.rel) # Failed
  PROVE  LET sym == image.symbols[e.rel.sym + 1]
             meant == Meant(image, e.at, e.rel) IN
         /\ Place(image, e.at, e.rel) = meant.place
         /\ e.rel.type # "NONE" /\ ~Early(image, e) =>
              Relocated(image, e.at, e.rel) = meant.value % 2 ^ meant.bits
         /\ e.rel.sym # 0 /\ sym.shndx = "undef" /\ ~sym.weak =>
              \E x \in ToSet(Exports) : x.name = sym.name /\ ~x.internal
  <1> DEFINE k == e.at
             rel == e.rel
             sym == image.symbols[rel.sym + 1]
             meant == Meant(image, k, rel)
             Offers == {x \in ToSet(Exports) : x.name = sym.name /\ ~x.internal}
             symbol == IF rel.sym = 0 THEN 0 ELSE SymbolValue(image, k, rel.sym)
             value == CASE rel.sym = 0 -> 0
                        [] rel.sym # 0 /\ sym.shndx = "undef" /\ Offers = {} -> 0
                        [] rel.sym # 0 /\ sym.shndx = "undef" /\ Offers # {} ->
                             (CHOOSE x \in Offers : TRUE).address
                        [] rel.sym # 0 /\ sym.shndx = "abs" -> sym.value
                        [] OTHER -> SectionData(image, Final(image), sym.section) + sym.value
             addend == IF Section(image, k).type = "REL" THEN 0 ELSE rel.addend
             place == ImageBase + Section(image, Section(image, k).info).offset + rel.offset
  <1>1. /\ rel \in ElfEntry /\ k \in 0 .. Len(image.sections)
        /\ Section(image, k).type \in {"REL", "RELA"} /\ sym \in ElfSymbol
    BY EntryFacts
  <1>2. Place(image, k, rel) = place
    BY Bits DEF Place
  <1>3. meant.bits = IF rel.type = "64" THEN AddressBits ELSE HalfBits
    BY DEF Meant
  <1>10. meant.place = place
    BY DEF Meant
  <1>11. meant.value = IF rel.type = "PC32" THEN (value + addend) - place ELSE value + addend
    BY DEF Meant
  <1>4. symbol # Failed /\ rel.type # "unknown"
    BY DEF Relocated
  <1>5. rel.sym # 0 /\ sym.shndx = "undef" => sym.weak \/ Exported(sym.name) # {}
    BY <1>4 DEF SymbolValue
  <1>6. /\ Exported(sym.name) # {} <=> Offers # {}
        /\ Exported(sym.name) # {} => k_lookup_symbol(sym.name) = (CHOOSE x \in Offers : TRUE).address
    BY Lookup
  <1>7. rel.sym # 0 /\ sym.shndx = "undef" /\ ~sym.weak =>
          \E x \in ToSet(Exports) : x.name = sym.name /\ ~x.internal
    <2>1. rel.sym # 0 /\ sym.shndx = "undef" /\ ~sym.weak => Offers # {}
      BY <1>5, <1>6
    <2>2. QED BY <2>1
  <1>8. ASSUME rel.type # "NONE", ~Early(image, e)
        PROVE  Relocated(image, k, rel) = meant.value % 2 ^ meant.bits
    <2>1. symbol = value
      <3>1. CASE rel.sym = 0
        BY <3>1
      <3>2. CASE rel.sym # 0 /\ sym.shndx = "undef"
        <4>1. symbol = IF Exported(sym.name) # {} THEN k_lookup_symbol(sym.name)
                       ELSE IF sym.weak THEN 0 ELSE Failed
          BY <3>2 DEF SymbolValue
        <4> HIDE DEF sym, symbol, Offers
        <4>2. CASE Offers = {}
          BY <1>4, <1>6, <3>2, <4>1, <4>2
        <4>3. CASE Offers # {}
          <5>1. value = (CHOOSE x \in Offers : TRUE).address
            BY <3>2, <4>3
          <5> HIDE DEF value
          <5>2. QED BY <1>6, <4>1, <4>3, <5>1
        <4>4. QED BY <4>2, <4>3
      <3>3. CASE rel.sym # 0 /\ sym.shndx = "abs"
        BY <3>3 DEF SymbolValue
      <3>4. CASE rel.sym # 0 /\ sym.shndx \notin {"undef", "abs"}
        <4>1. sym.section \in Nat
          BY <1>1 DEF ElfSymbol
        <4>2. Section(image, sym.section).type = "NOBITS" => sym.section < k
          <5>1. Section(image, sym.section).type = "NOBITS" => ~(sym.section > k)
            BY <1>8 DEF Early
          <5>2. Section(image, sym.section).type = "NOBITS" => sym.section # k
            BY <1>1
          <5>3. k \in Nat
            BY <1>1
          <5> HIDE DEF k, sym
          <5>4. QED BY <4>1, <5>1, <5>2, <5>3
        <4>3. SectionData(image, Final(image), sym.section) = SectionData(image, k, sym.section)
          BY <1>1, <4>1, <4>2, Settled
        <4>4. symbol = SectionData(image, k, sym.section) + sym.value
          BY <3>4 DEF SymbolValue
        <4>5. value = SectionData(image, Final(image), sym.section) + sym.value
          BY <3>4
        <4> HIDE DEF symbol, value, sym, k
        <4>6. QED BY <4>3, <4>4, <4>5
      <3> HIDE DEF symbol, value, sym
      <3>5. QED BY <3>1, <3>2, <3>3, <3>4
    <2>2. rel.type \in {"64", "32", "PC32"}
      BY <1>1, <1>4, <1>8 DEF ElfEntry
    <2> DEFINE sum == symbol + addend
    <2>3. Relocated(image, k, rel) =
            CASE rel.type = "64" -> sum % 2 ^ AddressBits
              [] rel.type = "32" -> sum % 2 ^ HalfBits
              [] rel.type = "PC32" -> (sum - Place(image, k, rel)) % 2 ^ HalfBits
      BY <1>4, <2>2 DEF Relocated
    <2> HIDE DEF symbol, value, addend, place, k, rel, meant
    <2>4. CASE rel.type = "64"
      BY <1>3, <1>11, <2>1, <2>3, <2>4
    <2>5. CASE rel.type = "32"
      BY <1>3, <1>11, <2>1, <2>3, <2>5
    <2>6. CASE rel.type = "PC32"
      <3>1. meant.value = sum - Place(image, k, rel)
        <4>1. meant.value = (value + addend) - place
          BY <1>11, <2>6
        <4>2. (value + addend) - place = sum - Place(image, k, rel)
          BY <1>2, <2>1
        <4>3. QED BY <4>1, <4>2
      <3>2. meant.bits = HalfBits
        BY <1>3, <2>6
      <3> HIDE DEF sum
      <3>3. Relocated(image, k, rel) = (sum - Place(image, k, rel)) % 2 ^ HalfBits
        BY <2>3, <2>6
      <3>4. QED BY <3>1, <3>2, <3>3
    <2>7. QED BY <2>2, <2>4, <2>5, <2>6
  <1>9. Place(image, k, rel) = meant.place
    <2> HIDE DEF place, meant, k, rel
    <2>1. QED BY <1>2, <1>10
  <1> HIDE DEF meant, sym
  <1>12. QED BY <1>7, <1>8, <1>9 DEF meant, sym

\* So the places hold what is meant, for each is written once.
LEMMA ImageSound ==
  ASSUME SoundFiles, NEW image \in ElfImage, Sound(image), LoadImage(image).ok
  PROVE  \A e \in ToSet(Entries(image)) :
           LET sym == image.symbols[e.rel.sym + 1]
               meant == Meant(image, e.at, e.rel) IN
           /\ e.rel.type # "NONE" /\ ~Early(image, e) =>
                LoadImage(image).memory[meant.place] = meant.value % 2 ^ meant.bits
           /\ e.rel.sym # 0 /\ sym.shndx = "undef" /\ ~sym.weak =>
                \E x \in ToSet(Exports) : x.name = sym.name /\ ~x.internal
  <1> DEFINE E == Entries(image)
             Writes == {i \in DOMAIN E : E[i].rel.type # "NONE"}
             At1(i) == Place(image, E[i].at, E[i].rel)
             memory == [a \in {At1(i) : i \in Writes} |->
                          LET i == Max({j \in Writes : At1(j) = a}) IN Relocated(image, E[i].at, E[i].rel)]
  <1>1. LoadImage(image).memory = memory /\ \A i \in DOMAIN E : Relocated(image, E[i].at, E[i].rel) # Failed
    BY DEF LoadImage
  <1>2. E \in Seq(EntryOf(image))
    BY EntriesTyped
  <1> SUFFICES ASSUME NEW e \in ToSet(E)
      PROVE  LET sym == image.symbols[e.rel.sym + 1]
                 meant == Meant(image, e.at, e.rel) IN
             /\ e.rel.type # "NONE" /\ ~Early(image, e) =>
                  LoadImage(image).memory[meant.place] = meant.value % 2 ^ meant.bits
             /\ e.rel.sym # 0 /\ sym.shndx = "undef" /\ ~sym.weak =>
                  \E x \in ToSet(Exports) : x.name = sym.name /\ ~x.internal
    OBVIOUS
  <1>3. PICK n \in DOMAIN E : E[n] = e
    BY DEF ToSet
  <1>4. n \in Nat /\ e \in EntryOf(image)
    <2> DEFINE T == EntryOf(image)
    <2> HIDE DEF T, E
    <2>1. E \in Seq(T)
      BY <1>2 DEF T
    <2>2. QED BY <1>3, <2>1 DEF T
  <1>5. /\ e.rel.sym < Len(image.symbols) /\ Section(image, Section(image, e.at).info).type # "NOBITS"
        /\ Relocated(image, e.at, e.rel) # Failed
    BY <1>1, <1>3 DEF Sound
  <1>6. ASSUME e.rel.type # "NONE" PROVE memory[At1(n)] = Relocated(image, e.at, e.rel)
    <2>1. n \in Writes
      BY <1>3, <1>6
    <2>2. {j \in Writes : At1(j) = At1(n)} = {n}
      BY <1>3, <1>6 DEF Sound
    <2>3. Max({n}) = n
      BY <1>4 DEF Max
    <2> DEFINE W == {j \in Writes : At1(j) = At1(n)}
    <2>4. memory[At1(n)] = Relocated(image, E[Max(W)].at, E[Max(W)].rel)
      BY <2>1
    <2>5. W = {n}
      BY <2>2
    <2> HIDE DEF W, memory, E
    <2>6. QED BY <1>3, <2>3, <2>4, <2>5
  <1>7. At1(n) = Meant(image, e.at, e.rel).place
    BY <1>3, <1>4, <1>5, EntryRight
  <1> HIDE DEF memory, E, Writes
  <1>8. QED BY <1>1, <1>4, <1>5, <1>6, <1>7, EntryRight

\* A file that was read is prepared as LoadImage says.
PreparedInv ==
  LoadInv /\ \A m \in DOMAIN images : m \in Modules /\ images[m] = LoadImage(setup.modules[m].image)

LEMMA PreparedStep == PreparedInv /\ (LoadModules \/ UNCHANGED loadvars) => PreparedInv'
  <1> SUFFICES ASSUME PreparedInv, LoadModules \/ UNCHANGED loadvars PROVE PreparedInv'
    OBVIOUS
  <1>1. LoadInv'
    BY LoadModulesStep DEF PreparedInv
  <1>2. CASE UNCHANGED <<setup, images>>
    BY <1>1, <1>2 DEF PreparedInv, Modules
  <1>3. CASE Preload
    <2> DEFINE m == Len(images) + 1
               image == LoadImage(setup.modules[m].image)
    <2>1. images \in Seq(Images) /\ setup' = setup
      BY <1>3 DEF PreparedInv, LoadInv, Preload
    <2>2. CASE images' = images
      BY <1>1, <2>1, <2>2 DEF PreparedInv, Modules
    <2>3. CASE m \in Modules /\ images' = Append(images, image)
      <3>1. image \in Images
        BY <2>3 DEF Images
      <3> HIDE DEF image
      <3>2. /\ DOMAIN images' = DOMAIN images \union {m} /\ images'[m] = image
            /\ \A n \in DOMAIN images : images'[n] = images[n]
        BY <2>1, <2>3, <3>1
      <3>3. \A n \in DOMAIN images' : n \in Modules /\ images'[n] = LoadImage(setup.modules[n].image)
        BY <2>3, <3>2 DEF PreparedInv, image
      <3>4. QED BY <1>1, <2>1, <3>3 DEF PreparedInv, Modules
    <2>4. QED BY <1>3, <2>2, <2>3 DEF Preload
  <1>4. QED BY <1>2, <1>3 DEF LoadModules, Choose, Check, Call, loadvars

(* In every module that has been prepared, each relocated place holds what  *)
(* its entry means, wherever its symbol is, and no module that needs what   *)
(* the kernel does not offer has been accepted: for files as compilers make *)
(* them (__k_elf_relocate, k_elf_load_module, k_lookup_symbol).             *)
THEOREM ImagesSound == SoundFiles => (Spec => []ImageRight)
  <1> SUFFICES ASSUME SoundFiles PROVE Spec => []ImageRight
    OBVIOUS
  <1>1. Init => PreparedInv
    <2>1. Init => LoadInv /\ images = <<>>
      BY LoaderInitInv DEF Init, LoaderInit
    <2>2. QED BY <2>1 DEF PreparedInv
  <1>2. PreparedInv /\ [Next]_vars => PreparedInv'
    BY PreparedStep, LoadOrNot
  <1>3. PreparedInv => ImageRight
    <2> SUFFICES ASSUME PreparedInv, NEW m \in DOMAIN images, images[m].ok
        PROVE  LET image == setup.modules[m].image IN
               \A e \in ToSet(Entries(image)) :
                 LET sym == image.symbols[e.rel.sym + 1]
                     meant == Meant(image, e.at, e.rel) IN
                 /\ e.rel.type # "NONE" /\ ~Early(image, e) =>
                      images[m].memory[meant.place] = meant.value % 2 ^ meant.bits
                 /\ e.rel.sym # 0 /\ sym.shndx = "undef" /\ ~sym.weak =>
                      \E x \in ToSet(Exports) : x.name = sym.name /\ ~x.internal
      BY DEF ImageRight
    <2> DEFINE image == setup.modules[m].image
    <2>1. images[m] = LoadImage(image) /\ m \in DOMAIN setup.modules /\ setup \in Setups
      BY DEF PreparedInv, LoadInv, Modules
    <2>2. image \in ElfImage /\ Sound(image)
      BY <2>1, SoundImage
    <2> HIDE DEF image
    <2>3. LoadImage(image).ok
      BY <2>1
    <2>4. \A e \in ToSet(Entries(image)) :
            LET sym == image.symbols[e.rel.sym + 1]
                meant == Meant(image, e.at, e.rel) IN
            /\ e.rel.type # "NONE" /\ ~Early(image, e) =>
                 LoadImage(image).memory[meant.place] = meant.value % 2 ^ meant.bits
            /\ e.rel.sym # 0 /\ sym.shndx = "undef" /\ ~sym.weak =>
                 \E x \in ToSet(Exports) : x.name = sym.name /\ ~x.internal
      BY <2>2, <2>3, ImageSound
    <2>5. QED BY <2>1, <2>4 DEF image
  <1>4. QED BY <1>1, <1>2, <1>3, PTL DEF Spec

----------------------------------------------------------------------------
(* The arguments of a program                                               *)

StackByte == [char : STRING \union {EndOfString}] \union [pointer : Int, part : Int]

\* w is what lies deepest in v.
Beneath(w, v) == /\ w \in Seq(StackByte) /\ v \in Seq(StackByte) /\ Len(w) <= Len(v)
                 /\ \A j \in 1 .. Len(w) : v[j] = w[j]

LEMMA BeneathConcat ==
  ASSUME NEW s \in Seq(StackByte), NEW t \in Seq(StackByte)
  PROVE  Beneath(s, s \o t) /\ s \o t \in Seq(StackByte)
  <1> DEFINE T == StackByte
  <1> HIDE DEF T
  <1>1. s \in Seq(T) /\ t \in Seq(T)
    BY DEF T
  <1>2. /\ s \o t \in Seq(T) /\ Len(s \o t) = Len(s) + Len(t) /\ Len(s) \in Nat /\ Len(t) \in Nat
        /\ \A j \in 1 .. Len(s) : (s \o t)[j] = s[j]
    BY <1>1, Concat
  <1>3. Len(s) <= Len(s \o t)
    BY <1>2
  <1>4. QED BY <1>1, <1>2, <1>3 DEF Beneath, T

LEMMA BeneathAll ==
  ASSUME NEW u, NEW v, NEW w, Beneath(u, v), Beneath(v, w)
  PROVE  Beneath(u, w)
  <1>1. Len(u) \in Nat /\ Len(v) \in Nat /\ Len(w) \in Nat
    BY DEF Beneath
  <1>2. \A j \in 1 .. Len(u) : j \in 1 .. Len(v)
    BY <1>1 DEF Beneath
  <1>3. QED BY <1>1, <1>2 DEF Beneath

LEMMA StringTyped ==
  ASSUME NEW s \in Seq(Seq(STRING)), NEW i \in 1 .. Len(s)
  PROVE  s[i] \in Seq(STRING) /\ Len(s[i]) \in Nat
  <1>1. s[i] \in Seq(STRING)
    BY MemberOf
  <1>2. QED BY <1>1

LEMMA StringBytesSpec ==
  ASSUME NEW s \in Seq(STRING)
  PROVE  /\ StringBytes(s) \in Seq(StackByte) /\ Len(StringBytes(s)) = Len(s) + 1
         /\ \A k \in 0 .. Len(s) : StringBytes(s)[Len(s) + 1 - k]
                = [char |-> IF k = Len(s) THEN EndOfString ELSE s[k + 1]]
  <1> DEFINE C == [char : STRING \union {EndOfString}]
             h == [char |-> EndOfString]
             t == [k \in DOMAIN s |-> [char |-> s[Len(s) + 1 - k]]]
  <1>0. Len(s) \in Nat /\ DOMAIN s = 1 .. Len(s)
    OBVIOUS
  <1>13. h \in C
    OBVIOUS
  <1>1. \A k \in 1 .. Len(s) : Len(s) + 1 - k \in 1 .. Len(s)
    BY <1>0
  <1>2. \A k \in 1 .. Len(s) : t[k] \in C
    <2>1. \A k \in 1 .. Len(s) : s[Len(s) + 1 - k] \in STRING
      BY <1>1
    <2>2. QED BY <1>0, <2>1
  <1>3. t = [k \in 1 .. Len(s) |-> t[k]]
    BY <1>0
  <1>4. \A k \in 1 .. Len(s) : t[k] = [char |-> s[Len(s) + 1 - k]]
    BY <1>0
  <1>5. StringBytes(s) = <<h>> \o t
    BY DEF StringBytes
  <1> HIDE DEF t, C
  <1>6. t \in Seq(C) /\ Len(t) = Len(s)
    <2>1. t \in [1 .. Len(s) -> C]
      BY <1>2, <1>3
    <2>2. QED BY <1>0, <2>1 DEF Seq
  <1> HIDE DEF h
  <1>7. <<h>> \in Seq(C) /\ Len(<<h>>) = 1 /\ <<h>>[1] = h
    BY <1>13
  <1>8. /\ <<h>> \o t \in Seq(C) /\ Len(<<h>> \o t) = 1 + Len(s)
        /\ (<<h>> \o t)[1] = h /\ \A j \in 1 .. Len(s) : (<<h>> \o t)[1 + j] = t[j]
    <2> DEFINE a == <<h>>
    <2>1. a \in Seq(C) /\ Len(a) = 1 /\ a[1] = h
      BY <1>7
    <2> HIDE DEF a
    <2>2. /\ a \o t \in Seq(C) /\ Len(a \o t) = Len(a) + Len(t)
          /\ \A j \in 1 .. Len(a) : (a \o t)[j] = a[j]
          /\ \A j \in 1 .. Len(t) : (a \o t)[Len(a) + j] = t[j]
      BY <1>6, <2>1, Concat
    <2>3. QED BY <1>6, <2>1, <2>2 DEF a
  <1>9. ASSUME NEW k \in 0 .. Len(s)
        PROVE  StringBytes(s)[Len(s) + 1 - k] = [char |-> IF k = Len(s) THEN EndOfString ELSE s[k + 1]]
    <2>1. CASE k = Len(s)
      <3>1. Len(s) + 1 - k = 1
        BY <1>0, <2>1
      <3>2. QED BY <1>5, <1>8, <2>1, <3>1 DEF h
    <2>2. CASE k # Len(s)
      <3> DEFINE j == Len(s) - k
      <3>1. j \in 1 .. Len(s) /\ Len(s) + 1 - k = 1 + j /\ Len(s) + 1 - j = k + 1
        <4> DEFINE n == Len(s)
        <4>1. n \in Nat /\ k \in 0 .. n /\ k # n
          BY <1>0, <2>2
        <4> HIDE DEF n
        <4>2. n - k \in 1 .. n /\ n + 1 - k = 1 + (n - k) /\ n + 1 - (n - k) = k + 1
          BY <4>1
        <4>3. QED BY <4>2 DEF n
      <3> HIDE DEF j
      <3>2. (<<h>> \o t)[1 + j] = [char |-> s[k + 1]]
        BY <1>4, <1>8, <3>1
      <3>3. QED BY <1>5, <2>2, <3>1, <3>2
    <2>3. QED BY <2>1, <2>2
  <1>10. C \subseteq StackByte
    BY DEF C, StackByte
  <1>11. StringBytes(s) \in Seq(StackByte)
    <2> DEFINE T == StackByte
    <2>1. C \subseteq T
      BY <1>10
    <2> HIDE DEF T
    <2>2. StringBytes(s) \in Seq(T)
      BY <1>5, <1>8, <2>1
    <2>3. QED BY <2>2 DEF T
  <1>12. Len(StringBytes(s)) = Len(s) + 1
    BY <1>0, <1>5, <1>8
  <1>14. QED BY <1>9, <1>11, <1>12

LEMMA PointerBytesSpec ==
  ASSUME NEW p \in Int
  PROVE  /\ PointerBytes(p) \in Seq(StackByte) /\ Len(PointerBytes(p)) = Word
         /\ \A k \in 0 .. Word - 1 : PointerBytes(p)[Word - k] = [pointer |-> p, part |-> k]
  <1>0. Word \in Nat \ {0}
    BY ElfAssumption DEF ElfAssumption
  <1> DEFINE C == [pointer : Int, part : Int]
             T == StackByte
             b == PointerBytes(p)
  <1>1. \A k \in 1 .. Word : b[k] = [pointer |-> p, part |-> Word - k] /\ b[k] \in C
    BY <1>0 DEF PointerBytes
  <1>2. b = [k \in 1 .. Word |-> b[k]]
    BY DEF PointerBytes
  <1>3. C \subseteq T
    BY DEF StackByte
  <1>4. \A k \in 0 .. Word - 1 : Word - k \in 1 .. Word /\ Word - (Word - k) = k
    BY <1>0
  <1> HIDE DEF b, C, T
  <1>5. b \in [1 .. Word -> T]
    BY <1>1, <1>2, <1>3
  <1>6. b \in Seq(T) /\ Len(b) = Word
    BY <1>0, <1>5 DEF Seq
  <1>7. \A k \in 0 .. Word - 1 : b[Word - k] = [pointer |-> p, part |-> k]
    BY <1>1, <1>4
  <1>8. QED BY <1>6, <1>7 DEF b, T

\* The blocks of bytes that are pushed for strings and for pointers.
StringBlocks(strings) == [k \in DOMAIN strings |-> StringBytes(strings[Len(strings) + 1 - k])]
PointerBlocks(pointers) == [k \in DOMAIN pointers |-> PointerBytes(pointers[Len(pointers) + 1 - k])]

LEMMA StringBlocksTyped ==
  ASSUME NEW strings \in Seq(Seq(STRING))
  PROVE  /\ StringBlocks(strings) \in Seq(Seq(StackByte))
         /\ Len(StringBlocks(strings)) = Len(strings) /\ Len(strings) \in Nat
         /\ \A k \in 1 .. Len(strings) : /\ Len(strings) + 1 - k \in 1 .. Len(strings)
                                        /\ StringBlocks(strings)[k] = StringBytes(strings[Len(strings) + 1 - k])
  <1> DEFINE b == StringBlocks(strings)
             W == Seq(StackByte)
             n == Len(strings)
  <1>0. n \in Nat /\ DOMAIN strings = 1 .. n
    OBVIOUS
  <1>1. \A k \in 1 .. n : n + 1 - k \in 1 .. n
    BY <1>0
  <1>2. \A k \in 1 .. n : b[k] = StringBytes(strings[n + 1 - k])
    BY <1>0 DEF StringBlocks
  <1>3. b = [k \in 1 .. n |-> b[k]]
    BY <1>0 DEF StringBlocks
  <1>4. \A k \in 1 .. n : strings[n + 1 - k] \in Seq(STRING)
    BY <1>1, StringTyped
  <1>5. \A k \in 1 .. n : StringBytes(strings[n + 1 - k]) \in W
    BY <1>4, StringBytesSpec
  <1> HIDE DEF b, W, n
  <1>6. b \in [1 .. n -> W]
    BY <1>2, <1>3, <1>5
  <1>7. b \in Seq(W) /\ Len(b) = n
    BY <1>0, <1>6 DEF Seq
  <1>8. QED BY <1>0, <1>1, <1>2, <1>7 DEF b, W, n

LEMMA PointerBlocksTyped ==
  ASSUME NEW pointers \in Seq(Int)
  PROVE  /\ PointerBlocks(pointers) \in Seq(Seq(StackByte))
         /\ Len(PointerBlocks(pointers)) = Len(pointers) /\ Len(pointers) \in Nat
         /\ \A k \in 1 .. Len(pointers) : /\ Len(pointers) + 1 - k \in 1 .. Len(pointers)
                                         /\ PointerBlocks(pointers)[k] = PointerBytes(pointers[Len(pointers) + 1 - k])
  <1> DEFINE b == PointerBlocks(pointers)
             W == Seq(StackByte)
             n == Len(pointers)
  <1>0. n \in Nat /\ DOMAIN pointers = 1 .. n
    OBVIOUS
  <1>1. \A k \in 1 .. n : n + 1 - k \in 1 .. n
    BY <1>0
  <1>2. \A k \in 1 .. n : b[k] = PointerBytes(pointers[n + 1 - k])
    BY <1>0 DEF PointerBlocks
  <1>3. b = [k \in 1 .. n |-> b[k]]
    BY <1>0 DEF PointerBlocks
  <1>4. \A k \in 1 .. n : pointers[n + 1 - k] \in Int
    BY <1>1
  <1>5. \A k \in 1 .. n : PointerBytes(pointers[n + 1 - k]) \in W
    BY <1>4, PointerBytesSpec
  <1> HIDE DEF b, W, n
  <1>6. b \in [1 .. n -> W]
    BY <1>2, <1>3, <1>5
  <1>7. b \in Seq(W) /\ Len(b) = n
    BY <1>0, <1>6 DEF Seq
  <1>8. QED BY <1>0, <1>1, <1>2, <1>7 DEF b, W, n

LEMMA SequencesEqual ==
  ASSUME NEW T, NEW s \in Seq(T), NEW t \in Seq(T), Len(s) = Len(t),
         \A i \in 1 .. Len(s) : s[i] = t[i]
  PROVE  s = t
  OBVIOUS

\* The strings from the i-th to the last are what was pushed first.
LEMMA LastStrings ==
  ASSUME NEW strings \in Seq(Seq(STRING)), NEW i \in 1 .. Len(strings), NEW f,
         Beginnings(StackByte, StringBlocks(strings), f)
  PROVE  StringsBytes(SubSeq(strings, i, Len(strings))) = f[Len(strings) + 1 - i]
  <1> DEFINE n == Len(strings)
             b == StringBlocks(strings)
             t == SubSeq(strings, i, n)
             m == n + 1 - i
             W == Seq(StackByte)
  <1>1. b \in Seq(W) /\ Len(b) = n /\ n \in Nat
        /\ \A k \in 1 .. n : n + 1 - k \in 1 .. n /\ b[k] = StringBytes(strings[n + 1 - k])
    BY StringBlocksTyped
  <1>2. t \in Seq(Seq(STRING)) /\ Len(t) = m /\ \A k \in 1 .. m : t[k] = strings[i + k - 1]
    <2> DEFINE Q == Seq(STRING)
    <2>1. strings \in Seq(Q)
      OBVIOUS
    <2> HIDE DEF Q
    <2>2. t \in Seq(Q) /\ Len(t) = m /\ \A k \in 1 .. m : t[k] = strings[i + k - 1]
      BY <2>1
    <2>3. QED BY <2>2 DEF Q
  <1>3. m \in 1 .. n /\ m \in 0 .. n /\ i \in 1 .. n
    BY <1>1
  <1> DEFINE c == StringBlocks(t)
             d == SubSeq(b, 1, m)
  <1> HIDE DEF t
  <1>4. c \in Seq(W) /\ Len(c) = m
        /\ \A k \in 1 .. m : m + 1 - k \in 1 .. m /\ c[k] = StringBytes(t[m + 1 - k])
    <2>1. c \in Seq(W) /\ Len(c) = Len(t)
          /\ \A k \in 1 .. Len(t) : Len(t) + 1 - k \in 1 .. Len(t) /\ c[k] = StringBytes(t[Len(t) + 1 - k])
      BY <1>2, StringBlocksTyped
    <2> HIDE DEF c, W, m
    <2>2. QED BY <1>2, <2>1
  <1>5. d \in Seq(W) /\ Len(d) = m /\ \A k \in 1 .. m : d[k] = b[k]
    <2> HIDE DEF W, b, n, m
    <2>1. QED BY <1>1, <1>3
  <1>6. \A k \in 1 .. m : c[k] = d[k]
    <2> SUFFICES ASSUME NEW k \in 1 .. m PROVE c[k] = d[k]
      OBVIOUS
    <2>1. m + 1 - k \in 1 .. m /\ i + (m + 1 - k) - 1 = n + 1 - k /\ k \in 1 .. n
      <3> HIDE DEF n
      <3>1. QED BY <1>1, <1>3
    <2> HIDE DEF c, d, b, n, m
    <2>2. t[m + 1 - k] = strings[n + 1 - k]
      BY <1>2, <2>1
    <2>3. QED BY <1>1, <1>4, <1>5, <2>1, <2>2
  <1> HIDE DEF c, d, b, W, n, m
  <1>7. c = d
    BY <1>4, <1>5, <1>6, SequencesEqual
  <1>8. StringsBytes(t) = FlattenSeq(c)
    BY DEF StringsBytes, c, StringBlocks
  <1>9. FlattenSeq(d) = f[m]
    BY <1>1, <1>3, BeginningOf DEF b, d, W, n
  <1>10. QED BY <1>7, <1>8, <1>9 DEF t, m, n

\* Where each string lies.
LEMMA StringsLie ==
  ASSUME NEW stack \in Seq(StackByte), NEW strings \in Seq(Seq(STRING)), NEW i \in 1 .. Len(strings)
  PROVE  /\ StringsAt(stack, strings, StackTop)[i] \in Int
         /\ stack \o StringsBytes(strings) \in Seq(StackByte)
         /\ \A v : Beneath(stack \o StringsBytes(strings), v) =>
              StringAt(v, StringsAt(stack, strings, StackTop)[i], strings[i])
  <1> DEFINE T == StackByte
             b == StringBlocks(strings)
             n == Len(strings)
             m == n + 1 - i
             s == strings[i]
             A == StringsBytes(strings)
             w == stack \o A
             a == StringsAt(stack, strings, StackTop)[i]
  <1>1. b \in Seq(Seq(T)) /\ Len(b) = n /\ n \in Nat
        /\ \A k \in 1 .. n : n + 1 - k \in 1 .. n /\ b[k] = StringBytes(strings[n + 1 - k])
    BY StringBlocksTyped
  <1>2. PICK f : Beginnings(T, b, f)
    BY <1>1, BeginningsExist
  <1>3. A = FlattenSeq(b)
    BY DEF StringsBytes, StringBlocks
  <1>4. m \in 1 .. n /\ n \in m .. n /\ n + 1 - m = i /\ n \in 0 .. n
    <2> HIDE DEF n
    <2>1. i \in 1 .. n
      BY DEF n
    <2>2. QED BY <1>1, <2>1
  <1>5. A = f[n] /\ f[n] \in Seq(T)
    BY <1>1, <1>2, <1>3, <1>4, BeginningsFlatten DEF Beginnings
  <1>6. s \in Seq(STRING) /\ Len(s) \in Nat
    BY StringTyped
  <1>7. b[m] = StringBytes(s) /\ Len(b[m]) = Len(s) + 1
        /\ \A k \in 0 .. Len(s) : b[m][Len(s) + 1 - k] = [char |-> IF k = Len(s) THEN EndOfString ELSE s[k + 1]]
    <2>1. b[m] = StringBytes(s)
      BY <1>1, <1>4
    <2> HIDE DEF b, s, m
    <2>2. QED BY <1>6, <2>1, StringBytesSpec
  <1>8. a = StackTop - Len(stack) - Len(f[m])
    <2>1. StringsBytes(SubSeq(strings, i, Len(strings))) = f[m]
      BY <1>2, LastStrings
    <2>2. i \in DOMAIN strings
      OBVIOUS
    <2>3. QED BY <2>1, <2>2 DEF StringsAt
  <1> HIDE DEF T, b, n, m, s, A, w, a
  <1>9. /\ Len(f[m]) = Len(f[m - 1]) + Len(b[m]) /\ Len(f[m - 1]) \in Nat /\ Len(f[n]) \in Nat
        /\ \A j \in 1 .. Len(b[m]) : Len(f[m - 1]) + j \in 1 .. Len(f[n]) /\ f[n][Len(f[m - 1]) + j] = b[m][j]
    <2>1. m \in 1 .. Len(b) /\ n \in m .. Len(b)
      BY <1>1, <1>4
    <2>2. 1 \in 1 .. Len(b[m])
      <3> HIDE DEF StringBytes
      <3>1. QED BY <1>6, <1>7
    <2>3. \A j \in 1 .. Len(b[m]) :
            /\ Len(f[m]) = Len(f[m - 1]) + Len(b[m]) /\ Len(f[m - 1]) \in Nat /\ Len(f[n]) \in Nat
            /\ Len(f[m - 1]) + j \in 1 .. Len(f[n]) /\ f[n][Len(f[m - 1]) + j] = b[m][j]
      <3>1. Beginnings(T, b, f) /\ b \in Seq(Seq(T))
        BY <1>1, <1>2
      <3>2. Laid(b, f)
        BY <3>1, BeginningsMember
      <3>3. QED BY <2>1, <3>2 DEF Laid
    <2>4. QED BY <2>2, <2>3
  <1>10. stack \in Seq(T) /\ A \in Seq(T)
    BY <1>5 DEF T
  <1>11. /\ w \in Seq(T) /\ Len(w) = Len(stack) + Len(f[n]) /\ Len(stack) \in Nat
         /\ \A j \in 1 .. Len(f[n]) : w[Len(stack) + j] = f[n][j]
    BY <1>5, <1>10, Concat DEF w
  <1>12. StackTop \in Nat
    BY BootAssumption DEF BootAssumption
  <1>13. a \in Int
    BY <1>6, <1>7, <1>8, <1>9, <1>11, <1>12
  <1>14. ASSUME NEW v, Beneath(w, v) PROVE StringAt(v, a, s)
    <2> SUFFICES ASSUME NEW k \in 0 .. Len(s)
        PROVE  /\ StackTop - a - k \in DOMAIN v
               /\ v[StackTop - a - k] = [char |-> IF k = Len(s) THEN EndOfString ELSE s[k + 1]]
      BY DEF StringAt
    <2> DEFINE p == Len(f[m - 1])
               j == Len(s) + 1 - k
               l == Len(stack)
               N == Len(f[n])
               x == StackTop - a - k
    <2>1. j \in 1 .. Len(b[m])
      BY <1>6, <1>7
    <2>2. p + j \in 1 .. N /\ f[n][p + j] = b[m][j]
      BY <1>9, <2>1
    <2>3. w[l + (p + j)] = b[m][j]
      BY <1>11, <2>2
    <2>4. x = l + (p + j)
      <3> DEFINE q == Len(s)
                 Q == Len(f[m])
      <3>1. /\ q \in Nat /\ p \in Nat /\ l \in Nat /\ StackTop \in Nat /\ k \in Nat
            /\ Q = p + (q + 1) /\ a = StackTop - l - Q /\ j = q + 1 - k
        BY <1>6, <1>7, <1>8, <1>9, <1>11, <1>12
      <3> HIDE DEF q, Q, p, l, j
      <3>2. QED BY <3>1
    <2>5. l + (p + j) \in 1 .. Len(w)
      <3>1. l \in Nat /\ N \in Nat /\ p + j \in 1 .. N /\ Len(w) = l + N
        BY <1>9, <1>11, <2>2
      <3> DEFINE y == p + j
      <3>4. y \in 1 .. N
        BY <3>1
      <3> HIDE DEF l, N, p, j, y
      <3>2. l + y \in 1 .. Len(w)
        BY <3>1, <3>4
      <3>3. QED BY <3>2 DEF y
    <2> HIDE DEF x, p, j, l, N
    <2>6. x \in 1 .. Len(w) /\ w[x] = b[m][j]
      BY <2>3, <2>4, <2>5
    <2>7. x \in DOMAIN v /\ v[x] = w[x]
      <3>1. v \in Seq(T) /\ Len(w) <= Len(v) /\ Len(w) \in Nat /\ \A y \in 1 .. Len(w) : v[y] = w[y]
        BY <1>11, <1>14 DEF Beneath, T
      <3>2. DOMAIN v = 1 .. Len(v) /\ Len(v) \in Nat
        BY <3>1
      <3>3. x \in 1 .. Len(v)
        BY <2>6, <3>1, <3>2
      <3>4. QED BY <2>6, <3>1, <3>2, <3>3
    <2>8. v[x] = [char |-> IF k = Len(s) THEN EndOfString ELSE s[k + 1]]
      BY <1>7, <2>6, <2>7 DEF j
    <2>9. QED BY <2>7, <2>8 DEF x
  <1>15. w \in Seq(StackByte)
    BY <1>11 DEF T
  <1>16. QED BY <1>13, <1>14, <1>15 DEF w, A, a, s

\* Where each pointer of an array lies.
LEMMA PointersLie ==
  ASSUME NEW w \in Seq(StackByte), NEW pointers \in Seq(Int), NEW i \in 1 .. Len(pointers)
  PROVE  LET u == w \o PointersBytes(pointers) IN
         /\ u \in Seq(StackByte)
         /\ \A v : Beneath(u, v) =>
              PointerAt(v, (StackTop - Len(u)) + (i - 1) * Word) = pointers[i]
  <1> DEFINE T == StackByte
             b == PointerBlocks(pointers)
             n == Len(pointers)
             m == n + 1 - i
             p == pointers[i]
             A == PointersBytes(pointers)
             u == w \o A
             a == (StackTop - Len(u)) + (i - 1) * Word
  <1>0. Word \in Nat \ {0} /\ StackTop \in Nat
    BY ElfAssumption, BootAssumption DEF ElfAssumption, BootAssumption
  <1>1. b \in Seq(Seq(T)) /\ Len(b) = n /\ n \in Nat
        /\ \A k \in 1 .. n : n + 1 - k \in 1 .. n /\ b[k] = PointerBytes(pointers[n + 1 - k])
    BY PointerBlocksTyped
  <1>2. PICK f : Beginnings(T, b, f)
    BY <1>1, BeginningsExist
  <1>3. A = FlattenSeq(b)
    BY DEF PointersBytes, PointerBlocks
  <1>4. m \in 1 .. n /\ n \in m .. n /\ n + 1 - m = i /\ n \in 0 .. n /\ i \in 1 .. n
    <2> HIDE DEF n
    <2>1. i \in 1 .. n
      BY DEF n
    <2>2. QED BY <1>1, <2>1
  <1>5. A = f[n] /\ f[n] \in Seq(T)
    BY <1>1, <1>2, <1>3, <1>4, BeginningsFlatten DEF Beginnings
  <1>6. p \in Int
    OBVIOUS
  <1> HIDE DEF T, b, n, p, A, u
  <1>7. \A k \in 1 .. n : Len(b[k]) = Word
    <2> SUFFICES ASSUME NEW k \in 1 .. n PROVE Len(b[k]) = Word
      OBVIOUS
    <2>1. pointers[n + 1 - k] \in Int
      BY <1>1 DEF n
    <2>2. b[k] = PointerBytes(pointers[n + 1 - k])
      BY <1>1
    <2>3. QED BY <2>1, <2>2, PointerBytesSpec
  <1>8. b[m] = PointerBytes(p) /\ \A k \in 0 .. Word - 1 : b[m][Word - k] = [pointer |-> p, part |-> k]
    <2>1. b[m] = PointerBytes(p)
      BY <1>1, <1>4 DEF p
    <2>2. QED BY <1>6, <2>1, PointerBytesSpec
  <1>9. Laid(b, f)
    BY <1>1, <1>2, BeginningsMember
  <1>10. \A k \in 0 .. n : Len(f[k]) = k * Word
    <2> DEFINE K == {k \in 0 .. n : Len(f[k]) = k * Word}
    <2>1. f[0] = <<>>
      BY <1>2 DEF Beginnings
    <2>2. 0 \in K
      BY <1>0, <1>1, <2>1
    <2>3. ASSUME NEW k \in 0 .. n, k \in K, k # n PROVE k + 1 \in K
      <3>1. k + 1 \in 1 .. n /\ (k + 1) - 1 = k /\ k \in Nat
        BY <1>1, <2>3
      <3>2. 1 \in 1 .. Len(b[k + 1]) /\ n \in (k + 1) .. Len(b) /\ k + 1 \in 1 .. Len(b)
        BY <1>0, <1>1, <1>7, <3>1
      <3>3. Len(f[k + 1]) = Len(f[k]) + Len(b[k + 1])
        BY <1>9, <3>1, <3>2 DEF Laid
      <3>4. Len(f[k + 1]) = k * Word + Word
        BY <1>7, <2>3, <3>1, <3>3
      <3>5. k * Word + Word = (k + 1) * Word
        BY <1>0, <3>1
      <3>6. QED BY <3>1, <3>4, <3>5
    <2>4. QED
      <3> HIDE DEF K
      <3>1. \A k \in 0 .. n : k \in K
        BY <1>1, <2>2, <2>3, Ladder
      <3>2. QED BY <3>1 DEF K
  <1> DEFINE l == Len(w)
  <1>11. /\ u \in Seq(T) /\ Len(u) = l + n * Word /\ l \in Nat
         /\ \A j \in 1 .. Len(f[n]) : u[l + j] = f[n][j]
    <2>1. w \in Seq(T)
      BY DEF T
    <2>2. u \in Seq(T) /\ Len(u) = l + Len(f[n]) /\ l \in Nat
          /\ \A j \in 1 .. Len(f[n]) : u[l + j] = f[n][j]
      BY <1>5, <2>1, Concat DEF u
    <2>3. Len(f[n]) = n * Word
      BY <1>4, <1>10
    <2>4. QED BY <2>2, <2>3
  <1> DEFINE c == (m - 1) * Word
  <1>12. /\ Len(f[m - 1]) = c /\ c \in Nat
         /\ n * Word = c + Word + (i - 1) * Word /\ (i - 1) * Word \in Nat
    <2>1. m - 1 \in 0 .. n /\ m - 1 \in Nat /\ i - 1 \in Nat /\ n = (m - 1) + 1 + (i - 1)
      BY <1>1, <1>4
    <2>2. Len(f[m - 1]) = c
      BY <1>10, <2>1
    <2>3. \A x, y, z \in Nat : x * z \in Nat /\ (x + 1 + y) * z = x * z + z + y * z
      OBVIOUS
    <2>4. QED
      <3> DEFINE x == m - 1
                 y == i - 1
      <3>1. x \in Nat /\ y \in Nat /\ n = x + 1 + y /\ Word \in Nat
        BY <1>0, <2>1
      <3> HIDE DEF x, y, m
      <3>2. n * Word = x * Word + Word + y * Word /\ x * Word \in Nat /\ y * Word \in Nat
        BY <2>3, <3>1
      <3>3. QED BY <2>2, <3>2 DEF x, y
  <1> HIDE DEF l, c, m
  <1>13. ASSUME NEW v, Beneath(u, v) PROVE PointerAt(v, a) = p
    <2>1. \A k \in 0 .. Word - 1 :
            /\ StackTop - a - k \in 1 .. Len(u)
            /\ u[StackTop - a - k] = [pointer |-> p, part |-> k]
      <3> TAKE k \in 0 .. Word - 1
      <3> DEFINE j == Word - k
      <3>1. m \in 1 .. Len(b) /\ n \in m .. Len(b) /\ j \in 1 .. Len(b[m])
        <4>1. j \in 1 .. Word
          BY <1>0
        <4>2. QED BY <1>1, <1>4, <1>7, <4>1
      <3> HIDE DEF j
      <3>2. Len(f[m - 1]) + j \in 1 .. Len(f[n]) /\ f[n][Len(f[m - 1]) + j] = b[m][j]
        BY <1>9, <3>1 DEF Laid
      <3>3. c + j \in 1 .. Len(f[n]) /\ f[n][c + j] = b[m][j]
        BY <1>12, <3>2
      <3>4. StackTop - a - k = l + (c + j)
        <4> DEFINE e == (i - 1) * Word
        <4>1. /\ Len(u) = l + (c + Word + e) /\ e \in Nat /\ c \in Nat /\ l \in Nat
              /\ Word \in Nat /\ StackTop \in Nat /\ k \in Nat /\ j = Word - k
          BY <1>0, <1>11, <1>12 DEF j
        <4> HIDE DEF e, j
        <4>2. StackTop - ((StackTop - Len(u)) + e) - k = l + (c + j)
          BY <4>1
        <4>3. QED BY <4>2 DEF e
      <3>5. u[l + (c + j)] = [pointer |-> p, part |-> k]
        <4>1. u[l + (c + j)] = b[m][j]
          BY <1>11, <3>3
        <4>2. b[m][j] = [pointer |-> p, part |-> k]
          BY <1>8 DEF j
        <4>3. QED BY <4>1, <4>2
      <3>6. l + (c + j) \in 1 .. Len(u)
        <4> DEFINE y == c + j
                   N == Len(f[n])
        <4>1. y \in 1 .. N /\ N = n * Word /\ Len(u) = l + N /\ l \in Nat
          <5>1. Len(f[n]) = n * Word
            BY <1>4, <1>10
          <5>2. QED BY <1>11, <3>3, <5>1
        <4>3. N \in Nat
          BY <1>5
        <4> HIDE DEF y, N
        <4>2. l + y \in 1 .. Len(u)
          BY <4>1, <4>3
        <4>4. QED BY <4>2 DEF y
      <3> HIDE DEF a
      <3>7. QED BY <3>4, <3>5, <3>6
    <2>2. a \in Int /\ a + Word - 1 < StackTop
      <3> DEFINE e == (i - 1) * Word
      <3>1. /\ Len(u) = l + (c + Word + e) /\ e \in Nat /\ c \in Nat /\ l \in Nat
            /\ Word \in Nat /\ StackTop \in Nat
        BY <1>0, <1>11, <1>12
      <3> HIDE DEF e
      <3>2. /\ (StackTop - Len(u)) + e \in Int
            /\ ((StackTop - Len(u)) + e) + Word - 1 < StackTop
        BY <3>1
      <3>3. QED BY <3>2 DEF e
    <2> HIDE DEF a
    <2>3. \A k \in 0 .. Word - 1 :
            StackTop - a - k \in DOMAIN v /\ v[StackTop - a - k] = [pointer |-> p, part |-> k]
      <3>1. v \in Seq(T) /\ Len(u) <= Len(v) /\ Len(u) \in Nat /\ \A y \in 1 .. Len(u) : v[y] = u[y]
        BY <1>11, <1>13 DEF Beneath, T
      <3>2. \A y \in 1 .. Len(u) : y \in DOMAIN v
        BY <3>1
      <3>3. QED BY <2>1, <3>1, <3>2
    <2>4. 0 \in 0 .. Word - 1 /\ StackTop - a - 0 = StackTop - a
      BY <1>0, <2>2
    <2>5. StackTop - a \in DOMAIN v /\ v[StackTop - a - 0] = [pointer |-> p, part |-> 0]
      BY <2>3, <2>4
    <2>6. "part" \in DOMAIN v[StackTop - a - 0] /\ v[StackTop - a - 0].pointer = p
      BY <2>5
    <2>7. QED BY <2>2, <2>3, <2>5, <2>6 DEF PointerAt
  <1>14. u \in Seq(StackByte)
    BY <1>11 DEF T
  <1>15. QED BY <1>13, <1>14 DEF u, A, p

\* What is pushed for a list of strings can be read from the pointer to its array,
\* whatever is pushed over it.
LEMMA PushedArray ==
  ASSUME NEW stack \in Seq(StackByte), NEW strings \in Seq(Seq(STRING))
  PROVE  LET u == Pushed(stack, strings, StackTop) IN
         /\ Beneath(stack, u)
         /\ \A v : Beneath(u, v) => ArrayAt(v, StackTop - Len(u), strings)
  <1> DEFINE n == Len(strings)
             addresses == StringsAt(stack, strings, StackTop)
             ptrs == Append(addresses, Null)
             w == stack \o StringsBytes(strings)
             u == w \o PointersBytes(ptrs)
             argv == StackTop - Len(u)
  <1>0. n \in Nat /\ DOMAIN strings = 1 .. n /\ Pushed(stack, strings, StackTop) = u
    BY DEF Pushed
  <1>1. \A i \in 1 .. n : addresses[i] \in Int
    BY StringsLie
  <1>2. addresses \in Seq(Int) /\ Len(addresses) = n
    <2>1. addresses = [i \in 1 .. n |-> addresses[i]]
      BY <1>0 DEF StringsAt
    <2> HIDE DEF addresses, n
    <2>2. addresses \in [1 .. n -> Int]
      BY <1>1, <2>1
    <2>3. QED BY <1>0, <2>2 DEF Seq
  <1>3. /\ ptrs \in Seq(Int) /\ Len(ptrs) = n + 1 /\ ptrs[n + 1] = Null
        /\ \A i \in 1 .. n : ptrs[i] = addresses[i]
    <2> HIDE DEF addresses, n
    <2>1. Null \in Int
      BY DEF Null
    <2>2. QED BY <1>0, <1>2, <2>1
  <1>4. w \in Seq(StackByte) /\ Beneath(stack, w)
    <2>1. StringsBytes(strings) \in Seq(StackByte)
      <3>1. StringBlocks(strings) \in Seq(Seq(StackByte))
        BY StringBlocksTyped
      <3>2. QED BY <3>1, FlattenTyped DEF StringsBytes, StringBlocks
    <2>2. QED BY <2>1, BeneathConcat
  <1>5. \A i \in 1 .. n : \A v : Beneath(w, v) => StringAt(v, addresses[i], strings[i])
    BY StringsLie
  <1> HIDE DEF n, addresses, ptrs, w
  <1>6. \A i \in 1 .. n + 1 : \A v : Beneath(u, v) => PointerAt(v, argv + (i - 1) * Word) = ptrs[i]
    BY <1>3, <1>4, PointersLie
  <1>7. Beneath(w, u) /\ u \in Seq(StackByte)
    <2>1. PointersBytes(ptrs) \in Seq(StackByte)
      <3>1. PointerBlocks(ptrs) \in Seq(Seq(StackByte))
        BY <1>3, PointerBlocksTyped
      <3>2. QED BY <3>1, FlattenTyped DEF PointersBytes, PointerBlocks
    <2>2. QED BY <1>4, <2>1, BeneathConcat
  <1> HIDE DEF u
  <1>8. ASSUME NEW v, Beneath(u, v) PROVE ArrayAt(v, argv, strings)
    <2>1. Beneath(w, v)
      BY <1>7, <1>8, BeneathAll
    <2> HIDE DEF argv
    <2>2. ASSUME NEW i \in 1 .. n PROVE StringAt(v, PointerAt(v, argv + (i - 1) * Word), strings[i])
      <3>1. i \in 1 .. n + 1
        BY <1>0
      <3>2. PointerAt(v, argv + (i - 1) * Word) = ptrs[i]
        BY <1>6, <1>8, <3>1 DEF argv
      <3>3. QED BY <1>3, <1>5, <2>1, <3>2
    <2>3. PointerAt(v, argv + n * Word) = Null
      <3>1. n + 1 \in 1 .. n + 1 /\ (n + 1) - 1 = n
        BY <1>0
      <3>2. PointerAt(v, argv + ((n + 1) - 1) * Word) = ptrs[n + 1]
        BY <1>6, <1>8, <3>1 DEF argv
      <3>3. QED BY <1>3, <3>1, <3>2
    <2>4. QED BY <1>0, <2>2, <2>3 DEF ArrayAt, n
  <1>9. Beneath(stack, u)
    BY <1>4, <1>7, BeneathAll
  <1>10. QED BY <1>0, <1>8, <1>9

LEMMA AlignedUp ==
  ASSUME NEW x \in Int, NEW m \in Nat \ {0}
  PROVE  (-x) % m \in Nat /\ (x + ((-x) % m)) % m = 0
  <1> DEFINE q == (-x) \div m
             r == (-x) % m
  <1>1. q \in Int /\ r \in Nat /\ -x = m * q + r
    OBVIOUS
  <1>2. x + r = m * (-q)
    BY <1>1
  <1>3. \A y \in Int : (m * y) % m = 0
    OBVIOUS
  <1>4. QED BY <1>1, <1>2, <1>3

LEMMA ArgumentsRight ==
  ASSUME NEW args \in Seq(Seq(STRING)), NEW envs \in Seq(Seq(STRING))
  PROVE  LET found == Arguments(args, envs, StackTop)
             begun == Started(found.stack, found.sp, StackTop) IN
         /\ found.sp % Alignment = 0 /\ found.argc = Len(args)
         /\ ArrayAt(found.stack, found.argv, args)
         /\ ArrayAt(found.stack, found.envp, envs)
         /\ found.sp = found.envp =>
              ArrayAt(begun, found.argv, args) /\ ArrayAt(begun, found.envp, envs)
  <1> DEFINE found == Arguments(args, envs, StackTop)
             a == Pushed(<<>>, args, StackTop)
             e == Pushed(a, envs, StackTop)
             envp == StackTop - Len(e)
             begun == Started(e, envp, StackTop)
             T == StackByte
  <1>0. StackTop \in Nat /\ Alignment \in Nat \ {0} /\ Word \in Nat \ {0}
    BY ElfAssumption, BootAssumption DEF ElfAssumption, BootAssumption
  <1>1. /\ found.argc = Len(args) /\ found.argv = StackTop - Len(a) /\ found.envp = envp
        /\ found.sp = envp + ((-envp) % Alignment) /\ found.stack = e
    BY DEF Arguments
  <1>2. <<>> \in Seq(StackByte)
    OBVIOUS
  <1>3. Beneath(<<>>, a) /\ \A v : Beneath(a, v) => ArrayAt(v, StackTop - Len(a), args)
    BY <1>2, PushedArray
  <1>4. a \in Seq(StackByte)
    BY <1>3 DEF Beneath
  <1>5. Beneath(a, e) /\ \A v : Beneath(e, v) => ArrayAt(v, envp, envs)
    BY <1>4, PushedArray
  <1>6. e \in Seq(T) /\ Len(e) \in Nat
    <2> HIDE DEF e, T
    <2>1. e \in Seq(T)
      BY <1>5 DEF Beneath, T
    <2>2. QED BY <2>1
  <1> HIDE DEF a, e, T
  <1>7. Beneath(e, e)
    BY <1>6 DEF Beneath, T
  <1>8. envp \in Int /\ StackTop - envp = Len(e)
    BY <1>0, <1>6
  <1>9. found.sp % Alignment = 0
    <2> HIDE DEF envp
    <2>1. (envp + ((-envp) % Alignment)) % Alignment = 0
      BY <1>0, <1>8, AlignedUp
    <2>2. QED BY <1>1, <2>1
  <1>10. Beneath(e, begun)
    <2> DEFINE z == PointerBytes(Null)
               t == SubSeq(e, StackTop - envp + 2 * Word + 1, Len(e))
    <2>1. SubSeq(e, 1, StackTop - envp) = e
      <3>1. SubSeq(e, 1, Len(e)) = e
        BY <1>6
      <3>2. QED BY <1>8, <3>1
    <2>2. z \in Seq(StackByte)
      <3>1. Null \in Int
        BY DEF Null
      <3>2. QED BY <3>1, PointerBytesSpec
    <2>3. t \in Seq(StackByte)
      <3>1. StackTop - envp + 2 * Word + 1 \in 1 .. Len(e) + (2 * Word + 1)
        BY <1>0, <1>6, <1>8
      <3> DEFINE k == StackTop - envp + 2 * Word + 1
      <3>2. k \in Nat /\ k > Len(e)
        BY <1>0, <1>6, <1>8
      <3> HIDE DEF k
      <3>3. SubSeq(e, k, Len(e)) = <<>>
        BY <1>6, <3>2
      <3>4. QED BY <1>2, <3>3 DEF k
    <2>4. begun = ((e \o z) \o z) \o t
      BY <2>1 DEF Started
    <2> HIDE DEF z, t, begun
    <2>5. e \in Seq(StackByte)
      BY <1>6 DEF T
    <2>6. Beneath(e, e \o z) /\ e \o z \in Seq(StackByte)
      BY <2>2, <2>5, BeneathConcat
    <2>7. Beneath(e \o z, (e \o z) \o z) /\ (e \o z) \o z \in Seq(StackByte)
      BY <2>2, <2>6, BeneathConcat
    <2>8. Beneath((e \o z) \o z, begun)
      BY <2>3, <2>4, <2>7, BeneathConcat
    <2>9. QED BY <2>6, <2>7, <2>8, BeneathAll
  <1> HIDE DEF begun, envp
  <1>11. ArrayAt(e, StackTop - Len(a), args) /\ ArrayAt(e, envp, envs)
    BY <1>3, <1>5, <1>7
  <1>12. ArrayAt(begun, StackTop - Len(a), args) /\ ArrayAt(begun, envp, envs)
    <2>1. Beneath(a, begun)
      BY <1>5, <1>10, BeneathAll
    <2>2. QED BY <1>3, <1>5, <1>10, <2>1
  <1>13. found.sp = found.envp => Started(found.stack, found.sp, StackTop) = begun
    BY <1>1 DEF begun
  <1> HIDE DEF found
  <1>14. QED BY <1>1, <1>9, <1>11, <1>12, <1>13 DEF found

\* What was entered is one of the programs.
EnteredInv ==
  /\ setup \in Setups /\ program \in Nat
  /\ \A it \in ToSet(entered) : \E n \in DOMAIN setup.programs : it = setup.programs[n]

(* A program finds its arguments and its environment whole on its stack,    *)
(* each array ended by null, the stack pointer aligned, and what _start     *)
(* pushes hides none of it if the environment's array ends aligned, however *)
(* many strings of whatever length there are (k_elf_exec, crt0).            *)
THEOREM ArgumentsFound == Spec => []ArgumentsArrive
  <1>1. Init => EnteredInv
    BY DEF Init, LoaderInit, EnteredInv, ToSet
  <1>2. EnteredInv /\ [Next]_vars => EnteredInv'
    <2> SUFFICES ASSUME EnteredInv, [Next]_vars PROVE EnteredInv'
      OBVIOUS
    <2>1. setup' = setup
      BY LoadOrNot DEF LoadModules, Preload, Choose, Check, Call, loadvars
    <2>2. CASE Exec
      <3>1. program < Len(setup.programs) /\ program' = program + 1
            /\ \/ entered' = <<setup.programs[program + 1]>>
               \/ entered' = entered
        BY <2>2 DEF Exec
      <3>2. program' \in Nat /\ program + 1 \in DOMAIN setup.programs
        <4>1. setup.programs \in Seq([ok : BOOLEAN, args : Seq(Seq(STRING)), envs : Seq(Seq(STRING))])
          BY BootAssumption DEF BootAssumption, EnteredInv
        <4> DEFINE R == [ok : BOOLEAN, args : Seq(Seq(STRING)), envs : Seq(Seq(STRING))]
        <4> HIDE DEF R
        <4>2. DOMAIN setup.programs = 1 .. Len(setup.programs) /\ Len(setup.programs) \in Nat
          BY <4>1 DEF R
        <4>3. QED BY <3>1, <4>2 DEF EnteredInv
      <3>3. CASE entered' = entered
        BY <2>1, <3>2, <3>3 DEF EnteredInv
      <3>4. CASE entered' = <<setup.programs[program + 1]>>
        <4>1. ToSet(entered') = {setup.programs[program + 1]}
          BY <3>4 DEF ToSet
        <4>2. QED BY <2>1, <3>2, <4>1 DEF EnteredInv
      <3>5. QED BY <3>1, <3>3, <3>4
    <2>3. CASE UNCHANGED exec
      BY <2>1, <2>3 DEF EnteredInv, exec
    <2>4. Exec \/ UNCHANGED exec
      <3>1. Main => Exec \/ UNCHANGED exec
        BY DEF Main, Load, bootvars, k_process_init, StartCore, Release, Wait
      <3>2. ASSUME NEW p, Step(p) \/ Die(p) PROVE Exec \/ UNCHANGED exec
        BY <3>1, <3>2 DEF Step, InitCore, CreateIdle, Lower, Speak, Log, Silence, Shout, Stop, Die
      <3>3. QED BY <3>2 DEF Next, vars, bootvars
    <2>5. QED BY <2>2, <2>3, <2>4
  <1>3. EnteredInv => ArgumentsArrive
    <2> SUFFICES ASSUME EnteredInv, NEW it \in ToSet(entered)
        PROVE  LET found == Arguments(it.args, it.envs, StackTop)
                   begun == Started(found.stack, found.sp, StackTop) IN
               /\ found.sp % Alignment = 0 /\ found.argc = Len(it.args)
               /\ ArrayAt(found.stack, found.argv, it.args)
               /\ ArrayAt(found.stack, found.envp, it.envs)
               /\ found.sp = found.envp =>
                    ArrayAt(begun, found.argv, it.args) /\ ArrayAt(begun, found.envp, it.envs)
      BY DEF ArgumentsArrive
    <2>1. it.args \in Seq(Seq(STRING)) /\ it.envs \in Seq(Seq(STRING))
      <3> DEFINE R == [ok : BOOLEAN, args : Seq(Seq(STRING)), envs : Seq(Seq(STRING))]
      <3>1. setup.programs \in Seq(R)
        BY BootAssumption DEF BootAssumption, EnteredInv
      <3> HIDE DEF R
      <3>2. it \in R
        BY <3>1 DEF EnteredInv
      <3>3. QED BY <3>2 DEF R
    <2>2. QED BY <2>1, ArgumentsRight
  <1>4. QED BY <1>1, <1>2, <1>3, PTL DEF Spec
=============================================================================
