------------------------------- MODULE AhciProof -------------------------------
(***************************************************************************)
(* Proofs about AhciStart and Ahci for every machine, number of ports,     *)
(* readers and slots.  BootInv is the inductive invariant of load(),       *)
(* SlotInv the one of the readers and the device.                          *)
(***************************************************************************)
EXTENDS Ahci, TLAPS, FiniteSetTheorems, SequenceTheorems, WellFoundedInduction

\* The stages at which load() is busy with one port.
AtPort == Stages \ {"find", "controller", "port", "done"}

Sata(p) == Type(setup.links[p]) = "sata"
Found == k_dev_pci_find_devices(setup.machine, "ahci")
FoundOnce == Found # <<>> /\ Tail(Found) = <<>>
Served(p) == Sata(p) => p \in refused \union ToSet(disks)

\* How far load() is: before the ports, on its way through them, or through.
Progress ==
  \/ stage = "find" \/ (stage = "controller" /\ storages = Found)
  \/ stage \in AtPort \union {"port"} /\ \A p \in Port : p < port => Served(p)
  \/ stage = "done" /\ Found = <<>>
  \/ \A p \in Port : Served(p)

\* With one controller the ports are gone through once.
OnePass ==
  FoundOnce =>
    \/ stage = "find" /\ disks = <<>>
    \/ stage = "controller" /\ storages = Found /\ disks = <<>>
    \/ stage \in AtPort \union {"port"} /\ storages = Found
         /\ (\A i \in DOMAIN disks : disks[i] < port) /\ IsInjective(disks)
    \/ stage \in {"controller", "done"} /\ storages = <<>> /\ IsInjective(disks)

\* Without one there is nothing to go through.
NoPass ==
  Found = <<>> =>
    disks = <<>> /\ (stage = "find" \/ (stage \in {"controller", "done"} /\ storages = <<>>))

BootInv ==
  /\ BootTypeOK
  /\ setup \in Setups
  /\ stage \in AtPort => port \in Port /\ Sata(port)
  /\ stage \in {"stopping", "lists"} => ~engine[port].st /\ ~engine[port].fre
  /\ EngineIdle
  /\ \A i \in DOMAIN disks : Sata(disks[i])
  /\ Progress /\ OnePass /\ NoPass

(* Adding a port to the list of the devices.                               *)
LEMMA ToSetAppend ==
  ASSUME NEW S, NEW seq \in Seq(S), NEW x \in S
  PROVE  ToSet(Append(seq, x)) = ToSet(seq) \union {x}
  <1>1. ToSet(Append(seq, x)) \subseteq ToSet(seq) \union {x}
    BY DEF ToSet
  <1>2. \A i \in DOMAIN seq : seq[i] \in ToSet(Append(seq, x))
    <2>1. TAKE i \in DOMAIN seq
    <2>2. i \in DOMAIN Append(seq, x) /\ Append(seq, x)[i] = seq[i]
      OBVIOUS
    <2>3. QED BY <2>2 DEF ToSet
  <1>3. x \in ToSet(Append(seq, x))
    <2>1. Len(seq) + 1 \in DOMAIN Append(seq, x) /\ Append(seq, x)[Len(seq) + 1] = x
      OBVIOUS
    <2>2. QED BY <2>1 DEF ToSet
  <1>4. QED BY <1>1, <1>2, <1>3 DEF ToSet

LEMMA BootInitInv == BootInit => BootInv
  <1> SUFFICES ASSUME BootInit PROVE BootInv
    OBVIOUS
  <1>1. BootTypeOK
    BY AhciStartAssumption DEF BootInit, BootTypeOK, Stages, Port
  <1>2. QED
    BY <1>1 DEF BootInit, BootInv, EngineIdle, Progress, OnePass, NoPass, AtPort

(* What one step of load() does to the fields that EngineIdle is about.    *)
LEMMA EngineStep ==
  ASSUME BootInv, [Boot]_boot
  PROVE  /\ engine' \in [Port -> [st : BOOLEAN, fre : BOOLEAN, cr : BOOLEAN, fr : BOOLEAN]]
         /\ stage' \in {"stopping", "lists"} => ~engine'[port'].st /\ ~engine'[port'].fre
         /\ EngineIdle'
  <1> USE DEF BootInv, BootTypeOK, EngineIdle, AtPort, Stages
  <1>1. CASE Find
    BY <1>1 DEF Find
  <1>2. CASE Controller
    BY <1>2 DEF Controller
  <1>3. CASE NextPort
    BY <1>3 DEF NextPort
  <1>4. CASE StopCmd
    BY <1>4 DEF StopCmd, GotoStage
  <1>5. CASE Stopped
    BY <1>5 DEF Stopped, GotoStage
  <1>6. CASE SetLists
    BY <1>6 DEF SetLists, GotoStage
  <1>7. CASE StartCmd
    BY <1>7 DEF StartCmd, GotoStage
  <1>8. CASE IdentifySpin \/ IdentifyIssue \/ IdentifyPoll
    BY <1>8 DEF IdentifySpin, IdentifyIssue, IdentifyPoll, GotoStage
  <1>9. CASE IdentifyFailed \/ CreateNode
    BY <1>9 DEF IdentifyFailed, CreateNode, LeavePort
  <1>10. CASE Identified \/ UNCHANGED boot
    BY <1>10 DEF Identified, boot
  <1>11. ASSUME NEW p \in Port, FollowST(p) \/ FollowFRE(p)
         PROVE  /\ engine' \in [Port -> [st : BOOLEAN, fre : BOOLEAN, cr : BOOLEAN, fr : BOOLEAN]]
                /\ stage' \in {"stopping", "lists"} => ~engine'[port'].st /\ ~engine'[port'].fre
                /\ EngineIdle'
    BY <1>11 DEF FollowST, FollowFRE
  <1>12. QED
    BY <1>1, <1>2, <1>3, <1>4, <1>5, <1>6, <1>7, <1>8, <1>9, <1>10, <1>11
    DEF Boot, Load, Hardware

(* The loop over the ports leaves every disk behind it as a device or as   *)
(* one that did not answer, and makes nothing else a device.               *)
LEMMA DisksStep ==
  ASSUME BootInv, [Boot]_boot
  PROVE  /\ BootTypeOK'
         /\ setup' = setup
         /\ (stage \in AtPort => port \in Port /\ Sata(port))'
         /\ (\A i \in DOMAIN disks : Sata(disks[i]))'
         /\ Progress'
  <1> USE EngineStep DEF BootInv, BootTypeOK, AtPort, Stages
  <1>1. CASE Find
    BY <1>1 DEF Find, Sata, Progress, Found
  <1>2. CASE Controller
    <2>1. Found' = Found /\ \A p : (Served(p)' <=> Served(p)) /\ (Sata(p)' <=> Sata(p))
      BY <1>2 DEF Controller, Found, Served, Sata
    <2>2. CASE storages = <<>>
      BY <1>2, <2>1, <2>2 DEF Controller, Progress
    <2>3. CASE storages # <<>>
      <3>1. \A p \in Port : ~(p < 0)
        BY AhciStartAssumption DEF Port
      <3>2. QED BY <1>2, <2>1, <2>3, <3>1, AhciStartAssumption DEF Controller, Progress
    <2>4. QED BY <2>2, <2>3
  <1>3. CASE NextPort
    BY <1>3, AhciStartAssumption DEF NextPort, Sata, Progress, Found, Served, Port
  <1>4. CASE StopCmd \/ Stopped \/ SetLists \/ StartCmd \/ IdentifySpin \/ IdentifyPoll
             \/ IdentifyIssue
    BY <1>4 DEF StopCmd, Stopped, SetLists, StartCmd, IdentifySpin, IdentifyPoll,
                IdentifyIssue, GotoStage, Sata, Progress, Found, Served
  <1>5. CASE IdentifyFailed
    BY <1>5, AhciStartAssumption
    DEF IdentifyFailed, LeavePort, Sata, Progress, Found, Served, Port
  <1>6. CASE CreateNode
    <2>1. disks' = Append(disks, port) /\ port \in Port
      BY <1>6 DEF CreateNode
    <2>2. ToSet(disks') = ToSet(disks) \union {port}
      BY <2>1, ToSetAppend
    <2>3. Progress'
      BY <1>6, <2>2, AhciStartAssumption
      DEF CreateNode, LeavePort, Sata, Progress, Found, Served, Port
    <2>4. QED
      BY <1>6, <2>3, AhciStartAssumption DEF CreateNode, LeavePort, Sata, Port
  <1>7. CASE Hardware \/ UNCHANGED boot
    BY <1>7 DEF Hardware, Identified, FollowST, FollowFRE, boot, Sata, Progress, Found, Served
  <1>8. QED
    BY <1>1, <1>2, <1>3, <1>4, <1>5, <1>6, <1>7 DEF Boot, Load

(* A controller that is found once gets each of its disks once.            *)
LEMMA OnePassStep == BootInv /\ [Boot]_boot => OnePass'
  <1> SUFFICES ASSUME BootInv, [Boot]_boot, FoundOnce' PROVE OnePass'
    BY DEF OnePass
  <1> USE DEF BootInv, BootTypeOK, AtPort, Stages
  <1>0. Found' = Found /\ OnePass /\ FoundOnce
    BY DisksStep DEF FoundOnce, Found
  <1>1. CASE Find
    BY <1>0, <1>1 DEF Find, OnePass, Found
  <1>2. CASE Controller
    BY <1>0, <1>2 DEF Controller, OnePass, IsInjective
  <1>3. CASE NextPort
    <2>1. storages = Found /\ IsInjective(disks)
      BY <1>0, <1>3 DEF NextPort, OnePass
    <2>2. Tail(storages) = <<>>
      BY <1>0, <2>1 DEF FoundOnce
    <2>3. CASE port > LastPort
      BY <1>0, <1>3, <2>1, <2>2, <2>3 DEF NextPort, OnePass
    <2>4. CASE ~(port > LastPort)
      BY <1>0, <1>3, <2>1, <2>4, AhciStartAssumption DEF NextPort, OnePass, Port
    <2>5. QED BY <2>3, <2>4
  <1>4. CASE StopCmd \/ Stopped \/ SetLists \/ StartCmd \/ IdentifySpin \/ IdentifyPoll
             \/ IdentifyIssue
    BY <1>0, <1>4 DEF StopCmd, Stopped, SetLists, StartCmd, IdentifySpin, IdentifyPoll,
                      IdentifyIssue, GotoStage, OnePass
  <1>5. CASE IdentifyFailed
    BY <1>0, <1>5, AhciStartAssumption DEF IdentifyFailed, LeavePort, OnePass, Port
  <1>6. CASE CreateNode
    <2>1. /\ storages = Found /\ IsInjective(disks)
          /\ disks \in Seq(Int) /\ port \in Int /\ disks' = Append(disks, port)
          /\ \A i \in DOMAIN disks : disks[i] < port
      BY <1>0, <1>6, AhciStartAssumption DEF CreateNode, OnePass, Port
    <2>2. IsInjective(disks') /\ \A i \in DOMAIN disks' : disks'[i] < port + 1
      BY <2>1 DEF IsInjective
    <2>3. QED BY <1>0, <1>6, <2>1, <2>2 DEF CreateNode, LeavePort, OnePass
  <1>7. CASE Hardware \/ UNCHANGED boot
    BY <1>0, <1>7 DEF Hardware, Identified, FollowST, FollowFRE, boot, OnePass
  <1>8. QED
    BY <1>1, <1>2, <1>3, <1>4, <1>5, <1>6, <1>7 DEF Boot, Load

(* Without a controller load() comes to no port.                           *)
LEMMA NoPassStep == BootInv /\ [Boot]_boot => NoPass'
  <1> SUFFICES ASSUME BootInv, [Boot]_boot, Found' = <<>> PROVE NoPass'
    BY DEF NoPass
  <1>0. /\ Found' = Found /\ disks = <<>> /\ NoPass
        /\ stage = "find" \/ (stage \in {"controller", "done"} /\ storages = <<>>)
    BY DisksStep DEF BootInv, NoPass, Found
  <1>1. CASE Find
    BY <1>0, <1>1 DEF Find, NoPass, Found
  <1>2. CASE Controller
    BY <1>0, <1>2 DEF Controller, NoPass
  <1>3. CASE NextPort \/ StopCmd \/ Stopped \/ SetLists \/ StartCmd \/ IdentifySpin
             \/ IdentifyPoll \/ IdentifyIssue \/ IdentifyFailed \/ CreateNode
    BY <1>0, <1>3 DEF NextPort, StopCmd, Stopped, SetLists, StartCmd, IdentifySpin,
                      IdentifyPoll, IdentifyIssue, IdentifyFailed, CreateNode
  <1>4. CASE Hardware \/ UNCHANGED boot
    BY <1>0, <1>4 DEF Hardware, Identified, FollowST, FollowFRE, boot, NoPass
  <1>5. QED BY <1>1, <1>2, <1>3, <1>4 DEF Boot, Load

LEMMA BootStepInv == BootInv /\ [Boot]_boot => BootInv'
  BY EngineStep, DisksStep, OnePassStep, NoPassStep DEF BootInv

LEMMA BootInvariant == Spec => []BootInv
  <1>1. Init => BootInv
    BY BootInitInv DEF Init
  <1>2. BootInv /\ [Next]_vars => BootInv'
    BY BootStepInv DEF Next, vars
  <1>3. QED BY <1>1, <1>2, PTL DEF Spec

----------------------------------------------------------------------------
(* The disks that load() makes devices of are SATA disks that answered, all *)
(* of them when it ends with a controller, and each once when there is one. *)
SataDisks ==
  /\ \A i \in DOMAIN disks : Sata(disks[i])
  /\ stage = "done" /\ Found # <<>> => {p \in Port : Sata(p)} \ refused \subseteq ToSet(disks)
  /\ FoundOnce => IsInjective(disks)

(* Lists are exchanged at a port that stands still: __port_stop_cmd waits  *)
(* for both engines, and nothing starts them before __port_start_cmd.      *)
THEOREM EnginesStopped == Spec => []EngineIdle
  <1>1. BootInv => EngineIdle
    BY DEF BootInv
  <1>2. QED BY <1>1, BootInvariant, PTL

(* The loop over the ports skips no disk and takes nothing else for one.   *)
THEOREM DisksFound == Spec => []SataDisks
  <1>1. BootInv => SataDisks
    <2> SUFFICES ASSUME BootInv PROVE SataDisks
      OBVIOUS
    <2>1. stage = "done" /\ Found # <<>> => \A p \in Port : Served(p)
      BY DEF BootInv, Progress, AtPort
    <2>2. FoundOnce => IsInjective(disks)
      BY DEF BootInv, OnePass, IsInjective
    <2>3. QED BY <2>1, <2>2 DEF BootInv, SataDisks, Served
  <1>2. QED BY <1>1, BootInvariant, PTL

----------------------------------------------------------------------------
\* A reader has a slot from its choice to its return, and has written the
\* slot's header, or waits for its command.
WithSlot == {"prepare", "busy", "issue", "test", "wait", "asleep", "woken", "finish"}
Written == WithSlot \ {"prepare"}
Waiting == {"test", "wait", "asleep", "woken"}

\* The readers inside the kernel are those that occupy a core, and know their slot.
CoresInv ==
  /\ IsFiniteSet(cpu)
  /\ \A r \in Reader : r \in cpu <=> pc[r] \in Inside
  /\ \A r \in Reader : pc[r] \in WithSlot => slot[r] \in Slot

\* What a slot belongs to when readers are in the kernel one at a time.
HeaderInv ==
  /\ \A s \in Slot, r \in Reader : header[s] = r => slot[r] = s /\ pc[r] \in Written
  /\ \A r \in Reader : pc[r] \in {"prepare", "busy", "issue"} => slot[r] \notin ci
  /\ \A r \in Reader : pc[r] \in {"busy", "issue"} => header[slot[r]] = r

\* A command is carried out for a reader that waits for it, or was given up
\* because of bit 5; what was moved for a reader is in its buffer.
CommandInv ==
  /\ \A r \in Reader : pc[r] \in Waiting => r \in filled \/ (slot[r] \in ci /\ header[slot[r]] = r)
  /\ \A s \in ci : \/ header[s] = Dropped
                   \/ header[s] \in Reader /\ pc[header[s]] \in Waiting
                   \/ header[s] \in Reader /\ pc[header[s]] = "finish" /\ outcome[header[s]] = "error"
  /\ \A s \in transferred : header[s] = Dropped \/ header[s] \in filled
  /\ \A r \in Reader : pc[r] \in {"finish", "user"} /\ outcome[r] = "ok" => r \in filled

\* Only bit 5 has a reader give back a buffer that a table still names.
DroppedInv ==
  /\ processed => setup.reports
  /\ \A r \in Reader : pc[r] = "finish" => outcome[r] # "none"
  /\ \A s \in Slot : header[s] = Dropped => setup.reports
  /\ \A s \in Slot : header[s] \in Reader /\ pc[header[s]] = "finish" /\ outcome[header[s]] = "error"
                       => setup.reports
  /\ NoStrayWrite

SlotInv == HeaderInv /\ CommandInv /\ DroppedInv

ReadTypes == TypeOK /\ CoresInv

LEMMA ReadersInit == Init => ReadTypes /\ SlotInv
  <1> SUFFICES ASSUME Init PROVE ReadTypes /\ SlotInv
    OBVIOUS
  <1>1. BootTypeOK
    BY BootInitInv DEF Init, BootInv
  <1>2. IsFiniteSet(cpu) /\ Cardinality(cpu) <= Cores
    <2>1. cpu = {} /\ Cores \in Nat /\ 0 <= Cores
      BY AhciAssumption DEF Init
    <2>2. QED BY <2>1, FS_EmptySet
  <1>3. TypeOK
    <2>1. slot \in [Reader -> Slot \union {None}] /\ header \in [Slot -> Reader \union {None, Freed, Dropped}]
      BY DEF Init
    <2>2. reads \in [Reader -> 0 .. MaxReads]
      BY AhciAssumption DEF Init
    <2>3. QED BY <1>1, <1>2, <2>1, <2>2 DEF Init, TypeOK, Outside
  <1>4. CoresInv
    BY <1>2 DEF Init, CoresInv, Inside, WithSlot
  <1>5. SlotInv
    BY AhciAssumption DEF Init, SlotInv, HeaderInv, CommandInv, DroppedInv, NoStrayWrite,
                          WithSlot, Written, Waiting, Slot
  <1>6. QED BY <1>3, <1>4, <1>5 DEF ReadTypes

(* A core is taken only when one is free, and given back on every way out. *)
LEMMA CoreTaken ==
  ASSUME ReadTypes, Cardinality(cpu) < Cores, NEW r \in Reader
  PROVE  /\ IsFiniteSet(cpu \union {r}) /\ cpu \union {r} \subseteq Reader
         /\ Cardinality(cpu \union {r}) <= Cores
  <1>1. IsFiniteSet(cpu) /\ cpu \subseteq Reader /\ Cores \in Nat
    BY AhciAssumption DEF ReadTypes, TypeOK, CoresInv
  <1>2. IsFiniteSet(cpu \union {r}) /\ Cardinality(cpu) \in Nat
    BY <1>1, FS_AddElement, FS_CardinalityType
  <1>3. Cardinality(cpu \union {r}) \in {Cardinality(cpu), Cardinality(cpu) + 1}
    BY <1>1, FS_AddElement
  <1>4. QED BY <1>1, <1>2, <1>3

LEMMA CoreReleased ==
  ASSUME ReadTypes, NEW r
  PROVE  /\ IsFiniteSet(cpu \ {r}) /\ cpu \ {r} \subseteq Reader
         /\ Cardinality(cpu \ {r}) <= Cores
  <1>1. IsFiniteSet(cpu) /\ cpu \subseteq Reader /\ Cores \in Nat /\ Cardinality(cpu) <= Cores
    BY AhciAssumption DEF ReadTypes, TypeOK, CoresInv
  <1>2. IsFiniteSet(cpu \ {r}) /\ Cardinality(cpu) \in Nat
    BY <1>1, FS_RemoveElement, FS_CardinalityType
  <1>3. Cardinality(cpu \ {r}) \in {Cardinality(cpu), Cardinality(cpu) - 1}
    BY <1>1, FS_RemoveElement
  <1>4. QED BY <1>1, <1>2, <1>3

(* Every step of a reader, the device and the interrupt keeps the types,   *)
(* on any number of cores.                                                 *)
LEMMA ReadersTypes ==
  ASSUME ReadTypes, BootTypeOK', setup' = setup, Reading \/ UNCHANGED rvars
  PROVE  ReadTypes'
  <1> DEFINE Kept(c) == IsFiniteSet(c) /\ c \subseteq Reader /\ Cardinality(c) <= Cores
  <1>a. \A r \in Reader : Kept(cpu \ {r}) /\ (Cardinality(cpu) < Cores => Kept(cpu \union {r}))
    BY CoreTaken, CoreReleased
  <1> USE AhciAssumption DEF ReadTypes, TypeOK, CoresInv, Outside, Inside, WithSlot
  <1> USE DEF Goto, At, device, queues, result
  <1>1. ASSUME NEW r \in Reader, Start(r) PROVE ReadTypes'
    <2>1. /\ reads' \in [Reader -> 0 .. MaxReads] /\ pc' \in [Reader -> Outside \union Inside]
          /\ \A q \in Reader : request'[q] \in setup.asks[q] \union {None}
      BY <1>1 DEF Start
    <2>2. \A q \in Reader : (q \in cpu' <=> pc'[q] \in Inside) /\ (pc'[q] \in WithSlot => slot'[q] \in Slot)
      BY <1>1 DEF Start
    <2>3. QED BY <1>a, <1>1, <2>1, <2>2 DEF Start
  <1>2. ASSUME NEW r \in Reader, GetSlot(r) PROVE ReadTypes'
    BY <1>2 DEF GetSlot
  <1>3. ASSUME NEW r \in Reader, SleepForSlot(r) \/ SleepForData(r) PROVE ReadTypes'
    BY <1>a, <1>3 DEF SleepForSlot, SleepForData
  <1>4. ASSUME NEW r \in Reader, Prepare(r) PROVE ReadTypes'
    BY <1>4 DEF Prepare
  <1>5. ASSUME NEW r \in Reader, Spin(r) PROVE ReadTypes'
    BY <1>5 DEF Spin
  <1>6. ASSUME NEW r \in Reader, Issue(r) PROVE ReadTypes'
    BY <1>6 DEF Issue
  <1>7. ASSUME NEW r \in Reader, Test(r) \/ Woken(r) PROVE ReadTypes'
    BY <1>7 DEF Test, Woken
  <1>8. ASSUME NEW r \in Reader, Resume(r) PROVE ReadTypes'
    BY <1>a, <1>8 DEF Resume
  <1>9. ASSUME NEW r \in Reader, Finish(r) PROVE ReadTypes'
    BY <1>a, <1>9 DEF Finish, GivenBack
  <1>10. ASSUME NEW s \in Slot, Transfer(s) \/ Complete(s) \/ Fail(s) PROVE ReadTypes'
    <2>1. CASE Transfer(s)
      <3>1. processed' \in BOOLEAN /\ stray' \subseteq {Freed, Dropped}
        BY <2>1 DEF Transfer
      <3>2. filled' \subseteq Reader /\ transferred' \subseteq ci
        BY <2>1 DEF Transfer
      <3>3. QED BY <2>1, <3>1, <3>2 DEF Transfer
    <2>2. CASE Complete(s)
      <3>1. ci' \subseteq Slot /\ transferred' \subseteq ci'
        BY <2>2 DEF Complete
      <3>2. QED BY <2>2, <3>1 DEF Complete
    <2>3. CASE Fail(s)
      BY <2>3 DEF Fail
    <2>4. QED BY <1>10, <2>1, <2>2, <2>3
  <1>11. CASE Irq \/ UNCHANGED rvars
    <2>1. CASE Irq
      BY <2>1 DEF Irq
    <2>2. CASE UNCHANGED rvars
      BY <2>2 DEF rvars
    <2>3. QED BY <1>11, <2>1, <2>2
  <1>12. QED
    BY <1>1, <1>2, <1>3, <1>4, <1>5, <1>6, <1>7, <1>8, <1>9, <1>10, <1>11 DEF Reading, Read

LEMMA ReadTypesInvariant == Spec => []ReadTypes
  <1>1. Init => ReadTypes
    BY ReadersInit
  <1>2. BootInv /\ BootInv' /\ ReadTypes /\ [Next]_vars => ReadTypes'
    <2> SUFFICES ASSUME BootInv, BootInv', ReadTypes, [Next]_vars PROVE ReadTypes'
      OBVIOUS
    <2>1. BootTypeOK' /\ setup' = setup
      BY DisksStep DEF Next, vars
    <2>2. Reading \/ UNCHANGED rvars
      BY DEF Next, vars
    <2>3. QED BY <2>1, <2>2, ReadersTypes
  <1>3. QED BY <1>1, <1>2, BootInvariant, PTL DEF Spec

(* On one core a reader in the kernel is alone there.                      *)
LEMMA Alone ==
  ASSUME ReadTypes, Cores = 1, NEW r \in cpu
  PROVE  cpu = {r}
  <1>1. IsFiniteSet(cpu) /\ Cardinality(cpu) \in Nat /\ Cardinality(cpu) <= 1
    BY FS_CardinalityType DEF ReadTypes, CoresInv, TypeOK
  <1>2. Cardinality(cpu) # 0
    BY <1>1, FS_EmptySet
  <1>3. Cardinality(cpu) = 1
    BY <1>1, <1>2
  <1>4. \E x : cpu = {x}
    BY <1>1, <1>3, FS_Singleton
  <1>5. QED BY <1>4

(* A step of one reader inside the kernel, taken alone, keeps what belongs *)
(* to each slot.                                                           *)
LEMMA ReaderHeaders ==
  ASSUME ReadTypes, SlotInv, Cores = 1, setup' = setup, NEW r \in Reader,
         Start(r) \/ Read(r) \/ Resume(r)
  PROVE  HeaderInv'
  <1>a. \A q \in Reader : pc[q] \in Inside /\ pc[r] \in Inside => q = r
    BY Alone DEF ReadTypes, CoresInv
  <1>b. pc[r] \in WithSlot => slot[r] \in Slot
    BY DEF ReadTypes, CoresInv
  <1>c. /\ Slot \cap {None, Freed, Dropped} = {} /\ Reader \cap {None, Freed, Dropped} = {}
        /\ None # Freed /\ None # Dropped /\ Freed # Dropped
    BY AhciAssumption
  <1>d. TypeOK
    BY DEF ReadTypes
  <1> USE <1>a, <1>b, <1>c, <1>d DEF TypeOK, SlotInv, HeaderInv, WithSlot, Written, Waiting,
                                     Inside, Outside
  <1> USE DEF Goto, At, device, queues, result
  <1>1. CASE Start(r)
    BY <1>1 DEF Start
  <1>2. CASE GetSlot(r)
    BY <1>2 DEF GetSlot
  <1>3. CASE SleepForSlot(r) \/ SleepForData(r)
    BY <1>3 DEF SleepForSlot, SleepForData
  <1>4. CASE Prepare(r)
    BY <1>4 DEF Prepare
  <1>5. CASE Spin(r)
    BY <1>5 DEF Spin
  <1>6. CASE Issue(r)
    BY <1>6 DEF Issue
  <1>7. CASE Test(r)
    BY <1>7 DEF Test
  <1>8. CASE Woken(r)
    BY <1>8 DEF Woken
  <1>9. CASE Resume(r)
    BY <1>9 DEF Resume
  <1>10. CASE Finish(r)
    BY <1>10 DEF Finish, GivenBack
  <1>11. QED
    BY <1>1, <1>2, <1>3, <1>4, <1>5, <1>6, <1>7, <1>8, <1>9, <1>10 DEF Read

(* And what is said of the commands that are issued.                       *)
LEMMA ReaderCommands ==
  ASSUME ReadTypes, SlotInv, Cores = 1, setup' = setup, NEW r \in Reader,
         Start(r) \/ Read(r) \/ Resume(r)
  PROVE  CommandInv'
  <1>a. \A q \in Reader : pc[q] \in Inside /\ pc[r] \in Inside => q = r
    BY Alone DEF ReadTypes, CoresInv
  <1>b. pc[r] \in WithSlot => slot[r] \in Slot
    BY DEF ReadTypes, CoresInv
  <1>c. /\ Slot \cap {None, Freed, Dropped} = {} /\ Reader \cap {None, Freed, Dropped} = {}
        /\ None # Freed /\ None # Dropped /\ Freed # Dropped
    BY AhciAssumption
  <1>d. TypeOK
    BY DEF ReadTypes
  <1> USE <1>a, <1>b, <1>c, <1>d DEF TypeOK, SlotInv, HeaderInv, CommandInv, WithSlot, Written, Waiting,
                                     Inside, Outside
  <1> USE DEF Goto, At, device, queues, result
  <1>1. CASE Start(r)
    BY <1>1 DEF Start
  <1>2. CASE GetSlot(r)
    BY <1>2 DEF GetSlot
  <1>3. CASE SleepForSlot(r) \/ SleepForData(r)
    BY <1>3 DEF SleepForSlot, SleepForData
  <1>4. CASE Prepare(r)
    BY <1>4 DEF Prepare
  <1>5. CASE Spin(r)
    BY <1>5 DEF Spin
  <1>6. CASE Issue(r)
    BY <1>6 DEF Issue
  <1>7. CASE Test(r)
    BY <1>7 DEF Test
  <1>8. CASE Woken(r)
    BY <1>8 DEF Woken
  <1>9. CASE Resume(r)
    BY <1>9 DEF Resume
  <1>10. CASE Finish(r)
    BY <1>10 DEF Finish, GivenBack
  <1>11. QED
    BY <1>1, <1>2, <1>3, <1>4, <1>5, <1>6, <1>7, <1>8, <1>9, <1>10 DEF Read

(* And which buffers the device may still write to.                        *)
LEMMA ReaderDropped ==
  ASSUME ReadTypes, SlotInv, Cores = 1, setup' = setup, NEW r \in Reader,
         Start(r) \/ Read(r) \/ Resume(r)
  PROVE  DroppedInv'
  <1>a. \A q \in Reader : pc[q] \in Inside /\ pc[r] \in Inside => q = r
    BY Alone DEF ReadTypes, CoresInv
  <1>b. pc[r] \in WithSlot => slot[r] \in Slot
    BY DEF ReadTypes, CoresInv
  <1>c. /\ Slot \cap {None, Freed, Dropped} = {} /\ Reader \cap {None, Freed, Dropped} = {}
        /\ None # Freed /\ None # Dropped /\ Freed # Dropped
    BY AhciAssumption
  <1>d. TypeOK
    BY DEF ReadTypes
  <1> USE <1>a, <1>b, <1>c, <1>d DEF TypeOK, SlotInv, HeaderInv, CommandInv, DroppedInv, NoStrayWrite, WithSlot, Written, Waiting,
                                     Inside, Outside
  <1> USE DEF Goto, At, device, queues, result
  <1>1. CASE Start(r)
    BY <1>1 DEF Start
  <1>2. CASE GetSlot(r)
    BY <1>2 DEF GetSlot
  <1>3. CASE SleepForSlot(r) \/ SleepForData(r)
    BY <1>3 DEF SleepForSlot, SleepForData
  <1>4. CASE Prepare(r)
    BY <1>4 DEF Prepare
  <1>5. CASE Spin(r)
    BY <1>5 DEF Spin
  <1>6. CASE Issue(r)
    BY <1>6 DEF Issue
  <1>7. CASE Test(r)
    BY <1>7 DEF Test
  <1>8. CASE Woken(r)
    BY <1>8 DEF Woken
  <1>9. CASE Resume(r)
    BY <1>9 DEF Resume
  <1>10. CASE Finish(r)
    BY <1>10 DEF Finish, GivenBack
  <1>11. QED
    BY <1>1, <1>2, <1>3, <1>4, <1>5, <1>6, <1>7, <1>8, <1>9, <1>10 DEF Read

(* So does a step of the device, and the interrupt.                        *)
LEMMA DeviceSlots ==
  ASSUME ReadTypes, SlotInv, setup' = setup,
         (\E s \in Slot : Transfer(s) \/ Complete(s) \/ Fail(s)) \/ Irq \/ UNCHANGED rvars
  PROVE  SlotInv'
  <1>a. /\ Slot \cap {None, Freed, Dropped} = {} /\ Reader \cap {None, Freed, Dropped} = {}
        /\ None # Freed /\ None # Dropped /\ Freed # Dropped
    BY AhciAssumption
  <1>b. TypeOK
    BY DEF ReadTypes
  <1> USE <1>a, <1>b DEF TypeOK, WithSlot, Written, Waiting, device, queues, result
  <1>1. ASSUME NEW s \in Slot, Transfer(s) PROVE SlotInv'
    <2> USE DEF SlotInv
    <2>1. HeaderInv'
      BY <1>1 DEF Transfer, HeaderInv
    <2>2. CommandInv'
      BY <1>1 DEF Transfer, CommandInv
    <2>3. DroppedInv'
      <3>1. header[s] # Freed /\ (header[s] = Dropped => setup.reports)
        BY <1>1 DEF Transfer, CommandInv, DroppedInv
      <3>2. NoStrayWrite'
        BY <1>1, <3>1 DEF Transfer, DroppedInv, NoStrayWrite
      <3>3. processed' => setup.reports
        BY <1>1 DEF Transfer, DroppedInv
      <3>4. QED BY <1>1, <3>2, <3>3 DEF Transfer, DroppedInv
    <2>4. QED BY <2>1, <2>2, <2>3
  <1>2. ASSUME NEW s \in Slot, Complete(s) PROVE SlotInv'
    <2> USE DEF SlotInv
    <2>1. HeaderInv' /\ DroppedInv'
      BY <1>2 DEF Complete, HeaderInv, DroppedInv, NoStrayWrite
    <2>2. CommandInv'
      BY <1>2 DEF Complete, HeaderInv, CommandInv
    <2>3. QED BY <2>1, <2>2
  <1> USE DEF SlotInv, HeaderInv, CommandInv, DroppedInv, NoStrayWrite
  <1>3. ASSUME NEW s \in Slot, Fail(s) PROVE SlotInv'
    BY <1>3 DEF Fail
  <1>4. CASE Irq
    BY <1>4 DEF Irq
  <1>5. CASE UNCHANGED rvars
    BY <1>5 DEF rvars
  <1>6. QED BY <1>1, <1>2, <1>3, <1>4, <1>5

LEMMA SlotInvariant ==
  ASSUME Cores = 1
  PROVE  Spec => []SlotInv
  <1>1. Init => SlotInv
    BY ReadersInit
  <1>2. BootInv /\ ReadTypes /\ SlotInv /\ [Next]_vars => SlotInv'
    <2> SUFFICES ASSUME BootInv, ReadTypes, SlotInv, [Next]_vars PROVE SlotInv'
      OBVIOUS
    <2>1. setup' = setup /\ (Reading \/ UNCHANGED rvars)
      BY DisksStep DEF Next, vars
    <2>2. ASSUME NEW r \in Reader, Start(r) \/ Read(r) \/ Resume(r) PROVE SlotInv'
      BY <2>1, <2>2, ReaderHeaders, ReaderCommands, ReaderDropped DEF SlotInv
    <2>3. QED BY <2>1, <2>2, DeviceSlots DEF Reading
  <1>3. QED BY <1>1, <1>2, BootInvariant, ReadTypesInvariant, PTL DEF Spec

----------------------------------------------------------------------------
(* Who is where, and the registers and lists, keep their types for every    *)
(* number of readers, slots, ports and cores; never more readers than cores *)
(* are in the kernel.                                                       *)
THEOREM TypeCorrect == Spec => []TypeOK
  <1>1. ReadTypes => TypeOK
    BY DEF ReadTypes
  <1>2. QED BY <1>1, ReadTypesInvariant, PTL

(* __get_cmd_slot with nothing between the choice of a slot and the bit in  *)
(* PxCI but code that is not preempted: on one core two waiting readers     *)
(* never share a slot, however many readers and slots there are.            *)
THEOREM SlotsOwned ==
  ASSUME Cores = 1
  PROVE  Spec => []SlotOwned
  <1>1. ReadTypes /\ SlotInv => SlotOwned
    BY DEF ReadTypes, SlotInv, CommandInv, SlotOwned, InFlight, Waiting, WithSlot, CoresInv
  <1>2. QED BY <1>1, ReadTypesInvariant, SlotInvariant, PTL

(* A buffer that __ahci_read gives back after a read that succeeded is in   *)
(* no table the device still carries out; one that it gives back because of *)
(* bit 5 may be, and without that bit none is.                              *)
THEOREM NoStrayWrites ==
  ASSUME Cores = 1
  PROVE  Spec => []NoStrayWrite
  <1>1. SlotInv => NoStrayWrite
    BY DEF SlotInv, DroppedInv
  <1>2. QED BY <1>1, SlotInvariant, PTL

(* A reader that is told its sectors were read has them in its buffer.      *)
OkMeansFilled == \A r \in Reader : pc[r] \in {"finish", "user"} /\ outcome[r] = "ok" => r \in filled

(* What a reader saw leave PxCI in __ahci_read_sectors was its own command, *)
(* although the slot may have a new user by the time the reader wakes up.   *)
LEMMA ReadsFilled ==
  ASSUME Cores = 1
  PROVE  Spec => []OkMeansFilled
  <1>1. SlotInv => OkMeansFilled
    BY DEF SlotInv, CommandInv, OkMeansFilled
  <1>2. QED BY <1>1, SlotInvariant, PTL

----------------------------------------------------------------------------
(* Least numbers, and steps up to a number                                  *)

SmallerThan == {ss \in Nat \X Nat : ss[1] < ss[2]}

LEMMA SmallerWellFounded == IsWellFoundedOn(SmallerThan, Nat)
  BY NatLessThanWellFounded DEF OpToRel, SmallerThan

LEMMA LeastExists ==
  ASSUME NEW S, S \subseteq Nat, S # {}
  PROVE  \E x \in S : \A y \in S : x <= y
  <1>1. PICK x \in S : \A y \in S : <<y, x>> \notin SmallerThan
    BY SmallerWellFounded, WFMin, Zenon
  <1>2. ASSUME NEW y \in S PROVE x <= y
    <2>1. x \in Nat /\ y \in Nat
      OBVIOUS
    <2>2. y < x => <<y, x>> \in SmallerThan
      BY <2>1 DEF SmallerThan
    <2>3. QED BY <1>1, <2>1, <2>2
  <1>3. QED BY <1>2

\* From b upwards, one by one.
LEMMA Ladder ==
  ASSUME NEW b \in Nat, NEW n \in Nat, NEW S, b \in S,
         \A k \in b .. n : k \in S /\ k # n => k + 1 \in S
  PROVE  \A k \in b .. n : k \in S
  <1> DEFINE Bad == {k \in b .. n : k \notin S}
  <1>1. SUFFICES ASSUME Bad # {} PROVE FALSE
    OBVIOUS
  <1>2. PICK x \in Bad : \A y \in Bad : x <= y
    <2>1. Bad \subseteq Nat
      OBVIOUS
    <2> HIDE DEF Bad
    <2>2. QED BY <1>1, <2>1, LeastExists
  <1>3. x \in b .. n /\ x \notin S /\ x # b
    OBVIOUS
  <1>4. x - 1 \in b .. n /\ x - 1 # n /\ x = (x - 1) + 1 /\ ~(x <= x - 1)
    BY <1>3
  <1>5. x - 1 \in S
    BY <1>2, <1>4
  <1>6. QED BY <1>3, <1>4, <1>5

----------------------------------------------------------------------------
(* Sequences of sequences, one after the other                              *)

LEMMA MemberOf ==
  ASSUME NEW T, NEW s \in Seq(T), NEW i \in 1 .. Len(s)
  PROVE  s[i] \in T
  OBVIOUS

LEMMA Concat ==
  ASSUME NEW S, NEW s \in Seq(S), NEW t \in Seq(S)
  PROVE  /\ s \o t \in Seq(S) /\ Len(s \o t) = Len(s) + Len(t)
         /\ Len(s) \in Nat /\ Len(t) \in Nat
         /\ \A j \in 1 .. Len(s) : (s \o t)[j] = s[j]
         /\ \A j \in 1 .. Len(t) : (s \o t)[Len(s) + j] = t[j]
  <1>1. /\ s \o t \in Seq(S) /\ Len(s \o t) = Len(s) + Len(t)
        /\ Len(s) \in Nat /\ Len(t) \in Nat
    OBVIOUS
  <1>2. \A j \in 1 .. Len(s) : (s \o t)[j] = s[j]
    BY <1>1
  <1>3. \A j \in 1 .. Len(t) : (s \o t)[Len(s) + j] = t[j]
    BY <1>1
  <1>4. QED BY <1>1, <1>2, <1>3

FlatStep(ss, f, i) == IF i = 1 THEN ss[i] ELSE f[i - 1] \o ss[i]

\* f has the beginnings of the flattened sequence.
Flattens(ss, f) == \A i \in 1 .. Len(ss) : f[i] = FlatStep(ss, f, i)

LEMMA FlattenBy ==
  ASSUME NEW S, NEW ss \in Seq(S), ss # <<>>, NEW g, DOMAIN g = 1 .. Len(ss), Flattens(ss, g),
         g = [i \in 1 .. Len(ss) |-> g[i]]
  PROVE  FlattenSeq(ss) = g[Len(ss)]
  <1>0. Len(ss) \in Nat /\ Len(ss) # 0
    BY EmptySeq
  <1>1. g = [i \in 1 .. Len(ss) |-> FlatStep(ss, g, i)]
    BY DEF Flattens
  <1>2. \E f : f = [i \in 1 .. Len(ss) |-> FlatStep(ss, f, i)] /\ FlattenSeq(ss) = f[Len(ss)]
    BY <1>0, <1>1, Zenon DEF FlattenSeq, FlatStep
  <1>3. PICK f : f = [i \in 1 .. Len(ss) |-> FlatStep(ss, f, i)] /\ FlattenSeq(ss) = f[Len(ss)]
    BY <1>2
  <1>4. \A i \in 1 .. Len(ss) : f[i] = FlatStep(ss, f, i)
    BY <1>3
  <1> DEFINE Same == {i \in 1 .. Len(ss) : f[i] = g[i]}
  <1>5. 1 \in Same
    <2>1. 1 \in 1 .. Len(ss)
      BY <1>0
    <2>2. f[1] = ss[1] /\ g[1] = ss[1]
      BY <1>4, <2>1 DEF Flattens, FlatStep
    <2>3. QED BY <2>1, <2>2
  <1>6. \A i \in 1 .. Len(ss) : i \in Same /\ i # Len(ss) => i + 1 \in Same
    <2> SUFFICES ASSUME NEW i \in 1 .. Len(ss), f[i] = g[i], i # Len(ss) PROVE i + 1 \in Same
      OBVIOUS
    <2>1. i + 1 \in 1 .. Len(ss) /\ i + 1 # 1 /\ (i + 1) - 1 = i
      BY <1>0
    <2>2. f[i + 1] = f[i] \o ss[i + 1] /\ g[i + 1] = g[i] \o ss[i + 1]
      BY <1>4, <2>1 DEF Flattens, FlatStep
    <2>3. QED BY <2>1, <2>2
  <1>7. \A i \in 1 .. Len(ss) : i \in Same
    <2> HIDE DEF Same
    <2>1. QED BY <1>0, <1>5, <1>6, Ladder
  <1>8. QED BY <1>0, <1>3, <1>7

\* f has what the first i of the sequences make together.
Beginnings(S, ss, f) ==
  /\ f \in [0 .. Len(ss) -> Seq(S)] /\ f[0] = <<>>
  /\ \A i \in 1 .. Len(ss) : f[i] = f[i - 1] \o ss[i]

LEMMA BeginningsExist ==
  ASSUME NEW S, NEW ss \in Seq(Seq(S))
  PROVE  \E f : Beginnings(S, ss, f)
  <1> DEFINE Good(k, f) == /\ f \in [0 .. k -> Seq(S)] /\ f[0] = <<>>
                           /\ \A i \in 1 .. k : f[i] = f[i - 1] \o ss[i]
             K == {k \in 0 .. Len(ss) : \E f : Good(k, f)}
  <1>0. Len(ss) \in Nat
    OBVIOUS
  <1>1. 0 \in K
    <2>1. Good(0, [i \in 0 .. 0 |-> <<>>])
      OBVIOUS
    <2> HIDE DEF Good
    <2>2. QED BY <1>0, <2>1
  <1>2. ASSUME NEW k \in 0 .. Len(ss), k \in K, k # Len(ss) PROVE k + 1 \in K
    <2>1. PICK f : Good(k, f)
      BY <1>2
    <2> DEFINE g == [i \in 0 .. k + 1 |-> IF i = k + 1 THEN f[k] \o ss[k + 1] ELSE f[i]]
    <2>2. k + 1 \in 1 .. Len(ss) /\ k \in Nat
      BY <1>0, <1>2
    <2>3. ss[k + 1] \in Seq(S) /\ f[k] \in Seq(S)
      <3>1. ss[k + 1] \in Seq(S)
        BY <2>2, MemberOf
      <3>2. QED BY <2>1, <2>2, <3>1
    <2>4. f[k] \o ss[k + 1] \in Seq(S)
      BY <2>3
    <2>5. \A i \in 0 .. k + 1 : i = k + 1 \/ i \in 0 .. k
      BY <2>2
    <2>6. g \in [0 .. k + 1 -> Seq(S)]
      BY <2>1, <2>4, <2>5
    <2>7. /\ g[0] = <<>> /\ g[k + 1] = f[k] \o ss[k + 1]
          /\ \A i \in 0 .. k : g[i] = f[i]
      <3>1. \A i \in 0 .. k : g[i] = f[i]
        <4>1. \A i \in 0 .. k : i \in 0 .. k + 1 /\ i # k + 1
          BY <2>2
        <4>2. QED BY <4>1
      <3>2. g[k + 1] = f[k] \o ss[k + 1]
        <4>1. k + 1 \in 0 .. k + 1
          BY <2>2
        <4>2. QED BY <4>1
      <3>3. 0 \in 0 .. k /\ f[0] = <<>>
        BY <2>1, <2>2
      <3> HIDE DEF g
      <3>4. QED BY <3>1, <3>2, <3>3
    <2> HIDE DEF g
    <2>8. \A i \in 1 .. k + 1 : g[i] = g[i - 1] \o ss[i]
      <3> SUFFICES ASSUME NEW i \in 1 .. k + 1 PROVE g[i] = g[i - 1] \o ss[i]
        OBVIOUS
      <3>1. CASE i = k + 1
        <4>1. i - 1 = k /\ k \in 0 .. k
          BY <2>2, <3>1
        <4>2. QED BY <2>7, <3>1, <4>1
      <3>2. CASE i # k + 1
        <4>1. i \in 1 .. k /\ i \in 0 .. k /\ i - 1 \in 0 .. k
          BY <2>2, <3>2
        <4>2. QED BY <2>1, <2>7, <4>1
      <3>3. QED BY <3>1, <3>2
    <2>9. Good(k + 1, g)
      BY <2>6, <2>7, <2>8
    <2>10. k + 1 \in 0 .. Len(ss)
      BY <2>2
    <2> HIDE DEF Good
    <2>11. QED BY <2>9, <2>10
  <1>3. \A k \in 0 .. Len(ss) : k \in K
    <2> HIDE DEF K
    <2>1. QED BY <1>0, <1>1, <1>2, Ladder
  <1>4. Len(ss) \in K
    <2> HIDE DEF K
    <2>1. QED BY <1>0, <1>3
  <1>5. PICK f : Good(Len(ss), f)
    BY <1>4
  <1>6. QED BY <1>5 DEF Beginnings

LEMMA BeginningsFlatten ==
  ASSUME NEW S, NEW ss \in Seq(Seq(S)), NEW f, Beginnings(S, ss, f)
  PROVE  FlattenSeq(ss) = f[Len(ss)]
  <1>0. Len(ss) \in Nat
    OBVIOUS
  <1>1. CASE ss = <<>>
    BY <1>1 DEF Beginnings, FlattenSeq
  <1>2. CASE ss # <<>>
    <2> DEFINE g == [i \in 1 .. Len(ss) |-> f[i]]
    <2>1. Len(ss) # 0
      BY <1>2, EmptySeq
    <2>2. ASSUME NEW i \in 1 .. Len(ss) PROVE g[i] = FlatStep(ss, g, i)
      <3>1. f[i] = f[i - 1] \o ss[i]
        BY DEF Beginnings
      <3>2. CASE i = 1
        <4>1. ss[1] \in Seq(S) /\ f[0] = <<>>
          BY <3>2, MemberOf DEF Beginnings
        <4>2. f[0] \o ss[1] = ss[1]
          BY <4>1
        <4>3. f[1] = ss[1]
          <5>1. f[1] = f[0] \o ss[1]
            <6>1. i - 1 = 0
              BY <3>2
            <6>2. QED BY <3>1, <3>2, <6>1
          <5>2. QED BY <4>2, <5>1
        <4>4. g[1] = f[1]
          BY <3>2
        <4> HIDE DEF g
        <4>5. QED BY <3>2, <4>3, <4>4 DEF FlatStep
      <3>3. CASE i # 1
        <4>1. i - 1 \in 1 .. Len(ss)
          BY <1>0, <3>3
        <4>2. QED BY <3>1, <3>3, <4>1 DEF FlatStep
      <3>4. QED BY <3>2, <3>3
    <2>3. Flattens(ss, g)
      BY <2>2 DEF Flattens
    <2>4. DOMAIN g = 1 .. Len(ss) /\ g = [i \in 1 .. Len(ss) |-> g[i]]
      OBVIOUS
    <2>5. g[Len(ss)] = f[Len(ss)]
      BY <1>0, <2>1
    <2> HIDE DEF g
    <2>6. FlattenSeq(ss) = g[Len(ss)]
      BY <1>2, <2>3, <2>4, FlattenBy
    <2>7. QED BY <2>5, <2>6
  <1>3. QED BY <1>1, <1>2

\* What occurs in a sequence, and what occurs there once.
In(s, x) == \E i \in DOMAIN s : s[i] = x
Once(s, x) == \E i \in DOMAIN s : \A j \in DOMAIN s : s[j] = x <=> j = i

LEMMA OnceIn == ASSUME NEW s, NEW x, Once(s, x) PROVE In(s, x)
  BY DEF Once, In

LEMMA NothingIn ==
  ASSUME NEW x
  PROVE  ~In(<<>>, x)
  BY DEF In

LEMMA OneIn ==
  ASSUME NEW y, NEW x
  PROVE  (In(<<y>>, x) <=> x = y) /\ (x = y => Once(<<y>>, x))
  <1>1. DOMAIN <<y>> = {1} /\ <<y>>[1] = y
    OBVIOUS
  <1>2. QED BY <1>1, Zenon DEF In, Once

LEMMA ConcatIn ==
  ASSUME NEW S, NEW s \in Seq(S), NEW t \in Seq(S), NEW x
  PROVE  /\ In(s \o t, x) <=> In(s, x) \/ In(t, x)
         /\ Once(s, x) /\ ~In(t, x) => Once(s \o t, x)
         /\ ~In(s, x) /\ Once(t, x) => Once(s \o t, x)
  <1> DEFINE u == s \o t
             n == Len(s)
             m == Len(t)
  <1>1. /\ DOMAIN s = 1 .. n /\ DOMAIN t = 1 .. m /\ DOMAIN u = 1 .. n + m /\ n \in Nat /\ m \in Nat
        /\ \A j \in 1 .. n : u[j] = s[j]
        /\ \A j \in 1 .. m : u[n + j] = t[j]
    <2>1. u \in Seq(S) /\ Len(u) = n + m /\ n \in Nat /\ m \in Nat
      BY Concat
    <2>2. DOMAIN u = 1 .. n + m
      <3> HIDE DEF u, n, m
      <3>1. QED BY <2>1
    <2>3. DOMAIN s = 1 .. n /\ DOMAIN t = 1 .. m
      OBVIOUS
    <2>4. QED BY <2>1, <2>2, <2>3, Concat
  <1> HIDE DEF u, n, m
  <1>2. \A j \in 1 .. n + m : j \in 1 .. n \/ (j - n \in 1 .. m /\ j = n + (j - n))
    BY <1>1
  <1>3. \A j \in 1 .. n : j \in 1 .. n + m
    BY <1>1
  <1>4. \A j \in 1 .. m : n + j \in 1 .. n + m /\ (n + j) - n = j /\ n + j \notin 1 .. n
    BY <1>1
  <1>5. In(u, x) <=> In(s, x) \/ In(t, x)
    <2>1. ASSUME In(u, x) PROVE In(s, x) \/ In(t, x)
      <3>1. PICK j \in 1 .. n + m : u[j] = x
        BY <1>1, <2>1 DEF In
      <3>2. CASE j \in 1 .. n
        BY <1>1, <3>1, <3>2 DEF In
      <3>3. CASE j \notin 1 .. n
        <4>1. j - n \in 1 .. m /\ u[n + (j - n)] = x
          BY <1>2, <3>1, <3>3
        <4>2. t[j - n] = x
          BY <1>1, <4>1
        <4>3. QED BY <1>1, <4>1, <4>2 DEF In
      <3>4. QED BY <3>2, <3>3
    <2>2. ASSUME In(s, x) PROVE In(u, x)
      BY <1>1, <1>3, <2>2 DEF In
    <2>3. ASSUME In(t, x) PROVE In(u, x)
      <3>1. PICK j \in 1 .. m : t[j] = x
        BY <1>1, <2>3 DEF In
      <3>2. n + j \in 1 .. n + m /\ u[n + j] = x
        BY <1>1, <1>4, <3>1
      <3>3. QED BY <1>1, <3>2 DEF In
    <2>4. QED BY <2>1, <2>2, <2>3
  <1>6. ASSUME Once(s, x), ~In(t, x) PROVE Once(u, x)
    <2>0. PICK i \in DOMAIN s : \A j \in DOMAIN s : s[j] = x <=> j = i
      BY <1>6 DEF Once
    <2>1. i \in 1 .. n /\ \A j \in 1 .. n : s[j] = x <=> j = i
      BY <1>1, <2>0
    <2>2. ASSUME NEW j \in 1 .. n + m PROVE u[j] = x <=> j = i
      <3>1. CASE j \in 1 .. n
        BY <1>1, <2>1, <3>1
      <3>2. CASE j \notin 1 .. n
        <4>1. j - n \in 1 .. m /\ j = n + (j - n)
          BY <1>2, <3>2
        <4>2. t[j - n] # x
          BY <1>1, <1>6, <4>1 DEF In
        <4>3. u[j] = t[j - n]
          BY <1>1, <4>1
        <4>4. QED BY <2>1, <3>2, <4>2, <4>3
      <3>3. QED BY <3>1, <3>2
    <2>3. i \in DOMAIN u /\ \A j \in DOMAIN u : u[j] = x <=> j = i
      BY <1>1, <1>3, <2>1, <2>2
    <2>4. QED BY <2>3 DEF Once
  <1>7. ASSUME ~In(s, x), Once(t, x) PROVE Once(u, x)
    <2>0. PICK i \in DOMAIN t : \A j \in DOMAIN t : t[j] = x <=> j = i
      BY <1>7 DEF Once
    <2>1. i \in 1 .. m /\ \A j \in 1 .. m : t[j] = x <=> j = i
      BY <1>1, <2>0
    <2>2. ASSUME NEW j \in 1 .. n + m PROVE u[j] = x <=> j = n + i
      <3>1. CASE j \in 1 .. n
        <4>1. u[j] # x
          BY <1>1, <1>7, <3>1 DEF In
        <4>2. j # n + i
          BY <1>4, <2>1, <3>1
        <4>3. QED BY <4>1, <4>2
      <3>2. CASE j \notin 1 .. n
        <4>1. j - n \in 1 .. m /\ j = n + (j - n)
          BY <1>2, <3>2
        <4>2. u[j] = t[j - n]
          BY <1>1, <4>1
        <4>3. t[j - n] = x <=> j - n = i
          BY <2>1, <4>1
        <4>4. j - n = i <=> j = n + i
          BY <1>1, <2>1
        <4>5. QED BY <4>2, <4>3, <4>4
      <3>3. QED BY <3>1, <3>2
    <2>3. n + i \in 1 .. n + m
      BY <1>4, <2>1
    <2>4. n + i \in DOMAIN u /\ \A j \in DOMAIN u : u[j] = x <=> j = n + i
      BY <1>1, <2>2, <2>3
    <2>5. QED BY <2>4 DEF Once
  <1>8. QED BY <1>5, <1>6, <1>7 DEF u

LEMMA FlattenIn ==
  ASSUME NEW S, NEW ss \in Seq(Seq(S)), NEW x
  PROVE  /\ FlattenSeq(ss) \in Seq(S)
         /\ In(FlattenSeq(ss), x) <=> \E i \in 1 .. Len(ss) : In(ss[i], x)
         /\ \A i \in 1 .. Len(ss) :
              Once(ss[i], x) /\ (\A j \in 1 .. Len(ss) : j # i => ~In(ss[j], x)) => Once(FlattenSeq(ss), x)
  <1> DEFINE n == Len(ss)
  <1>1. n \in Nat /\ \A i \in 1 .. n : ss[i] \in Seq(S)
    OBVIOUS
  <1>2. PICK f : Beginnings(S, ss, f)
    BY BeginningsExist
  <1>3. FlattenSeq(ss) = f[n]
    BY <1>2, BeginningsFlatten
  <1>4. /\ f \in [0 .. n -> Seq(S)] /\ f[0] = <<>>
        /\ \A i \in 1 .. n : f[i] = f[i - 1] \o ss[i]
    BY <1>2 DEF Beginnings
  <1> HIDE DEF n
  <1>5. \A k \in 0 .. n : f[k] \in Seq(S)
    BY <1>4
  <1>6. ASSUME NEW k \in 0 .. n, k # n
        PROVE  /\ k + 1 \in 1 .. n /\ k + 1 \in 0 .. n /\ f[k + 1] = f[k] \o ss[k + 1]
               /\ f[k] \in Seq(S) /\ ss[k + 1] \in Seq(S)
    <2>1. k + 1 \in 1 .. n /\ k + 1 \in 0 .. n /\ (k + 1) - 1 = k
      BY <1>1, <1>6
    <2>2. QED BY <1>1, <1>4, <1>5, <2>1
  <1>7. ASSUME NEW k \in 0 .. n, k # n
        PROVE  /\ In(f[k + 1], x) <=> In(f[k], x) \/ In(ss[k + 1], x)
               /\ Once(f[k], x) /\ ~In(ss[k + 1], x) => Once(f[k + 1], x)
               /\ ~In(f[k], x) /\ Once(ss[k + 1], x) => Once(f[k + 1], x)
    <2>1. f[k + 1] = f[k] \o ss[k + 1] /\ f[k] \in Seq(S) /\ ss[k + 1] \in Seq(S)
      BY <1>6, <1>7
    <2> DEFINE a == f[k]
               b == ss[k + 1]
               c == f[k + 1]
    <2>2. c = a \o b /\ a \in Seq(S) /\ b \in Seq(S)
      BY <2>1
    <2> HIDE DEF a, b, c
    <2>3. /\ In(c, x) <=> In(a, x) \/ In(b, x)
          /\ Once(a, x) /\ ~In(b, x) => Once(c, x)
          /\ ~In(a, x) /\ Once(b, x) => Once(c, x)
      BY <2>2, ConcatIn
    <2>4. QED BY <2>3 DEF a, b, c
  <1>8. \A k \in 0 .. n : In(f[k], x) <=> \E i \in 1 .. k : In(ss[i], x)
    <2> DEFINE K == {k \in 0 .. n : In(f[k], x) <=> \E i \in 1 .. k : In(ss[i], x)}
    <2>1. 0 \in K
      <3>1. ~In(f[0], x)
        BY <1>4, NothingIn
      <3>2. QED BY <1>1, <3>1
    <2>2. ASSUME NEW k \in 0 .. n, k \in K, k # n PROVE k + 1 \in K
      <3>1. In(f[k], x) <=> \E i \in 1 .. k : In(ss[i], x)
        BY <2>2
      <3>2. \A i : i \in 1 .. k + 1 <=> i \in 1 .. k \/ i = k + 1
        BY <1>1
      <3>3. In(f[k + 1], x) <=> \E i \in 1 .. k + 1 : In(ss[i], x)
        BY <1>7, <2>2, <3>1, <3>2
      <3>4. QED BY <1>6, <2>2, <3>3
    <2>3. \A k \in 0 .. n : k \in K
      <3> HIDE DEF K
      <3>1. QED BY <1>1, <2>1, <2>2, Ladder
    <2>4. QED BY <2>3
  <1>9. ASSUME NEW i \in 1 .. n, Once(ss[i], x), \A j \in 1 .. n : j # i => ~In(ss[j], x)
        PROVE  Once(f[n], x)
    <2> DEFINE K == {k \in i .. n : Once(f[k], x)}
    <2>1. i \in Nat /\ i - 1 \in 0 .. n /\ i - 1 # n /\ (i - 1) + 1 = i
      BY <1>1
    <2>2. i \in K
      <3>1. ~In(f[i - 1], x)
        <4>1. \A j \in 1 .. i - 1 : j \in 1 .. n /\ j # i
          BY <1>1
        <4>2. QED BY <1>8, <1>9, <2>1, <4>1
      <3>2. Once(f[i], x)
        <4>1. ~In(f[i - 1], x) /\ Once(ss[(i - 1) + 1], x) => Once(f[(i - 1) + 1], x)
          BY <1>7, <2>1
        <4>2. QED BY <1>9, <2>1, <3>1, <4>1
      <3>3. i \in i .. n
        BY <1>1
      <3>4. QED BY <3>2, <3>3
    <2>3. ASSUME NEW k \in i .. n, k \in K, k # n PROVE k + 1 \in K
      <3>1. k \in 0 .. n /\ k + 1 \in 1 .. n /\ k + 1 # i /\ k + 1 \in i .. n
        BY <1>1, <2>3
      <3>2. Once(f[k + 1], x)
        BY <1>7, <1>9, <2>3, <3>1
      <3>3. QED BY <3>1, <3>2
    <2>4. \A k \in i .. n : k \in K
      <3> HIDE DEF K
      <3>1. QED BY <1>1, <2>1, <2>2, <2>3, Ladder
    <2>5. n \in i .. n
      BY <1>1
    <2>6. QED BY <2>4, <2>5
  <1>10. n \in 0 .. n
    BY <1>1
  <1>11. FlattenSeq(ss) \in Seq(S) /\ (In(FlattenSeq(ss), x) <=> \E i \in 1 .. n : In(ss[i], x))
    BY <1>3, <1>5, <1>8, <1>10
  <1>12. QED BY <1>3, <1>9, <1>11 DEF n

----------------------------------------------------------------------------
(* The search                                                               *)

Spot == [bus : Bus, device : 0 .. LastDevice, function : 0 .. LastFunction]

BehindBus(M, b) ==
  \E a \in DOMAIN M.functions : M.functions[a].class = "bridge" /\ M.functions[a].secondary = b

\* What the search finds from a function, a device and a bus on, when f has
\* what it finds from the later buses on.
Beyond(M, f, a) == IF Config(M, a).class = "bridge" THEN f[Config(M, a).secondary] ELSE <<>>
AtFunction(M, f, a) == IF Config(M, a).vendor = "none" THEN <<>> ELSE <<a>> \o Beyond(M, f, a)
Others(M, f, b, d) ==
  IF Config(M, address(b, d, 0)).multi
  THEN FlattenSeq([i \in 1 .. LastFunction |-> AtFunction(M, f, address(b, d, i))]) ELSE <<>>
AtDevice(M, f, b, d) ==
  IF Config(M, address(b, d, 0)).vendor = "none" THEN <<>>
  ELSE <<address(b, d, 0)>> \o Others(M, f, b, d) \o Beyond(M, f, address(b, d, 0))
AtBus(M, f, b) == FlattenSeq([i \in 1 .. LastDevice + 1 |-> AtDevice(M, f, b, i - 1)])

LEMMA ProbeIs ==
  ASSUME NEW M, NEW f, NEW b, NEW d
  PROVE  ProbeDevice(M, b, d, f) = AtDevice(M, f, b, d)
  BY Zenon DEF ProbeDevice, AtDevice, Others, AtFunction, Beyond

LEMMA BusFacts ==
  /\ LastBus \in Nat /\ LastDevice \in Nat /\ LastFunction \in Nat
  /\ Bus = 0 .. LastBus
  BY PciAssumption DEF Bus

\* What the machine is asked for is what it has, and a bridge leads onward.
LEMMA ConfigFacts ==
  ASSUME NEW M, SoundMachine(M), NEW a
  PROVE  /\ a \in DOMAIN M.functions => a \in Spot /\ Config(M, a) = M.functions[a]
                                        /\ Config(M, a).vendor # "none"
         /\ Config(M, a).class = "bridge" =>
              /\ a \in DOMAIN M.functions /\ BehindBus(M, Config(M, a).secondary)
              /\ Config(M, a).secondary \in a.bus + 1 .. LastBus
         /\ Config(M, a).class = "ahci" => a \in DOMAIN M.functions
  <1>1. a \in DOMAIN M.functions => a \in Spot /\ Config(M, a) = M.functions[a]
                                        /\ Config(M, a).vendor # "none"
    <2> SUFFICES ASSUME a \in DOMAIN M.functions
                 PROVE  a \in Spot /\ Config(M, a) = M.functions[a] /\ Config(M, a).vendor # "none"
      OBVIOUS
    <2>1. /\ a \in Spot /\ M.functions[a].vendor # "none"
          /\ M.spaces = <<>> \/ \E i \in DOMAIN M.spaces :
               a.bus \in M.spaces[i].start_bus .. M.spaces[i].end_bus
      BY Zenon DEF SoundMachine, Spot
    <2>2. QED BY <2>1, Zenon DEF Config
  <1>2. Config(M, a).class \in {"bridge", "ahci"} => a \in DOMAIN M.functions
    BY DEF Config, Zeros, Ones
  <1>3. ASSUME a \in DOMAIN M.functions, M.functions[a].class = "bridge"
        PROVE  BehindBus(M, M.functions[a].secondary)
               /\ M.functions[a].secondary \in a.bus + 1 .. LastBus
    <2>1. BehindBus(M, M.functions[a].secondary)
      BY <1>3 DEF BehindBus
    <2>2. M.functions[a].secondary \in a.bus + 1 .. LastBus
      BY <1>3, Zenon DEF SoundMachine
    <2>3. QED BY <2>1, <2>2
  <1>4. QED BY <1>1, <1>2, <1>3, Zenon

\* Two tables that agree on the later buses give the same for a bus.
LEMMA BusSame ==
  ASSUME NEW M, SoundMachine(M), NEW f, NEW g, NEW b,
         \A c \in b + 1 .. LastBus : f[c] = g[c]
  PROVE  AtBus(M, f, b) = AtBus(M, g, b)
  <1>1. ASSUME NEW d, NEW i PROVE Beyond(M, f, address(b, d, i)) = Beyond(M, g, address(b, d, i))
    <2> DEFINE a == address(b, d, i)
    <2>1. a.bus = b
      BY DEF address
    <2> HIDE DEF a
    <2>2. CASE Config(M, a).class = "bridge"
      <3>1. Config(M, a).secondary \in b + 1 .. LastBus
        BY <2>1, <2>2, ConfigFacts
      <3>2. f[Config(M, a).secondary] = g[Config(M, a).secondary]
        BY <3>1
      <3>3. Beyond(M, f, a) = Beyond(M, g, a)
        BY <3>2 DEF Beyond
      <3>4. QED BY <3>3 DEF a
    <2>3. CASE Config(M, a).class # "bridge"
      <3>1. Beyond(M, f, a) = Beyond(M, g, a)
        BY <2>3 DEF Beyond
      <3>2. QED BY <3>1 DEF a
    <2>4. QED BY <2>2, <2>3
  <1>2. ASSUME NEW d PROVE AtDevice(M, f, b, d) = AtDevice(M, g, b, d)
    <2>1. \A i : AtFunction(M, f, address(b, d, i)) = AtFunction(M, g, address(b, d, i))
      BY <1>1, Zenon DEF AtFunction
    <2>2. [i \in 1 .. LastFunction |-> AtFunction(M, f, address(b, d, i))]
            = [i \in 1 .. LastFunction |-> AtFunction(M, g, address(b, d, i))]
      BY <2>1, Zenon
    <2>3. Others(M, f, b, d) = Others(M, g, b, d)
      BY <2>2, Zenon DEF Others
    <2>4. QED BY <1>1, <2>3, Zenon DEF AtDevice
  <1>3. [i \in 1 .. LastDevice + 1 |-> AtDevice(M, f, b, i - 1)]
          = [i \in 1 .. LastDevice + 1 |-> AtDevice(M, g, b, i - 1)]
    BY <1>2, Zenon
  <1>4. QED BY <1>3, Zenon DEF AtBus

\* f has what is found from every bus on.
Searched(M, f) == f = [b \in Bus |-> AtBus(M, f, b)]

LEMMA SearchedExists ==
  ASSUME NEW M, SoundMachine(M)
  PROVE  \E f : Searched(M, f)
  <1> DEFINE N == LastBus + 1
             Good(k, f) == f = [b \in N - k .. LastBus |-> AtBus(M, f, b)]
             K == {k \in 0 .. N : \E f : Good(k, f)}
  <1>0. N \in Nat /\ LastBus \in Nat /\ LastBus = N - 1
    BY BusFacts
  <1>1. 0 \in K
    <2> DEFINE f == [b \in {} |-> <<>>]
    <2>1. N - 0 .. LastBus = {}
      BY <1>0
    <2>2. f = [b \in N - 0 .. LastBus |-> AtBus(M, f, b)]
      BY <2>1
    <2> HIDE DEF f
    <2>3. 0 \in 0 .. N
      BY <1>0
    <2>4. QED BY <2>2, <2>3
  <1>2. ASSUME NEW k \in 0 .. N, k \in K, k # N PROVE k + 1 \in K
    <2>1. PICK f : Good(k, f)
      BY <1>2
    <2> DEFINE c == N - (k + 1)
               g == [b \in c .. LastBus |-> AtBus(M, f, b)]
    <2>2. c \in 0 .. LastBus /\ N - k = c + 1
      BY <1>0, <1>2
    <2>3. ASSUME NEW b \in c + 1 .. LastBus PROVE g[b] = f[b]
      <3>1. b \in c .. LastBus /\ b \in N - k .. LastBus
        BY <1>0, <2>2
      <3>2. g[b] = AtBus(M, f, b)
        BY <3>1
      <3>3. f[b] = AtBus(M, f, b)
        BY <2>1, <3>1
      <3>4. QED BY <3>2, <3>3
    <2>4. ASSUME NEW b \in c .. LastBus PROVE AtBus(M, f, b) = AtBus(M, g, b)
      <3>1. \A e \in b + 1 .. LastBus : e \in c + 1 .. LastBus
        BY <1>0, <2>2
      <3>2. \A e \in b + 1 .. LastBus : f[e] = g[e]
        BY <2>3, <3>1
      <3> HIDE DEF g
      <3>3. QED BY <3>2, BusSame
    <2>5. g = [b \in c .. LastBus |-> AtBus(M, g, b)]
      <3> DEFINE h == [b \in c .. LastBus |-> AtBus(M, g, b)]
      <3>1. g = h
        BY <2>4, Zenon
      <3>2. QED BY <3>1
    <2> HIDE DEF g
    <2>6. Good(k + 1, g)
      BY <2>5
    <2>7. k + 1 \in 0 .. N
      BY <1>0, <1>2
    <2>8. QED BY <2>6, <2>7
  <1>3. \A k \in 0 .. N : k \in K
    <2> HIDE DEF K, N
    <2>1. QED BY <1>0, <1>1, <1>2, Ladder
  <1>4. N \in K
    <2> HIDE DEF K, N
    <2>1. N \in 0 .. N
      BY <1>0
    <2>2. QED BY <1>3, <2>1, Zenon
  <1>5. PICK f : Good(N, f)
    BY <1>4
  <1>6. N - N .. LastBus = Bus
    BY <1>0 DEF Bus
  <1>7. QED BY <1>5, <1>6 DEF Searched

LEMMA ProbeBusIs ==
  ASSUME NEW M, SoundMachine(M)
  PROVE  Searched(M, ProbeBus(M))
  <1> DEFINE R(f) == f = [b \in Bus |->
               FlattenSeq([i \in 1 .. LastDevice + 1 |-> ProbeDevice(M, b, i - 1, f)])]
  <1>1. ASSUME NEW f PROVE R(f) <=> Searched(M, f)
    <2>1. ASSUME NEW b PROVE FlattenSeq([i \in 1 .. LastDevice + 1 |-> ProbeDevice(M, b, i - 1, f)])
                               = AtBus(M, f, b)
      <3>1. [i \in 1 .. LastDevice + 1 |-> ProbeDevice(M, b, i - 1, f)]
              = [i \in 1 .. LastDevice + 1 |-> AtDevice(M, f, b, i - 1)]
        BY ProbeIs, Zenon
      <3>2. QED BY <3>1, Zenon DEF AtBus
    <2>2. [b \in Bus |-> FlattenSeq([i \in 1 .. LastDevice + 1 |-> ProbeDevice(M, b, i - 1, f)])]
            = [b \in Bus |-> AtBus(M, f, b)]
      BY <2>1, Zenon
    <2>3. QED BY <2>2, Zenon DEF Searched
  <1>2. \E f : R(f)
    BY <1>1, SearchedExists, Zenon
  <1> DEFINE w == CHOOSE f : R(f)
  <1>3. R(w)
    BY <1>2, Zenon
  <1>4. ProbeBus(M) = w
    BY Zenon DEF ProbeBus
  <1>5. QED BY <1>1, <1>3, <1>4, Zenon

\* The right things from a bus on: what is on it, once unless it is behind a
\* bridge, and otherwise only what is on buses behind bridges.
RightBus(M, s, b) ==
  /\ s \in Seq(Spot)
  /\ \A x : In(s, x) => x.bus = b \/ BehindBus(M, x.bus)
  /\ \A a \in DOMAIN M.functions : a.bus = b => In(s, a) /\ (BehindBus(M, b) \/ Once(s, a))

RightDevice(M, s, b, d) ==
  /\ s \in Seq(Spot)
  /\ \A x : In(s, x) => (x.bus = b /\ x.device = d) \/ BehindBus(M, x.bus)
  /\ \A a \in DOMAIN M.functions :
       a.bus = b /\ a.device = d => In(s, a) /\ (BehindBus(M, b) \/ Once(s, a))

RightFunction(M, s, a) ==
  /\ s \in Seq(Spot)
  /\ \A x : In(s, x) => x = a \/ BehindBus(M, x.bus)
  /\ a \in DOMAIN M.functions => In(s, a) /\ (BehindBus(M, a.bus) \/ Once(s, a))

\* The functions but the first.
RightOthers(M, s, b, d) ==
  /\ s \in Seq(Spot)
  /\ \A x : In(s, x) => (x.bus = b /\ x.device = d /\ x.function # 0) \/ BehindBus(M, x.bus)
  /\ \A a \in DOMAIN M.functions :
       a.bus = b /\ a.device = d /\ a.function # 0 => In(s, a) /\ (BehindBus(M, b) \/ Once(s, a))

RightLater(M, f, b) == \A c \in b + 1 .. LastBus : RightBus(M, f[c], c)

LEMMA NoSpots == <<>> \in Seq(Spot)
  OBVIOUS

LEMMA OneSpot == ASSUME NEW a \in Spot PROVE <<a>> \in Seq(Spot)
  OBVIOUS

LEMMA BeyondFacts ==
  ASSUME NEW M, SoundMachine(M), NEW f, NEW a \in Spot, RightLater(M, f, a.bus)
  PROVE  /\ Beyond(M, f, a) \in Seq(Spot)
         /\ \A x : In(Beyond(M, f, a), x) => BehindBus(M, x.bus)
  <1>1. CASE Config(M, a).class = "bridge"
    <2> DEFINE c == Config(M, a).secondary
    <2>1. c \in a.bus + 1 .. LastBus /\ BehindBus(M, c)
      BY <1>1, ConfigFacts
    <2>2. Beyond(M, f, a) = f[c]
      BY <1>1 DEF Beyond
    <2> HIDE DEF c
    <2>3. RightBus(M, f[c], c)
      BY <2>1 DEF RightLater
    <2>4. f[c] \in Seq(Spot) /\ \A x : In(f[c], x) => x.bus = c \/ BehindBus(M, x.bus)
      BY <2>3, Zenon DEF RightBus
    <2>5. QED BY <2>1, <2>2, <2>4, Zenon
  <1>2. CASE Config(M, a).class # "bridge"
    <2>1. Beyond(M, f, a) = <<>>
      BY <1>2 DEF Beyond
    <2>2. QED BY <2>1, NoSpots, NothingIn, Zenon
  <1>3. QED BY <1>1, <1>2

LEMMA FunctionFacts ==
  ASSUME NEW M, SoundMachine(M), NEW f, NEW a \in Spot, RightLater(M, f, a.bus)
  PROVE  RightFunction(M, AtFunction(M, f, a), a)
  <1> DEFINE t == Beyond(M, f, a)
  <1>1. t \in Seq(Spot) /\ \A x : In(t, x) => BehindBus(M, x.bus)
    BY BeyondFacts
  <1>2. CASE Config(M, a).vendor = "none"
    <2>1. AtFunction(M, f, a) = <<>> /\ a \notin DOMAIN M.functions
      BY <1>2, ConfigFacts, Zenon DEF AtFunction
    <2>2. QED BY <2>1, NoSpots, NothingIn, Zenon DEF RightFunction
  <1>3. CASE Config(M, a).vendor # "none"
    <2>1. AtFunction(M, f, a) = <<a>> \o t
      BY <1>3 DEF AtFunction
    <2> HIDE DEF t
    <2>2. <<a>> \in Seq(Spot)
      BY OneSpot
    <2> DEFINE h == <<a>>
    <2>3. \A x : In(h, x) <=> x = a
      BY OneIn, Zenon
    <2>4. Once(h, a)
      BY OneIn, Zenon
    <2> HIDE DEF h
    <2>5. h \in Seq(Spot)
      BY <2>2 DEF h
    <2>6. \A x : /\ In(h \o t, x) <=> In(h, x) \/ In(t, x)
                 /\ Once(h, x) /\ ~In(t, x) => Once(h \o t, x)
      BY <1>1, <2>5, ConcatIn, Zenon
    <2>7. h \o t \in Seq(Spot)
      BY <1>1, <2>5
    <2>8. RightFunction(M, h \o t, a)
      BY <1>1, <2>3, <2>4, <2>6, <2>7, Zenon DEF RightFunction
    <2>9. QED BY <2>1, <2>8 DEF h
  <1>4. QED BY <1>2, <1>3

LEMMA OthersFacts ==
  ASSUME NEW M, SoundMachine(M), NEW f, NEW b \in Bus, NEW d \in 0 .. LastDevice, RightLater(M, f, b)
  PROVE  RightOthers(M, Others(M, f, b, d), b, d)
  <1> DEFINE A(i) == address(b, d, i)
             ss == [i \in 1 .. LastFunction |-> AtFunction(M, f, address(b, d, i))]
  <1>0. LastFunction \in Nat
    BY BusFacts
  <1>1. ASSUME NEW i \in 1 .. LastFunction
        PROVE  /\ A(i) \in Spot /\ A(i).bus = b /\ A(i).device = d /\ A(i).function = i /\ i # 0
               /\ ss[i] = AtFunction(M, f, A(i))
    <2>1. i \in 0 .. LastFunction /\ i # 0
      BY <1>0
    <2>2. A(i) \in Spot /\ A(i).bus = b /\ A(i).device = d /\ A(i).function = i
      BY <2>1 DEF Spot, address
    <2>3. QED BY <2>1, <2>2
  <1>2. ASSUME NEW a \in DOMAIN M.functions, a.bus = b, a.device = d, a.function # 0
        PROVE  /\ a.function \in 1 .. LastFunction /\ a = A(a.function)
               /\ Config(M, address(b, d, 0)).multi
    <2>1. a \in Spot
      BY ConfigFacts, Zenon
    <2>2. a.function \in 1 .. LastFunction
      BY <1>0, <1>2, <2>1 DEF Spot
    <2>3. a = [bus |-> a.bus, device |-> a.device, function |-> a.function]
      BY <2>1 DEF Spot
    <2>4. a = A(a.function)
      BY <1>2, <2>3 DEF address
    <2>5. address(b, d, 0) \in DOMAIN M.functions /\ M.functions[address(b, d, 0)].multi
      BY <1>2, Zenon DEF SoundMachine
    <2>6. Config(M, address(b, d, 0)).multi
      BY <2>5, ConfigFacts, Zenon
    <2>7. QED BY <2>2, <2>4, <2>6
  <1>3. ss \in [1 .. LastFunction -> Seq(Spot)] /\ Len(ss) = LastFunction /\ ss \in Seq(Seq(Spot))
    <2>1. \A i \in 1 .. LastFunction : AtFunction(M, f, A(i)) \in Seq(Spot)
      <3>1. TAKE i \in 1 .. LastFunction
      <3>2. A(i) \in Spot /\ RightLater(M, f, A(i).bus)
        BY <1>1
      <3> HIDE DEF A
      <3>3. QED BY <3>2, FunctionFacts DEF RightFunction
    <2>2. QED BY <1>0, <2>1
  <1>4. ASSUME NEW i \in 1 .. LastFunction PROVE RightFunction(M, ss[i], A(i))
    <2>1. A(i) \in Spot /\ RightLater(M, f, A(i).bus) /\ ss[i] = AtFunction(M, f, A(i))
      BY <1>1
    <2> HIDE DEF A, ss
    <2>2. QED BY <2>1, FunctionFacts
  <1> HIDE DEF ss
  <1>5. CASE Config(M, address(b, d, 0)).multi
    <2> DEFINE s == FlattenSeq(ss)
    <2>1. Others(M, f, b, d) = s
      BY <1>5 DEF Others, ss
    <2>2. \A x : /\ s \in Seq(Spot)
                 /\ In(s, x) <=> \E i \in 1 .. LastFunction : In(ss[i], x)
                 /\ \A i \in 1 .. LastFunction :
                      Once(ss[i], x) /\ (\A j \in 1 .. LastFunction : j # i => ~In(ss[j], x))
                        => Once(s, x)
      BY <1>3, FlattenIn, Zenon
    <2> HIDE DEF s, A
    <2>3. ASSUME NEW x, In(s, x)
          PROVE  (x.bus = b /\ x.device = d /\ x.function # 0) \/ BehindBus(M, x.bus)
      <3>1. PICK i \in 1 .. LastFunction : In(ss[i], x)
        BY <2>2, <2>3
      <3>2. x = A(i) \/ BehindBus(M, x.bus)
        BY <1>4, <3>1 DEF RightFunction
      <3>3. QED BY <1>1, <3>2
    <2>4. ASSUME NEW a \in DOMAIN M.functions, a.bus = b, a.device = d, a.function # 0
          PROVE  In(s, a) /\ (BehindBus(M, b) \/ Once(s, a))
      <3> DEFINE i == a.function
      <3>1. i \in 1 .. LastFunction /\ a = A(i)
        BY <1>2, <2>4
      <3> HIDE DEF i
      <3>2. In(ss[i], a) /\ (BehindBus(M, b) \/ Once(ss[i], a))
        BY <1>4, <2>4, <3>1 DEF RightFunction
      <3>3. ASSUME NEW j \in 1 .. LastFunction, j # i, ~BehindBus(M, b) PROVE ~In(ss[j], a)
        <4>1. A(j).function # A(i).function
          BY <1>1, <3>1, <3>3
        <4>2. a # A(j)
          BY <3>1, <4>1
        <4>3. QED BY <1>4, <2>4, <3>3, <4>2 DEF RightFunction
      <3>4. QED BY <2>2, <3>1, <3>2, <3>3
    <2>5. RightOthers(M, s, b, d)
      BY <2>2, <2>3, <2>4 DEF RightOthers
    <2>6. QED BY <2>1, <2>5
  <1>6. CASE ~Config(M, address(b, d, 0)).multi
    <2>1. Others(M, f, b, d) = <<>>
      BY <1>6 DEF Others
    <2>2. QED BY <1>2, <1>6, <2>1, NoSpots, NothingIn DEF RightOthers
  <1>7. QED BY <1>5, <1>6

LEMMA DeviceFacts ==
  ASSUME NEW M, SoundMachine(M), NEW f, NEW b \in Bus, NEW d \in 0 .. LastDevice, RightLater(M, f, b)
  PROVE  RightDevice(M, AtDevice(M, f, b, d), b, d)
  <1> DEFINE first == address(b, d, 0)
             h == <<first>>
             t == Others(M, f, b, d)
             u == Beyond(M, f, first)
             s == AtDevice(M, f, b, d)
  <1>1. /\ first \in Spot /\ first.bus = b /\ first.device = d /\ first.function = 0
        /\ \A a \in Spot : a.bus = b /\ a.device = d /\ a.function = 0 => a = first
    BY BusFacts DEF Spot, address
  <1>2. \A a \in DOMAIN M.functions :
          /\ a \in Spot
          /\ a.bus = b /\ a.device = d => first \in DOMAIN M.functions
    <2> SUFFICES ASSUME NEW a \in DOMAIN M.functions
                 PROVE  a \in Spot /\ (a.bus = b /\ a.device = d => first \in DOMAIN M.functions)
      OBVIOUS
    <2>1. a \in Spot
      BY ConfigFacts, Zenon
    <2>2. a.function # 0 => address(a.bus, a.device, 0) \in DOMAIN M.functions
      BY Zenon DEF SoundMachine
    <2> HIDE DEF first
    <2>3. CASE a.function = 0
      BY <1>1, <2>1, <2>3
    <2>4. CASE a.function # 0
      BY <2>1, <2>2, <2>4 DEF first
    <2>5. QED BY <2>3, <2>4
  <1>3. first \in DOMAIN M.functions => Config(M, first).vendor # "none"
    <2> HIDE DEF first
    <2>1. QED BY ConfigFacts, Zenon
  <1>4. RightOthers(M, t, b, d)
    BY OthersFacts
  <1>5. u \in Seq(Spot) /\ \A x : In(u, x) => BehindBus(M, x.bus)
    <2>1. RightLater(M, f, first.bus)
      BY <1>1
    <2> HIDE DEF first
    <2>2. QED BY <1>1, <2>1, BeyondFacts
  <1>6. CASE Config(M, first).vendor = "none"
    <2>1. s = <<>>
      BY <1>6 DEF AtDevice
    <2> HIDE DEF s, first
    <2>2. RightDevice(M, s, b, d)
      BY <1>2, <1>3, <1>6, <2>1, NoSpots, NothingIn DEF RightDevice
    <2>3. QED BY <2>2 DEF s
  <1>7. CASE Config(M, first).vendor # "none"
    <2>1. s = h \o t \o u
      BY <1>7 DEF AtDevice
    <2> HIDE DEF t, u, s, first
    <2>2. h \in Seq(Spot) /\ t \in Seq(Spot)
      BY <1>1, <1>4, OneSpot DEF RightOthers
    <2>3. \A x : (In(h, x) <=> x = first) /\ (x = first => Once(h, x))
      BY OneIn, Zenon
    <2> HIDE DEF h
    <2> DEFINE v == h \o t
    <2>4. v \in Seq(Spot)
      BY <2>2
    <2>5. \A x : /\ In(v, x) <=> In(h, x) \/ In(t, x)
                 /\ Once(h, x) /\ ~In(t, x) => Once(v, x)
                 /\ ~In(h, x) /\ Once(t, x) => Once(v, x)
      BY <2>2, ConcatIn, Zenon
    <2>6. s = v \o u
      BY <2>1
    <2> HIDE DEF v
    <2>7. s \in Seq(Spot)
      BY <1>5, <2>4, <2>6
    <2>8. \A x : /\ In(s, x) <=> In(v, x) \/ In(u, x)
                 /\ Once(v, x) /\ ~In(u, x) => Once(s, x)
      BY <1>5, <2>4, <2>6, ConcatIn, Zenon
    <2>9. ASSUME NEW x, In(s, x) PROVE (x.bus = b /\ x.device = d) \/ BehindBus(M, x.bus)
      BY <1>1, <1>4, <1>5, <2>3, <2>5, <2>8, <2>9, Zenon DEF RightOthers
    <2>10. ASSUME NEW a \in DOMAIN M.functions, a.bus = b, a.device = d
           PROVE  In(s, a) /\ (BehindBus(M, b) \/ Once(s, a))
      <3>1. a \in Spot
        BY <1>2
      <3>2. ~BehindBus(M, b) => ~In(u, a)
        BY <1>5, <2>10
      <3>3. CASE a.function = 0
        <4>1. a = first
          BY <1>1, <2>10, <3>1, <3>3
        <4>2. In(h, a) /\ Once(h, a)
          BY <2>3, <4>1
        <4>3. ~BehindBus(M, b) => ~In(t, a)
          BY <1>4, <2>10, <3>3 DEF RightOthers
        <4>4. QED BY <2>5, <2>8, <3>2, <4>2, <4>3
      <3>4. CASE a.function # 0
        <4>1. a # first
          BY <1>1, <3>4
        <4>2. ~In(h, a)
          BY <2>3, <4>1
        <4>3. In(t, a) /\ (BehindBus(M, b) \/ Once(t, a))
          BY <1>4, <2>10, <3>4 DEF RightOthers
        <4>4. QED BY <2>5, <2>8, <3>2, <4>2, <4>3
      <3>5. QED BY <3>3, <3>4
    <2>11. RightDevice(M, s, b, d)
      BY <2>7, <2>9, <2>10 DEF RightDevice
    <2>12. QED BY <2>11 DEF s
  <1>8. QED BY <1>6, <1>7

LEMMA RowFacts ==
  ASSUME NEW M, SoundMachine(M), NEW f, NEW b \in Bus, RightLater(M, f, b)
  PROVE  RightBus(M, AtBus(M, f, b), b)
  <1> DEFINE n == LastDevice + 1
             ss == [i \in 1 .. n |-> AtDevice(M, f, b, i - 1)]
             s == FlattenSeq(ss)
  <1>0. n \in Nat /\ \A i \in 1 .. n : i - 1 \in 0 .. LastDevice
    BY BusFacts
  <1>1. ASSUME NEW i \in 1 .. n PROVE RightDevice(M, ss[i], b, i - 1)
    <2>1. i - 1 \in 0 .. LastDevice /\ ss[i] = AtDevice(M, f, b, i - 1)
      BY <1>0
    <2> HIDE DEF ss
    <2>2. QED BY <2>1, DeviceFacts
  <1>2. Len(ss) = n /\ ss \in Seq(Seq(Spot))
    <2>1. \A i \in 1 .. n : AtDevice(M, f, b, i - 1) \in Seq(Spot)
      <3>1. TAKE i \in 1 .. n
      <3>2. ss[i] \in Seq(Spot)
        <4> HIDE DEF ss
        <4>1. QED BY <1>1 DEF RightDevice
      <3>3. QED BY <3>2
    <2> HIDE DEF n
    <2>2. QED BY <1>0, <2>1
  <1>3. AtBus(M, f, b) = s
    BY DEF AtBus
  <1>4. \A i, j \in 1 .. n : i - 1 = j - 1 => i = j
    BY <1>0
  <1> HIDE DEF ss, n
  <1>5. \A x : /\ s \in Seq(Spot)
               /\ In(s, x) <=> \E i \in 1 .. n : In(ss[i], x)
               /\ \A i \in 1 .. n :
                    Once(ss[i], x) /\ (\A j \in 1 .. n : j # i => ~In(ss[j], x)) => Once(s, x)
    BY <1>2, FlattenIn, Zenon
  <1> HIDE DEF s
  <1>6. ASSUME NEW x, In(s, x) PROVE x.bus = b \/ BehindBus(M, x.bus)
    <2>1. PICK i \in 1 .. n : In(ss[i], x)
      BY <1>5, <1>6
    <2>2. QED BY <1>1, <2>1 DEF RightDevice
  <1>7. ASSUME NEW a \in DOMAIN M.functions, a.bus = b
        PROVE  In(s, a) /\ (BehindBus(M, b) \/ Once(s, a))
    <2>1. a.device \in 0 .. LastDevice
      <3>1. a \in Spot
        BY ConfigFacts, Zenon
      <3>2. QED BY <3>1 DEF Spot
    <2> DEFINE i == a.device + 1
    <2>2. i \in 1 .. n /\ i - 1 = a.device
      BY <2>1, BusFacts DEF n
    <2> HIDE DEF i
    <2>3. In(ss[i], a) /\ (BehindBus(M, b) \/ Once(ss[i], a))
      BY <1>1, <1>7, <2>2 DEF RightDevice
    <2>4. ASSUME NEW j \in 1 .. n, j # i, ~BehindBus(M, b) PROVE ~In(ss[j], a)
      <3>1. j - 1 # a.device
        BY <1>4, <2>2, <2>4
      <3>2. QED BY <1>1, <1>7, <2>4, <3>1 DEF RightDevice
    <2>5. QED BY <1>5, <2>2, <2>3, <2>4
  <1>8. RightBus(M, s, b)
    BY <1>5, <1>6, <1>7 DEF RightBus
  <1>9. QED BY <1>3, <1>8

\* From the last bus down, the table of the search is right.
LEMMA SearchRight ==
  ASSUME NEW M, SoundMachine(M), NEW b \in Bus
  PROVE  RightBus(M, ProbeBus(M)[b], b)
  <1> DEFINE f == ProbeBus(M)
             K == {k \in 0 .. LastBus : \A c \in LastBus - k .. LastBus : RightBus(M, f[c], c)}
  <1>0. LastBus \in Nat /\ Bus = 0 .. LastBus
    BY BusFacts
  <1>1. \A c \in Bus : f[c] = AtBus(M, f, c)
    <2>1. Searched(M, f)
      BY ProbeBusIs
    <2> HIDE DEF f
    <2>2. QED BY <2>1 DEF Searched
  <1> HIDE DEF f
  <1>2. ASSUME NEW c \in Bus, \A e \in c + 1 .. LastBus : RightBus(M, f[e], e)
        PROVE  RightBus(M, f[c], c)
    <2>1. RightLater(M, f, c)
      BY <1>2 DEF RightLater
    <2>2. QED BY <1>1, <2>1, RowFacts
  <1>3. 0 \in K
    <2>1. ASSUME NEW c \in LastBus - 0 .. LastBus PROVE RightBus(M, f[c], c)
      <3>1. c = LastBus /\ c \in Bus /\ c + 1 .. LastBus = {}
        BY <1>0
      <3>2. QED BY <1>2, <3>1
    <2>2. 0 \in 0 .. LastBus
      BY <1>0
    <2>3. QED BY <2>1, <2>2
  <1>4. ASSUME NEW k \in 0 .. LastBus, k \in K, k # LastBus PROVE k + 1 \in K
    <2>1. \A c \in LastBus - k .. LastBus : RightBus(M, f[c], c)
      BY <1>4
    <2>2. ASSUME NEW c \in LastBus - (k + 1) .. LastBus PROVE RightBus(M, f[c], c)
      <3>1. c \in Bus /\ \A e \in c + 1 .. LastBus : e \in LastBus - k .. LastBus
        BY <1>0, <1>4
      <3>2. QED BY <1>2, <2>1, <3>1
    <2>3. k + 1 \in 0 .. LastBus
      BY <1>0, <1>4
    <2>4. QED BY <2>2, <2>3
  <1>5. \A k \in 0 .. LastBus : k \in K
    <2> HIDE DEF K
    <2>1. QED BY <1>0, <1>3, <1>4, Ladder
  <1>6. LastBus \in K
    <2> HIDE DEF K
    <2>1. LastBus \in 0 .. LastBus
      BY <1>0
    <2>2. QED BY <1>5, <2>1
  <1>7. b \in LastBus - LastBus .. LastBus
    BY <1>0
  <1>8. RightBus(M, f[b], b)
    BY <1>6, <1>7
  <1>9. QED BY <1>8 DEF f

RightRange(M, s, R) ==
  /\ s \in Seq(Spot)
  /\ \A x : In(s, x) => x.bus \in R \/ BehindBus(M, x.bus)
  /\ \A a \in DOMAIN M.functions : a.bus \in R => In(s, a) /\ (BehindBus(M, a.bus) \/ Once(s, a))

FromBuses(M, r) ==
  FlattenSeq([i \in 1 .. r.end_bus - r.start_bus + 1 |-> ProbeBus(M)[r.start_bus + i - 1]])

LEMMA RangeRight ==
  ASSUME NEW M, SoundMachine(M), NEW r \in [start_bus : Bus, end_bus : Bus]
  PROVE  RightRange(M, FromBuses(M, r), r.start_bus .. r.end_bus)
  <1> DEFINE f == ProbeBus(M)
             lo == r.start_bus
             hi == r.end_bus
             n == IF hi < lo THEN 0 ELSE hi - lo + 1
             B(i) == lo + (i - 1)
             ss == [i \in 1 .. hi - lo + 1 |-> f[lo + i - 1]]
             s == FlattenSeq(ss)
  <1>0. lo \in Bus /\ hi \in Bus /\ Bus = 0 .. LastBus /\ LastBus \in Nat
    BY BusFacts
  <1>1. /\ n \in Nat /\ 1 .. hi - lo + 1 = 1 .. n
        /\ \A i \in 1 .. n : B(i) \in lo .. hi /\ B(i) \in Bus
        /\ \A b \in lo .. hi : b - lo + 1 \in 1 .. n /\ B(b - lo + 1) = b
        /\ \A i, j \in 1 .. n : B(i) = B(j) => i = j
    <2> HIDE DEF lo, hi
    <2>1. QED BY <1>0
  <1>2. FromBuses(M, r) = s
    BY DEF FromBuses
  <1>3. ss = [i \in 1 .. n |-> f[B(i)]]
    <2> HIDE DEF n, lo, hi, f
    <2>1. QED BY <1>1
  <1> HIDE DEF n, lo, hi, f, ss
  <1>4. ASSUME NEW i \in 1 .. n PROVE RightBus(M, ss[i], B(i))
    <2>1. ss[i] = f[B(i)] /\ B(i) \in Bus
      BY <1>1, <1>3
    <2> HIDE DEF B
    <2>2. QED BY <2>1, SearchRight DEF f
  <1>5. Len(ss) = n /\ ss \in Seq(Seq(Spot))
    <2>1. \A i \in 1 .. n : f[B(i)] \in Seq(Spot)
      BY <1>3, <1>4 DEF RightBus
    <2> HIDE DEF B
    <2>2. QED BY <1>1, <1>3, <2>1
  <1>6. \A x : /\ s \in Seq(Spot)
               /\ In(s, x) <=> \E i \in 1 .. n : In(ss[i], x)
               /\ \A i \in 1 .. n :
                    Once(ss[i], x) /\ (\A j \in 1 .. n : j # i => ~In(ss[j], x)) => Once(s, x)
    BY <1>5, FlattenIn, Zenon
  <1> HIDE DEF s
  <1>7. ASSUME NEW x, In(s, x) PROVE x.bus \in lo .. hi \/ BehindBus(M, x.bus)
    <2>1. PICK i \in 1 .. n : In(ss[i], x)
      BY <1>6, <1>7
    <2> HIDE DEF B
    <2>2. QED BY <1>1, <1>4, <2>1 DEF RightBus
  <1>8. ASSUME NEW a \in DOMAIN M.functions, a.bus \in lo .. hi
        PROVE  In(s, a) /\ (BehindBus(M, a.bus) \/ Once(s, a))
    <2> DEFINE i == a.bus - lo + 1
    <2>1. i \in 1 .. n /\ B(i) = a.bus
      BY <1>1, <1>8
    <2> HIDE DEF i, B
    <2>2. In(ss[i], a) /\ (BehindBus(M, a.bus) \/ Once(ss[i], a))
      BY <1>4, <2>1 DEF RightBus
    <2>3. ASSUME NEW j \in 1 .. n, j # i, ~BehindBus(M, a.bus) PROVE ~In(ss[j], a)
      <3>1. B(j) # a.bus
        BY <1>1, <2>1, <2>3
      <3>2. QED BY <1>4, <2>3, <3>1 DEF RightBus
    <2>4. QED BY <1>6, <2>1, <2>2, <2>3
  <1>9. RightRange(M, s, lo .. hi)
    BY <1>6, <1>7, <1>8 DEF RightRange
  <1>10. QED BY <1>2, <1>9 DEF lo, hi

\* Every function is found, once unless it is behind a bridge.
RightDevices(M, s) ==
  s \in Seq(Spot) /\ \A a \in DOMAIN M.functions : In(s, a) /\ (BehindBus(M, a.bus) \/ Once(s, a))

LEMMA DevicesRight ==
  ASSUME NEW M, SoundMachine(M)
  PROVE  RightDevices(M, Devices(M))
  <1> DEFINE all == [start_bus |-> 0, end_bus |-> LastBus]
             n == Len(M.spaces)
             R(i) == M.spaces[i].start_bus .. M.spaces[i].end_bus
             ss == [i \in DOMAIN M.spaces |-> FromBuses(M, M.spaces[i])]
             s == FlattenSeq(ss)
  <1>0. M.spaces \in Seq([start_bus : Bus, end_bus : Bus])
    BY Zenon DEF SoundMachine
  <1>1. n \in Nat /\ DOMAIN M.spaces = 1 .. n /\ \A i \in 1 .. n : M.spaces[i] \in [start_bus : Bus, end_bus : Bus]
    <2> DEFINE m == M.spaces
               S == [start_bus : Bus, end_bus : Bus]
    <2>1. m \in Seq(S)
      BY <1>0
    <2> HIDE DEF m, S
    <2>2. Len(m) \in Nat /\ DOMAIN m = 1 .. Len(m) /\ \A i \in 1 .. Len(m) : m[i] \in S
      BY <2>1
    <2>3. QED BY <2>2 DEF m, S
  <1>2. Devices(M) = s \o (IF M.spaces = <<>> THEN FromBuses(M, all) ELSE <<>>)
    BY Zenon DEF Devices, FromBuses
  <1>3. CASE M.spaces = <<>>
    <2>1. ss = <<>>
      BY <1>3
    <2>2. s = <<>>
      BY <2>1 DEF FlattenSeq
    <2>3. all \in [start_bus : Bus, end_bus : Bus] /\ all.start_bus .. all.end_bus = Bus
      BY BusFacts
    <2> DEFINE t == FromBuses(M, all)
    <2> HIDE DEF all, s
    <2>4. RightRange(M, t, Bus)
      BY <2>3, RangeRight, Zenon
    <2>5. Devices(M) = <<>> \o t
      BY <1>2, <1>3, <2>2
    <2> HIDE DEF t
    <2>6. t \in Seq(Spot)
      BY <2>4 DEF RightRange
    <2>7. Devices(M) = t
      BY <2>5, <2>6
    <2>8. \A a \in DOMAIN M.functions : a.bus \in Bus
      <3>1. \A a \in DOMAIN M.functions : a \in Spot
        BY ConfigFacts, Zenon
      <3>2. QED BY <3>1 DEF Spot
    <2>9. QED BY <2>4, <2>6, <2>7, <2>8, Zenon DEF RightDevices, RightRange
  <1>4. CASE M.spaces # <<>>
    <2>1. ASSUME NEW i \in 1 .. n PROVE RightRange(M, ss[i], R(i))
      <3>1. ss[i] = FromBuses(M, M.spaces[i]) /\ M.spaces[i] \in [start_bus : Bus, end_bus : Bus]
        BY <1>1
      <3> HIDE DEF ss
      <3>2. QED BY <3>1, RangeRight, Zenon
    <2>2. Len(ss) = n /\ ss \in Seq(Seq(Spot))
      <3>1. ss = [i \in 1 .. n |-> ss[i]]
        BY <1>1
      <3> HIDE DEF ss, n, R
      <3>2. \A i \in 1 .. n : ss[i] \in Seq(Spot)
        BY <2>1 DEF RightRange
      <3>3. QED BY <1>1, <3>1, <3>2
    <2>3. \A a \in DOMAIN M.functions : \E i \in 1 .. n : a.bus \in R(i)
      <3>1. \A a \in DOMAIN M.functions : \E i \in DOMAIN M.spaces : a.bus \in R(i)
        BY <1>4, Zenon DEF SoundMachine
      <3>2. QED BY <1>1, <3>1
    <2>4. \A i, j \in 1 .. n : i # j => R(i) \cap R(j) = {}
      <3>1. \A i, j \in DOMAIN M.spaces : i # j => R(i) \cap R(j) = {}
        BY Zenon DEF SoundMachine
      <3> HIDE DEF R
      <3>2. QED BY <1>1, <3>1
    <2> HIDE DEF ss, n, R
    <2>5. \A x : /\ s \in Seq(Spot)
                 /\ In(s, x) <=> \E i \in 1 .. n : In(ss[i], x)
                 /\ \A i \in 1 .. n :
                      Once(ss[i], x) /\ (\A j \in 1 .. n : j # i => ~In(ss[j], x)) => Once(s, x)
      BY <2>2, FlattenIn, Zenon
    <2> HIDE DEF s
    <2>6. Devices(M) = s \o <<>>
      BY <1>2, <1>4, Zenon
    <2>7. Devices(M) = s
      BY <2>5, <2>6
    <2>8. ASSUME NEW a \in DOMAIN M.functions PROVE In(s, a) /\ (BehindBus(M, a.bus) \/ Once(s, a))
      <3>1. PICK i \in 1 .. n : a.bus \in R(i)
        BY <2>3
      <3>2. In(ss[i], a) /\ (BehindBus(M, a.bus) \/ Once(ss[i], a))
        BY <2>1, <3>1 DEF RightRange
      <3>3. ASSUME NEW j \in 1 .. n, j # i, ~BehindBus(M, a.bus) PROVE ~In(ss[j], a)
        <4>1. a.bus \notin R(j)
          BY <2>4, <3>1, <3>3
        <4>2. QED BY <2>1, <3>3, <4>1 DEF RightRange
      <3>4. QED BY <2>5, <3>2, <3>3
    <2>9. QED BY <2>5, <2>7, <2>8, Zenon DEF RightDevices
  <1>5. QED BY <1>3, <1>4

Controllers(M) == {a \in DOMAIN M.functions : M.functions[a].class = "ahci"}

\* The controllers are what the scanner keeps.
LEMMA FoundRight ==
  ASSUME NEW M, SoundMachine(M)
  PROVE  LET q == k_dev_pci_find_devices(M, "ahci") IN
         /\ q \in Seq(Spot)
         /\ \A x : In(q, x) => x \in Controllers(M)
         /\ \A a \in Controllers(M) : In(q, a) /\ (BehindBus(M, a.bus) \/ Once(q, a))
  <1> DEFINE s == Devices(M)
             n == Len(s)
             Scanned(a) == IF Config(M, a).class = "ahci" THEN <<a>> ELSE <<>>
             ss == [i \in DOMAIN s |-> Scanned(s[i])]
             q == FlattenSeq(ss)
  <1>1. k_dev_pci_find_devices(M, "ahci") = q
    BY Zenon DEF k_dev_pci_find_devices
  <1>2. RightDevices(M, s)
    BY DevicesRight
  <1>3. ASSUME NEW a
        PROVE  /\ a \in Controllers(M) <=> Config(M, a).class = "ahci"
               /\ \A x : In(Scanned(a), x) <=> a \in Controllers(M) /\ x = a
               /\ a \in Controllers(M) => Once(Scanned(a), a)
               /\ a \in Spot => Scanned(a) \in Seq(Spot)
    <2>1. a \in Controllers(M) <=> Config(M, a).class = "ahci"
      BY ConfigFacts, Zenon DEF Controllers
    <2>2. CASE Config(M, a).class = "ahci"
      <3>1. Scanned(a) = <<a>>
        BY <2>2
      <3>2. a \in Spot => <<a>> \in Seq(Spot)
        BY OneSpot
      <3> HIDE DEF Scanned
      <3>3. QED BY <2>1, <2>2, <3>1, <3>2, OneIn, Zenon
    <2>3. CASE Config(M, a).class # "ahci"
      <3>1. Scanned(a) = <<>>
        BY <2>3
      <3> HIDE DEF Scanned
      <3>2. QED BY <2>1, <2>3, <3>1, NoSpots, NothingIn, Zenon
    <2>4. QED BY <2>2, <2>3
  <1>4. n \in Nat /\ DOMAIN s = 1 .. n /\ \A i \in 1 .. n : s[i] \in Spot /\ ss[i] = Scanned(s[i])
    <2>1. s \in Seq(Spot)
      BY <1>2 DEF RightDevices
    <2> HIDE DEF s, Scanned
    <2>2. QED BY <2>1
  <1>5. Len(ss) = n /\ ss \in Seq(Seq(Spot))
    <2>1. \A i \in 1 .. n : ss[i] \in Seq(Spot)
      <3> HIDE DEF Scanned, ss, n, s
      <3>1. QED BY <1>3, <1>4
    <2>2. ss = [i \in 1 .. n |-> ss[i]]
      <3> HIDE DEF n, s, Scanned
      <3>1. QED BY <1>4
    <2> HIDE DEF ss, n
    <2>3. QED BY <1>4, <2>1, <2>2
  <1> HIDE DEF s, ss, n, Scanned
  <1>6. \A x : /\ q \in Seq(Spot)
               /\ In(q, x) <=> \E i \in 1 .. n : In(ss[i], x)
               /\ \A i \in 1 .. n :
                    Once(ss[i], x) /\ (\A j \in 1 .. n : j # i => ~In(ss[j], x)) => Once(q, x)
    BY <1>5, FlattenIn, Zenon
  <1> HIDE DEF q
  <1>7. \A i \in 1 .. n : \A x : In(ss[i], x) <=> s[i] \in Controllers(M) /\ x = s[i]
    BY <1>3, <1>4
  <1>8. ASSUME NEW x, In(q, x) PROVE x \in Controllers(M)
    <2>1. PICK i \in 1 .. n : In(ss[i], x)
      BY <1>6, <1>8
    <2>2. QED BY <1>7, <2>1
  <1>9. ASSUME NEW a \in Controllers(M) PROVE In(q, a) /\ (BehindBus(M, a.bus) \/ Once(q, a))
    <2>1. In(s, a) /\ (BehindBus(M, a.bus) \/ Once(s, a))
      BY <1>2 DEF RightDevices, Controllers
    <2>2. In(q, a)
      <3>1. PICK i \in DOMAIN s : s[i] = a
        BY <2>1 DEF In
      <3>2. QED BY <1>4, <1>6, <1>7, <3>1
    <2>3. ASSUME Once(s, a) PROVE Once(q, a)
      <3>1. PICK i \in DOMAIN s : \A j \in DOMAIN s : s[j] = a <=> j = i
        BY <2>3 DEF Once
      <3>2. i \in 1 .. n /\ s[i] = a /\ \A j \in 1 .. n : j # i => s[j] # a
        BY <1>4, <3>1
      <3>3. Once(ss[i], a)
        BY <1>3, <1>4, <3>2
      <3>4. \A j \in 1 .. n : j # i => ~In(ss[j], a)
        BY <1>7, <3>2
      <3>5. QED BY <1>6, <3>2, <3>3, <3>4
    <2>4. QED BY <2>1, <2>2, <2>3
  <1>10. QED BY <1>1, <1>6, <1>8, <1>9

LEMMA NothingAtAll ==
  ASSUME NEW S, NEW q \in Seq(S)
  PROVE  q = <<>> <=> \A x : ~In(q, x)
  <1>1. CASE q = <<>>
    BY <1>1, NothingIn, Zenon
  <1>2. CASE q # <<>>
    <2>1. 1 \in DOMAIN q
      BY <1>2
    <2>2. In(q, q[1])
      BY <2>1 DEF In
    <2>3. QED BY <1>2, <2>2, Zenon
  <1>3. QED BY <1>1, <1>2

LEMMA NothingElse ==
  ASSUME NEW S, NEW q \in Seq(S), NEW a, Once(q, a), \A x : In(q, x) => x = a
  PROVE  q # <<>> /\ Tail(q) = <<>>
  <1>1. PICK i \in DOMAIN q : \A j \in DOMAIN q : q[j] = a <=> j = i
    BY DEF Once
  <1>2. \A j \in DOMAIN q : j = i
    <2>1. \A j \in DOMAIN q : In(q, q[j])
      BY DEF In
    <2>2. QED BY <1>1, <2>1
  <1>3. Len(q) \in Nat /\ DOMAIN q = 1 .. Len(q)
    OBVIOUS
  <1>4. Len(q) = 1
    <2>1. i \in 1 .. Len(q) /\ \A j \in 1 .. Len(q) : j = i
      BY <1>1, <1>2, <1>3
    <2> DEFINE n == Len(q)
    <2>2. n \in Nat /\ i \in 1 .. n /\ \A j \in 1 .. n : j = i
      BY <1>3, <2>1
    <2> HIDE DEF n
    <2>3. 1 \in 1 .. n /\ n \in 1 .. n
      BY <2>2
    <2>4. n = 1
      BY <2>2, <2>3
    <2>5. QED BY <2>4 DEF n
  <1>5. Tail(q) \in Seq(S) /\ Len(Tail(q)) = 0 /\ q # <<>>
    BY <1>4
  <1>6. QED BY <1>5, EmptySeq

LEMMA OnceCounted ==
  ASSUME NEW s, NEW a, Once(s, a)
  PROVE  Cardinality({i \in DOMAIN s : s[i] = a}) = 1
  <1>1. PICK i \in DOMAIN s : \A j \in DOMAIN s : s[j] = a <=> j = i
    BY DEF Once
  <1>2. {j \in DOMAIN s : s[j] = a} = {i}
    BY <1>1
  <1>3. QED BY <1>2, FS_Singleton

(* load() makes the disks it can talk to devices, once each, and the search *)
(* finds every function, whatever hangs on the buses.                       *)
THEOREM DisksNamed == SoundMachines => (Spec => []DiskNodes)
  <1> SUFFICES ASSUME SoundMachines PROVE Spec => []DiskNodes
    OBVIOUS
  <1>1. BootInv => DiskNodes
    <2> SUFFICES ASSUME BootInv, stage = "done" PROVE DiskNodes
      BY DEF DiskNodes
    <2> DEFINE M == setup.machine
               q == Found
    <2>1. /\ SoundMachine(M)
          /\ \A a, b \in Controllers(M) : a = b
      <3>1. setup \in Setups
        BY DEF BootInv
      <3>2. QED BY <3>1, Zenon DEF SoundMachines, Controllers
    <2>2. /\ \A a : IsAhci(a) <=> a \in Controllers(M)
          /\ \A a \in Controllers(M) : a \in DOMAIN M.functions
          /\ \A a : Behind(a) <=> BehindBus(M, a.bus)
      <3>1. \A a : Behind(a) <=> BehindBus(M, a.bus)
        BY Zenon DEF Behind, BehindBus
      <3>2. \A a : Config(M, a).class = "ahci" <=> a \in Controllers(M)
        BY <2>1, ConfigFacts, Zenon DEF Controllers
      <3>3. QED BY <3>1, <3>2, Zenon DEF Controllers, IsAhci
    <2>3. /\ q \in Seq(Spot)
          /\ \A x : In(q, x) => x \in Controllers(M)
          /\ \A a \in Controllers(M) : In(q, a) /\ (BehindBus(M, a.bus) \/ Once(q, a))
      BY <2>1, FoundRight, Zenon DEF Found
    <2>4. RightDevices(M, Devices(M))
      BY <2>1, DevicesRight
    <2>5. \A a \in DOMAIN M.functions : a \in ToSet(Devices(M))
      BY <2>4, Zenon DEF RightDevices, In, ToSet
    <2>6. \A a \in DOMAIN M.functions :
            Behind(a) \/ Cardinality({i \in DOMAIN Devices(M) : Devices(M)[i] = a}) = 1
      BY <2>2, <2>4, OnceCounted, Zenon DEF RightDevices
    <2>7. IsInjective(disks) \/ Bridged
      <3>1. CASE Controllers(M) = {}
        <4>1. q = <<>>
          BY <2>3, <3>1, NothingAtAll
        <4>2. disks = <<>>
          BY <4>1 DEF BootInv, NoPass
        <4>3. QED BY <4>2 DEF IsInjective
      <3>2. ASSUME NEW a \in Controllers(M), ~Behind(a) PROVE IsInjective(disks)
        <4>1. Once(q, a) /\ \A x : In(q, x) => x = a
          BY <2>1, <2>2, <2>3, <3>2, Zenon
        <4> HIDE DEF q
        <4>2. q # <<>> /\ Tail(q) = <<>>
          BY <2>3, <4>1, NothingElse
        <4>3. FoundOnce
          BY <4>2 DEF q, FoundOnce
        <4>4. QED BY <4>3 DEF BootInv, OnePass, IsInjective
      <3>3. ASSUME NEW a \in Controllers(M), Behind(a) PROVE Bridged
        BY <2>2, <3>3, Zenon DEF Bridged
      <3>4. QED BY <3>1, <3>2, <3>3, Zenon
    <2>8. ASSUME NEW a \in DOMAIN M.functions, IsAhci(a)
          PROVE  /\ ToSet(disks) \subseteq {p \in Port : Type(setup.links[p]) = "sata"}
                 /\ {p \in Port : Type(setup.links[p]) = "sata"} \ refused \subseteq ToSet(disks)
      <3>1. In(q, a)
        BY <2>2, <2>3, <2>8
      <3>2. q # <<>>
        BY <3>1, NothingIn
      <3>3. \A p \in Port : Served(p)
        BY <3>2 DEF BootInv, Progress, AtPort
      <3>4. \A i \in DOMAIN disks : disks[i] \in Port /\ Sata(disks[i])
        BY DEF BootInv, BootTypeOK
      <3>5. ToSet(disks) \subseteq {p \in Port : Sata(p)}
        BY <3>4 DEF ToSet
      <3>6. {p \in Port : Sata(p)} \ refused \subseteq ToSet(disks)
        BY <3>3 DEF Served
      <3>7. QED BY <3>5, <3>6 DEF Sata
    <2>9. QED BY <2>5, <2>6, <2>7, <2>8, Zenon DEF DiskNodes
  <1>2. QED BY <1>1, BootInvariant, PTL

----------------------------------------------------------------------------
(* The bytes of a read                                                      *)

LEMMA Division ==
  ASSUME NEW R \in Nat \ {0}, NEW n \in Nat
  PROVE  /\ n \div R \in Nat /\ n % R \in Nat /\ n % R < R
         /\ n = R * (n \div R) + (n % R)
  OBVIOUS

LEMMA Multiples ==
  ASSUME NEW R \in Nat \ {0}, NEW i \in Nat, NEW j \in Nat, R * i < R * (j + 1)
  PROVE  i <= j
  <1> SUFFICES ASSUME i >= j + 1 PROVE FALSE
    OBVIOUS
  <1>1. PICK d \in Nat : i = (j + 1) + d
    <2>1. i - (j + 1) \in Nat /\ i = (j + 1) + (i - (j + 1))
      OBVIOUS
    <2>2. QED BY <2>1
  <1>2. R * i = R * (j + 1) + R * d /\ R * d >= 0
    BY <1>1
  <1>3. QED BY <1>2

LEMMA PaddedFacts ==
  ASSUME NEW bytes \in Nat
  PROVE  Padded(bytes) \in Nat /\ bytes <= Padded(bytes)
  <1>1. Sector \in Nat \ {0}
    BY AhciAssumption
  <1>2. CASE bytes < Sector
    <2>1. Padded(bytes) = Sector
      BY <1>1, <1>2 DEF Padded
    <2>2. QED BY <1>1, <1>2, <2>1
  <1>3. CASE ~(bytes < Sector)
    <2> DEFINE m == bytes + Sector - 1
               d == m \div Sector
    <2>1. m \in Nat /\ bytes = m - (Sector - 1)
      BY <1>1
    <2>2. Padded(bytes) = Sector * d
      BY <1>3 DEF Padded
    <2> HIDE DEF m
    <2>3. d \in Nat /\ m % Sector \in Nat /\ m % Sector < Sector /\ m = Sector * d + (m % Sector)
      BY <1>1, <2>1, Division
    <2> HIDE DEF d
    <2> DEFINE x == Sector * d
               y == m % Sector
    <2>4. x \in Nat
      BY <1>1, <2>3
    <2> HIDE DEF x, y
    <2>5. y \in Nat /\ y < Sector /\ m = x + y
      BY <2>3 DEF x, y
    <2>6. bytes <= x
      BY <1>1, <2>1, <2>4, <2>5
    <2>7. QED BY <2>2, <2>4, <2>6 DEF x
  <1>4. QED BY <1>2, <1>3

LEMMA FirstBlock == Lba(0 \div Sector) = 0
  <1> DEFINE five == Field * Field * Field * Field * Field
  <1>1. Sector \in Nat \ {0} /\ Field \in Nat \ {0}
    BY AhciAssumption
  <1>2. 0 \div Sector = 0
    BY <1>1
  <1>3. five \in Nat \ {0}
    <2>1. \A x \in Nat \ {0} : x * Field \in Nat \ {0}
      BY <1>1
    <2>2. QED BY <1>1, <2>1
  <1>4. Lba(0) = (0 % five) + five * ((0 \div (five * Field)) % Field)
    BY DEF Lba
  <1> HIDE DEF five
  <1>5. five * Field \in Nat \ {0}
    BY <1>1, <1>3
  <1> DEFINE six == five * Field
  <1> HIDE DEF six
  <1>6. six \in Nat \ {0}
    BY <1>5 DEF six
  <1>7. 0 % five = 0 /\ 0 \div six = 0 /\ 0 % Field = 0
    BY <1>1, <1>3, <1>6
  <1>8. five * 0 = 0
    BY <1>3
  <1>9. QED BY <1>2, <1>4, <1>7, <1>8 DEF six

LEMMA CountIsNat ==
  ASSUME NEW size \in Nat, NEW i \in Nat
  PROVE  dbc(size, i) \in Nat
  <1> DEFINE left == size - Region * ((i * (i - 1)) \div 2)
  <1>1. Region \in Nat \ {0}
    BY AhciAssumption
  <1>2. (i * (i - 1)) \div 2 \in Int
    <2> DEFINE m == i * (i - 1)
    <2>1. m \in Int
      OBVIOUS
    <2> HIDE DEF m
    <2>2. m \div 2 \in Int
      BY <2>1
    <2>3. QED BY <2>2 DEF m
  <1>3. left \in Int
    BY <1>1, <1>2
  <1>4. dbc(size, i) = IF left >= 0 /\ left < Region THEN left ELSE Region
    BY DEF dbc
  <1> HIDE DEF left
  <1>5. QED BY <1>1, <1>3, <1>4

\* Sums of a sequence of numbers, step by step.
Sums(n, d, f) ==
  /\ f \in [0 .. n -> Nat] /\ f[0] = 0
  /\ \A i \in 1 .. n : f[i] = f[i - 1] + d[i - 1] + 1

LEMMA SumsExist ==
  ASSUME NEW n \in Nat, NEW d \in [Nat -> Nat]
  PROVE  \E f : Sums(n, d, f)
  <1> DEFINE K == {k \in 0 .. n : \E f : Sums(k, d, f)}
  <1>1. 0 \in K
    <2>1. Sums(0, d, [i \in 0 .. 0 |-> 0])
      BY DEF Sums
    <2>2. QED BY <2>1
  <1>2. ASSUME NEW k \in 0 .. n, k \in K, k # n PROVE k + 1 \in K
    <2>1. PICK f : Sums(k, d, f)
      BY <1>2
    <2> DEFINE g == [i \in 0 .. k + 1 |-> IF i = k + 1 THEN f[k] + d[k] + 1 ELSE f[i]]
    <2>2. k \in Nat /\ f[k] \in Nat /\ d[k] \in Nat /\ k + 1 \in 0 .. n
      BY <1>2, <2>1 DEF Sums
    <2>3. \A i \in 0 .. k + 1 : i = k + 1 \/ i \in 0 .. k
      BY <2>2
    <2>4. g \in [0 .. k + 1 -> Nat]
      <3>1. f[k] + d[k] + 1 \in Nat
        BY <2>2
      <3>2. \A i \in 0 .. k : f[i] \in Nat
        BY <2>1 DEF Sums
      <3>3. \A i \in 0 .. k + 1 : (IF i = k + 1 THEN f[k] + d[k] + 1 ELSE f[i]) \in Nat
        BY <2>3, <3>1, <3>2
      <3>4. QED BY <3>3
    <2>5. g[0] = 0
      BY <2>1, <2>2 DEF Sums
    <2>6. \A i \in 1 .. k + 1 : g[i] = g[i - 1] + d[i - 1] + 1
      <3> SUFFICES ASSUME NEW i \in 1 .. k + 1 PROVE g[i] = g[i - 1] + d[i - 1] + 1
        OBVIOUS
      <3>1. i - 1 \in 0 .. k + 1 /\ i - 1 # k + 1 /\ g[i - 1] = f[i - 1]
        BY <2>2
      <3>2. CASE i = k + 1
        BY <2>2, <3>1, <3>2
      <3>3. CASE i # k + 1
        <4>1. i \in 1 .. k /\ g[i] = f[i]
          BY <2>2, <3>3
        <4>2. f[i] = f[i - 1] + d[i - 1] + 1
          BY <2>1, <4>1 DEF Sums
        <4>3. QED BY <3>1, <4>1, <4>2
      <3>4. QED BY <3>2, <3>3
    <2>7. Sums(k + 1, d, g)
      BY <2>4, <2>5, <2>6 DEF Sums
    <2>8. QED BY <2>2, <2>7
  <1>3. \A k \in 0 .. n : k \in K
    <2> HIDE DEF K
    <2>1. QED BY <1>1, <1>2, Ladder
  <1>4. QED BY <1>3

BeforeStep(size, f, i) == IF i = 0 THEN 0 ELSE f[i - 1] + dbc(size, i - 1) + 1

\* What the entries before one take.
LEMMA BeforeIs ==
  ASSUME NEW size \in Nat, Entries(size) \in Nat
  PROVE  /\ Before(size)[0] = 0
         /\ \A i \in 1 .. Entries(size) :
              Before(size)[i] = Before(size)[i - 1] + dbc(size, i - 1) + 1
  <1> DEFINE n == Entries(size)
             d == [i \in Nat |-> dbc(size, i)]
             Solves(f) == f = [i \in 0 .. n |-> BeforeStep(size, f, i)]
  <1>1. d \in [Nat -> Nat]
    BY CountIsNat
  <1>2. PICK f : Sums(n, d, f)
    <2> HIDE DEF d, n
    <2>1. QED BY <1>1, SumsExist DEF n
  <1>3. Solves(f)
    <2>1. \A i \in 0 .. n : f[i] = BeforeStep(size, f, i)
      <3> SUFFICES ASSUME NEW i \in 0 .. n PROVE f[i] = BeforeStep(size, f, i)
        OBVIOUS
      <3>1. CASE i = 0
        BY <1>2, <3>1 DEF Sums, BeforeStep
      <3>2. CASE i # 0
        <4>1. i \in 1 .. n /\ i - 1 \in Nat
          BY <3>2
        <4>2. f[i] = f[i - 1] + d[i - 1] + 1 /\ d[i - 1] = dbc(size, i - 1)
          BY <1>2, <4>1 DEF Sums
        <4>3. QED BY <3>2, <4>2 DEF BeforeStep
      <3>3. QED BY <3>1, <3>2
    <2>2. f = [i \in 0 .. n |-> f[i]]
      BY <1>2 DEF Sums
    <2>3. [i \in 0 .. n |-> f[i]] = [i \in 0 .. n |-> BeforeStep(size, f, i)]
      BY <2>1, Zenon
    <2> HIDE DEF n
    <2>4. QED BY <2>2, <2>3
  <1>4. Before(size) = CHOOSE g : Solves(g)
    BY Zenon DEF Before, BeforeStep
  <1>5. Solves(Before(size))
    <2> HIDE DEF Solves
    <2>1. QED BY <1>3, <1>4
  <1>6. \A i \in 0 .. n : Before(size)[i] = BeforeStep(size, Before(size), i)
    BY <1>5, Zenon
  <1>7. 0 \in 0 .. n /\ \A i \in 1 .. n : i \in 0 .. n /\ i # 0
    OBVIOUS
  <1> HIDE DEF n
  <1>8. QED BY <1>6, <1>7 DEF BeforeStep, n

\* Every entry begins inside the transfer, and there is one for what there is.
LEMMA EntriesFacts ==
  ASSUME NEW size \in Nat \ {0}
  PROVE  /\ Entries(size) \in Nat \ {0}
         /\ \A i \in 0 .. Entries(size) - 1 : Region * i < size
  <1> DEFINE n == size \div Region
             y == size % Region
             x == Region * n
  <1>1. Region \in Nat \ {0}
    BY AhciAssumption
  <1>2. n \in Nat /\ y \in Nat /\ y < Region /\ size = x + y
    BY <1>1, Division
  <1>3. Entries(size) = n + (IF y = 0 THEN 0 ELSE 1)
    BY DEF Entries
  <1>4. x \in Nat
    BY <1>1, <1>2
  <1>5. y = 0 => n # 0
    BY <1>1, <1>2
  <1>6. Entries(size) \in Nat \ {0}
    <2> HIDE DEF n, x, y
    <2>1. QED BY <1>2, <1>3, <1>5
  <1>7. ASSUME NEW i \in 0 .. Entries(size) - 1 PROVE Region * i < size
    <2>1. i \in Nat /\ i <= n /\ (y = 0 => i <= n - 1)
      <3> HIDE DEF n, x, y
      <3>1. QED BY <1>2, <1>3, <1>6
    <2>2. Region * i <= Region * n
      <3> HIDE DEF n
      <3>1. QED BY <1>1, <1>2, <2>1
    <2>3. y = 0 => Region * i <= Region * n - Region
      <3> HIDE DEF n
      <3>1. Region * (n - 1) = Region * n - Region
        BY <1>1, <1>2
      <3>2. y = 0 => Region * i <= Region * (n - 1)
        BY <1>1, <1>2, <2>1
      <3>3. QED BY <3>1, <3>2
    <2> DEFINE z == Region * i
    <2>4. z \in Nat /\ z <= x /\ (y = 0 => z <= x - Region)
      BY <1>1, <2>1, <2>2, <2>3
    <2> HIDE DEF n, x, y, z
    <2>5. z < size
      BY <1>1, <1>2, <1>4, <2>4
    <2>6. QED BY <2>5 DEF z
  <1>8. QED BY <1>6, <1>7

\* The first region of a read from a sector's beginning is the disk's.
LEMMA ReturnedRight ==
  ASSUME NEW q, q.start = 0, q.bytes \in Nat, NEW i \in 1 .. q.bytes, i <= Region
  PROVE  Returned(q)[i] = q.start + i - 1
  <1> DEFINE size == Padded(q.bytes)
             o == i - 1
             W == Writers(size, o)
             j == CHOOSE k \in W : \A l \in W : l <= k
  <1>1. Region \in Nat \ {0} /\ o \in Nat /\ o < Region /\ 0 * Sector = 0
    BY AhciAssumption
  <1>2. size \in Nat \ {0} /\ o < size
    <2>1. size \in Nat /\ q.bytes <= size
      BY PaddedFacts
    <2> HIDE DEF size
    <2>2. QED BY <2>1
  <1>3. /\ Entries(size) \in Nat \ {0} /\ Before(size)[0] = 0
        /\ dbc(size, 0) = IF size < Region THEN size ELSE Region
    <2>1. Entries(size) \in Nat \ {0}
      BY <1>2, EntriesFacts
    <2>2. Before(size)[0] = 0
      BY <1>2, <2>1, BeforeIs
    <2> HIDE DEF size
    <2>3. (0 * (0 - 1)) \div 2 = 0 /\ Region * 0 = 0
      BY <1>1
    <2>4. dbc(size, 0) = IF size < Region THEN size ELSE Region
      BY <1>1, <1>2, <2>3 DEF dbc
    <2>5. QED BY <2>1, <2>2, <2>4
  <1>4. W = {0}
    <2> HIDE DEF size, o
    <2>1. 0 \in W
      BY <1>1, <1>2, <1>3 DEF Writers
    <2>2. ASSUME NEW k \in W PROVE k = 0
      <3>1. k \in Nat /\ Region * k <= o
        BY <1>3 DEF Writers
      <3>2. Region * k < Region * (0 + 1)
        BY <1>1, <3>1
      <3>3. k <= 0
        BY <1>1, <3>1, <3>2, Multiples
      <3>4. QED BY <3>1, <3>3
    <2> HIDE DEF W
    <2>3. QED BY <2>1, <2>2
  <1>5. j = 0
    <2>1. \E k \in W : \A l \in W : l <= k
      BY <1>4
    <2> HIDE DEF W
    <2>2. j \in W
      BY <2>1
    <2> HIDE DEF j
    <2>3. QED BY <1>4, <2>2
  <1> DEFINE At1(x) == IF Writers(size, x) = {} THEN Junk
                       ELSE LET k == CHOOSE m \in Writers(size, x) : \A l \in Writers(size, x) : l <= m
                            IN Lba(q.start \div Sector) * Sector + Before(size)[k] + (x - Region * k)
             D == 0 .. Region * Entries(size)
  <1>6. DmaBuffer(q) = [x \in D |-> At1(x)]
    BY Zenon DEF DmaBuffer
  <1>7. o \in D
    <2> HIDE DEF size
    <2>1. Region * Entries(size) >= Region * 1
      BY <1>1, <1>3
    <2>2. QED BY <1>1, <1>3, <2>1
  <1>8. DmaBuffer(q)[o] = At1(o)
    <2> HIDE DEF At1, D, o
    <2>1. QED BY <1>6, <1>7
  <1>9. At1(o) = Lba(0 \div Sector) * Sector + Before(size)[j] + (o - Region * j)
    <2>1. W # {}
      BY <1>4
    <2>2. At1(o) = IF W = {} THEN Junk
                   ELSE Lba(q.start \div Sector) * Sector + Before(size)[j] + (o - Region * j)
      BY Zenon
    <2> HIDE DEF W, j, At1
    <2>3. QED BY <2>1, <2>2
  <1>10. DmaBuffer(q)[o] = o
    <2> HIDE DEF At1, j, size, o
    <2>1. QED BY <1>1, <1>3, <1>5, <1>8, <1>9, FirstBlock
  <1>11. q.start - (q.start % Sector) = 0
    BY AhciAssumption
  <1>12. DOMAIN DmaBuffer(q) = D
    BY <1>6, Zenon
  <1> DEFINE R1(x) == IF 0 + x - 1 \in DOMAIN DmaBuffer(q) THEN DmaBuffer(q)[0 + x - 1] ELSE Junk
  <1>13. Returned(q) = [x \in 1 .. q.bytes |-> R1(x)]
    BY <1>11, Zenon DEF Returned
  <1>14. Returned(q)[i] = R1(i) /\ 0 + i - 1 = o
    <2> HIDE DEF R1
    <2>1. QED BY <1>13
  <1> HIDE DEF D, At1
  <1>15. QED BY <1>7, <1>10, <1>12, <1>14

\* Below six regions every entry but the last describes a whole one.
LEMMA EntriesWhole ==
  ASSUME NEW size \in Nat, size < 6 * Region, NEW i \in Nat, Region * (i + 1) < size
  PROVE  dbc(size, i) = Region /\ i \in {0, 1, 2, 3, 4}
  <1>1. Region \in Nat \ {0}
    BY AhciAssumption
  <1>2. i \in {0, 1, 2, 3, 4}
    <2>1. Region * (i + 1) < Region * (5 + 1)
      BY <1>1
    <2>2. i + 1 <= 5
      BY <1>1, <2>1, Multiples
    <2>3. QED BY <2>2
  <1> DEFINE left == size - Region * ((i * (i - 1)) \div 2)
  <1>3. dbc(size, i) = IF left >= 0 /\ left < Region THEN left ELSE Region
    BY DEF dbc
  <1>4. CASE i \in {0, 1}
    <2>1. left = size
      BY <1>1, <1>4
    <2> HIDE DEF left
    <2>2. QED BY <1>1, <1>3, <1>4, <2>1
  <1>5. CASE i \in {2, 3}
    <2>1. left = size - Region * (IF i = 2 THEN 1 ELSE 3)
      BY <1>1, <1>5
    <2> HIDE DEF left
    <2>2. QED BY <1>1, <1>3, <1>5, <2>1
  <1>6. CASE i = 4
    <2>1. left = size - Region * 6
      BY <1>1, <1>6
    <2> HIDE DEF left
    <2>2. QED BY <1>1, <1>3, <1>6, <2>1
  <1>7. QED BY <1>2, <1>4, <1>5, <1>6

\* So what an entry moves comes from as many bytes further on as there are
\* entries before it, and is at its end before the buffer is.
LEMMA BufferKept ==
  ASSUME NEW q, q.bytes \in Nat
  PROVE  InBuffer(q)
  <1> DEFINE size == Padded(q.bytes)
             D == 0 .. Region * Entries(size)
             At1(x) == IF Writers(size, x) = {} THEN Junk
                       ELSE LET k == CHOOSE m \in Writers(size, x) : \A l \in Writers(size, x) : l <= m
                            IN Lba(q.start \div Sector) * Sector + Before(size)[k] + (x - Region * k)
  <1> SUFFICES ASSUME size < 6 * Region, NEW o \in DOMAIN DmaBuffer(q), size <= o
               PROVE  DmaBuffer(q)[o] = Junk
    BY DEF InBuffer
  <1>1. DmaBuffer(q) = [x \in D |-> At1(x)]
    BY Zenon DEF DmaBuffer
  <1>2. o \in D /\ DmaBuffer(q)[o] = At1(o)
    <2> HIDE DEF D, At1
    <2>1. QED BY <1>1
  <1>3. Region \in Nat \ {0} /\ size \in Nat
    BY AhciAssumption, PaddedFacts
  <1>4. SUFFICES Writers(size, o) = {}
    BY <1>2
  <1> HIDE DEF At1
  <1>5. SUFFICES ASSUME NEW j \in Writers(size, o) PROVE FALSE
    OBVIOUS
  <1> HIDE DEF size
  <1>6. /\ j \in 0 .. Entries(size) - 1
        /\ Region * j <= o /\ Before(size)[j] + (o - Region * j) < size
    BY <1>5 DEF Writers
  <1>7. size # 0
    <2>1. size = 0 => Entries(size) = 0
      BY <1>3 DEF Entries
    <2>2. QED BY <1>6, <2>1
  <1>8. Entries(size) \in Nat \ {0} /\ Region * j < size /\ j \in Nat
    BY <1>3, <1>6, <1>7, EntriesFacts
  <1>9. o \in Nat
    <2>1. Region * Entries(size) \in Nat
      BY <1>3, <1>8
    <2>2. QED BY <1>2, <2>1
  <1>10. ASSUME NEW i \in Nat, i < j
         PROVE  Before(size)[i + 1] = Before(size)[i] + Region + 1 /\ i <= 4
    <2>1. i + 1 \in 1 .. Entries(size) /\ (i + 1) - 1 = i
      BY <1>6, <1>8, <1>10
    <2>2. Region * (i + 1) <= Region * j
      BY <1>3, <1>8, <1>10
    <2>3. Region * (i + 1) < size
      <3> DEFINE x == Region * (i + 1)
                 y == Region * j
      <3>1. x \in Nat /\ y \in Nat /\ x <= y /\ y < size
        BY <1>3, <1>8, <2>2
      <3> HIDE DEF x, y
      <3>2. x < size
        BY <1>3, <3>1
      <3>3. QED BY <3>2 DEF x
    <2>4. dbc(size, i) = Region /\ i <= 4
      BY <1>3, <2>3, EntriesWhole
    <2>5. QED BY <1>3, <1>8, <2>1, <2>4, BeforeIs
  <1>11. j <= 5
    <2>1. j # 0 => j - 1 \in Nat /\ j - 1 < j
      BY <1>8
    <2>2. j # 0 => j - 1 <= 4
      BY <1>10, <2>1
    <2>3. QED BY <1>8, <2>2
  <1>12. Before(size)[j] = Region * j + j
    <2> DEFINE B(k) == Before(size)[k]
    <2>1. B(0) = 0
      BY <1>3, <1>8, BeforeIs
    <2>2. /\ j >= 1 => B(1) = B(0) + Region + 1
          /\ j >= 2 => B(2) = B(1) + Region + 1
          /\ j >= 3 => B(3) = B(2) + Region + 1
          /\ j >= 4 => B(4) = B(3) + Region + 1
          /\ j >= 5 => B(5) = B(4) + Region + 1
      <3>1. \A k \in Nat : k < j => B(k + 1) = B(k) + Region + 1
        BY <1>10
      <3> HIDE DEF B
      <3>2. /\ 0 < j => B(0 + 1) = B(0) + Region + 1
            /\ 1 < j => B(1 + 1) = B(1) + Region + 1
            /\ 2 < j => B(2 + 1) = B(2) + Region + 1
            /\ 3 < j => B(3 + 1) = B(3) + Region + 1
            /\ 4 < j => B(4 + 1) = B(4) + Region + 1
        BY <3>1
      <3>3. QED BY <1>8, <3>2
    <2>3. j \in {0, 1, 2, 3, 4, 5}
      BY <1>8, <1>11
    <2> HIDE DEF B
    <2>4. B(j) = Region * j + j
      BY <1>3, <2>1, <2>2, <2>3
    <2>5. QED BY <2>4 DEF B
  <1>13. Before(size)[j] + (o - Region * j) = o + j
    <2> DEFINE x == Region * j
    <2>1. x \in Nat /\ Before(size)[j] = x + j
      BY <1>3, <1>8, <1>12
    <2> HIDE DEF x
    <2>2. Before(size)[j] + (o - x) = o + j
      BY <1>8, <1>9, <2>1
    <2>3. QED BY <2>2 DEF x
  <1>14. QED BY <1>3, <1>6, <1>8, <1>9, <1>13

\* Whoever is reading, or has read something, has asked for it.
Asked ==
  \A r \in Reader : pc[r] # "user" \/ outcome[r] = "ok" => request[r] \in setup.asks[r]

LEMMA AskedStep ==
  ASSUME ReadTypes, Asked, setup' = setup, Reading \/ UNCHANGED rvars
  PROVE  Asked'
  <1> USE DEF ReadTypes, TypeOK, Asked, Goto, At, device, queues, result
  <1>1. ASSUME NEW r \in Reader, Start(r) PROVE Asked'
    BY <1>1 DEF Start
  <1>2. ASSUME NEW r \in Reader, GetSlot(r) PROVE Asked'
    BY <1>2 DEF GetSlot
  <1>3. ASSUME NEW r \in Reader, SleepForSlot(r) \/ SleepForData(r) PROVE Asked'
    BY <1>3 DEF SleepForSlot, SleepForData
  <1>4. ASSUME NEW r \in Reader, Prepare(r) \/ Issue(r) \/ Finish(r) PROVE Asked'
    BY <1>4 DEF Prepare, Issue, Finish
  <1>5. ASSUME NEW r \in Reader, Spin(r) PROVE Asked'
    BY <1>5 DEF Spin
  <1>6. ASSUME NEW r \in Reader, Test(r) \/ Woken(r) PROVE Asked'
    BY <1>6 DEF Test, Woken
  <1>7. ASSUME NEW r \in Reader, Resume(r) PROVE Asked'
    BY <1>7 DEF Resume
  <1>8. ASSUME NEW s \in Slot, Transfer(s) \/ Complete(s) \/ Fail(s) PROVE Asked'
    BY <1>8 DEF Transfer, Complete, Fail
  <1>9. CASE Irq \/ UNCHANGED rvars
    BY <1>9 DEF Irq, rvars
  <1>10. QED
    BY <1>1, <1>2, <1>3, <1>4, <1>5, <1>6, <1>7, <1>8, <1>9 DEF Reading, Read

LEMMA AskedInvariant == Spec => []Asked
  <1>1. Init => Asked
    BY DEF Init, Asked
  <1>2. BootInv /\ ReadTypes /\ Asked /\ [Next]_vars => Asked'
    <2> SUFFICES ASSUME BootInv, ReadTypes, Asked, [Next]_vars PROVE Asked'
      OBVIOUS
    <2>1. setup' = setup /\ (Reading \/ UNCHANGED rvars)
      BY DisksStep DEF Next, vars
    <2>2. QED BY <2>1, AskedStep
  <1>3. QED BY <1>1, <1>2, BootInvariant, ReadTypesInvariant, PTL DEF Spec

(* A read of __ahci_read that reports success gives its caller what its own *)
(* command brought, of the disk's bytes those of the first region, whatever *)
(* else used its slot; and below six regions the device stays inside the    *)
(* buffer, whatever the sizes of sector and region.                         *)
THEOREM DataRight ==
  ASSUME Cores = 1
  PROVE  Spec => []RightData
  <1>1. BootInv /\ Asked /\ OkMeansFilled => RightData
    <2> SUFFICES ASSUME BootInv, Asked, OkMeansFilled, NEW r \in Reader,
                        pc[r] \in {"finish", "user"}, outcome[r] = "ok"
                 PROVE  /\ r \in filled
                        /\ \A i \in FirstRegion(request[r]) :
                             Returned(request[r])[i] = request[r].start + i - 1
                        /\ InBuffer(request[r])
      BY DEF RightData
    <2>1. request[r] \in [start : Nat, bytes : Nat]
      <3>1. setup.asks \in [Reader -> SUBSET [start : Nat, bytes : Nat]]
        BY AhciAssumption DEF BootInv
      <3>2. request[r] \in setup.asks[r]
        BY DEF Asked
      <3>3. QED BY <3>1, <3>2
    <2> DEFINE q == request[r]
    <2>2. q.start \in Nat /\ q.bytes \in Nat
      BY <2>1
    <2> HIDE DEF q
    <2>3. ASSUME NEW i \in FirstRegion(q) PROVE Returned(q)[i] = q.start + i - 1
      <3>1. q.start = 0 /\ i \in 1 .. q.bytes /\ i <= Region
        BY DEF FirstRegion
      <3>2. QED BY <2>2, <3>1, ReturnedRight
    <2>4. InBuffer(q)
      BY <2>2, BufferKept
    <2>5. QED BY <2>3, <2>4 DEF OkMeansFilled, q
  <1>2. QED BY <1>1, BootInvariant, AskedInvariant, ReadsFilled, PTL
=============================================================================
