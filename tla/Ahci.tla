-------------------------------- MODULE Ahci --------------------------------
(***************************************************************************)
(* Reading bytes from the first SATA disk that AhciStart finds:            *)
(* modules/ahci/main.c with its use of k_process_sleep_on_queue and        *)
(* k_process_wakeup_queue.  Kernel code is not preempted, so at most Cores *)
(* readers are in it at a time, and the interrupt needs a core that is     *)
(* not.  A reader's way is cut where it looks at or writes a register or   *)
(* gives up its core.                                                      *)
(***************************************************************************)
EXTENDS AhciStart

CONSTANTS Reader, NSlots, Cores,
          MaxReads,   \* bound: how often each reader reads
          Sector,     \* bytes in a sector
          Region,     \* bytes one entry of a command table may describe: 8K
          Field,      \* the values of a byte of the block address: 256
          None,       \* no slot, no command table
          Freed,      \* a command table whose buffer was given back after its read
          Dropped     \* one whose buffer was given back by a read that returned an error

Slot == 0 .. NSlots - 1

ASSUME AhciAssumption ==
  /\ NSlots \in Nat \ {0} /\ Cores \in Nat \ {0} /\ MaxReads \in Nat
  /\ Sector \in Nat \ {0} /\ Region \in Nat \ {0} /\ Field \in Nat \ {0}
  /\ \A m \in Setups : m.asks \in [Reader -> SUBSET [start : Nat, bytes : Nat]]
  /\ None \notin {Freed, Dropped} /\ Freed # Dropped
  /\ {None, Freed, Dropped} \cap (Reader \union Slot) = {}

VARIABLES
  pc,         \* where each reader is
  request,    \* what it reads
  cpu,        \* the readers that occupy a core in the kernel
  slot,       \* the slot each has chosen
  header,     \* the command list: whose table a slot's header points to
  ci,         \* PxCI: the slots whose command is issued and not completed
  transferred,\* those of them whose data the device has already moved
  processed,  \* bit 5 of PxIS: a descriptor with its I bit set was processed
  halted,     \* the device has met an error and waits to be restarted
  irq,        \* the interrupt line is asserted
  waiters, cmd_waiters,
  filled,     \* the readers whose buffer holds the data they asked for
  stray,      \* what kinds of given-back buffers the device has written into
  outcome,    \* what the last read of each returned
  reads       \* how many reads each has begun

rvars == <<pc, request, cpu, slot, header, ci, transferred, processed, halted, irq, waiters,
           cmd_waiters, filled, stray, outcome, reads>>
vars == <<boot, rvars>>

Outside == {"user", "asleep", "queued"}
Inside == {"slot", "full", "prepare", "busy", "issue", "test", "wait", "woken", "finish"}

TypeOK ==
  /\ BootTypeOK
  /\ DOMAIN request = Reader /\ \A r \in Reader : request[r] \in setup.asks[r] \union {None}
  /\ pc \in [Reader -> Outside \union Inside]
  /\ cpu \subseteq Reader /\ Cardinality(cpu) <= Cores
  /\ slot \in [Reader -> Slot \union {None}]
  /\ header \in [Slot -> Reader \union {None, Freed, Dropped}]
  /\ ci \subseteq Slot /\ transferred \subseteq ci
  /\ {processed, halted, irq} \subseteq BOOLEAN /\ stray \subseteq {Freed, Dropped}
  /\ waiters \subseteq Reader /\ cmd_waiters \subseteq Reader
  /\ filled \subseteq Reader
  /\ outcome \in [Reader -> {"none", "ok", "error"}]
  /\ reads \in [Reader -> 0 .. MaxReads]

Init ==
  /\ BootInit
  /\ request = [r \in Reader |-> None]
  /\ pc = [r \in Reader |-> "user"] /\ cpu = {}
  /\ slot = [r \in Reader |-> None] /\ header = [s \in Slot |-> None]
  /\ ci = {} /\ transferred = {} /\ processed = FALSE /\ halted = FALSE
  /\ irq = (setup.line # "off")
  /\ waiters = {} /\ cmd_waiters = {}
  /\ filled = {} /\ stray = {}
  /\ outcome = [r \in Reader |-> "none"]
  /\ reads = [r \in Reader |-> 0]

----------------------------------------------------------------------------
(* The bytes of a read                                                      *)

Junk == -1

\* What __ahci_read makes of the number of bytes: whole sectors.
Padded(bytes) == Sector * (IF bytes < Sector THEN 1 ELSE (bytes + Sector - 1) \div Sector)

\* __ahci_init_prdt_for_buffer: the bytes entry i describes.  What is left is
\* reduced by i regions each time; below zero it is a huge number.
dbc(size, i) ==
  LET left == size - Region * ((i * (i - 1)) \div 2)
  IN IF left >= 0 /\ left < Region THEN left ELSE Region

\* The six bytes of the block address: the last is taken from one byte too far.
Lba(n) ==
  LET five == Field * Field * Field * Field * Field
  IN (n % five) + five * ((n \div (five * Field)) % Field)

Entries(size) == size \div Region + (IF size % Region = 0 THEN 0 ELSE 1)

\* A count of bytes in an entry is one less than what the device moves for it:
\* before[i] is how many the entries before i take.
Before(size) ==
  LET before[i \in 0 .. Entries(size)] ==
        IF i = 0 THEN 0 ELSE before[i - 1] + dbc(size, i - 1) + 1
  IN before

\* The entries that have the device write to offset o of the buffer.
Writers(size, o) ==
  {i \in 0 .. Entries(size) - 1 :
     /\ Region * i <= o /\ o <= Region * i + dbc(size, i)
     /\ Before(size)[i] + (o - Region * i) < size}

\* The disk sends the bytes from there on, and entry after entry takes its part;
\* where two overlap the later one stays.
DmaBuffer(q) ==
  LET size == Padded(q.bytes)
      At0(o) == LET i == CHOOSE j \in Writers(size, o) : \A k \in Writers(size, o) : k <= j
                IN IF Writers(size, o) = {} THEN Junk
                   ELSE Lba(q.start \div Sector) * Sector + Before(size)[i] + (o - Region * i)
  IN [o \in 0 .. Region * Entries(size) |-> At0(o)]

\* What is copied to the caller, from tmp + (start - start % 512) on.
Returned(q) ==
  LET image == DmaBuffer(q)
      from == q.start - (q.start % Sector)
  IN [i \in 1 .. q.bytes |-> IF from + i - 1 \in DOMAIN image THEN image[from + i - 1] ELSE Junk]

Goto(r, label) == pc' = [pc EXCEPT ![r] = label]
At(r, label) == pc[r] = label /\ r \in cpu
device == <<header, ci, transferred, halted, irq, filled, stray>>
queues == <<waiters, cmd_waiters>>
result == <<outcome, reads, request>>

\* __ahci_read: a buffer; __ahci_read_sectors clears the port's status.
Start(r) ==
  /\ stage = "done" /\ disks # <<>>
  /\ \E q \in setup.asks[r] : request' = [request EXCEPT ![r] = q]
  /\ pc[r] = "user" /\ Cardinality(cpu) < Cores
  /\ cpu' = cpu \union {r} /\ Goto(r, "slot")
  /\ reads[r] < MaxReads /\ reads' = [reads EXCEPT ![r] = @ + 1]
  /\ filled' = filled \ {r} /\ processed' = FALSE
  /\ UNCHANGED <<slot, header, ci, transferred, halted, irq, queues, stray, outcome>>

\* Mutant: PxCI is not looked at.
GetFirstSlot(r) ==
  /\ At(r, "slot")
  /\ slot' = [slot EXCEPT ![r] = 0] /\ Goto(r, "prepare")
  /\ UNCHANGED <<cpu, device, processed, queues, result>>

\* __get_cmd_slot: the first slot that is not in use, if there is one.
GetSlot(r) ==
  /\ At(r, "slot")
  /\ \/ /\ Slot \subseteq ci
        /\ Goto(r, "full") /\ UNCHANGED slot
     \/ \E s \in Slot \ ci :
          /\ \A t \in Slot \ ci : s <= t
          /\ slot' = [slot EXCEPT ![r] = s] /\ Goto(r, "prepare")
  /\ UNCHANGED <<cpu, device, processed, queues, result>>

\* k_process_sleep_on_queue, on either queue.
SleepForSlot(r) ==
  /\ At(r, "full")
  /\ cmd_waiters' = cmd_waiters \union {r}
  /\ cpu' = cpu \ {r} /\ Goto(r, "queued")
  /\ UNCHANGED <<slot, device, processed, waiters, result>>

\* Mutant: the header of the slot is left as its last user wrote it.
PrepareOnce(r) ==
  /\ At(r, "prepare")
  /\ header' = [header EXCEPT ![slot[r]] = IF @ = None THEN r ELSE @]
  /\ Goto(r, "busy")
  /\ UNCHANGED <<cpu, slot, ci, transferred, processed, halted, irq, queues, filled, stray, result>>

\* The command header and __ahci_init_prdt_for_buffer.
Prepare(r) ==
  /\ At(r, "prepare")
  /\ header' = [header EXCEPT ![slot[r]] = r]
  /\ Goto(r, "busy")
  /\ UNCHANGED <<cpu, slot, ci, transferred, processed, halted, irq, queues, filled, stray, result>>

\* The bounded spin on PxTFD ends, or gives up and clears the header.
Spin(r) ==
  /\ At(r, "busy")
  /\ \/ Goto(r, "issue") /\ UNCHANGED <<header, outcome>>
     \/ /\ Errors
        /\ header' = [header EXCEPT ![slot[r]] = None]
        /\ outcome' = [outcome EXCEPT ![r] = "error"] /\ Goto(r, "finish")
  /\ UNCHANGED <<cpu, slot, ci, transferred, processed, halted, irq, queues, filled, stray, reads, request>>

Issue(r) ==
  /\ At(r, "issue")
  /\ ci' = ci \union {slot[r]} /\ Goto(r, "test")
  /\ UNCHANGED <<cpu, slot, header, transferred, processed, halted, irq, queues, filled, stray, result>>

\* while(port->ci & (1 << slot))
Test(r) ==
  /\ At(r, "test")
  /\ Goto(r, IF slot[r] \in ci THEN "wait" ELSE "finish")
  /\ outcome' = [outcome EXCEPT ![r] = IF slot[r] \in ci THEN @ ELSE "ok"]
  /\ UNCHANGED <<cpu, slot, device, processed, queues, reads, request>>

SleepForData(r) ==
  /\ At(r, "wait")
  /\ waiters' = waiters \union {r}
  /\ cpu' = cpu \ {r} /\ Goto(r, "asleep")
  /\ UNCHANGED <<slot, device, processed, cmd_waiters, result>>

\* The scheduler runs a reader that has been woken.
Resume(r) ==
  /\ r \notin cpu /\ Cardinality(cpu) < Cores
  /\ \/ pc[r] = "asleep" /\ r \notin waiters /\ Goto(r, "woken")
     \/ pc[r] = "queued" /\ r \notin cmd_waiters /\ Goto(r, "slot")
  /\ cpu' = cpu \union {r}
  /\ UNCHANGED <<slot, device, processed, queues, result>>

\* Mutant: the wake-up alone is taken for the completion.
WokenDone(r) ==
  /\ At(r, "woken")
  /\ Goto(r, "finish")
  /\ outcome' = [outcome EXCEPT ![r] = IF processed THEN "error" ELSE "ok"]
  /\ UNCHANGED <<cpu, slot, device, processed, queues, reads, request>>

\* Bit 5 is taken for an error, whoever's command has set it.
Woken(r) ==
  /\ At(r, "woken")
  /\ Goto(r, IF processed THEN "finish" ELSE "test")
  /\ outcome' = [outcome EXCEPT ![r] = IF processed THEN "error" ELSE @]
  /\ UNCHANGED <<cpu, slot, device, processed, queues, reads, request>>

\* The buffer is given back; the table keeps its address.
GivenBack(r) == IF outcome[r] = "ok" THEN Freed ELSE Dropped

\* Mutant: readers that wait for a slot are not woken.
FinishNoWakeup(r) ==
  /\ At(r, "finish")
  /\ header' = [s \in Slot |-> IF header[s] = r THEN GivenBack(r) ELSE header[s]]
  /\ slot' = [slot EXCEPT ![r] = None]
  /\ cpu' = cpu \ {r} /\ Goto(r, "user")
  /\ UNCHANGED <<ci, transferred, processed, halted, irq, queues, filled, stray, result>>

\* The rest of __ahci_read: waiters for a slot are woken.
Finish(r) ==
  /\ At(r, "finish")
  /\ header' = [s \in Slot |-> IF header[s] = r THEN GivenBack(r) ELSE header[s]]
  /\ slot' = [slot EXCEPT ![r] = None]
  /\ cmd_waiters' = {}
  /\ cpu' = cpu \ {r} /\ Goto(r, "user")
  /\ UNCHANGED <<ci, transferred, processed, halted, irq, waiters, filled, stray, result>>

----------------------------------------------------------------------------
\* The device moves the data of a command where its table says, and may then
\* set bit 5; a table that was given back still says where.
Transfer(s) ==
  /\ s \in ci \ transferred /\ ~halted
  /\ transferred' = transferred \union {s}
  /\ filled' = filled \union ({header[s]} \cap Reader)
  /\ stray' = stray \union ({header[s]} \cap {Freed, Dropped})
  /\ processed' \in (IF setup.reports THEN {processed, TRUE} ELSE {processed})
  /\ UNCHANGED <<pc, cpu, slot, header, ci, halted, irq, queues, result>>

Complete(s) ==
  /\ s \in transferred /\ ~halted
  /\ ci' = ci \ {s} /\ transferred' = transferred \ {s}
  /\ UNCHANGED <<pc, cpu, slot, header, processed, halted, irq, queues, filled, stray, result>>

\* A task file error is bit 30 of PxIS, which no one looks at.
Fail(s) ==
  /\ Errors /\ s \in ci /\ ~halted
  /\ halted' = TRUE
  /\ UNCHANGED <<pc, cpu, slot, header, ci, transferred, processed, irq, queues, filled,
                 stray, result>>

\* __ahci_irq, if the line was left switched on.  Neither PxIS nor IS is cleared,
\* so a level stays, and an edge has been seen once and for all.
Irq ==
  /\ irq /\ ~intxOff /\ Cardinality(cpu) < Cores
  /\ irq' = (setup.line = "level") /\ waiters' = {}
  /\ UNCHANGED <<pc, cpu, slot, header, ci, transferred, processed, halted, cmd_waiters,
                 filled, stray, result>>

Read(r) ==
  \/ GetSlot(r) \/ SleepForSlot(r) \/ Prepare(r) \/ Spin(r) \/ Issue(r) \/ Test(r)
  \/ SleepForData(r) \/ Woken(r) \/ Finish(r)

Reading ==
  \/ \E r \in Reader : Start(r) \/ Read(r) \/ Resume(r)
  \/ \E s \in Slot : Transfer(s) \/ Complete(s) \/ Fail(s)
  \/ Irq

Next ==
  \/ Reading /\ UNCHANGED boot
  \/ Boot /\ UNCHANGED rvars

Spec == Init /\ [][Next]_vars

\* Kernel code runs on, woken readers get their turn, the device works, and a
\* line that stays asserted is answered when a core is free often enough.
Fairness ==
  /\ \A r \in Reader : WF_rvars(Read(r)) /\ SF_rvars(Resume(r))
  /\ \A s \in Slot : WF_rvars(Transfer(s)) /\ WF_rvars(Complete(s))
  /\ SF_rvars(Irq)
  /\ BootFairness

FairSpec == Spec /\ Fairness
----------------------------------------------------------------------------
InFlight(r) == slot[r] # None /\ slot[r] \in ci /\ r \notin filled
                 /\ pc[r] \in {"test", "wait", "asleep", "woken"}

(* Two reads that wait for the device never share a command slot, and the   *)
(* header of the slot is still the one its reader wrote.                    *)
SlotOwned ==
  /\ TypeOK
  /\ \A r \in Reader : InFlight(r) =>
       /\ header[slot[r]] = r
       /\ \A q \in Reader \ {r} : InFlight(q) => slot[q] # slot[r]

\* What comes back as it is on the disk: the first region of a read that starts
\* with a sector.  Every later entry is a byte off for each before it, and the
\* start inside a sector is computed as start - start % 512, right for 0 only.
FirstRegion(q) == IF q.start # 0 THEN {} ELSE {i \in 1 .. q.bytes : i <= Region}

\* From six regions on an entry in the middle falls short, and the last one may
\* have the device write behind the buffer.
InBuffer(q) ==
  Padded(q.bytes) < 6 * Region =>
    \A o \in DOMAIN DmaBuffer(q) : Padded(q.bytes) <= o => DmaBuffer(q)[o] = Junk

(* A read that returns its sectors has had its own command carried out, and *)
(* not that of whoever took its slot next; the bytes of its first region    *)
(* are the disk's, and nothing was written behind its buffer.               *)
RightData ==
  \A r \in Reader : pc[r] \in {"finish", "user"} /\ outcome[r] = "ok" =>
    /\ r \in filled
    /\ \A i \in FirstRegion(request[r]) : Returned(request[r])[i] = request[r].start + i - 1
    /\ InBuffer(request[r])

(* The device never writes to the buffer of a read that has succeeded; and  *)
(* to one given back on an error only if it sets bit 5, which lets readers  *)
(* return while their commands are still issued.                            *)
NoStrayWrite == Freed \notin stray /\ (setup.reports \/ stray = {})

\* A reader has returned because of bit 5: whoever then waits for a slot that
\* only its command holds is not woken when that command completes.
Misled == \E s \in Slot : header[s] = Dropped

(* The driver's load() comes to its end unless a disk answers its identify  *)
(* command with an error; and on a line that reports levels and is on, so   *)
(* does every read, unless the device has stopped or a reader was misled.   *)
ReadEnds ==
  /\ LoadEnds
  /\ \A r \in Reader :
       pc[r] = "slot" ~> pc[r] = "user" \/ halted \/ Misled \/ intxOff \/ setup.line # "level"
=============================================================================
