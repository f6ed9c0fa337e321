--------------------------------- MODULE Pci ---------------------------------
(***************************************************************************)
(* The search for devices on the PCI buses (kernel/dev/pci.c), as          *)
(* operators on a machine: its functions by address, and the ranges of     *)
(* buses whose configuration is mapped (without a range, it is reached     *)
(* through ports).                                                         *)
(***************************************************************************)
EXTENDS Integers, SequencesExt

CONSTANTS LastBus, LastDevice, LastFunction

ASSUME PciAssumption == {LastBus, LastDevice, LastFunction} \subseteq Nat

Bus == 0 .. LastBus

address(b, d, f) == [bus |-> b, device |-> d, function |-> f]

Zeros == [vendor |-> "zero", multi |-> FALSE, class |-> "old", secondary |-> 0]
Ones == [vendor |-> "none", multi |-> TRUE, class |-> "unknown", secondary |-> LastBus]

\* k_dev_pci_read_dword: a bus outside every mapped range reads as zeros, and
\* so looks as if it were full of devices; what does not exist reads as ones.
Config(machine, a) ==
  IF machine.spaces # <<>>
       /\ \A i \in DOMAIN machine.spaces :
            a.bus \notin machine.spaces[i].start_bus .. machine.spaces[i].end_bus
  THEN Zeros
  ELSE IF a \in DOMAIN machine.functions THEN machine.functions[a] ELSE Ones

\* Mutant: the last function is not looked for.
ProbeDeviceShort(machine, b, d, behind) ==
  LET Behind(c) == IF c.class = "bridge" THEN behind[c.secondary] ELSE <<>>
      Function(f) ==
        LET a == address(b, d, f)
            c == Config(machine, a) IN
        IF c.vendor = "none" THEN <<>> ELSE <<a>> \o Behind(c)
      first == Config(machine, address(b, d, 0))
  IN IF first.vendor = "none" THEN <<>>
     ELSE <<address(b, d, 0)>>
            \o (IF first.multi THEN FlattenSeq([i \in 1 .. LastFunction - 1 |-> Function(i)])
                ELSE <<>>)
            \o Behind(first)

\* __k_dev_probe_device: function 0, then the others if it says there are any,
\* then the bus behind it; behind gives what is found on a bus.
ProbeDevice(machine, b, d, behind) ==
  LET Behind(c) == IF c.class = "bridge" THEN behind[c.secondary] ELSE <<>>
      Function(f) ==
        LET a == address(b, d, f)
            c == Config(machine, a) IN
        IF c.vendor = "none" THEN <<>> ELSE <<a>> \o Behind(c)
      first == Config(machine, address(b, d, 0))
  IN IF first.vendor = "none" THEN <<>>
     ELSE <<address(b, d, 0)>>
            \o (IF first.multi THEN FlattenSeq([i \in 1 .. LastFunction |-> Function(i)])
                ELSE <<>>)
            \o Behind(first)

\* __k_dev_probe_bus, for every bus: a bridge leads to a later one.
ProbeBus(machine) ==
  LET found[b \in Bus] ==
        FlattenSeq([i \in 1 .. LastDevice + 1 |-> ProbeDevice(machine, b, i - 1, found)])
  IN found

\* k_dev_pci_init
Devices(machine) ==
  LET found == ProbeBus(machine)
      Buses(s) == FlattenSeq([i \in 1 .. s.end_bus - s.start_bus + 1 |-> found[s.start_bus + i - 1]])
      all == [start_bus |-> 0, end_bus |-> LastBus]
  IN FlattenSeq([i \in DOMAIN machine.spaces |-> Buses(machine.spaces[i])])
       \o (IF machine.spaces = <<>> THEN Buses(all) ELSE <<>>)

\* The scanner looks at the class, in what the configuration says now.
k_dev_pci_find_devices(machine, class) ==
  LET devices == Devices(machine)
      Scanned(a) == IF Config(machine, a).class = class THEN <<a>> ELSE <<>>
  IN FlattenSeq([i \in DOMAIN devices |-> Scanned(devices[i])])

\* Functions as the PCI specification has them: they can be reached, the first
\* of a device tells of the others, and a bridge leads to a later bus.
SoundMachine(machine) ==
  LET Buses(i) == machine.spaces[i].start_bus .. machine.spaces[i].end_bus IN
  /\ machine.spaces \in Seq([start_bus : Bus, end_bus : Bus])
  /\ \A i, j \in DOMAIN machine.spaces : i # j => Buses(i) \cap Buses(j) = {}
  /\ \A a \in DOMAIN machine.functions :
       LET c     == machine.functions[a]
           first == address(a.bus, a.device, 0)
       IN /\ a \in [bus : Bus, device : 0 .. LastDevice, function : 0 .. LastFunction]
          /\ machine.spaces = <<>> \/ \E i \in DOMAIN machine.spaces : a.bus \in Buses(i)
          /\ c.vendor # "none"
          /\ a.function # 0 => first \in DOMAIN machine.functions /\ machine.functions[first].multi
          /\ c.class = "bridge" => c.secondary \in a.bus + 1 .. LastBus
=============================================================================
