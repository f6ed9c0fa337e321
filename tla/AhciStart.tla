------------------------------ MODULE AhciStart ------------------------------
(***************************************************************************)
(* load() of modules/ahci/main.c: the controllers are looked for and       *)
(* switched on, and every port with a SATA disk gets its command list, is  *)
(* asked who it is and becomes /dev/sda, /dev/sdb and so on.  There is one *)
(* controller at most; the search may still find it twice.                 *)
(***************************************************************************)
EXTENDS Pci, FiniteSets

CONSTANTS
  Setups,     \* bound: the machines, see VARIABLE setup
  LastPort,   \* the registers hold ports 0 to LastPort
  Errors      \* commands may fail

Port == 0 .. LastPort

ASSUME AhciStartAssumption ==
  /\ LastPort \in Nat /\ Errors \in BOOLEAN
  /\ \A m \in Setups : /\ {m.off, m.running, m.reports} \subseteq BOOLEAN
                         /\ m.line \in {"off", "edge", "level"}

VARIABLES
  setup,      \* machine: what hangs on the PCI buses; links: what is connected to
              \* each port; off, running: how the firmware left bit 10 of the
              \* command register and the ports; line: how it left the enable bits
              \* GHC.IE and PxIE, which the driver never writes, and the trigger of
              \* the interrupt controller; reports: the device sets bit 5 of PxIS
              \* for an entry with its I bit; asks: what each reader may read
  stage,      \* where load is
  storages,   \* the controllers still to be started
  port,       \* the port the loop is at
  intxOff,    \* bit 10 of the PCI command register: no interrupts by line
  engine,     \* of each port: ST and FRE of PxCMD, and what CR and FR answer
  identify,   \* the identify command of the port
  refused,    \* the disks that were given up: busy, or bit 5 was seen
  disks       \* __devices: the ports that became a device, in order

boot == <<setup, stage, storages, port, intxOff, engine, identify, refused, disks>>

Stages == {"find", "controller", "port", "stop", "stopping", "lists", "start", "spin",
           "issue", "poll", "node", "failed", "done"}

BootTypeOK ==
  /\ stage \in Stages /\ port \in 0 .. LastPort + 1
  /\ intxOff \in BOOLEAN
  /\ engine \in [Port -> [st : BOOLEAN, fre : BOOLEAN, cr : BOOLEAN, fr : BOOLEAN]]
  /\ identify \in {"none", "issued", "done", "reported", "error"}
  /\ refused \subseteq Port /\ disks \in Seq(Port)

\* The firmware may have used the disks, and left the ports running.
BootInit ==
  /\ setup \in Setups
  /\ stage = "find" /\ storages = <<>> /\ port = 0
  /\ intxOff = setup.off
  /\ engine = [p \in Port |-> [st |-> setup.running, fre |-> setup.running,
                              cr |-> setup.running, fr |-> setup.running]]
  /\ identify = "none" /\ refused = {} /\ disks = <<>>

\* __ahci_type
Type(link) ==
  IF link.det # "present" \/ link.ipm # "active" THEN "null"
  ELSE IF link.sig \in {"atapi", "semb", "pm"} THEN link.sig
  ELSE "sata"

\* __ahci_pci_scanner
IsAhci(a) == Config(setup.machine, a).class = "ahci"

Find ==
  /\ stage = "find"
  /\ storages' = k_dev_pci_find_devices(setup.machine, "ahci") /\ stage' = "controller"
  /\ UNCHANGED <<setup, port, intxOff, engine, identify, refused, disks>>

\* __try_init_ahci: the bit for interrupts is turned over, not cleared.
Controller ==
  /\ stage = "controller"
  /\ IF storages = <<>> THEN stage' = "done" /\ UNCHANGED <<intxOff, port>>
     ELSE stage' = "port" /\ intxOff' = ~intxOff /\ port' = 0
  /\ UNCHANGED <<setup, storages, engine, identify, refused, disks>>

\* The loop over the ports.
NextPort ==
  /\ stage = "port"
  /\ IF port > LastPort
     THEN stage' = "controller" /\ storages' = Tail(storages) /\ UNCHANGED port
     ELSE /\ IF Type(setup.links[port]) = "sata" THEN stage' = "stop" /\ UNCHANGED port
             ELSE port' = port + 1 /\ UNCHANGED stage
          /\ UNCHANGED storages
  /\ UNCHANGED <<setup, intxOff, engine, identify, refused, disks>>

GotoStage(label) ==
  stage' = label /\ UNCHANGED <<setup, storages, port, intxOff, refused, disks>>

\* __port_stop_cmd; clearing ST takes back what was issued.
StopCmd ==
  /\ stage = "stop"
  /\ engine' = [engine EXCEPT ![port].st = FALSE, ![port].fre = FALSE]
  /\ identify' = "none" /\ GotoStage("stopping")

\* Mutant: only the command engine is waited for.
StoppedCommands ==
  /\ stage = "stopping" /\ ~engine[port].cr
  /\ GotoStage("lists") /\ UNCHANGED <<engine, identify>>

Stopped ==
  /\ stage = "stopping" /\ ~engine[port].fr /\ ~engine[port].cr
  /\ GotoStage("lists") /\ UNCHANGED <<engine, identify>>

\* PxCLB and PxFB are written.
SetLists ==
  /\ stage = "lists"
  /\ GotoStage("start") /\ UNCHANGED <<engine, identify>>

\* Mutant: commands are not switched on.
StartReceive ==
  /\ stage = "start" /\ ~engine[port].cr
  /\ engine' = [engine EXCEPT ![port].fre = TRUE]
  /\ GotoStage("spin") /\ UNCHANGED identify

\* __port_start_cmd
StartCmd ==
  /\ stage = "start" /\ ~engine[port].cr
  /\ engine' = [engine EXCEPT ![port].st = TRUE, ![port].fre = TRUE]
  /\ GotoStage("spin") /\ UNCHANGED identify

\* __ahci_identify: PxIS cleared, a header and a table filled; the bounded spin.
IdentifySpin ==
  /\ stage = "spin"
  /\ GotoStage("issue") \/ (Errors /\ GotoStage("failed"))
  /\ UNCHANGED <<engine, identify>>

IdentifyIssue ==
  /\ stage = "issue"
  /\ identify' = "issued" /\ GotoStage("poll") /\ UNCHANGED engine

\* Waiting for the bit in PxCI to go, or for bit 5 of PxIS, which is looked at
\* again and taken for an error; a disk's error shows in neither.
IdentifyPoll ==
  /\ stage = "poll" /\ identify \in {"done", "reported"}
  /\ GotoStage(IF identify = "reported" THEN "failed" ELSE "node")
  /\ UNCHANGED <<engine, identify>>

LeavePort == stage' = "port" /\ port' = port + 1 /\ identify' = "none"

IdentifyFailed ==
  /\ stage = "failed"
  /\ refused' = refused \union {port} /\ LeavePort
  /\ UNCHANGED <<setup, storages, intxOff, engine, disks>>

\* The rest of __init_port: the device and its node, which gets the next letter.
CreateNode ==
  /\ stage = "node"
  /\ disks' = Append(disks, port) /\ LeavePort
  /\ UNCHANGED <<setup, storages, intxOff, engine, refused>>

Load ==
  \/ Find \/ Controller \/ NextPort \/ StopCmd \/ Stopped \/ SetLists \/ StartCmd
  \/ IdentifySpin \/ IdentifyIssue \/ IdentifyPoll \/ IdentifyFailed \/ CreateNode

----------------------------------------------------------------------------
\* The port's engines follow ST and FRE in their own time.
FollowST(p) ==
  /\ engine[p].cr # engine[p].st
  /\ engine' = [engine EXCEPT ![p].cr = engine[p].st]
  /\ UNCHANGED <<setup, stage, storages, port, intxOff, identify, refused, disks>>

FollowFRE(p) ==
  /\ engine[p].fr # engine[p].fre
  /\ engine' = [engine EXCEPT ![p].fr = engine[p].fre]
  /\ UNCHANGED <<setup, stage, storages, port, intxOff, identify, refused, disks>>

\* The disk answers the identify command when both engines run, and bit 5 may
\* be set for its entry; after an error the bit in PxCI stays.
Identified ==
  /\ identify = "issued" /\ engine[port].cr /\ engine[port].fr
  /\ \/ identify' = "done"
     \/ setup.reports /\ identify' = "reported"
     \/ Errors /\ identify' = "error"
  /\ UNCHANGED <<setup, stage, storages, port, intxOff, engine, refused, disks>>

Hardware == Identified \/ \E p \in Port : FollowST(p) \/ FollowFRE(p)

Boot == Load \/ Hardware

BootFairness ==
  /\ WF_boot(Load) /\ WF_boot(Identified)
  /\ \A p \in Port : WF_boot(FollowST(p)) /\ WF_boot(FollowFRE(p))
----------------------------------------------------------------------------
\* Whoever sits on a bus of its own number is also found through its bridge.
Behind(a) ==
  \E b \in DOMAIN setup.machine.functions :
    setup.machine.functions[b].class = "bridge" /\ setup.machine.functions[b].secondary = a.bus
Bridged == \E a \in DOMAIN setup.machine.functions : IsAhci(a) /\ Behind(a)

(* The lists of a port are only exchanged while the port neither runs       *)
(* commands nor receives, whatever the firmware left and however late the   *)
(* port follows.                                                            *)
EngineIdle == stage = "lists" => ~engine[port].cr /\ ~engine[port].fr

(* At the end of load() every SATA disk that was not given up is one device *)
(* and no other port is, and every function that is there has been found,   *)
(* once unless it is behind a bridge.                                       *)
DiskNodes ==
  stage = "done" =>
    /\ IsInjective(disks) \/ Bridged
    /\ (\E a \in DOMAIN setup.machine.functions : IsAhci(a)) =>
         /\ ToSet(disks) \subseteq {p \in Port : Type(setup.links[p]) = "sata"}
         /\ {p \in Port : Type(setup.links[p]) = "sata"} \ refused \subseteq ToSet(disks)
    /\ DOMAIN setup.machine.functions \subseteq ToSet(Devices(setup.machine))
    /\ \A a \in DOMAIN setup.machine.functions :
         Behind(a) \/ Cardinality({i \in DOMAIN Devices(setup.machine) : Devices(setup.machine)[i] = a}) = 1

\* The machines this driver is for: PCI as specified, one controller at most.
SoundMachines ==
  \A m \in Setups :
    /\ SoundMachine(m.machine)
    /\ \A a, b \in DOMAIN m.machine.functions :
         m.machine.functions[a].class = "ahci" /\ m.machine.functions[b].class = "ahci" => a = b

(* load() comes to its end, unless it waits for a disk that has failed.     *)
LoadEnds == <>(stage = "done" \/ identify = "error")
=============================================================================
