------------------------------- MODULE MCAhci -------------------------------
(***************************************************************************)
(* TLC instance of Ahci.  The machines: no controller, one on the first    *)
(* bus among the functions of a device, one behind a bridge that is found  *)
(* twice, and one beside a bridge to a bus that cannot be read.            *)
(***************************************************************************)
EXTENDS Ahci, TLC

CONSTANTS r1, r2, r3

F(multi, class) == [vendor |-> "some", multi |-> multi, class |-> class, secondary |-> 1]
Map(bus) == [start_bus |-> bus, end_bus |-> bus]
Disk(bus) == address(bus, 1, 0) :> F(FALSE, "ahci")

MCMachines == {
  [spaces |-> <<>>, functions |-> address(0, 0, 0) :> F(FALSE, "other")],
  [spaces |-> <<Map(0)>>,
   functions |-> address(0, 0, 0) :> F(TRUE, "other") @@ address(0, 0, 2) :> F(FALSE, "ahci")],
  [spaces |-> <<>>, functions |-> address(0, 0, 0) :> F(TRUE, "bridge") @@ Disk(1)],
  [spaces |-> <<Map(0)>>, functions |-> address(0, 0, 0) :> F(FALSE, "bridge") @@ Disk(0)]}

Link(sig) == [det |-> "present", ipm |-> "active", sig |-> sig]
MCLinks == {Link("ata"), Link("atapi"), [Link("ata") EXCEPT !.ipm = "sleeping"]}

Nobody == [r \in Reader |-> {}]
Setup(m, links, off, running, line, reports, asks) ==
  [machine |-> m, links |-> links, off |-> off, running |-> running, line |-> line,
   reports |-> reports, asks |-> asks]

\* Every machine is started; on a plain one three read the same piece, or one
\* reads whole and partial sectors, one region, several, too many, a later place,
\* with every kind of line, and with devices that set bit 5 and that do not.
Plain == [p \in Port |-> IF p = 0 THEN Link("ata") ELSE [Link("ata") EXCEPT !.ipm = "sleeping"]]
PlainMachine == [spaces |-> <<>>, functions |-> Disk(0)]
At0(b) == [start |-> 0, bytes |-> b]
One(asks) == [Nobody EXCEPT ![r1] = asks]
Lengths == {At0(b) : b \in {1, 4, 5, 9, 22, 24, 28, 39}} \union {[start |-> 3, bytes |-> 2]}
MCSetups ==
  {Setup(m, links, off, running, "off", FALSE, Nobody) :
     m \in MCMachines, links \in [Port -> MCLinks], off \in BOOLEAN, running \in BOOLEAN}
  \union {Setup(PlainMachine, Plain, TRUE, FALSE, "level", reports, [r \in Reader |-> {At0(1)}]) :
            reports \in BOOLEAN}
  \union {Setup(PlainMachine, Plain, off, FALSE, "level", FALSE, One(Lengths)) : off \in BOOLEAN}
  \union {Setup(PlainMachine, Plain, TRUE, FALSE, line, TRUE, One({At0(1)})) :
            line \in {"off", "edge"}}

ASSUME MachineAssumption == SoundMachines
=============================================================================
