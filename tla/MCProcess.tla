----------------------------- MODULE MCProcess -----------------------------
(***************************************************************************)
(* TLC instances of Process.  On one core, sleeping and signals are looked *)
(* at apart: programs that sleep on a machine with local APICs, programs   *)
(* that send signals on one with a PIT and dirty memory.  Two cores run    *)
(* programs that fork and exit.                                            *)
(***************************************************************************)
EXTENDS Process, TLC

CONSTANTS c1, c2, p1, p2, p3, q1

SleepSetup == [cores |-> {c1}, young |-> {p2}, calls |-> {"fork", "exit", "sleep", "block"},
               apic |-> TRUE, dirty |-> FALSE]
KillSetup == [cores |-> {c1}, young |-> {p2}, calls |-> {"exit", "kill"},
              apic |-> FALSE, dirty |-> TRUE]
ForkSetup == [cores |-> {c1, c2}, young |-> {}, calls |-> {"fork", "exit"},
              apic |-> TRUE, dirty |-> FALSE]

WorkingSetups == {SleepSetup, KillSetup, ForkSetup}
SignalSetups == {[cores |-> {c1, c2}, young |-> {p2}, calls |-> {"exit", "kill"},
                  apic |-> TRUE, dirty |-> FALSE]}
=============================================================================
