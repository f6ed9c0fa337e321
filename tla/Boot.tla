-------------------------------- MODULE Boot --------------------------------
(***************************************************************************)
(* The end of kernel_main: the modules (Loader), then the first process,   *)
(* the other processors (smp.c), and /bin/init (exec.c), with the log that *)
(* all processors write (log.c) and the panic of one that stops the others *)
(* (panic.c, arch_prepare_panic).  Processors are numbered as the boot     *)
(* loader lists them; a step of one ends where another can notice it.      *)
(***************************************************************************)
EXTENDS Loader

CONSTANTS
  MaxCores,    \* MAX_CORES
  StackTop     \* the end of a new program's stack

\* setup has, besides the modules: lapics, the id of each processor in the list
\* (0 is an id; bound: no more than cores[] holds, which the code does not test); boot, which of them runs; madt and response, whether firmware
\* and boot loader describe them; dies, those that meet a panic in the kernel;
\* programs, what is executed in turn: [ok, args, envs].
VARIABLES
  pc,          \* where each processor is
  core,        \* the loop index in __try_bootloader
  flag,        \* __ap_flag
  cores,       \* cores[]: by index, [owner, lapic, idle]
  core_count,
  program,     \* how many programs have been executed
  entered,     \* the program that was entered last
  locked,      \* __log_global_lock
  buffer,      \* buffer2, as the line it holds
  out,         \* what the log has printed: halves of lines
  say,         \* of each processor, its call of k_dev_log
  target       \* the loop index in arch_prepare_panic

smp == <<core, flag, cores, core_count>>
exec == <<program, entered>>
log == <<locked, buffer, out>>
bootvars == <<pc, smp, exec, log, say, target>>
vars == <<loadvars, bootvars>>

ASSUME BootAssumption ==
  /\ MaxCores \in Nat \ {0}
  /\ \A m \in Setups :
       /\ m.lapics \in Seq(Nat) /\ IsInjective(m.lapics) /\ Len(m.lapics) <= MaxCores
       /\ m.boot \in DOMAIN m.lapics
       /\ m.programs \in Seq([ok : BOOLEAN, args : Seq(Seq(STRING)), envs : Seq(Seq(STRING))])
  /\ StackTop \in Nat

Cpu == DOMAIN setup.lapics
BSP == setup.boot

\* extra_argument is the place in the list; the boot processor is core 0.
Number(p) == IF p = BSP THEN 0 ELSE p - 1

Quiet == [stage |-> "quiet", line |-> <<>>]
Nobody == [owner |-> 0, lapic |-> 0, idle |-> FALSE]

Init ==
  /\ LoaderInit
  /\ pc = [p \in Cpu |-> IF p = BSP THEN "modules" ELSE "parked"]
  /\ core = 1 /\ flag = FALSE /\ core_count = 0
  /\ cores = [n \in 0 .. MaxCores - 1 |-> Nobody]
  /\ program = 0 /\ entered = <<>>
  /\ locked = FALSE /\ buffer = <<>> /\ out = <<>>
  /\ say = [p \in Cpu |-> Quiet] /\ target = [p \in Cpu |-> 0]

Goto(p, label) == pc' = [pc EXCEPT ![p] = label]
At(p, label) == pc[p] = label /\ say[p] = Quiet

----------------------------------------------------------------------------
(* k_dev_log: its lock, its shared buffer, and output in two halves         *)

Begin(p, line) == say' = [say EXCEPT ![p] = [stage |-> "lock", line |-> line]]
Runs(p) == pc[p] \notin {"parked", "halted", "stopped"}
Says(p, stage) == Runs(p) /\ pc[p] # "panic" /\ say[p].stage = stage
Stage(p, stage) == say' = [say EXCEPT ![p].stage = stage]

\* Mutant: the lock is not tested.
LockTaken(p) ==
  /\ Says(p, "lock")
  /\ locked' = TRUE /\ Stage(p, "fill")
  /\ UNCHANGED <<buffer, out>>

Lock(p) ==
  /\ Says(p, "lock") /\ ~locked
  /\ locked' = TRUE /\ Stage(p, "fill")
  /\ UNCHANGED <<buffer, out>>

Fill(p) ==
  /\ Says(p, "fill")
  /\ buffer' = say[p].line /\ Stage(p, "first")
  /\ UNCHANGED <<locked, out>>

Put(p) ==
  \E half \in {"first", "second"} :
    /\ Says(p, half)
    /\ out' = Append(out, [line |-> buffer, half |-> half])
    /\ Stage(p, IF half = "first" THEN "second" ELSE "unlock")
    /\ UNCHANGED <<locked, buffer>>

Unlock(p) ==
  /\ Says(p, "unlock")
  /\ locked' = FALSE /\ say' = [say EXCEPT ![p] = Quiet]
  /\ UNCHANGED <<buffer, out>>

Log(p) ==
  /\ Lock(p) \/ Fill(p) \/ Put(p) \/ Unlock(p)
  /\ UNCHANGED <<loadvars, pc, smp, exec, target>>

----------------------------------------------------------------------------
(* The boot processor                                                       *)

\* k_load_modules, one step of it.
Load ==
  /\ pc[BSP] = "modules" /\ LoadModules
  /\ UNCHANGED bootvars

\* k_process_init, to the point where k_proc_init_cores has found out whether
\* the processors are described; else ticks come from the PIT.
k_process_init ==
  /\ pc[BSP] = "modules" /\ loading = "done"
  /\ cores' = [cores EXCEPT ![0] = [@ EXCEPT !.owner = BSP, !.idle = TRUE]]
  /\ IF setup.madt /\ setup.response
     THEN /\ Goto(BSP, "cores")
          /\ core_count' = IF Len(setup.lapics) > MaxCores THEN MaxCores ELSE Len(setup.lapics)
     ELSE Goto(BSP, "exec") /\ UNCHANGED core_count
  /\ UNCHANGED <<loadvars, core, flag, exec, log, say, target>>

\* One turn of the loop in __try_bootloader, up to the goto_address.
StartCore ==
  /\ At(BSP, "cores")
  /\ CASE core > Len(setup.lapics) ->
            Goto(BSP, "exec") /\ UNCHANGED <<core, flag, cores, say>>
       [] core = BSP ->
            /\ cores' = [cores EXCEPT ![0].lapic = setup.lapics[BSP]]
            /\ Begin(BSP, <<"ready", BSP>>)
            /\ core' = core + 1 /\ UNCHANGED <<pc, flag>>
       [] OTHER ->
            flag' = TRUE /\ Goto(BSP, "release") /\ UNCHANGED <<core, cores, say>>
  /\ UNCHANGED <<loadvars, core_count, exec, log, target>>

Release ==
  /\ At(BSP, "release")
  /\ pc' = [pc EXCEPT ![BSP] = "wait", ![core] = "init"]
  /\ UNCHANGED <<loadvars, smp, exec, log, say, target>>

\* Mutant: the loop goes on without waiting for the flag.
WaitNot ==
  /\ At(BSP, "wait")
  /\ core' = core + 1 /\ Goto(BSP, "cores")
  /\ UNCHANGED <<loadvars, flag, cores, core_count, exec, log, say, target>>

Wait ==
  /\ At(BSP, "wait") /\ ~flag
  /\ core' = core + 1 /\ Goto(BSP, "cores")
  /\ UNCHANGED <<loadvars, flag, cores, core_count, exec, log, say, target>>

\* k_exec, first by kernel_main, then by the programs; one that fails leaves
\* the program that called it as it was, and ends kernel_main in a panic.
Exec ==
  /\ At(BSP, "exec") \/ At(BSP, "user")
  /\ program < Len(setup.programs)
  /\ program' = program + 1
  /\ LET it == setup.programs[program + 1] IN
     IF it.ok
     THEN entered' = <<it>> /\ Goto(BSP, "user")
     ELSE Goto(BSP, IF pc[BSP] = "exec" THEN "panic" ELSE "user") /\ UNCHANGED entered
  /\ UNCHANGED <<loadvars, smp, log, say, target>>

----------------------------------------------------------------------------
(* The other processors: __init_core                                        *)

\* Its entry in cores[], whoever used that before.
InitCore(p) ==
  /\ At(p, "init")
  /\ cores' = [cores EXCEPT ![Number(p)] = [@ EXCEPT !.owner = p, !.lapic = setup.lapics[p]]]
  /\ Goto(p, "idle")
  /\ UNCHANGED <<loadvars, core, flag, core_count, exec, log, say, target>>

CreateIdle(p) ==
  /\ At(p, "idle")
  /\ cores' = [cores EXCEPT ![Number(p)].idle = TRUE]
  /\ Begin(p, <<"ready", p>>) /\ Goto(p, "lower")
  /\ UNCHANGED <<loadvars, core, flag, core_count, exec, log, target>>

\* The flag, the timer, and the first process or hlt.
Lower(p) ==
  /\ At(p, "lower")
  /\ flag' = FALSE /\ Goto(p, "scheduled")
  /\ UNCHANGED <<loadvars, core, cores, core_count, exec, log, say, target>>

\* What runs on a processor makes the kernel log a line (k_process_spawn,
\* k_process_exit); bound: once on each.
Speak(p) ==
  /\ pc[BSP] = "user"
  /\ At(p, "user") \/ At(p, "scheduled")
  /\ Begin(p, <<"spawned", p>>)
  /\ Goto(p, IF p = BSP THEN "spoken" ELSE "ran")
  /\ UNCHANGED <<loadvars, smp, exec, log, target>>

----------------------------------------------------------------------------
(* panic                                                                    *)

\* Bound: only the processors the setup names, and after the modules.
Die(p) ==
  /\ p \in setup.dies /\ Runs(p) /\ pc[p] \notin {"modules", "panic", "crit"}
  /\ Goto(p, "panic")
  /\ UNCHANGED <<loadvars, smp, exec, log, say, target>>

\* arch_prepare_panic: the other entries of cores[] with an id get an NMI, upon
\* which the processor with that id halts (isr2).
Silence(p) ==
  /\ pc[p] = "panic" /\ target[p] < core_count
  /\ LET n == target[p]
         hit == IF n = Number(p) THEN 0 ELSE cores[n].lapic IN
     pc' = [q \in Cpu |-> IF hit # 0 /\ setup.lapics[q] = hit THEN "halted" ELSE pc[q]]
  /\ target' = [target EXCEPT ![p] = @ + 1]
  /\ UNCHANGED <<loadvars, smp, exec, log, say>>

\* Mutant: the lock is left as it is.
ShoutLocked(p) ==
  /\ pc[p] = "panic" /\ target[p] >= core_count
  /\ Begin(p, <<"panic", p>>) /\ Goto(p, "crit")
  /\ UNCHANGED <<loadvars, smp, exec, log, target>>

\* The log's lock is opened, whoever holds it.
Shout(p) ==
  /\ pc[p] = "panic" /\ target[p] >= core_count
  /\ locked' = FALSE
  /\ Begin(p, <<"panic", p>>) /\ Goto(p, "crit")
  /\ UNCHANGED <<loadvars, smp, exec, buffer, out, target>>

Stop(p) ==
  /\ At(p, "crit")
  /\ Goto(p, "stopped")
  /\ UNCHANGED <<loadvars, smp, exec, log, say, target>>

----------------------------------------------------------------------------
Main == Load \/ k_process_init \/ StartCore \/ Release \/ Wait \/ Exec

Step(p) ==
  \/ p = BSP /\ Main
  \/ InitCore(p) \/ CreateIdle(p) \/ Lower(p) \/ Speak(p)
  \/ Log(p) \/ Silence(p) \/ Shout(p) \/ Stop(p)

Next == \E p \in Cpu : Step(p) \/ Die(p)

Spec == Init /\ [][Next]_vars

\* Processors run; which of them there are, the setup says.
FairSpec == Spec /\ \A p \in 1 .. MaxCores : WF_vars(p \in Cpu /\ Step(p))
----------------------------------------------------------------------------
TypeOK ==
  /\ loading \in {"read", "choose", "check", "call", "hang", "done"}
  /\ core \in 1 .. Len(setup.lapics) + 1 /\ {flag, locked} \subseteq BOOLEAN
  /\ core_count \in 0 .. MaxCores /\ program \in 0 .. Len(setup.programs)
  /\ \A n \in DOMAIN cores : cores[n].owner \in Cpu \union {0}
  /\ \A p \in Cpu : say[p].stage \in {"quiet", "lock", "fill", "first", "second", "unlock"}

\* The list is as the code takes it to be: the boot processor comes first.
BootFirst == BSP = 1

(* The one flag and the one loop start the processors one at a time, each   *)
(* with an entry of cores[] of its own; and no program runs before all of   *)
(* them have theirs complete, with its local APIC's id and an idle process. *)
CoresDistinct ==
  LET Starting == {p \in Cpu : pc[p] \in {"init", "idle", "lower"}} IN
  /\ TypeOK
  /\ Cardinality(Starting) <= 1
  /\ BootFirst =>
       \A p \in Cpu : (p # BSP /\ pc[p] \in {"lower", "scheduled"}) \/ (core_count > 0 /\ pc[BSP] = "user")
         => cores[Number(p)] = [owner |-> p, lapic |-> setup.lapics[p], idle |-> TRUE]

Panicking == {p \in Cpu : pc[p] \in {"panic", "crit", "stopped"}}

\* Lines that are printed in one piece, each once.
Whole(s) ==
  /\ IsInjective(s)
  /\ \A i \in DOMAIN s :
       /\ s[i].half = IF i % 2 = 1 THEN "first" ELSE "second"
       /\ i % 2 = 0 => s[i].line = s[i - 1].line

(* What the processors log does not mix, though all go through one buffer,  *)
(* and whoever has logged can be read; and a processor that panics opens    *)
(* the lock of another one, yet its message is not disturbed, provided that *)
(* it could silence all others.                                             *)
LogSound ==
  /\ Panicking = {} =>
       /\ Whole(out)
       /\ \A p \in Cpu : pc[p] \in {"scheduled", "ran"} =>
            \E i \in DOMAIN out : out[i] = [line |-> <<"ready", p>>, half |-> "second"]
  /\ \A p \in Cpu :
       pc[p] = "stopped" /\ (\A q \in Cpu \ {p} : pc[q] \in {"parked", "halted"}) =>
         Len(out) > 1 /\ SubSeq(out, Len(out) - 1, Len(out))
                           = << [line |-> <<"panic", p>>, half |-> "first"],
                                [line |-> <<"panic", p>>, half |-> "second"] >>

(* The boot ends: init runs and every processor the boot loader described   *)
(* with it, or a panic has said its last, unless the search for a scope     *)
(* never does (the comparator stays at a module's first scope).             *)
BootEnds ==
  <>(\/ loading = "hang"
     \/ \E p \in Cpu : pc[p] = "stopped"
     \/ /\ pc[BSP] \in {"user", "spoken"}
        /\ core_count = 0 \/ \A p \in Cpu \ {BSP} : pc[p] \in {"scheduled", "ran"})

\* What a program finds on its stack once _start has begun.
PointerAt(stack, a) ==
  LET Byte(k) == stack[StackTop - a - k] IN
  IF a + Word - 1 < StackTop /\ StackTop - a \in DOMAIN stack /\ "part" \in DOMAIN Byte(0)
       /\ \A k \in 0 .. Word - 1 : Byte(k) = [pointer |-> Byte(0).pointer, part |-> k]
  THEN Byte(0).pointer ELSE Failed
StringAt(stack, a, s) ==
  \A k \in 0 .. Len(s) :
    /\ StackTop - a - k \in DOMAIN stack
    /\ stack[StackTop - a - k] = [char |-> IF k = Len(s) THEN EndOfString ELSE s[k + 1]]
ArrayAt(stack, a, strings) ==
  /\ \A i \in DOMAIN strings : StringAt(stack, PointerAt(stack, a + (i - 1) * Word), strings[i])
  /\ PointerAt(stack, a + Len(strings) * Word) = Null

(* A program finds its arguments and its environment as they were given to  *)
(* exec, each array ended by null, on an aligned stack, also after _start   *)
(* has used it: for the environment, if its array happens to end aligned,   *)
(* for else the stack begins inside it.                                     *)
ArgumentsArrive ==
  \A it \in ToSet(entered) :
    LET found == Arguments(it.args, it.envs, StackTop)
        begun == Started(found.stack, found.sp, StackTop) IN
    /\ found.sp % Alignment = 0 /\ found.argc = Len(it.args)
    /\ ArrayAt(found.stack, found.argv, it.args)
    /\ ArrayAt(found.stack, found.envp, it.envs)
    /\ found.sp = found.envp =>
         ArrayAt(begun, found.argv, it.args) /\ ArrayAt(begun, found.envp, it.envs)
=============================================================================
