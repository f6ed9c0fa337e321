------------------------------ MODULE Process ------------------------------
(***************************************************************************)
(* Processes and their scheduling on several cores: kernel/proc/process.c, *)
(* the timer ticks of smp.c and pit.c, the return to user mode of          *)
(* interrupt.c.  A core's kernel path is cut where another core can see or *)
(* change what it works on: at each lock, and at each check or flag that   *)
(* is not under the lock of the update it guards.  Interrupts are off in   *)
(* the kernel, so a core is preempted in user mode and in hlt only.        *)
(***************************************************************************)
EXTENDS Integers, Sequences, FiniteSets

CONSTANTS
  Core, Proc, Queue,  \* processors, processes, the wait queues of devices
  None,               \* no process: the idle process of a core, no owner
  BootCore,           \* the core that runs init and takes device interrupts
  InitProc,           \* the first process
  Setups,             \* the machines and programs to look at; see Setup
  Handled,            \* the signals the programs have handlers for
  MaxSleep,           \* bound: the longest sleep, in units of the clock
  MaxSleepers         \* bound: entries in the sleep queue

Ready == "ready"   \* the name of the one list

\* Signals by number: two are enough for an order.
Signal == {1, 2}

Calls == {"fork", "exit", "sleep", "block", "kill"}

\* The processors there are; the processes init has forked already when we look;
\* what the programs call; whether ticks come from local APICs, else from the
\* PIT; whether malloc hands out memory with old contents.
Setup == [cores : SUBSET Core, young : SUBSET Proc, calls : SUBSET Calls,
          apic : BOOLEAN, dirty : BOOLEAN]

ASSUME ProcessAssumption ==
  /\ None \notin Proc \union Queue \union Core \union {Ready}
  /\ BootCore \in Core /\ InitProc \in Proc /\ Setups \subseteq Setup
  /\ \A s \in Setups : BootCore \in s.cores /\ InitProc \notin s.young
  /\ Handled \subseteq Signal /\ MaxSleep \in Nat /\ MaxSleepers \in Nat
  /\ IsFiniteSet(Proc)          \* memory ends

L == INSTANCE List WITH Node <- Proc, ListId <- {Ready}, Nil <- None

VARIABLES
  heap,        \* __ready_queue and the processes' ready_node
  queueLock,   \* holder of __process_queue_lock
  spawned,     \* __process_list
  flags,       \* process.flags
  saved,       \* what ctx describes: "kernel" or "fork" to resume, "none" if stale
  current,     \* core.current_process, None for the idle process
  pc,          \* where each core is
  arg,         \* the process a core's kernel path is about
  requeue,     \* SWITCH_RESCHEDULE of the switch under way
  sleepers,    \* __sleep_queue: its processes, and whether by their own node
  sleepLock,
  left,        \* time to the process's wake-up; 0 when it has come or is zero
  waiters,     \* the processes in each wait queue
  waking,      \* the wait queue a core is emptying
  blockLock,
  nodeOwner,   \* sleep_node->owner
  pending,     \* process.pending_signals
  asserted,    \* the assertion of k_process_get_ready failed
  setup        \* the machine and programs; never changes

sched == <<heap, queueLock, spawned, flags, saved>>
cores == <<current, pc, arg, requeue>>
sleeps == <<sleepers, sleepLock, left>>
blocks == <<waiters, waking, blockLock>>
rest  == <<nodeOwner, pending, asserted, setup>>
vars == <<sched, cores, sleeps, blocks, rest>>

KernelPc == {"switch", "requeue", "next", "claim", "load", "fork", "timing",
             "expire", "expired", "waking", "wakeup", "kill", "kick", "return"}

TypeOK ==
  /\ heap \in L!Heap
  /\ queueLock \in Core \union {None} /\ sleepLock \in Core \union {None}
  /\ blockLock \in Core \union {None}
  /\ spawned \subseteq Proc
  /\ flags \in [Proc -> SUBSET {"running", "finished", "sleeping"}]
  /\ saved \in [Proc -> {"none", "kernel", "fork"}]
  /\ current \in [Core -> Proc \union {None}] /\ arg \in [Core -> Proc \union {None}]
  /\ pc \in [Core -> KernelPc \union {"user", "idle"}]
  /\ requeue \in [Core -> BOOLEAN]
  /\ sleepers \in Seq([proc : Proc, own : BOOLEAN])
  /\ left \in [Proc -> 0 .. MaxSleep]
  /\ waiters \in [Queue -> Seq(Proc)] /\ waking \in [Core -> Queue \union {None}]
  /\ nodeOwner \in [Proc -> Queue \union {None, "sleep", "garbage"}]
  /\ pending \in [Proc -> SUBSET Signal]
  /\ asserted \in BOOLEAN /\ setup \in Setups

\* Young processes wait in the ready queue, in some order, since their fork.
Queued(s) ==
  LET after[i \in 0 .. Len(s)] ==
        IF i = 0 THEN L!Empty([p \in Proc |-> None])
        ELSE L!PrependNode(after[i - 1], Ready, s[i])
  IN after[Len(s)]

Init ==
  /\ setup \in Setups
  /\ \E s \in [1 .. Cardinality(setup.young) -> setup.young] :
       {s[i] : i \in DOMAIN s} = setup.young /\ heap = Queued(s)
  /\ queueLock = None /\ sleepLock = None /\ blockLock = None
  /\ spawned = setup.young \union {InitProc}
  /\ flags = [p \in Proc |-> IF p = InitProc THEN {"running"} ELSE {}]
  /\ saved = [p \in Proc |-> IF p \in setup.young THEN "fork" ELSE "none"]
  /\ current = [c \in Core |-> IF c = BootCore THEN InitProc ELSE None]
  /\ pc = [c \in Core |-> IF c = BootCore THEN "user" ELSE "idle"]
  /\ arg = [c \in Core |-> None]
  /\ requeue = [c \in Core |-> FALSE]
  /\ sleepers = <<>> /\ left = [p \in Proc |-> 0]
  /\ waiters = [q \in Queue |-> <<>>] /\ waking = [c \in Core |-> None]
  /\ nodeOwner \in [Proc -> IF setup.dirty THEN {None, "garbage"} ELSE {None}]
  /\ pending = [p \in Proc |-> {}]
  /\ asserted = FALSE

Goto(c, label) == pc' = [pc EXCEPT ![c] = label]
At(c, label) == pc[c] = label /\ ~asserted
Free(lock, c) == lock \in {None, c}
IsReady(p) == heap.owner[p] # None
IsLocked(p) == nodeOwner[p] # None

----------------------------------------------------------------------------
(* Scheduling: k_process_make_ready, k_process_switch, k_process_get_ready *)

\* Prepends the ready node whatever its state, and zeroes the sleep time.
MakeReady(p) ==
  /\ queueLock = None
  /\ heap' = L!PrependNode(heap, Ready, p)
  /\ left' = [left EXCEPT ![p] = 0]

\* Mutant: made ready before its context is saved.
SwitchReadiesFirst(c) ==
  LET p == current[c]
      finished == "finished" \in flags[p] IN
  /\ At(c, "switch")
  /\ saved' = [saved EXCEPT ![p] = IF finished \/ requeue[c] THEN @ ELSE "kernel"]
  /\ Goto(c, IF requeue[c] /\ ~finished THEN "requeue" ELSE "next")
  /\ UNCHANGED <<heap, queueLock, spawned, flags, current, arg, requeue, sleeps,
                 blocks, rest>>

\* k_process_switch up to the saved context; a finished process saves nothing.
Switch(c) ==
  LET p == current[c]
      finished == "finished" \in flags[p] IN
  /\ At(c, "switch")
  /\ saved' = [saved EXCEPT ![p] = IF finished THEN @ ELSE "kernel"]
  /\ Goto(c, IF requeue[c] /\ ~finished THEN "requeue" ELSE "next")
  /\ UNCHANGED <<heap, queueLock, spawned, flags, current, arg, requeue, sleeps,
                 blocks, rest>>

Requeue(c) ==
  /\ At(c, "requeue")
  /\ MakeReady(current[c])
  /\ Goto(c, "next")
  /\ UNCHANGED <<queueLock, spawned, flags, saved, current, arg, requeue,
                 sleepers, sleepLock, blocks, rest>>

\* Mutant: the process is read but not taken off the queue.
PickPeeks(c) ==
  /\ At(c, "next") /\ Free(queueLock, c)
  /\ queueLock' = c
  /\ LET p == heap.tail[Ready] IN
     \/ /\ p = None
        /\ arg' = [arg EXCEPT ![c] = None] /\ Goto(c, "claim") /\ UNCHANGED heap
     \/ /\ p # None
        /\ UNCHANGED heap
        /\ \/ "finished" \in flags[p] /\ UNCHANGED <<arg, pc>>
           \/ /\ "finished" \notin flags[p]
              /\ arg' = [arg EXCEPT ![c] = p] /\ Goto(c, "claim")
  /\ UNCHANGED <<spawned, flags, saved, current, requeue, sleeps, blocks, rest>>

\* Mutant: the queue is popped where it is pushed.
PickNewest(c) ==
  /\ At(c, "next") /\ Free(queueLock, c)
  /\ queueLock' = c
  /\ LET p == heap.head[Ready] IN
     \/ /\ p = None
        /\ arg' = [arg EXCEPT ![c] = None] /\ Goto(c, "claim") /\ UNCHANGED heap
     \/ /\ p # None
        /\ heap' = L!PopFrontNode(heap, Ready)
        /\ \/ "finished" \in flags[p] /\ UNCHANGED <<arg, pc>>
           \/ /\ "finished" \notin flags[p]
              /\ arg' = [arg EXCEPT ![c] = p] /\ Goto(c, "claim")
  /\ UNCHANGED <<spawned, flags, saved, current, requeue, sleeps, blocks, rest>>

\* One round of the loop in k_process_get_ready, which keeps the queue lock.
Pick(c) ==
  /\ At(c, "next") /\ Free(queueLock, c)
  /\ queueLock' = c
  /\ LET p == heap.tail[Ready] IN
     \/ /\ p = None
        /\ arg' = [arg EXCEPT ![c] = None] /\ Goto(c, "claim") /\ UNCHANGED heap
     \/ /\ p # None
        /\ heap' = L!PopBackNode(heap, Ready)
        /\ \/ "finished" \in flags[p] /\ UNCHANGED <<arg, pc>>
           \/ /\ "finished" \notin flags[p]
              /\ arg' = [arg EXCEPT ![c] = p] /\ Goto(c, "claim")
  /\ UNCHANGED <<spawned, flags, saved, current, requeue, sleeps, blocks, rest>>

\* The flags are read a second time by the assertion.
Claim(c) ==
  /\ At(c, "claim")
  /\ queueLock' = None /\ Goto(c, "load")
  /\ asserted' = (arg[c] # None /\ "finished" \in flags[arg[c]])
  /\ flags' = [p \in Proc |-> IF p = arg[c] /\ ~asserted'
                              THEN flags[p] \union {"running"} ELSE flags[p]]
  /\ UNCHANGED <<heap, spawned, saved, current, arg, requeue, sleeps, blocks,
                 nodeOwner, pending, setup>>

\* current_process and the context are replaced; from here the core is off the
\* kernel stack of the process it ran before.
Load(c) ==
  /\ At(c, "load")
  /\ current' = [current EXCEPT ![c] = arg[c]]
  /\ LET p == arg[c] IN
     \/ p = None /\ Goto(c, "idle") /\ UNCHANGED saved
     \/ /\ p # None
        /\ Goto(c, IF saved[p] = "fork" THEN "user" ELSE "return")
        /\ saved' = [saved EXCEPT ![p] = "none"]
  /\ UNCHANGED <<heap, queueLock, spawned, flags, arg, requeue, sleeps, blocks, rest>>

----------------------------------------------------------------------------
(* System calls of a running process                                       *)

\* k_process_fork: the child can be found by its pid before it is ready.
Fork(c, child) ==
  /\ "fork" \in setup.calls /\ At(c, "user")
  /\ child \in Proc \ spawned
  /\ spawned' = spawned \union {child}
  /\ saved' = [saved EXCEPT ![child] = "fork"]
  /\ arg' = [arg EXCEPT ![c] = child] /\ Goto(c, "fork")
  /\ UNCHANGED <<heap, queueLock, flags, current, requeue, sleeps, blocks, rest>>

ForkReady(c) ==
  /\ At(c, "fork")
  /\ MakeReady(arg[c])
  /\ Goto(c, "return")
  /\ UNCHANGED <<queueLock, spawned, flags, saved, current, arg, requeue,
                 sleepers, sleepLock, blocks, rest>>

Exit(c) ==
  /\ "exit" \in setup.calls /\ At(c, "user")
  /\ flags' = [flags EXCEPT ![current[c]] = {"finished"}]
  /\ Goto(c, "next")
  /\ UNCHANGED <<heap, queueLock, spawned, saved, current, arg, requeue, sleeps,
                 blocks, rest>>

\* How many sleepers the scan passes before it meets one with a later wake-up.
Position(wake, p) ==
  CHOOSE i \in 0 .. Len(sleepers) :
    /\ \A j \in 1 .. i : wake[sleepers[j].proc] <= wake[p]
    /\ i < Len(sleepers) => wake[sleepers[i + 1].proc] > wake[p]

\* The process's own node is used at the head only, elsewhere a fresh one.
Enqueue(p, i) ==
  SubSeq(sleepers, 1, i) \o <<[proc |-> p, own |-> i = 0]>>
                         \o SubSeq(sleepers, i + 1, Len(sleepers))

\* sys_sleep: k_process_sleep, then the switch even when it was refused.
Sleep(c) ==
  LET p == current[c]
      refused == IsLocked(p) IN
  /\ "sleep" \in setup.calls /\ At(c, "user") /\ sleepLock = None
  /\ Len(sleepers) < MaxSleepers
  /\ requeue' = [requeue EXCEPT ![c] = FALSE] /\ Goto(c, "switch")
  /\ flags' = [flags EXCEPT ![p] = IF refused THEN @ ELSE {"sleeping"}]
  /\ \E length \in 0 .. MaxSleep :
       LET wake == [left EXCEPT ![p] = length]
           i == Position(wake, p) IN
       /\ left' = IF refused THEN left ELSE wake
       /\ sleepers' = IF refused THEN sleepers ELSE Enqueue(p, i)
       /\ nodeOwner' = [nodeOwner EXCEPT ![p] = IF ~refused /\ i = 0 THEN "sleep" ELSE @]
  /\ UNCHANGED <<heap, queueLock, spawned, saved, current, arg, sleepLock, blocks,
                 pending, asserted, setup>>

\* k_process_sleep_on_queue, from a device driver; a refusal needs no lock.
Block(c, q) ==
  LET p == current[c]
      refused == IsLocked(p) IN
  /\ "block" \in setup.calls /\ At(c, "user") /\ (refused \/ blockLock = None)
  /\ requeue' = [requeue EXCEPT ![c] = FALSE] /\ Goto(c, "switch")
  /\ flags' = [flags EXCEPT ![p] = IF refused THEN @ ELSE {"sleeping"}]
  /\ waiters' = [waiters EXCEPT ![q] = IF refused THEN @ ELSE Append(@, p)]
  /\ nodeOwner' = [nodeOwner EXCEPT ![p] = IF refused THEN @ ELSE q]
  /\ UNCHANGED <<heap, queueLock, spawned, saved, current, arg, sleeps, waking,
                 blockLock, pending, asserted, setup>>

----------------------------------------------------------------------------
(* Signals: k_process_send_signal and k_process_invoke_signals             *)

\* A signal that is neither handled nor fatal is dropped and changes nothing.
Kill(c, target, sig) ==
  /\ "kill" \in setup.calls /\ At(c, "user") /\ target \in spawned
  /\ pending' = [pending EXCEPT ![target] = @ \union {sig}]
  /\ arg' = [arg EXCEPT ![c] = target]
  /\ Goto(c, IF target = current[c] THEN "return" ELSE "kill")
  /\ UNCHANGED <<sched, current, requeue, sleeps, blocks, nodeOwner, asserted, setup>>

KillCheck(c) ==
  /\ At(c, "kill")
  /\ Goto(c, IF ~IsReady(arg[c]) /\ "running" \notin flags[arg[c]]
             THEN "kick" ELSE "return")
  /\ UNCHANGED <<sched, current, arg, requeue, sleeps, blocks, rest>>

KillReady(c) ==
  /\ At(c, "kick")
  /\ MakeReady(arg[c])
  /\ Goto(c, "return")
  /\ UNCHANGED <<queueLock, spawned, flags, saved, current, arg, requeue,
                 sleepers, sleepLock, blocks, rest>>

\* Mutant: the highest pending signal is taken.
ReturnHighest(c) ==
  /\ At(c, "return")
  /\ LET p == current[c] IN
     \/ /\ pending[p] = {}
        /\ Goto(c, "user") /\ UNCHANGED <<flags, pending>>
     \/ \E sig \in pending[p] :
          /\ \A other \in pending[p] : sig >= other
          /\ pending' = [pending EXCEPT ![p] = @ \ {sig}]
          /\ \/ /\ sig \notin Handled /\ "finished" \notin flags[p]
                /\ flags' = [flags EXCEPT ![p] = {"finished"}]
                /\ Goto(c, "next")
             \/ /\ ~(sig \notin Handled /\ "finished" \notin flags[p])
                /\ Goto(c, "user") /\ UNCHANGED flags
  /\ UNCHANGED <<heap, queueLock, spawned, saved, current, arg, requeue, sleeps,
                 blocks, nodeOwner, asserted, setup>>

\* The end of __dispatch_interrupt, back to user mode: the lowest pending signal
\* is taken; a handler is entered, one without ends in k_process_exit.
Return(c) ==
  /\ At(c, "return")
  /\ LET p == current[c] IN
     \/ /\ pending[p] = {}
        /\ Goto(c, "user") /\ UNCHANGED <<flags, pending>>
     \/ \E sig \in pending[p] :
          /\ \A other \in pending[p] : sig <= other
          /\ pending' = [pending EXCEPT ![p] = @ \ {sig}]
          /\ \/ /\ sig \notin Handled /\ "finished" \notin flags[p]
                /\ flags' = [flags EXCEPT ![p] = {"finished"}]
                /\ Goto(c, "next")
             \/ /\ ~(sig \notin Handled /\ "finished" \notin flags[p])
                /\ Goto(c, "user") /\ UNCHANGED flags
  /\ UNCHANGED <<heap, queueLock, spawned, saved, current, arg, requeue, sleeps,
                 blocks, nodeOwner, asserted, setup>>

----------------------------------------------------------------------------
(* Timer interrupts: __apic_tick, __pit_tick, k_process_update_timings     *)

Preemptible(c) == pc[c] \in {"user", "idle"} /\ ~asserted

\* After the tick a user process yields; the idle process leaves hlt.
TickEnd(c) ==
  /\ requeue' = [requeue EXCEPT ![c] = TRUE]
  /\ Goto(c, IF current[c] = None THEN "next" ELSE "switch")

Tick(c) ==
  /\ Preemptible(c) /\ c \in setup.cores
  /\ \/ setup.apic /\ Goto(c, "timing") /\ UNCHANGED requeue
     \/ ~setup.apic /\ c = BootCore /\ TickEnd(c)
  /\ UNCHANGED <<sched, current, arg, sleeps, blocks, rest>>

HeadDue == sleepers # <<>> /\ left[Head(sleepers).proc] = 0

\* Mutant: the test of is_ready is the wrong way round.
TimingInverted(c) ==
  /\ At(c, "timing") /\ Free(sleepLock, c)
  /\ \/ /\ ~HeadDue
        /\ sleepLock' = None /\ TickEnd(c)
     \/ /\ HeadDue
        /\ sleepLock' = c
        /\ Goto(c, IF IsReady(Head(sleepers).proc) THEN "expire" ELSE "expired")
        /\ UNCHANGED requeue
  /\ UNCHANGED <<sched, current, arg, sleepers, left, blocks, rest>>

\* The head of the sleep queue: not due, or taken off at once, or made ready.
Timing(c) ==
  /\ At(c, "timing") /\ Free(sleepLock, c)
  /\ \/ /\ ~HeadDue
        /\ sleepLock' = None /\ TickEnd(c)
     \/ /\ HeadDue
        /\ sleepLock' = c
        /\ Goto(c, IF IsReady(Head(sleepers).proc) THEN "expired" ELSE "expire")
        /\ UNCHANGED requeue
  /\ UNCHANGED <<sched, current, arg, sleepers, left, blocks, rest>>

Expire(c) ==
  /\ At(c, "expire")
  /\ MakeReady(Head(sleepers).proc)
  /\ Goto(c, "expired")
  /\ UNCHANGED <<queueLock, spawned, flags, saved, current, arg, requeue,
                 sleepers, sleepLock, blocks, rest>>

\* Mutant: the popped node keeps its owner.
ExpiredKeepsOwner(c) ==
  /\ At(c, "expired")
  /\ sleepers' = Tail(sleepers)
  /\ Goto(c, "timing")
  /\ UNCHANGED <<sched, current, arg, requeue, sleepLock, left, blocks, rest>>

Expired(c) ==
  /\ At(c, "expired")
  /\ sleepers' = Tail(sleepers)
  /\ nodeOwner' = [nodeOwner EXCEPT ![Head(sleepers).proc] =
                     IF Head(sleepers).own THEN None ELSE @]
  /\ Goto(c, "timing")
  /\ UNCHANGED <<sched, current, arg, requeue, sleepLock, left, blocks, pending,
                 asserted, setup>>

\* The clock goes on for as long as somebody's wake-up is ahead.
Elapse ==
  /\ \E p \in Proc : left[p] > 0
  /\ ~asserted
  /\ left' = [p \in Proc |-> IF left[p] = 0 THEN 0 ELSE left[p] - 1]
  /\ UNCHANGED <<sched, cores, sleepers, sleepLock, blocks, rest>>

----------------------------------------------------------------------------
(* Device interrupts: k_process_wakeup_queue                               *)

Irq(q) ==
  /\ "block" \in setup.calls /\ Preemptible(BootCore)
  /\ waking' = [waking EXCEPT ![BootCore] = q] /\ Goto(BootCore, "waking")
  /\ UNCHANGED <<sched, current, arg, requeue, sleeps, waiters, blockLock, rest>>

\* One round of the loop: the last waiter is popped, unlocked, made ready.
Waking(c) ==
  /\ At(c, "waking") /\ Free(blockLock, c)
  /\ LET q == waking[c]
         w == waiters[q] IN
     \/ /\ w = <<>>
        /\ blockLock' = None /\ waking' = [waking EXCEPT ![c] = None]
        /\ Goto(c, IF current[c] = None THEN "next" ELSE "return")
        /\ UNCHANGED <<waiters, nodeOwner, arg>>
     \/ /\ w # <<>>
        /\ blockLock' = c
        /\ waiters' = [waiters EXCEPT ![q] = SubSeq(w, 1, Len(w) - 1)]
        /\ nodeOwner' = [nodeOwner EXCEPT ![w[Len(w)]] = None]
        /\ arg' = [arg EXCEPT ![c] = w[Len(w)]]
        /\ Goto(c, IF "finished" \in flags[w[Len(w)]] THEN "waking" ELSE "wakeup")
        /\ UNCHANGED waking
  /\ UNCHANGED <<sched, current, requeue, sleeps, pending, asserted, setup>>

Wakeup(c) ==
  /\ At(c, "wakeup")
  /\ MakeReady(arg[c])
  /\ Goto(c, "waking")
  /\ UNCHANGED <<queueLock, spawned, flags, saved, current, arg, requeue,
                 sleepers, sleepLock, blocks, rest>>

----------------------------------------------------------------------------
Kernel(c) ==
  \/ Switch(c) \/ Requeue(c) \/ Pick(c) \/ Claim(c) \/ Load(c)
  \/ ForkReady(c) \/ KillCheck(c) \/ KillReady(c) \/ Return(c)
  \/ Timing(c) \/ Expire(c) \/ Expired(c) \/ Waking(c) \/ Wakeup(c)

Program(c) ==
  \/ \E p \in Proc : Fork(c, p) \/ \E sig \in Signal : Kill(c, p, sig)
  \/ Exit(c) \/ Sleep(c)
  \/ \E q \in Queue : Block(c, q)

Next ==
  \/ \E c \in Core : Kernel(c) \/ Program(c) \/ Tick(c)
  \/ Elapse
  \/ \E q \in Queue : Irq(q)

Spec == Init /\ [][Next]_vars

\* The processors do not stop, the timer ticks, time passes, devices answer.
Fairness ==
  /\ \A c \in Core : WF_vars(Kernel(c)) /\ SF_vars(Tick(c))
  /\ WF_vars(Elapse)
  /\ \A q \in Queue : SF_vars(Irq(q))

FairSpec == Spec /\ Fairness
----------------------------------------------------------------------------
\* The core is on behalf of its current process and has not given it up.
Executing(c) == current[c] # None /\ pc[c] \notin {"next", "claim", "load"}

\* ... and the process is not on its way into a queue it has entered already.
Keeps(c, p) == Executing(c) /\ current[c] = p /\ (pc[c] = "switch" => requeue[c])

Max == Cardinality(Proc) + 1
ReadySeq == L!Forward(heap, Ready, Max)

InHand(c, p) == arg[c] = p /\ pc[c] \in {"claim", "load", "fork", "kick", "wakeup"}

\* The sleep queue without the entry a core is about to take off.
Sleeping == IF \E c \in Core : pc[c] = "expired" THEN Tail(sleepers) ELSE sleepers

Times(p, s) == Cardinality({i \in DOMAIN s : s[i] = p})

\* In how many places the system will find process p again.
Places(p) ==
  Cardinality({c \in Core : Keeps(c, p)}) + Cardinality({c \in Core : InHand(c, p)})
  + Times(p, ReadySeq)
  + Cardinality({i \in DOMAIN Sleeping : Sleeping[i].proc = p})
  + Cardinality({qi \in Queue \X (1 .. Max) :
       qi[2] \in DOMAIN waiters[qi[1]] /\ waiters[qi[1]][qi[2]] = p})

RunOnce ==
  \A c, d \in Core : c # d /\ Executing(c) /\ Executing(d) => current[c] # current[d]

(* Every process that has not finished is in exactly one place: running,    *)
(* ready, asleep, waiting for a device or in the hands of a kernel path     *)
(* that is about to queue it.  None is lost, none is scheduled twice, and   *)
(* no process runs on two cores at once.                                    *)
OnePlace ==
  /\ TypeOK
  /\ RunOnce
  /\ \A p \in spawned : "finished" \notin flags[p] => Places(p) = 1

(* The ready queue is a whole list: the same forwards and backwards, its    *)
(* size right, its nodes the ones whose owner it is.  Prepending a node     *)
(* that is already linked breaks it.                                        *)
ReadyWhole ==
  /\ ReadySeq = L!Backward(heap, Ready, Max)
  /\ Len(ReadySeq) = heap.size[Ready]
  /\ {ReadySeq[i] : i \in DOMAIN ReadySeq} = {p \in Proc : IsReady(p)}

(* assert((proc->flags & PROCESS_FINISHED) == 0) never fails.               *)
AssertHolds == ~asserted

(* A core only resumes a context that was saved since the process last ran. *)
FreshContext ==
  [][\A c \in Core : Load(c) /\ arg[c] # None => saved[arg[c]] # "none"]_vars

(* Whatever is ready is run (or finished) in the end.                       *)
ReadyRuns ==
  \A p \in Proc : (IsReady(p) ~> (\E c \in Core : current[c] = p) \/ "finished" \in flags[p])

(* Whoever went to sleep or waits for a device runs again in the end.       *)
SleeperRuns ==
  \A p \in Proc : ("sleeping" \in flags[p] ~> "sleeping" \notin flags[p]
                     \/ \E c \in Core : pc[c] = "user" /\ current[c] = p)

(* A signal that a process does not handle ends it, unless smaller ones keep *)
(* coming: signal 1 stands for such a one.                                  *)
FatalKills ==
  \A p \in Proc : (1 \in pending[p] \ Handled ~> "finished" \in flags[p])
=============================================================================
