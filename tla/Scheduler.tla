------------------------------ MODULE Scheduler ------------------------------
(****************************************************************************)
(* The thread scheduler of the vinci_os kernel: kernel/core/thread.cc, the  *)
(* timer half of IsrCommon (kernel/hw/cpu/intctrl.cc), the system-call      *)
(* entry path and the two context-switch routines of cpu.asm.               *)
(*                                                                          *)
(* One processor runs one execution context at a time (cpu).  A context     *)
(* executes the code its label pc names; a step of a context is the code up *)
(* to the next point at which an interrupt may arrive or at which another   *)
(* part of the state becomes visible.  The timer interrupt is one step: the *)
(* gate clears IF and the handler never sets it.                            *)
(*                                                                          *)
(* Data that no decision depends on is left out: registers other than the   *)
(* instruction pointer (pc), IF and the stack; thread ids are identified    *)
(* with the threads they name.  The time stamps ticks and delay only matter *)
(* modulo Quantum and in comparison with each other, so every Epoch ticks   *)
(* they are all moved back by Epoch; no behaviour is cut off.               *)
(****************************************************************************)
EXTENDS Integers, Sequences

CONSTANTS KernelThreads,  \* threads made by CreateThread
          UserThreads,    \* threads made by CreateUserThread
          Idle,           \* the idle thread
          Boot,           \* the boot flow OsInitialize, which is not a thread
          NoThread,       \* the null Thread*
          Quantum,        \* ticks between two preemptions (10 in the code)
          Delays,         \* the arguments Delay is called with
          Epoch           \* time stamps are moved back every Epoch ticks

Threads == KernelThreads \cup UserThreads
Known   == Threads \cup {Idle}
Flows   == Known \cup {Boot}

ASSUME ThreadAssumption ==
    /\ KernelThreads \cap UserThreads = {}
    /\ Idle \notin Threads
    /\ Boot \notin Known
    /\ NoThread \notin Flows
ASSUME TimeAssumption ==
    /\ Quantum \in Nat \ {0}
    /\ Delays \subseteq Nat
    /\ Epoch \in Nat \ {0}
    /\ Epoch % Quantum = 0

States == {"Ready", "Running", "Waiting", "Terminating"}
Labels == {"start", "create", "left",                        \* Boot
           "idle_start", "idle",                             \* IdleLoop
           "run", "sys_push", "svc", "delay_store", "yield", \* threads
           "switch", "restore", "sysret",
           "exit", "exit_unregister", "exit_free", "exit_load",
           "dead", "panic"}

VARIABLES
    ring,        \* core->thread_list_head, from its first thread on
    state,       \* Thread::state
    delay,       \* Thread::delay
    ctx,         \* Thread::context: whose code it resumes, with which IF
    current,     \* core->current_thread
    kstack,      \* core->kernel_stack_top and tss->rsp0, always stored together
    user_stack,  \* core->user_stack
    schedule,    \* ke::schedule
    ticks,       \* timer::ticks
    thread_map,  \* the threads whose id bit is set
    cpu,         \* the context the processor executes
    intr,        \* RFLAGS.IF
    kernel_gs,   \* GS holds the Core, not the user's value
    pc,          \* where each context stands
    stack,       \* whose kernel stack each thread's kernel code runs on
    saved_user,  \* the user rsp SyscallEntry pushed, until it is popped
    int_state,   \* Yield's local: was IF set when it was called (FALSE outside)
    due          \* Delay's argument

threadVars == <<ring, state, delay, ctx, thread_map>>
coreVars   == <<current, kstack, user_stack>>
timeVars   == <<schedule, ticks>>
cpuVars    == <<cpu, intr, kernel_gs>>
localVars  == <<stack, saved_user, int_state, due>>
vars == <<threadVars, coreVars, timeVars, cpuVars, localVars, pc>>

OnRing(t)   == \E i \in DOMAIN ring : ring[i] = t
Position(t) == CHOOSE i \in DOMAIN ring : ring[i] = t

\* slist_entry::remove: a thread that is not on the ring leaves it as it is.
Without(t) ==
    IF ~OnRing(t) THEN ring
    ELSE [i \in 1..(Len(ring) - 1) |-> IF i < Position(t) THEN ring[i] ELSE ring[i + 1]]

UserMode(f) == f \in UserThreads /\ pc[f] = "run"
-----------------------------------------------------------------------------
(* SelectNextThread, as a function of the states st it finds.               *)

\* Mutant of Inspected: the scan always restarts at the head of the ring.
InspectedFromHead(k) == ring[k]

\* The k-th entry the scan looks at: from the head of the ring when idle,
\* else from the entry after the current thread, which is itself the last one.
Inspected(k) ==
    IF current = Idle THEN ring[k]
    ELSE ring[((Position(current) + k - 1) % Len(ring)) + 1]

\* Mutant of Eligible: a thread whose delay is over is not picked up.
EligibleNeverWakes(st, t) == st[t] = "Ready"

Eligible(st, t) == \/ st[t] = "Ready"
                   \/ st[t] = "Waiting" /\ delay[t] <= ticks

\* Mutant of Candidates: the scan stops one entry early.
CandidatesShort(st) == {k \in 1..(Len(ring) - 1) : Eligible(st, Inspected(k))}

Candidates(st) == {k \in 1..Len(ring) : Eligible(st, Inspected(k))}

\* NoThread: SelectNextThread returns false and nothing changes.
NextThread(st) ==
    IF Candidates(st) # {}
    THEN Inspected(CHOOSE k \in Candidates(st) : \A j \in Candidates(st) : k <= j)
    ELSE IF ring = <<>> \/ current = Idle \/ st[current] = "Running"
         THEN NoThread
         ELSE Idle

\* Mutant of SelectNextThread: it leaves the kernel stack of the previous thread.
SelectKeepsStack(st) ==
    IF NextThread(st) = NoThread
    THEN state' = st /\ UNCHANGED <<current, kstack>>
    ELSE /\ state' = [t \in Known |->
               IF t = NextThread(st) THEN "Running"
               ELSE IF t = current /\ st[t] = "Running" THEN "Ready"
               ELSE st[t]]
         /\ current' = NextThread(st)
         /\ kstack' = kstack

SelectNextThread(st) ==
    IF NextThread(st) = NoThread
    THEN state' = st /\ UNCHANGED <<current, kstack>>
    ELSE /\ state' = [t \in Known |->
               IF t = NextThread(st) THEN "Running"
               ELSE IF t = current /\ st[t] = "Running" THEN "Ready"
               ELSE st[t]]
         /\ current' = NextThread(st)
         /\ kstack' = NextThread(st)

\* Both ways of loading a context swap GS exactly when it is a user one.
Resume(contexts, next) ==
    /\ cpu' = contexts[next].who
    /\ intr' = contexts[next].if
-----------------------------------------------------------------------------
(* Boot: OsInitialize from StartScheduler on, and the idle thread.          *)

\* Mutant of StartScheduler: preemption is on before the idle loop runs.
StartSchedulerPreemptible ==
    /\ cpu = Boot /\ pc[Boot] = "start"
    /\ pc' = [pc EXCEPT ![Boot] = "create"]
    /\ thread_map' = {Idle}
    /\ current' = Idle
    /\ schedule' = TRUE
    /\ UNCHANGED <<cpuVars, localVars, ring, state, delay, ctx, kstack, user_stack,
                   ticks>>

StartScheduler ==
    /\ cpu = Boot /\ pc[Boot] = "start"
    /\ pc' = [pc EXCEPT ![Boot] = "create"]
    /\ thread_map' = {Idle}
    /\ current' = Idle
    /\ UNCHANGED <<timeVars, cpuVars, localVars, ring, state, delay, ctx,
                   kstack, user_stack>>

\* CreateThread and CreateUserThread: while only the boot flow runs.
CreateThread(t) ==
    /\ cpu = Boot /\ pc[Boot] = "create"
    /\ t \notin thread_map
    /\ thread_map' = thread_map \cup {t}
    /\ state' = [state EXCEPT ![t] = "Ready"]
    /\ ring' = <<t>> \o ring
    /\ UNCHANGED <<coreVars, timeVars, cpuVars, localVars, delay, ctx, pc>>

\* The boot flow never returns: LoadContext(&idle_thread->context).
EnterIdle ==
    /\ cpu = Boot /\ pc[Boot] = "create"
    /\ Threads \subseteq thread_map
    /\ Resume(ctx, Idle)
    /\ pc' = [pc EXCEPT ![Boot] = "left"]
    /\ UNCHANGED <<threadVars, coreVars, timeVars, localVars, kernel_gs>>

IdleLoop ==
    /\ cpu = Idle /\ pc[Idle] = "idle_start"
    /\ schedule' = TRUE
    /\ intr' = TRUE
    /\ pc' = [pc EXCEPT ![Idle] = "idle"]
    /\ UNCHANGED <<threadVars, coreVars, localVars, ticks, cpu, kernel_gs>>
-----------------------------------------------------------------------------
(* Entering and leaving the kernel from user mode.                          *)

\* Mutant of SyscallEntry: sti before the user stack pointer is pushed.
SyscallEntryEarlySti(t) ==
    /\ cpu = t /\ UserMode(t)
    /\ kernel_gs' = ~kernel_gs
    /\ user_stack' = t
    /\ stack' = [stack EXCEPT ![t] = kstack]
    /\ pc' = [pc EXCEPT ![t] = "sys_push"]
    /\ UNCHANGED <<threadVars, timeVars, current, kstack, cpu, intr, saved_user,
                   int_state, due>>

\* syscall clears IF; SyscallEntry up to loading the kernel stack.
SyscallEntry(t) ==
    /\ cpu = t /\ UserMode(t)
    /\ intr' = FALSE
    /\ kernel_gs' = ~kernel_gs
    /\ user_stack' = t
    /\ stack' = [stack EXCEPT ![t] = kstack]
    /\ pc' = [pc EXCEPT ![t] = "sys_push"]
    /\ UNCHANGED <<threadVars, timeVars, current, kstack, cpu, saved_user,
                   int_state, due>>

\* The user stack pointer moves from the Core to the kernel stack; then sti.
SyscallPush(t) ==
    /\ cpu = t /\ pc[t] = "sys_push"
    /\ saved_user' = [saved_user EXCEPT ![t] = user_stack]
    /\ intr' = TRUE
    /\ pc' = [pc EXCEPT ![t] = "svc"]
    /\ UNCHANGED <<threadVars, coreVars, timeVars, cpu, kernel_gs, stack,
                   int_state, due>>

\* A system call that leaves the thread state alone: print, or an unknown one.
SyscallPrint(t) ==
    /\ cpu = t /\ pc[t] = "svc"
    /\ pc' = [pc EXCEPT ![t] = "sysret"]
    /\ UNCHANGED <<threadVars, coreVars, timeVars, cpuVars, localVars>>

\* cli; pop rsp; swapgs; sysretq
SyscallReturn(t) ==
    /\ cpu = t /\ pc[t] = "sysret"
    /\ intr' = TRUE
    /\ kernel_gs' = ~kernel_gs
    /\ saved_user' = [saved_user EXCEPT ![t] = NoThread]
    /\ pc' = [pc EXCEPT ![t] = "run"]
    /\ UNCHANGED <<threadVars, coreVars, timeVars, cpu, stack, int_state, due>>

\* SyscallEntry's .not_canonical: the return address is not a user one.
SyscallBadReturn(t) ==
    /\ cpu = t /\ pc[t] = "sysret"
    /\ pc' = [pc EXCEPT ![t] = "exit"]
    /\ UNCHANGED <<threadVars, coreVars, timeVars, cpuVars, localVars>>

\* An exception in user mode: the gate loads rsp0, IsrCommon exits the thread.
UserException(t) ==
    /\ cpu = t /\ UserMode(t)
    /\ intr' = FALSE
    /\ kernel_gs' = ~kernel_gs
    /\ stack' = [stack EXCEPT ![t] = kstack]
    /\ pc' = [pc EXCEPT ![t] = "exit"]
    /\ UNCHANGED <<threadVars, coreVars, timeVars, cpu, saved_user, int_state,
                   due>>
-----------------------------------------------------------------------------
(* What a thread asks of the scheduler, from a kernel thread's function or  *)
(* from the body of a system call.                                          *)

InKernelBody(t) == \/ t \in KernelThreads /\ pc[t] = "run"
                   \/ t \in UserThreads /\ pc[t] = "svc"

CallerOf(t) == IF t \in UserThreads THEN "sysret" ELSE "run"

CallYield(t) ==
    /\ cpu = t /\ InKernelBody(t)
    /\ pc' = [pc EXCEPT ![t] = "yield"]
    /\ UNCHANGED <<threadVars, coreVars, timeVars, cpuVars, localVars>>

\* Delay marks the thread as waiting first, with interrupts still enabled.
CallDelay(t, n) ==
    /\ cpu = t /\ InKernelBody(t)
    /\ state' = [state EXCEPT ![t] = "Waiting"]
    /\ due' = [due EXCEPT ![t] = n]
    /\ pc' = [pc EXCEPT ![t] = IF n > 0 THEN "delay_store" ELSE "yield"]
    /\ UNCHANGED <<coreVars, timeVars, cpuVars, ring, delay, ctx, thread_map,
                   stack, saved_user, int_state>>

DelayStore(t) ==
    /\ cpu = t /\ pc[t] = "delay_store"
    /\ delay' = [delay EXCEPT ![t] = ticks + due[t]]
    /\ due' = [due EXCEPT ![t] = 0]
    /\ pc' = [pc EXCEPT ![t] = "yield"]
    /\ UNCHANGED <<coreVars, timeVars, cpuVars, ring, state, ctx, thread_map,
                   stack, saved_user, int_state>>

YieldSelect(t) ==
    /\ cpu = t /\ pc[t] = "yield"
    /\ int_state' = [int_state EXCEPT ![t] = intr]
    /\ intr' = FALSE
    /\ SelectNextThread(state)
    /\ pc' = [pc EXCEPT ![t] = IF NextThread(state) = NoThread THEN "restore" ELSE "switch"]
    /\ UNCHANGED <<timeVars, ring, delay, ctx, user_stack, thread_map, cpu,
                   kernel_gs, stack, saved_user, due>>

\* SwitchContext saves the caller, IF clear, and loads the current thread.
YieldSwitch(t) ==
    /\ cpu = t /\ pc[t] = "switch"
    /\ ctx' = [ctx EXCEPT ![t] = [who |-> t, if |-> intr]]
    /\ pc' = [pc EXCEPT ![t] = "restore"]
    /\ Resume(ctx', current)
    /\ kernel_gs' = (kernel_gs # UserMode(cpu'))
    /\ UNCHANGED <<coreVars, timeVars, localVars, ring, state, delay,
                   thread_map>>

YieldRestore(t) ==
    /\ cpu = t /\ pc[t] = "restore"
    /\ intr' = (int_state[t] \/ intr)
    /\ int_state' = [int_state EXCEPT ![t] = FALSE]
    /\ pc' = [pc EXCEPT ![t] = CallerOf(t)]
    /\ UNCHANGED <<threadVars, coreVars, timeVars, cpu, kernel_gs, stack, saved_user,
                   due>>
-----------------------------------------------------------------------------
(* ExitThread: from a kernel thread's return, system call 3, a bad return   *)
(* address or a user exception.                                             *)

CallExit(t) ==
    /\ cpu = t /\ InKernelBody(t)
    /\ pc' = [pc EXCEPT ![t] = "exit"]
    /\ UNCHANGED <<threadVars, coreVars, timeVars, cpuVars, localVars>>

\* Mutants of ExitSelect: the thread is not marked as terminating; interrupts
\* stay as they are.
ExitSelectUnmarked(t) ==
    /\ cpu = t /\ pc[t] = "exit"
    /\ intr' = FALSE
    /\ SelectNextThread(state)
    /\ pc' = [pc EXCEPT ![t] = "exit_unregister"]
    /\ UNCHANGED <<timeVars, localVars, ring, delay, ctx, user_stack, thread_map, cpu,
                   kernel_gs>>

ExitSelectPreemptible(t) ==
    /\ cpu = t /\ pc[t] = "exit"
    /\ SelectNextThread([state EXCEPT ![t] = "Terminating"])
    /\ pc' = [pc EXCEPT ![t] = "exit_unregister"]
    /\ UNCHANGED <<timeVars, localVars, ring, delay, ctx, user_stack, thread_map, cpu,
                   intr, kernel_gs>>

ExitSelect(t) ==
    /\ cpu = t /\ pc[t] = "exit"
    /\ intr' = FALSE
    /\ SelectNextThread([state EXCEPT ![t] = "Terminating"])
    /\ pc' = [pc EXCEPT ![t] = "exit_unregister"]
    /\ UNCHANGED <<timeVars, localVars, ring, delay, ctx, user_stack,
                   thread_map, cpu, kernel_gs>>

\* Mutants of UnregisterThread: interrupts always come back on; the thread
\* stays on the ring.
UnregisterThreadSti(t) ==
    /\ cpu = t /\ pc[t] = "exit_unregister"
    /\ ring' = Without(t)
    /\ intr' = TRUE
    /\ pc' = [pc EXCEPT ![t] = "exit_free"]
    /\ UNCHANGED <<coreVars, timeVars, localVars, state, delay, ctx, thread_map, cpu,
                   kernel_gs>>

UnregisterThreadForgets(t) ==
    /\ cpu = t /\ pc[t] = "exit_unregister"
    /\ pc' = [pc EXCEPT ![t] = "exit_free"]
    /\ UNCHANGED <<threadVars, coreVars, timeVars, cpuVars, localVars>>

\* Interrupts come back on only if they were on, and here they are off.
UnregisterThread(t) ==
    /\ cpu = t /\ pc[t] = "exit_unregister"
    /\ ring' = Without(t)
    /\ pc' = [pc EXCEPT ![t] = "exit_free"]
    /\ UNCHANGED <<coreVars, timeVars, cpuVars, localVars, state, delay, ctx,
                   thread_map>>

\* Frees the thread and the very stack this code runs on.
FreeThread(t) ==
    /\ cpu = t /\ pc[t] = "exit_free"
    /\ thread_map' = thread_map \ {t}
    /\ pc' = [pc EXCEPT ![t] = IF t \in thread_map THEN "exit_load" ELSE "panic"]
    /\ UNCHANGED <<coreVars, timeVars, cpuVars, localVars, ring, state, delay,
                   ctx>>

ExitLoadContext(t) ==
    /\ cpu = t /\ pc[t] = "exit_load"
    /\ pc' = [pc EXCEPT ![t] = "dead"]
    /\ Resume(ctx, current)
    /\ kernel_gs' = (kernel_gs # UserMode(cpu'))
    /\ UNCHANGED <<threadVars, coreVars, timeVars, localVars>>
-----------------------------------------------------------------------------
(* The timer interrupt: IsrCommon for irq 0, then timer::Isr, then the EOI. *)
(* The frame of whatever the processor executes goes to the thread the      *)
(* scheduler believes is current.                                           *)

Preempts == ticks % Quantum = 0 /\ schedule /\ NextThread(state) # NoThread

TimeShift == IF ticks + 1 = Epoch THEN Epoch ELSE 0

TimerIsr ==
    /\ ticks' = ticks + 1 - TimeShift
    /\ delay' = [t \in Known |-> IF delay[t] < TimeShift THEN 0 ELSE delay[t] - TimeShift]

TimerInterrupt ==
    /\ intr
    /\ IF Preempts
       THEN /\ SelectNextThread(state)
            /\ ctx' = [ctx EXCEPT ![current] = [who |-> cpu, if |-> TRUE]]
            /\ Resume(ctx', current')
       ELSE UNCHANGED <<state, current, kstack, ctx, cpu, intr>>
    /\ kernel_gs' = ((kernel_gs # UserMode(cpu)) # UserMode(cpu'))
    /\ TimerIsr
    /\ UNCHANGED <<localVars, ring, user_stack, schedule, thread_map, pc>>
-----------------------------------------------------------------------------
Init ==
    /\ ring = <<>>
    /\ state = [t \in Known |-> "Ready"]
    /\ delay = [t \in Known |-> 0]
    /\ ctx = [t \in Known |-> [who |-> t, if |-> TRUE]]
    /\ current = NoThread
    /\ kstack = Idle                   \* the boot stack becomes the idle thread's
    /\ user_stack = NoThread
    /\ schedule = FALSE
    /\ ticks = 0
    /\ thread_map = {}
    /\ cpu = Boot
    /\ intr = TRUE
    /\ kernel_gs = TRUE
    /\ pc = [f \in Flows |-> IF f = Boot THEN "start"
                             ELSE IF f = Idle THEN "idle_start" ELSE "run"]
    /\ stack = [t \in Known |-> t]
    /\ saved_user = [t \in Known |-> NoThread]
    /\ int_state = [t \in Known |-> FALSE]
    /\ due = [t \in Known |-> 0]

BootStep == StartScheduler \/ (\E t \in Threads : CreateThread(t)) \/ EnterIdle

\* What a thread's own code decides to do next.
Choice(t) == SyscallEntry(t) \/ UserException(t) \/ CallYield(t) \/ CallExit(t)
             \/ SyscallPrint(t) \/ SyscallBadReturn(t) \/ \E n \in Delays : CallDelay(t, n)

\* What the kernel does on its behalf once it has asked.
KernelStep(t) ==
    \/ SyscallPush(t) \/ SyscallReturn(t)
    \/ DelayStore(t) \/ YieldSelect(t) \/ YieldSwitch(t) \/ YieldRestore(t)
    \/ ExitSelect(t) \/ UnregisterThread(t) \/ FreeThread(t) \/ ExitLoadContext(t)

Next ==
    \/ BootStep
    \/ IdleLoop
    \/ \E t \in Threads : Choice(t) \/ KernelStep(t)
    \/ TimerInterrupt

Spec == Init /\ [][Next]_vars

\* The timer line stays asserted until it is served, and between two interrupts
\* the context on the processor executes: what a context can do again and again
\* it does, except that a thread's own code may compute forever.
Fairness ==
    /\ WF_vars(BootStep)
    /\ WF_vars(IdleLoop)
    /\ SF_vars(TimerInterrupt)
    /\ \A t \in Threads : SF_vars(KernelStep(t) \/ (pc[t] = "svc" /\ Choice(t)))

FairSpec == Spec /\ Fairness
-----------------------------------------------------------------------------
(* Properties.                                                              *)

\* Every variable has its type.
TypeOK ==
    /\ ring \in Seq(Threads)
    /\ state \in [Known -> States]
    /\ delay \in [Known -> Nat]
    /\ ctx \in [Known -> [who : Flows, if : BOOLEAN]]
    /\ current \in Known \cup {NoThread}
    /\ kstack \in Known
    /\ user_stack \in Threads \cup {NoThread}
    /\ schedule \in BOOLEAN
    /\ ticks \in Nat
    /\ thread_map \subseteq Known
    /\ cpu \in Flows
    /\ intr \in BOOLEAN
    /\ kernel_gs \in BOOLEAN
    /\ pc \in [Flows -> Labels]
    /\ stack \in [Known -> Known]
    /\ saved_user \in [Known -> Threads \cup {NoThread}]
    /\ int_state \in [Known -> BOOLEAN]
    /\ due \in [Known -> Nat]

\* SelectNextThread names a new current thread long before the processor runs
\* it, and ExitThread frees its own thread while it still runs: both only with
\* interrupts off.  Whenever an interrupt can arrive once the scheduler runs,
\* the processor executes the current thread, and that thread is alive.
InterruptibleIsCurrent ==
    intr /\ cpu # Boot => cpu = current /\ cpu \in thread_map

\* IsrCommon saves the frame of whatever it interrupted into the context of the
\* thread it believes is current.  No live thread's context ever resumes
\* another's code, and IF is saved clear only by SwitchContext inside Yield.
ContextsAreOwn ==
    \A t \in thread_map \ {cpu} :
        ctx[t].who = t /\ ctx[t].if = (pc[t] # "restore")

\* The kernel code of each thread runs on that thread's own kernel stack, and
\* the stack that the next system call or interrupt from user mode will load is
\* the one of the thread in user mode (core->kernel_stack_top, tss->rsp0).
\* core->user_stack is shared by all threads: the user stack pointer a thread
\* goes back to is the one it entered the kernel with.
StacksAreOwn ==
    /\ \A t \in Threads : stack[t] = t
    /\ UserMode(cpu) => kstack = cpu
    /\ \A t \in UserThreads : pc[t] \in {"svc", "delay_store", "yield", "switch",
                                         "restore", "sysret"} => saved_user[t] = t

\* Contexts are saved by an interrupt or by SwitchContext and loaded by either;
\* in every combination GS holds the Core in the kernel and only there.
GsFollowsMode == kernel_gs = ~UserMode(cpu)

\* Only the current thread is ever marked as running, so that no thread is left
\* behind as running, which SelectNextThread would skip for ever.
OnlyCurrentRuns ==
    \A t \in Known : state[t] = "Running" => t = current

\* The ring holds every live thread, once, and no other: a freed thread is
\* reachable neither from the ring nor as the current thread, and FreeThread
\* never panics because the id bit is already clear.
RingIsLive ==
    /\ \A i, j \in DOMAIN ring : ring[i] = ring[j] => i = j
    /\ \A t \in Threads :
         OnRing(t) <=> t \in thread_map /\ pc[t] # "exit_free"
    /\ current # NoThread => current \in thread_map
    /\ \A f \in Flows : pc[f] # "panic"

\* Round robin: how many entries the scan from the current thread passes before
\* it reaches t.
Distance(t) ==
    IF current = Idle THEN Position(t)
    ELSE ((Position(t) + Len(ring) - Position(current) - 1) % Len(ring)) + 1

\* While a thread waits for the processor, every switch to another thread
\* brings it nearer: nothing is served twice before it.  The idle thread never
\* gets the processor then, and restarting the scan at the head of the ring
\* after idling does not let a thread overtake.
WaitingThreadAdvances ==
    [][\A t \in Threads :
         (/\ OnRing(t) /\ Eligible(state, t) /\ t # current
          /\ current' # current /\ current # NoThread)
         => current' = t \/ (current' # Idle /\ Distance(t)' < Distance(t))]_vars

\* ExitThread ignores the result of SelectNextThread and trusts it to have
\* replaced the current thread: the thread it frees is never the one it loads.
ExitLeavesThread ==
    \A t \in Threads :
        /\ state[t] = "Terminating" => t # current
        /\ pc[t] = "dead" => t # current /\ t # cpu

\* The scheduler keeps the promises of ProcessorSharing: a thread is asleep
\* while it waits for a delay that is not over, and it leaves from the moment
\* ExitThread marks it until FreeThread.
Turn    == IF current = NoThread THEN Idle ELSE current
Live    == thread_map \ {Idle}
Asleep  == {t \in Threads : state[t] = "Waiting" /\ delay[t] > ticks}
Exiting == {t \in thread_map : state[t] = "Terminating"}
Sharing == INSTANCE ProcessorSharing WITH
    turn <- Turn, live <- Live, asleep <- Asleep, leaving <- Exiting
SharesProcessor == Sharing!Spec

\* A thread that can run, runs (thread.cc's scan from the previous thread on).
NoStarvation ==
    \A t \in Threads :
        (OnRing(t) /\ Eligible(state, t)) ~> (cpu = t)

\* A thread that calls Yield or Delay returns from it.
YieldReturns ==
    \A t \in Threads : pc[t] = "yield" ~> pc[t] \in {"run", "sysret"}

\* A thread that starts to exit is freed and another context is loaded.
ExitCompletes ==
    \A t \in Threads : pc[t] = "exit" ~> pc[t] = "dead"

\* The comment of SelectNextThread: "Set the old thread back to ready, unless it
\* is still waiting": a thread becomes ready only when its delay is over.
StillWaitingIsKept ==
    [][\A t \in Threads :
         state[t] # "Ready" /\ state'[t] = "Ready" => delay[t] <= ticks]_vars
=============================================================================
