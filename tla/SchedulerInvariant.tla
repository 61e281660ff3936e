------------------------- MODULE SchedulerInvariant -------------------------
(* The inductive invariant behind the safety properties of Scheduler: how  *)
(* the control points of the contexts determine IF, the current thread, the *)
(* ring and the contents of the saved contexts.                             *)
EXTENDS Scheduler

ThreadLabels == {"run", "delay_store", "yield", "switch", "restore", "exit",
                 "exit_unregister", "exit_free", "exit_load", "dead"}
UserLabels   == {"sys_push", "svc", "sysret"}

\* Code that runs with interrupts off, and code only the processor's own
\* context can be in: no thread is descheduled there.
Masked     == {"sys_push", "switch", "restore",
               "exit_unregister", "exit_free", "exit_load"}
NotParked  == {"sys_push", "switch", "exit_unregister", "exit_free", "exit_load"}
\* Code in which the scheduler has already named another thread.
HandedOver == {"switch", "exit_unregister", "exit_free", "exit_load"}
Leaving    == {"exit_unregister", "exit_free", "exit_load", "dead"}
Gone       == {"exit_load", "dead"}
OffRing    == {"exit_free", "exit_load", "dead"}

PcOK ==
    /\ pc[Boot] \in {"start", "create", "left"}
    /\ pc[Idle] \in {"idle_start", "idle"}
    /\ \A t \in KernelThreads : pc[t] \in ThreadLabels
    /\ \A t \in UserThreads : pc[t] \in ThreadLabels \cup UserLabels

BootOK ==
    /\ cpu = Boot <=> pc[Boot] # "left"
    /\ pc[Boot] = "start" <=> current = NoThread
    /\ cpu = Boot =>
         /\ ~schedule /\ intr
         /\ pc[Idle] = "idle_start" /\ current \in {Idle, NoThread}
         /\ \A t \in Threads : pc[t] = "run" /\ state[t] = "Ready"
         /\ \A t \in Known : ctx[t] = [who |-> t, if |-> TRUE]
    /\ pc[Boot] = "start" => ring = <<>> /\ thread_map = {}
    /\ pc[Boot] # "start" => Idle \in thread_map
    /\ pc[Boot] = "left" =>
         \A t \in Threads : t \in thread_map \/ pc[t] \in Gone

ProcessorOK ==
    cpu # Boot =>
      /\ pc[cpu] \in Masked => ~intr
      /\ pc[cpu] \notin Masked \cup {"exit"} => intr
      /\ pc[cpu] \notin HandedOver => cpu = current
      /\ pc[cpu] # "dead"
      /\ \A t \in Threads \ {cpu} : pc[t] \notin NotParked

RingOK ==
    /\ \A i, j \in DOMAIN ring : ring[i] = ring[j] => i = j
    /\ \A t \in Threads : OnRing(t) <=> t \in thread_map /\ pc[t] \notin OffRing
    /\ \A t \in Threads : t \in thread_map => pc[t] \notin Gone
    /\ current \in Threads => OnRing(current)

StateOK ==
    /\ \A t \in Known : state[t] = "Running" => t = current
    /\ \A t \in Threads : state[t] = "Terminating" <=> pc[t] \in Leaving
    /\ \A t \in Threads : pc[t] \in Leaving => t # current
    /\ state[Idle] \in {"Ready", "Running"}
    /\ current \in Threads =>
         \/ state[current] = "Running"
         \/ state[current] = "Waiting" /\ pc[current] \in {"delay_store", "yield"}

ContextOK ==
    \A t \in thread_map \ {cpu} : ctx[t].who = t /\ ctx[t].if = (pc[t] # "restore")

StackOK ==
    /\ \A t \in Threads : stack[t] = t
    /\ current \in Threads => kstack = current
    /\ \A t \in UserThreads :
         /\ pc[t] = "sys_push" => user_stack = t
         /\ pc[t] \in {"svc", "delay_store", "yield", "switch", "restore", "sysret"}
              => saved_user[t] = t

GsOK == kernel_gs = ~UserMode(cpu)

LocalOK == \A t \in Threads : pc[t] \in {"switch", "restore"} => int_state[t]

\* The conjunction that every step preserves.
IInv == /\ TypeOK /\ PcOK /\ BootOK /\ ProcessorOK /\ RingOK /\ StateOK
        /\ ContextOK /\ StackOK /\ GsOK /\ LocalOK
=============================================================================
