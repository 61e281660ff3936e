--------------------------- MODULE SchedulerProofs ---------------------------
(****************************************************************************)
(* Proofs about Scheduler, for every set of threads, every Quantum, every   *)
(* set of delays and every Epoch: IInv is inductive (one lemma per action), *)
(* and the safety properties follow from it.  Then, from IInv, Scheduler    *)
(* implements ProcessorSharing: every step passes the turn, lets threads    *)
(* wake, sleep, leave or be reaped as ProcessorSharing allows, or changes   *)
(* nothing it speaks of.  And its round robin lets nobody overtake.         *)
(****************************************************************************)
EXTENDS SchedulerInvariant, NaturalFacts

\* A step that moves no thread off the ring or out of the map keeps the ring's
\* invariant, if it leaves a ring thread current.
LEMMA RingUnchanged ==
    ASSUME RingOK, UNCHANGED <<ring, thread_map>>,
           \A u \in Threads : pc'[u] \in OffRing <=> pc[u] \in OffRing,
           \A u \in Threads : pc'[u] \in Gone <=> pc[u] \in Gone,
           current' \in Threads => OnRing(current')
    PROVE  RingOK'
<1>1. \A u \in Threads : OnRing(u)' <=> OnRing(u)
  BY DEF OnRing
<1>2. current' \in Threads => OnRing(current)'
  BY DEF OnRing
<1> QED BY <1>1, <1>2 DEF RingOK

\* A step that changes no thread's place leaves the ring in order.
LEMMA RingStill ==
    ASSUME RingOK, UNCHANGED <<ring, thread_map, current>>,
           \A u \in Threads : pc'[u] \in OffRing <=> pc[u] \in OffRing,
           \A u \in Threads : pc'[u] \in Gone <=> pc[u] \in Gone
    PROVE  RingOK'
<1>1. current' \in Threads => OnRing(current')
  BY DEF RingOK
<1> QED BY <1>1, RingUnchanged

\* A thread on the ring has a position there.
LEMMA PositionOnRing ==
    ASSUME TypeOK, NEW t, OnRing(t)
    PROVE  /\ Position(t) \in 1..Len(ring)
           /\ ring[Position(t)] = t
           /\ t \in Threads
<1>1. ring \in Seq(Threads) /\ DOMAIN ring = 1..Len(ring) /\ Len(ring) \in Nat
  BY DEF TypeOK
<1>2. \E i \in DOMAIN ring : ring[i] = t
  BY DEF OnRing
<1>3. Position(t) \in DOMAIN ring /\ ring[Position(t)] = t
  BY <1>2 DEF Position
<1> QED BY <1>1, <1>3

\* Every entry the scan looks at is a thread on the ring.
LEMMA InspectedOnRing ==
    ASSUME TypeOK, RingOK, current \in Known, NEW k \in 1..Len(ring)
    PROVE  OnRing(Inspected(k)) /\ Inspected(k) \in Threads
<1>1. ring \in Seq(Threads) /\ DOMAIN ring = 1..Len(ring) /\ Len(ring) \in Nat
  BY DEF TypeOK
<1>2. CASE current = Idle
  BY <1>1, <1>2 DEF Inspected, OnRing
<1>3. CASE current # Idle
  <2> DEFINE i == ((Position(current) + k - 1) % Len(ring)) + 1
  <2>1. Position(current) \in 1..Len(ring)
    BY <1>3, PositionOnRing DEF RingOK, Known
  <2>2. i \in 1..Len(ring)
    <3>1. Position(current) + k - 1 \in Nat /\ Len(ring) \in Nat \ {0}
      BY <1>1, <2>1
    <3> HIDE DEF i
    <3> QED BY <3>1 DEF i
  <2>3. Inspected(k) = ring[i]
    BY <1>3 DEF Inspected
  <2> QED BY <1>1, <2>2, <2>3 DEF OnRing
<1> QED BY <1>2, <1>3

\* SelectNextThread chooses a thread on the ring that may run, or the idle thread
\* when the caller cannot go on, or leaves everything as it is.
LEMMA NextThreadChoice ==
    ASSUME TypeOK, RingOK, current \in Known, NEW st
    PROVE  \/ /\ NextThread(st) \in Threads
              /\ OnRing(NextThread(st))
              /\ Eligible(st, NextThread(st))
           \/ NextThread(st) = Idle /\ current \in Threads /\ st[current] # "Running"
           \/ /\ NextThread(st) = NoThread
              /\ current = Idle \/ ring = <<>> \/ st[current] = "Running"
<1>1. CASE Candidates(st) # {}
  <2> DEFINE First(k) == k \in Candidates(st) /\ \A j \in Candidates(st) : k <= j
  <2>1. Candidates(st) \subseteq Nat
    BY DEF Candidates, TypeOK
  <2>2. \E k \in Candidates(st) : \A j \in Candidates(st) : k <= j
    BY <1>1, <2>1, LeastNatural
  <2>3. PICK k \in Candidates(st) : NextThread(st) = Inspected(k)
    BY <1>1, <2>2 DEF NextThread
  <2>4. k \in 1..Len(ring) /\ Eligible(st, Inspected(k))
    BY DEF Candidates
  <2> QED BY <2>3, <2>4, InspectedOnRing
<1>2. CASE Candidates(st) = {}
  BY <1>2 DEF NextThread, Known
<1> QED BY <1>1, <1>2

\* The threads, the idle thread, the boot flow and the null pointer are distinct.
LEMMA Distinct ==
    /\ Idle \notin Threads /\ Boot \notin Threads /\ NoThread \notin Threads
    /\ Idle # Boot /\ Idle # NoThread /\ Boot # NoThread
    /\ Threads \subseteq Known /\ Known \subseteq Flows /\ Idle \in Known /\ Boot \in Flows
    /\ Boot \notin Known /\ NoThread \notin Known
    /\ \A t \in Threads : t \in KernelThreads <=> t \notin UserThreads
BY ThreadAssumption DEF Threads, Known, Flows

\* What SelectNextThread does, for a caller whose thread st may describe as
\* terminating: the flag, the current thread and the kernel stack move together.
LEMMA SelectNextThreadEffect ==
    ASSUME TypeOK, RingOK, current \in Known, NEW st \in [Known -> States],
           SelectNextThread(st)
    PROVE  /\ state' \in [Known -> States]
           /\ current' \in Known /\ kstack' \in Known
           /\ current' \in Threads => OnRing(current')
           /\ \/ /\ NextThread(st) = NoThread
                 /\ state' = st /\ current' = current /\ kstack' = kstack
                 /\ current = Idle \/ ring = <<>> \/ st[current] = "Running"
              \/ /\ NextThread(st) # NoThread
                 /\ kstack' = current' /\ state'[current'] = "Running"
                 /\ current' = Idle \/ Eligible(st, current')
                 /\ \A t \in Known \ {current'} :
                      state'[t] = IF t = current /\ st[t] = "Running" THEN "Ready" ELSE st[t]
<1>1. CASE NextThread(st) = NoThread
  BY <1>1, NextThreadChoice, Distinct DEF SelectNextThread, TypeOK, RingOK
<1>2. CASE NextThread(st) # NoThread
  <2>1. /\ state' = [t \in Known |->
               IF t = NextThread(st) THEN "Running"
               ELSE IF t = current /\ st[t] = "Running" THEN "Ready"
               ELSE st[t]]
        /\ current' = NextThread(st)
        /\ kstack' = NextThread(st)
    BY <1>2 DEF SelectNextThread
  <2>2. \/ NextThread(st) \in Threads /\ OnRing(NextThread(st)) /\ Eligible(st, NextThread(st))
        \/ NextThread(st) = Idle
    BY <1>2, NextThreadChoice
  <2>3. NextThread(st) \in Known
    BY <2>2, Distinct
  <2>4. state' \in [Known -> States]
    BY <2>1 DEF States
  <2> QED BY <1>2, <2>1, <2>2, <2>3, <2>4, Distinct
<1> QED BY <1>1, <1>2

\* A step that only moves thread t from one piece of unmasked kernel code to another.
ControlStep(t, from, to) ==
    /\ cpu = t /\ pc[t] = from
    /\ pc' = [pc EXCEPT ![t] = to]
    /\ UNCHANGED <<threadVars, coreVars, timeVars, cpuVars, localVars>>

\* A thread's call of Yield, ExitThread or a system call, and its way back.
LEMMA ControlStepKeeps ==
    ASSUME IInv, NEW t \in Threads,
           NEW from \in {"run", "svc", "sysret"}, NEW to \in {"yield", "exit", "sysret"},
           ~UserMode(t), to = "sysret" => t \in UserThreads /\ from = "svc",
           ControlStep(t, from, to)
    PROVE  IInv'
<1> USE Distinct DEF ControlStep, threadVars, coreVars, timeVars, cpuVars, localVars
<1>1. TypeOK'
  BY DEF IInv, TypeOK, Labels
<1>2. PcOK'
  BY DEF IInv, PcOK, TypeOK, ThreadLabels, UserLabels
<1>3. BootOK'
  BY DEF IInv, BootOK, PcOK, TypeOK, Gone
<1>4. ProcessorOK'
  BY DEF IInv, ProcessorOK, TypeOK, Masked, HandedOver, NotParked
<1>5. RingOK'
  <2>1. \A u \in Threads : pc'[u] \in OffRing <=> pc[u] \in OffRing
    BY DEF IInv, TypeOK, OffRing
  <2>2. \A u \in Threads : pc'[u] \in Gone <=> pc[u] \in Gone
    BY DEF IInv, TypeOK, Gone
  <2>3. RingOK /\ UNCHANGED <<ring, thread_map, current>>
    BY DEF IInv
  <2> QED BY <2>1, <2>2, <2>3, RingStill
<1>6. StateOK'
  BY DEF IInv, StateOK, TypeOK, Leaving
<1>7. ContextOK'
  BY DEF IInv, ContextOK, TypeOK
<1>8. StackOK'
  BY DEF IInv, StackOK, TypeOK, UserMode
<1>9. GsOK'
  BY DEF IInv, GsOK, TypeOK, UserMode
<1>10. LocalOK'
  BY DEF IInv, LocalOK, TypeOK
<1> QED BY <1>1, <1>2, <1>3, <1>4, <1>5, <1>6, <1>7, <1>8, <1>9, <1>10 DEF IInv

\* Removing a thread takes it, and nothing else, off the ring.
LEMMA RemoveFromRing ==
    ASSUME TypeOK, RingOK, NEW t \in Threads, OnRing(t), ring' = Without(t)
    PROVE  /\ ring' \in Seq(Threads)
           /\ \A i, j \in DOMAIN ring' : ring'[i] = ring'[j] => i = j
           /\ \A u \in Threads : OnRing(u)' <=> OnRing(u) /\ u # t
<1> DEFINE p == Position(t)
           n == Len(ring)
<1>1. ring \in Seq(Threads) /\ DOMAIN ring = 1..n /\ n \in Nat
  BY DEF TypeOK
<1>2. p \in 1..n /\ ring[p] = t
  BY PositionOnRing
<1>3. \A i, j \in 1..n : ring[i] = ring[j] => i = j
  BY <1>1 DEF RingOK
<1>4. ring' = [i \in 1..(n - 1) |-> IF i < p THEN ring[i] ELSE ring[i + 1]]
  BY DEF Without
<1> HIDE DEF p, n
<1>5. n - 1 \in Nat /\ \A i \in 1..(n - 1) : ring'[i] \in Threads
  BY <1>1, <1>2, <1>4
<1>6. ring' \in Seq(Threads) /\ DOMAIN ring' = 1..(n - 1)
  BY <1>4, <1>5
<1>7. \A i, j \in DOMAIN ring' : ring'[i] = ring'[j] => i = j
  BY <1>1, <1>2, <1>3, <1>4, <1>6
<1>8. ASSUME NEW u \in Threads, OnRing(u)' PROVE OnRing(u) /\ u # t
  <2>1. PICK i \in 1..(n - 1) : ring'[i] = u
    BY <1>6, <1>8 DEF OnRing
  <2>2. CASE i < p
    BY <1>1, <1>2, <1>3, <1>4, <2>1, <2>2 DEF OnRing
  <2>3. CASE ~(i < p)
    <3>1. i + 1 \in 1..n /\ i + 1 # p /\ ring[i + 1] = u
      BY <1>1, <1>2, <1>4, <2>1, <2>3
    <3> QED BY <1>1, <1>2, <1>3, <3>1 DEF OnRing
  <2> QED BY <2>2, <2>3
<1>9. ASSUME NEW u \in Threads, OnRing(u), u # t PROVE OnRing(u)'
  <2>1. PICK i \in 1..n : ring[i] = u
    BY <1>1, <1>9 DEF OnRing
  <2>2. CASE i < p
    <3>1. i \in 1..(n - 1) /\ ring'[i] = u
      BY <1>1, <1>2, <1>4, <2>1, <2>2
    <3> QED BY <1>6, <3>1 DEF OnRing
  <2>3. CASE ~(i < p)
    <3>1. i # p
      BY <1>2, <1>9, <2>1
    <3>2. i - 1 \in 1..(n - 1) /\ ~(i - 1 < p) /\ (i - 1) + 1 = i
      BY <1>1, <1>2, <2>1, <2>3, <3>1
    <3>3. ring'[i - 1] = u
      BY <1>4, <2>1, <3>2
    <3> QED BY <1>6, <3>2, <3>3 DEF OnRing
  <2> QED BY <2>2, <2>3
<1> QED BY <1>6, <1>7, <1>8, <1>9

\* Before StartScheduler no thread exists, so the invariant holds.
LEMMA InitEstablishes ==
    ASSUME Init
    PROVE  IInv
<1> USE Distinct DEF Init, threadVars, coreVars, timeVars, cpuVars, localVars
<1>1. TypeOK
  <2>1. /\ ring \in Seq(Threads) /\ state \in [Known -> States]
        /\ delay \in [Known -> Nat] /\ due \in [Known -> Nat]
        /\ stack \in [Known -> Known] /\ int_state \in [Known -> BOOLEAN]
    BY DEF States
  <2>2. ctx \in [Known -> [who : Flows, if : BOOLEAN]]
    OBVIOUS
  <2>3. saved_user \in [Known -> Threads \cup {NoThread}]
    OBVIOUS
  <2>4. pc \in [Flows -> Labels]
    BY DEF Labels
  <2> QED BY <2>1, <2>2, <2>3, <2>4 DEF TypeOK
<1>2. PcOK
  BY DEF PcOK, Threads, Flows, Known, ThreadLabels, UserLabels
<1>3. BootOK
  BY DEF BootOK, TypeOK, PcOK, Gone
<1>4. ProcessorOK
  BY DEF ProcessorOK, TypeOK, PcOK, Masked, HandedOver, NotParked, ThreadLabels,
     UserLabels
<1>5. RingOK
  BY DEF RingOK, OnRing, OffRing, Gone
<1>6. StateOK
  BY DEF StateOK, TypeOK, Leaving
<1>7. ContextOK
  BY DEF ContextOK, TypeOK
<1>8. StackOK
  BY DEF StackOK, Threads, Flows, Known
<1>9. GsOK
  BY DEF GsOK, TypeOK, UserMode
<1>10. LocalOK
  BY DEF LocalOK, TypeOK
<1> QED BY <1>1, <1>2, <1>3, <1>4, <1>5, <1>6, <1>7, <1>8, <1>9, <1>10 DEF IInv

\* StartScheduler makes the idle thread current while no thread exists yet.
LEMMA StartSchedulerKeeps ==
    ASSUME IInv, StartScheduler
    PROVE  IInv'
<1> USE Distinct DEF StartScheduler, threadVars, coreVars, timeVars, cpuVars, localVars
<1>a. cpu = Boot /\ pc[Boot] = "start" /\ current = NoThread /\ ring = <<>> /\ thread_map = {}
  BY DEF IInv, BootOK
<1>1. TypeOK'
  BY DEF IInv, TypeOK, Labels
<1>2. PcOK'
  BY DEF IInv, PcOK, TypeOK, ThreadLabels, UserLabels
<1>3. BootOK'
  BY DEF IInv, BootOK, TypeOK, PcOK, Gone
<1>4. ProcessorOK'
  BY DEF IInv, ProcessorOK, TypeOK, PcOK, Masked, HandedOver, NotParked, ThreadLabels,
     UserLabels
<1>5. RingOK'
  BY <1>a DEF IInv, RingOK, TypeOK, OnRing, OffRing, Gone
<1>6. StateOK'
  BY <1>a DEF IInv, StateOK, TypeOK, Leaving, Known
<1>7. ContextOK'
  BY <1>a DEF IInv, ContextOK, TypeOK, BootOK
<1>8. StackOK'
  BY DEF IInv, StackOK, TypeOK, UserMode
<1>9. GsOK'
  BY DEF IInv, GsOK, TypeOK, UserMode
<1>10. LocalOK'
  BY DEF IInv, LocalOK, TypeOK
<1> QED BY <1>1, <1>2, <1>3, <1>4, <1>5, <1>6, <1>7, <1>8, <1>9, <1>10 DEF IInv

\* CreateThread: the new thread becomes the first of the ring.
LEMMA CreateThreadKeeps ==
    ASSUME IInv, NEW t \in Threads, CreateThread(t)
    PROVE  IInv'
<1> USE Distinct DEF CreateThread, threadVars, coreVars, timeVars, cpuVars, localVars
<1>a. /\ cpu = Boot /\ pc[Boot] = "create" /\ ~OnRing(t) /\ pc[t] = "run" /\ current \in {Idle, NoThread}
      /\ ctx[t] = [who |-> t, if |-> TRUE]
  BY DEF IInv, BootOK, RingOK
<1>b. /\ ring' \in Seq(Threads) /\ Len(ring') = Len(ring) + 1 /\ Len(ring) \in Nat
      /\ DOMAIN ring = 1..Len(ring) /\ DOMAIN ring' = 1..(Len(ring) + 1)
      /\ \A i \in DOMAIN ring' : ring'[i] = IF i = 1 THEN t ELSE ring[i - 1]
  BY DEF IInv, TypeOK
<1>c. \A u \in Threads : OnRing(u)' <=> u = t \/ OnRing(u)
  <2>1. ASSUME NEW u \in Threads, OnRing(u) PROVE OnRing(u)'
    <3>1. PICK i \in 1..Len(ring) : ring[i] = u
      BY <1>b, <2>1 DEF OnRing
    <3>2. i + 1 \in DOMAIN ring' /\ ring'[i + 1] = u
      BY <1>b, <3>1
    <3> QED BY <3>2 DEF OnRing
  <2>2. OnRing(t)'
    BY <1>b DEF OnRing
  <2>3. ASSUME NEW u \in Threads, OnRing(u)', u # t PROVE OnRing(u)
    BY <1>b, <2>3 DEF OnRing
  <2> QED BY <2>1, <2>2, <2>3
<1>1. TypeOK'
  BY <1>b DEF IInv, TypeOK, Labels, States
<1>2. PcOK'
  BY DEF IInv, PcOK, TypeOK, ThreadLabels, UserLabels
<1>3. BootOK'
  BY DEF IInv, BootOK, TypeOK, PcOK, Gone
<1>4. ProcessorOK'
  BY DEF IInv, ProcessorOK, TypeOK, PcOK, Masked, HandedOver, NotParked, ThreadLabels,
     UserLabels
<1>5. RingOK'
  <2>1. \A i, j \in DOMAIN ring' : ring'[i] = ring'[j] => i = j
    BY <1>a, <1>b DEF IInv, RingOK, OnRing
  <2> QED BY <1>a, <1>c, <2>1 DEF IInv, RingOK, OffRing, Gone, BootOK
<1>6. StateOK'
  BY <1>a DEF IInv, StateOK, TypeOK, Leaving, Known
<1>7. ContextOK'
  BY <1>a DEF IInv, ContextOK, TypeOK
<1>8. StackOK'
  BY DEF IInv, StackOK, TypeOK, UserMode
<1>9. GsOK'
  BY DEF IInv, GsOK, TypeOK, UserMode
<1>10. LocalOK'
  BY DEF IInv, LocalOK, TypeOK
<1> QED BY <1>1, <1>2, <1>3, <1>4, <1>5, <1>6, <1>7, <1>8, <1>9, <1>10 DEF IInv

\* LoadContext(&idle_thread->context) hands the processor to the idle thread,
\* which has been the current one since StartScheduler.
LEMMA EnterIdleKeeps ==
    ASSUME IInv, EnterIdle
    PROVE  IInv'
<1> USE Distinct DEF EnterIdle, Resume, threadVars, coreVars, timeVars, cpuVars,
   localVars
<1>a. cpu = Boot /\ cpu' = Idle /\ intr' /\ pc[Idle] = "idle_start"
  <2>1. ctx[Idle] = [who |-> Idle, if |-> TRUE] /\ pc[Idle] = "idle_start"
    BY DEF IInv, BootOK
  <2>2. cpu' = ctx[Idle].who /\ intr' = ctx[Idle].if /\ cpu = Boot
    OBVIOUS
  <2> QED BY <2>1, <2>2
<1>1. TypeOK'
  BY <1>a DEF IInv, TypeOK, Labels
<1>2. PcOK'
  BY DEF IInv, PcOK, TypeOK, ThreadLabels, UserLabels
<1>3. BootOK'
  BY <1>a DEF IInv, BootOK, TypeOK, PcOK, Gone
<1>4. ProcessorOK'
  <2>1. current = Idle
    BY DEF IInv, BootOK
  <2> QED BY <1>a, <2>1 DEF IInv, ProcessorOK, TypeOK, PcOK, Masked, HandedOver,
       NotParked, ThreadLabels, UserLabels, BootOK
<1>5. RingOK'
  <2>1. \A u \in Threads : pc'[u] \in OffRing <=> pc[u] \in OffRing
    BY DEF IInv, TypeOK, OffRing
  <2>2. \A u \in Threads : pc'[u] \in Gone <=> pc[u] \in Gone
    BY DEF IInv, TypeOK, Gone
  <2>3. RingOK /\ UNCHANGED <<ring, thread_map, current>>
    BY DEF IInv
  <2> QED BY <2>1, <2>2, <2>3, RingStill
<1>6. StateOK'
  BY DEF IInv, StateOK, TypeOK, Leaving
<1>7. ContextOK'
  BY DEF IInv, ContextOK, TypeOK
<1>8. StackOK'
  BY DEF IInv, StackOK, TypeOK, UserMode
<1>9. GsOK'
  BY <1>a DEF IInv, GsOK, TypeOK, UserMode
<1>10. LocalOK'
  BY DEF IInv, LocalOK, TypeOK
<1> QED BY <1>1, <1>2, <1>3, <1>4, <1>5, <1>6, <1>7, <1>8, <1>9, <1>10 DEF IInv

\* The idle thread switches preemption on before anything else runs.
LEMMA IdleLoopKeeps ==
    ASSUME IInv, IdleLoop
    PROVE  IInv'
<1> USE Distinct DEF IdleLoop, threadVars, coreVars, timeVars, cpuVars, localVars
<1>1. TypeOK'
  BY DEF IInv, TypeOK, Labels
<1>2. PcOK'
  BY DEF IInv, PcOK, TypeOK, ThreadLabels, UserLabels
<1>3. BootOK'
  BY DEF IInv, BootOK, TypeOK, PcOK, Gone
<1>4. ProcessorOK'
  BY DEF IInv, ProcessorOK, TypeOK, PcOK, Masked, HandedOver, NotParked, ThreadLabels,
     UserLabels
<1>5. RingOK'
  <2>1. \A u \in Threads : pc'[u] \in OffRing <=> pc[u] \in OffRing
    BY DEF IInv, TypeOK, OffRing
  <2>2. \A u \in Threads : pc'[u] \in Gone <=> pc[u] \in Gone
    BY DEF IInv, TypeOK, Gone
  <2>3. RingOK /\ UNCHANGED <<ring, thread_map, current>>
    BY DEF IInv
  <2> QED BY <2>1, <2>2, <2>3, RingStill
<1>6. StateOK'
  BY DEF IInv, StateOK, TypeOK, Leaving
<1>7. ContextOK'
  BY DEF IInv, ContextOK, TypeOK
<1>8. StackOK'
  BY DEF IInv, StackOK, TypeOK, UserMode
<1>9. GsOK'
  BY DEF IInv, GsOK, TypeOK, UserMode
<1>10. LocalOK'
  BY DEF IInv, LocalOK, TypeOK
<1> QED BY <1>1, <1>2, <1>3, <1>4, <1>5, <1>6, <1>7, <1>8, <1>9, <1>10 DEF IInv

\* SyscallEntry takes the stack in core->kernel_stack_top, which is its own.
LEMMA SyscallEntryKeeps ==
    ASSUME IInv, NEW t \in Threads, SyscallEntry(t)
    PROVE  IInv'
<1> USE Distinct DEF SyscallEntry, UserMode, threadVars, coreVars, timeVars, cpuVars,
   localVars
<1>a. t \in UserThreads /\ pc[t] = "run" /\ current = t /\ kstack = t
  BY DEF IInv, ProcessorOK, StackOK, HandedOver
<1>1. TypeOK'
  BY DEF IInv, TypeOK, Labels
<1>2. PcOK'
  BY DEF IInv, PcOK, TypeOK, ThreadLabels, UserLabels
<1>3. BootOK'
  BY DEF IInv, BootOK, TypeOK, PcOK, Gone
<1>4. ProcessorOK'
  BY <1>a DEF IInv, ProcessorOK, TypeOK, PcOK, Masked, HandedOver, NotParked,
     ThreadLabels, UserLabels
<1>5. RingOK'
  <2>1. \A u \in Threads : pc'[u] \in OffRing <=> pc[u] \in OffRing
    BY DEF IInv, TypeOK, OffRing
  <2>2. \A u \in Threads : pc'[u] \in Gone <=> pc[u] \in Gone
    BY DEF IInv, TypeOK, Gone
  <2>3. RingOK /\ UNCHANGED <<ring, thread_map, current>>
    BY DEF IInv
  <2> QED BY <2>1, <2>2, <2>3, RingStill
<1>6. StateOK'
  BY DEF IInv, StateOK, TypeOK, Leaving
<1>7. ContextOK'
  BY DEF IInv, ContextOK, TypeOK
<1>8. StackOK'
  BY <1>a DEF IInv, StackOK, TypeOK, ProcessorOK, NotParked, Threads
<1>9. GsOK'
  BY DEF IInv, GsOK, TypeOK, UserMode
<1>10. LocalOK'
  BY DEF IInv, LocalOK, TypeOK
<1> QED BY <1>1, <1>2, <1>3, <1>4, <1>5, <1>6, <1>7, <1>8, <1>9, <1>10 DEF IInv

\* The user stack pointer is on the own kernel stack before IF is set: nobody
\* else can have replaced core->user_stack in between.
LEMMA SyscallPushKeeps ==
    ASSUME IInv, NEW t \in Threads, SyscallPush(t)
    PROVE  IInv'
<1> USE Distinct DEF SyscallPush, threadVars, coreVars, timeVars, cpuVars, localVars
<1>1. TypeOK'
  BY DEF IInv, TypeOK, Labels
<1>2. PcOK'
  BY DEF IInv, PcOK, TypeOK, ThreadLabels, UserLabels
<1>3. BootOK'
  BY DEF IInv, BootOK, TypeOK, PcOK, Gone
<1>4. ProcessorOK'
  BY DEF IInv, ProcessorOK, TypeOK, PcOK, Masked, HandedOver, NotParked, ThreadLabels,
     UserLabels
<1>5. RingOK'
  <2>1. \A u \in Threads : pc'[u] \in OffRing <=> pc[u] \in OffRing
    BY DEF IInv, TypeOK, OffRing
  <2>2. \A u \in Threads : pc'[u] \in Gone <=> pc[u] \in Gone
    BY DEF IInv, TypeOK, Gone
  <2>3. RingOK /\ UNCHANGED <<ring, thread_map, current>>
    BY DEF IInv
  <2> QED BY <2>1, <2>2, <2>3, RingStill
<1>6. StateOK'
  BY DEF IInv, StateOK, TypeOK, Leaving
<1>7. ContextOK'
  BY DEF IInv, ContextOK, TypeOK
<1>8. StackOK'
  BY DEF IInv, StackOK, TypeOK, UserMode
<1>9. GsOK'
  BY DEF IInv, GsOK, TypeOK, UserMode
<1>10. LocalOK'
  BY DEF IInv, LocalOK, TypeOK
<1> QED BY <1>1, <1>2, <1>3, <1>4, <1>5, <1>6, <1>7, <1>8, <1>9, <1>10 DEF IInv

\* The way back to user mode swaps GS exactly once more.
LEMMA SyscallReturnKeeps ==
    ASSUME IInv, NEW t \in Threads, SyscallReturn(t)
    PROVE  IInv'
<1> USE Distinct DEF SyscallReturn, threadVars, coreVars, timeVars, cpuVars, localVars
<1>a. t \in UserThreads
  BY DEF IInv, PcOK, ThreadLabels, UserLabels
<1>1. TypeOK'
  BY DEF IInv, TypeOK, Labels
<1>2. PcOK'
  BY DEF IInv, PcOK, TypeOK, ThreadLabels, UserLabels
<1>3. BootOK'
  BY DEF IInv, BootOK, TypeOK, PcOK, Gone
<1>4. ProcessorOK'
  BY DEF IInv, ProcessorOK, TypeOK, PcOK, Masked, HandedOver, NotParked, ThreadLabels,
     UserLabels
<1>5. RingOK'
  <2>1. \A u \in Threads : pc'[u] \in OffRing <=> pc[u] \in OffRing
    BY DEF IInv, TypeOK, OffRing
  <2>2. \A u \in Threads : pc'[u] \in Gone <=> pc[u] \in Gone
    BY DEF IInv, TypeOK, Gone
  <2>3. RingOK /\ UNCHANGED <<ring, thread_map, current>>
    BY DEF IInv
  <2> QED BY <2>1, <2>2, <2>3, RingStill
<1>6. StateOK'
  BY DEF IInv, StateOK, TypeOK, Leaving
<1>7. ContextOK'
  BY DEF IInv, ContextOK, TypeOK
<1>8. StackOK'
  BY DEF IInv, StackOK, TypeOK, UserMode
<1>9. GsOK'
  BY <1>a DEF IInv, GsOK, TypeOK, UserMode
<1>10. LocalOK'
  BY DEF IInv, LocalOK, TypeOK
<1> QED BY <1>1, <1>2, <1>3, <1>4, <1>5, <1>6, <1>7, <1>8, <1>9, <1>10 DEF IInv

\* An exception in user mode enters on the stack in tss->rsp0, its own.
LEMMA UserExceptionKeeps ==
    ASSUME IInv, NEW t \in Threads, UserException(t)
    PROVE  IInv'
<1> USE Distinct DEF UserException, UserMode, threadVars, coreVars, timeVars, cpuVars,
   localVars
<1>a. t \in UserThreads /\ pc[t] = "run" /\ current = t /\ kstack = t
  BY DEF IInv, ProcessorOK, StackOK, HandedOver
<1>1. TypeOK'
  BY DEF IInv, TypeOK, Labels
<1>2. PcOK'
  BY DEF IInv, PcOK, TypeOK, ThreadLabels, UserLabels
<1>3. BootOK'
  BY DEF IInv, BootOK, TypeOK, PcOK, Gone
<1>4. ProcessorOK'
  BY <1>a DEF IInv, ProcessorOK, TypeOK, PcOK, Masked, HandedOver, NotParked,
     ThreadLabels, UserLabels
<1>5. RingOK'
  <2>1. \A u \in Threads : pc'[u] \in OffRing <=> pc[u] \in OffRing
    BY DEF IInv, TypeOK, OffRing
  <2>2. \A u \in Threads : pc'[u] \in Gone <=> pc[u] \in Gone
    BY DEF IInv, TypeOK, Gone
  <2>3. RingOK /\ UNCHANGED <<ring, thread_map, current>>
    BY DEF IInv
  <2> QED BY <2>1, <2>2, <2>3, RingStill
<1>6. StateOK'
  BY DEF IInv, StateOK, TypeOK, Leaving
<1>7. ContextOK'
  BY DEF IInv, ContextOK, TypeOK
<1>8. StackOK'
  BY <1>a DEF IInv, StackOK, TypeOK, UserMode
<1>9. GsOK'
  BY DEF IInv, GsOK, TypeOK, UserMode
<1>10. LocalOK'
  BY DEF IInv, LocalOK, TypeOK
<1> QED BY <1>1, <1>2, <1>3, <1>4, <1>5, <1>6, <1>7, <1>8, <1>9, <1>10 DEF IInv

\* Delay marks the running thread as waiting with interrupts still on; it stays
\* the current one until it yields or is preempted.
LEMMA CallDelayKeeps ==
    ASSUME IInv, NEW t \in Threads, NEW n \in Delays, CallDelay(t, n)
    PROVE  IInv'
<1> USE Distinct DEF CallDelay, InKernelBody, threadVars, coreVars, timeVars, cpuVars,
   localVars
<1>1. TypeOK'
  BY TimeAssumption DEF IInv, TypeOK, Labels, States
<1>2. PcOK'
  BY DEF IInv, PcOK, TypeOK, ThreadLabels, UserLabels
<1>3. BootOK'
  BY DEF IInv, BootOK, TypeOK, PcOK, Gone
<1>4. ProcessorOK'
  BY DEF IInv, ProcessorOK, TypeOK, PcOK, Masked, HandedOver, NotParked, ThreadLabels,
     UserLabels
<1>5. RingOK'
  <2>1. \A u \in Threads : pc'[u] \in OffRing <=> pc[u] \in OffRing
    BY DEF IInv, TypeOK, OffRing
  <2>2. \A u \in Threads : pc'[u] \in Gone <=> pc[u] \in Gone
    BY DEF IInv, TypeOK, Gone
  <2>3. RingOK /\ UNCHANGED <<ring, thread_map, current>>
    BY DEF IInv
  <2> QED BY <2>1, <2>2, <2>3, RingStill
<1>6. StateOK'
  BY DEF IInv, StateOK, TypeOK, Leaving
<1>7. ContextOK'
  BY DEF IInv, ContextOK, TypeOK
<1>8. StackOK'
  BY DEF IInv, StackOK, TypeOK, UserMode
<1>9. GsOK'
  BY DEF IInv, GsOK, TypeOK, UserMode
<1>10. LocalOK'
  BY DEF IInv, LocalOK, TypeOK
<1> QED BY <1>1, <1>2, <1>3, <1>4, <1>5, <1>6, <1>7, <1>8, <1>9, <1>10 DEF IInv

\* Storing the deadline disturbs nothing, even if the thread was preempted and
\* resumed since it marked itself as waiting.
LEMMA DelayStoreKeeps ==
    ASSUME IInv, NEW t \in Threads, DelayStore(t)
    PROVE  IInv'
<1> USE Distinct DEF DelayStore, threadVars, coreVars, timeVars, cpuVars, localVars
<1>1. TypeOK'
  BY DEF IInv, TypeOK, Labels
<1>2. PcOK'
  BY DEF IInv, PcOK, TypeOK, ThreadLabels, UserLabels
<1>3. BootOK'
  BY DEF IInv, BootOK, TypeOK, PcOK, Gone
<1>4. ProcessorOK'
  BY DEF IInv, ProcessorOK, TypeOK, PcOK, Masked, HandedOver, NotParked, ThreadLabels,
     UserLabels
<1>5. RingOK'
  <2>1. \A u \in Threads : pc'[u] \in OffRing <=> pc[u] \in OffRing
    BY DEF IInv, TypeOK, OffRing
  <2>2. \A u \in Threads : pc'[u] \in Gone <=> pc[u] \in Gone
    BY DEF IInv, TypeOK, Gone
  <2>3. RingOK /\ UNCHANGED <<ring, thread_map, current>>
    BY DEF IInv
  <2> QED BY <2>1, <2>2, <2>3, RingStill
<1>6. StateOK'
  BY DEF IInv, StateOK, TypeOK, Leaving
<1>7. ContextOK'
  BY DEF IInv, ContextOK, TypeOK
<1>8. StackOK'
  BY DEF IInv, StackOK, TypeOK, UserMode
<1>9. GsOK'
  BY DEF IInv, GsOK, TypeOK, UserMode
<1>10. LocalOK'
  BY DEF IInv, LocalOK, TypeOK
<1> QED BY <1>1, <1>2, <1>3, <1>4, <1>5, <1>6, <1>7, <1>8, <1>9, <1>10 DEF IInv

\* Yield masks interrupts before SelectNextThread names another current thread.
LEMMA YieldSelectKeeps ==
    ASSUME IInv, NEW t \in Threads, YieldSelect(t)
    PROVE  IInv'
<1> USE Distinct DEF YieldSelect, threadVars, coreVars, timeVars, cpuVars, localVars
<1>a. current = t /\ current \in Known /\ intr /\ OnRing(t) /\ ring # <<>>
  BY DEF OnRing, IInv, ProcessorOK, HandedOver, Masked, RingOK
<1>b. state \in [Known -> States] /\ SelectNextThread(state)
  BY DEF IInv, TypeOK
<1>e. /\ state' \in [Known -> States]
      /\ current' \in Known /\ kstack' \in Known
      /\ current' \in Threads => OnRing(current')
      /\ \/ /\ NextThread(state) = NoThread
            /\ state' = state /\ current' = current /\ kstack' = kstack
            /\ state[current] = "Running"
         \/ /\ NextThread(state) # NoThread
            /\ kstack' = current' /\ state'[current'] = "Running"
            /\ current' = Idle \/ Eligible(state, current')
            /\ \A u \in Known \ {current'} :
                 state'[u] = IF u = current /\ state[u] = "Running" THEN "Ready" ELSE state[u]
  BY <1>a, <1>b, SelectNextThreadEffect, Distinct DEF IInv
<1> HIDE DEF SelectNextThread
<1>1. TypeOK'
  BY <1>e DEF IInv, TypeOK, Labels
<1>2. PcOK'
  BY DEF IInv, PcOK, TypeOK, ThreadLabels, UserLabels
<1>3. BootOK'
  BY <1>a, <1>e DEF IInv, BootOK, TypeOK, PcOK, Gone
<1>4. ProcessorOK'
  BY <1>a, <1>e DEF IInv, ProcessorOK, TypeOK, PcOK, Masked, HandedOver, NotParked,
     ThreadLabels, UserLabels
<1>5. RingOK'
  <2>1. \A u \in Flows : u # t => pc'[u] = pc[u]
    BY DEF IInv, TypeOK
  <2>2. pc'[t] \in {"restore", "switch"} /\ pc[t] = "yield"
    BY DEF IInv, TypeOK
  <2>3. \A u : OnRing(u)' <=> OnRing(u)
    BY DEF OnRing
  <2> QED BY <1>e, <2>1, <2>2, <2>3 DEF IInv, RingOK, OffRing, Gone
<1>6. StateOK'
  BY <1>a, <1>e DEF IInv, StateOK, TypeOK, Leaving, Eligible
<1>7. ContextOK'
  BY DEF IInv, ContextOK, TypeOK
<1>8. StackOK'
  BY <1>a, <1>e DEF IInv, StackOK, TypeOK, UserMode
<1>9. GsOK'
  BY DEF IInv, GsOK, TypeOK, UserMode
<1>10. LocalOK'
  BY <1>a DEF IInv, LocalOK, TypeOK
<1> QED BY <1>1, <1>2, <1>3, <1>4, <1>5, <1>6, <1>7, <1>8, <1>9, <1>10 DEF IInv

\* SwitchContext saves the caller with IF clear and resumes the current thread at
\* a place where that one was descheduled.
LEMMA YieldSwitchKeeps ==
    ASSUME IInv, NEW t \in Threads, YieldSwitch(t)
    PROVE  IInv'
<1> USE Distinct DEF YieldSwitch, Resume, threadVars, coreVars, timeVars, cpuVars,
   localVars
<1>a. current \in thread_map /\ current \in Known
  BY DEF IInv, RingOK, BootOK, TypeOK, Known
<1>b. ctx'[t].who = t /\ ~ctx'[t].if /\ \A u \in Known \ {t} : ctx'[u] = ctx[u]
  BY DEF IInv, TypeOK, ProcessorOK, Masked
<1>c. cpu' = current /\ intr' = (pc'[current] # "restore")
  BY <1>a, <1>b DEF IInv, ContextOK, TypeOK
<1>d. current # Boot /\ (current # t => pc[current] \notin NotParked) /\ pc[current] # "dead"
  BY <1>a DEF IInv, ProcessorOK, PcOK, RingOK, Gone, NotParked, Known
<1>f. \A u \in Threads \ {t} : pc[u] \notin NotParked
  BY DEF IInv, ProcessorOK
<1>1. TypeOK'
  BY <1>a, <1>b, <1>c DEF IInv, TypeOK, Labels
<1>2. PcOK'
  BY DEF IInv, PcOK, TypeOK, ThreadLabels, UserLabels
<1>3. BootOK'
  BY <1>c, <1>d DEF IInv, BootOK, TypeOK, PcOK, Gone
<1>4. ProcessorOK'
  <2>1. \A u \in Threads : pc'[u] \notin NotParked
    BY <1>f DEF IInv, TypeOK, NotParked
  <2>2. pc'[current] \notin NotParked /\ pc'[current] # "dead"
    BY <1>a, <1>d, <2>1 DEF IInv, TypeOK, NotParked
  <2> QED BY <1>c, <2>1, <2>2 DEF ProcessorOK, Masked, HandedOver, NotParked
<1>5. RingOK'
  <2>1. \A u \in Threads : pc'[u] \in OffRing <=> pc[u] \in OffRing
    BY DEF IInv, TypeOK, OffRing
  <2>2. \A u \in Threads : pc'[u] \in Gone <=> pc[u] \in Gone
    BY DEF IInv, TypeOK, Gone
  <2>3. RingOK /\ UNCHANGED <<ring, thread_map, current>>
    BY DEF IInv
  <2> QED BY <2>1, <2>2, <2>3, RingStill
<1>6. StateOK'
  BY DEF IInv, StateOK, TypeOK, Leaving
<1>7. ContextOK'
  BY <1>a, <1>b, <1>c DEF IInv, ContextOK, TypeOK
<1>8. StackOK'
  BY DEF IInv, StackOK, TypeOK, UserMode
<1>9. GsOK'
  BY <1>c DEF IInv, GsOK, TypeOK, UserMode
<1>10. LocalOK'
  BY DEF IInv, LocalOK, TypeOK
<1> QED BY <1>1, <1>2, <1>3, <1>4, <1>5, <1>6, <1>7, <1>8, <1>9, <1>10 DEF IInv

\* Yield restores the caller IF: it was set, or nothing could have called.
LEMMA YieldRestoreKeeps ==
    ASSUME IInv, NEW t \in Threads, YieldRestore(t)
    PROVE  IInv'
<1> USE Distinct DEF YieldRestore, CallerOf, threadVars, coreVars, timeVars, cpuVars,
   localVars
<1>a. int_state[t] /\ ~intr /\ current = t
  BY DEF IInv, LocalOK, ProcessorOK, HandedOver, Masked
<1>1. TypeOK'
  BY <1>a DEF IInv, TypeOK, Labels
<1>2. PcOK'
  BY <1>a DEF IInv, PcOK, TypeOK, ThreadLabels, UserLabels
<1>3. BootOK'
  BY DEF IInv, BootOK, TypeOK, PcOK, Gone
<1>4. ProcessorOK'
  BY <1>a DEF IInv, ProcessorOK, TypeOK, PcOK, Masked, HandedOver, NotParked,
     ThreadLabels, UserLabels
<1>5. RingOK'
  <2>1. \A u \in Threads : pc'[u] \in OffRing <=> pc[u] \in OffRing
    BY DEF IInv, TypeOK, OffRing
  <2>2. \A u \in Threads : pc'[u] \in Gone <=> pc[u] \in Gone
    BY DEF IInv, TypeOK, Gone
  <2>3. RingOK /\ UNCHANGED <<ring, thread_map, current>>
    BY DEF IInv
  <2> QED BY <2>1, <2>2, <2>3, RingStill
<1>6. StateOK'
  BY DEF IInv, StateOK, TypeOK, Leaving
<1>7. ContextOK'
  BY DEF IInv, ContextOK, TypeOK
<1>8. StackOK'
  BY <1>a DEF IInv, StackOK, TypeOK, UserMode
<1>9. GsOK'
  BY <1>a DEF IInv, GsOK, TypeOK, UserMode
<1>10. LocalOK'
  BY <1>a DEF IInv, LocalOK, TypeOK
<1> QED BY <1>1, <1>2, <1>3, <1>4, <1>5, <1>6, <1>7, <1>8, <1>9, <1>10 DEF IInv

\* ExitThread marks its thread, so that SelectNextThread always replaces it.
LEMMA ExitSelectKeeps ==
    ASSUME IInv, NEW t \in Threads, ExitSelect(t)
    PROVE  IInv'
<1> USE Distinct DEF ExitSelect, threadVars, coreVars, timeVars, cpuVars, localVars
<1> DEFINE st == [state EXCEPT ![t] = "Terminating"]
<1>a. current = t /\ current \in Known /\ OnRing(t) /\ ring # <<>>
  BY DEF IInv, ProcessorOK, HandedOver, RingOK, OnRing
<1>b. st \in [Known -> States] /\ st[t] = "Terminating" /\ SelectNextThread(st)
  BY DEF IInv, TypeOK, States
<1> HIDE DEF st
<1>e. /\ state' \in [Known -> States]
      /\ current' \in Known /\ kstack' = current'
      /\ current' \in Threads => OnRing(current')
      /\ state'[current'] = "Running"
      /\ current' # t
      /\ \A u \in Known \ {current'} :
           state'[u] = IF u = current /\ st[u] = "Running" THEN "Ready" ELSE st[u]
      /\ current' = Idle \/ Eligible(st, current')
  BY <1>a, <1>b, SelectNextThreadEffect, Distinct DEF IInv, Eligible
<1>g. state'[t] = "Terminating" /\ \A u \in Known \ {t, current'} : state'[u] = state[u]
  BY <1>a, <1>b, <1>e DEF st, IInv, TypeOK
<1>h. current' = Idle \/ state[current'] \in {"Ready", "Waiting"}
  BY <1>e DEF Eligible, st, IInv, TypeOK
<1> HIDE DEF SelectNextThread
<1>1. TypeOK'
  BY <1>e DEF IInv, TypeOK, Labels
<1>2. PcOK'
  BY DEF IInv, PcOK, TypeOK, ThreadLabels, UserLabels
<1>3. BootOK'
  BY <1>a, <1>e DEF IInv, BootOK, TypeOK, PcOK, Gone
<1>4. ProcessorOK'
  BY <1>a, <1>e DEF IInv, ProcessorOK, TypeOK, PcOK, Masked, HandedOver, NotParked,
     ThreadLabels, UserLabels
<1>5. RingOK'
  <2>1. \A u \in Threads : pc'[u] \in OffRing <=> pc[u] \in OffRing
    BY DEF IInv, TypeOK, OffRing
  <2>2. \A u \in Threads : pc'[u] \in Gone <=> pc[u] \in Gone
    BY DEF IInv, TypeOK, Gone
  <2>3. RingOK /\ UNCHANGED <<ring, thread_map>>
    BY DEF IInv
  <2> QED BY <1>e, <2>1, <2>2, <2>3, RingUnchanged
<1>6. StateOK'
  <2>0. StateOK /\ t \in Known /\ t # Idle /\ current = t /\ state \in [Known -> States]
    BY <1>a DEF IInv, TypeOK
  <2>1. \A u \in Threads : pc'[u] \in Leaving <=> pc[u] \in Leaving \/ u = t
    BY DEF IInv, TypeOK, Leaving
  <2>2. \A u \in Known : state'[u] = "Running" => u = current'
    BY <1>e, <1>g, <2>0 DEF StateOK
  <2>3. \A u \in Threads : state'[u] = "Terminating" <=> pc'[u] \in Leaving
    BY <1>e, <1>g, <1>h, <2>0, <2>1 DEF StateOK
  <2>4. \A u \in Threads : pc'[u] \in Leaving => u # current'
    BY <1>e, <2>3
  <2>5. state'[Idle] \in {"Ready", "Running"}
    BY <1>e, <1>g, <2>0 DEF StateOK
  <2>6. current' \in Threads => state'[current'] = "Running"
    BY <1>e
  <2> QED BY <2>2, <2>3, <2>4, <2>5, <2>6 DEF StateOK
<1>7. ContextOK'
  BY DEF IInv, ContextOK, TypeOK
<1>8. StackOK'
  BY <1>a, <1>e DEF IInv, StackOK, TypeOK, UserMode
<1>9. GsOK'
  BY DEF IInv, GsOK, TypeOK, UserMode
<1>10. LocalOK'
  BY DEF IInv, LocalOK, TypeOK
<1> QED BY <1>1, <1>2, <1>3, <1>4, <1>5, <1>6, <1>7, <1>8, <1>9, <1>10 DEF IInv

\* UnregisterThread takes the exiting thread, and only it, off the ring.
LEMMA UnregisterThreadKeeps ==
    ASSUME IInv, NEW t \in Threads, UnregisterThread(t)
    PROVE  IInv'
<1> USE Distinct DEF UnregisterThread, threadVars, coreVars, timeVars, cpuVars,
   localVars
<1>a. OnRing(t) /\ t # current /\ t \in thread_map
  BY DEF IInv, RingOK, BootOK, StateOK, Leaving, Gone, OffRing
<1>b. /\ ring' \in Seq(Threads)
      /\ \A i, j \in DOMAIN ring' : ring'[i] = ring'[j] => i = j
      /\ \A u \in Threads : OnRing(u)' <=> OnRing(u) /\ u # t
  BY <1>a, RemoveFromRing DEF IInv
<1>1. TypeOK'
  BY <1>b DEF IInv, TypeOK, Labels
<1>2. PcOK'
  BY DEF IInv, PcOK, TypeOK, ThreadLabels, UserLabels
<1>3. BootOK'
  BY DEF IInv, BootOK, TypeOK, PcOK, Gone
<1>4. ProcessorOK'
  BY DEF IInv, ProcessorOK, TypeOK, PcOK, Masked, HandedOver, NotParked, ThreadLabels,
     UserLabels
<1>5. RingOK'
  <2>1. \A u \in Flows : u # t => pc'[u] = pc[u]
    BY DEF IInv, TypeOK
  <2>2. pc'[t] = "exit_free"
    BY DEF IInv, TypeOK
  <2> QED BY <1>a, <1>b, <2>1, <2>2 DEF IInv, RingOK, OffRing, Gone
<1>6. StateOK'
  BY DEF IInv, StateOK, TypeOK, Leaving
<1>7. ContextOK'
  BY DEF IInv, ContextOK, TypeOK
<1>8. StackOK'
  BY DEF IInv, StackOK, TypeOK, UserMode
<1>9. GsOK'
  BY DEF IInv, GsOK, TypeOK, UserMode
<1>10. LocalOK'
  BY DEF IInv, LocalOK, TypeOK
<1> QED BY <1>1, <1>2, <1>3, <1>4, <1>5, <1>6, <1>7, <1>8, <1>9, <1>10 DEF IInv

\* FreeThread finds the id bit set, and nothing names the thread any more.
LEMMA FreeThreadKeeps ==
    ASSUME IInv, NEW t \in Threads, FreeThread(t)
    PROVE  IInv'
<1> USE Distinct DEF FreeThread, threadVars, coreVars, timeVars, cpuVars, localVars
<1>a. t \in thread_map /\ t # current
  BY DEF IInv, RingOK, BootOK, StateOK, Leaving, Gone, OffRing
<1>1. TypeOK'
  BY <1>a DEF IInv, TypeOK, Labels
<1>2. PcOK'
  BY <1>a DEF IInv, PcOK, TypeOK, ThreadLabels, UserLabels
<1>3. BootOK'
  BY <1>a DEF IInv, BootOK, TypeOK, PcOK, Gone
<1>4. ProcessorOK'
  BY <1>a DEF IInv, ProcessorOK, TypeOK, PcOK, Masked, HandedOver, NotParked,
     ThreadLabels, UserLabels
<1>5. RingOK'
  BY <1>a DEF IInv, RingOK, TypeOK, OnRing, OffRing, Gone
<1>6. StateOK'
  BY <1>a DEF IInv, StateOK, TypeOK, Leaving
<1>7. ContextOK'
  BY DEF IInv, ContextOK, TypeOK
<1>8. StackOK'
  BY DEF IInv, StackOK, TypeOK, UserMode
<1>9. GsOK'
  BY DEF IInv, GsOK, TypeOK, UserMode
<1>10. LocalOK'
  BY DEF IInv, LocalOK, TypeOK
<1> QED BY <1>1, <1>2, <1>3, <1>4, <1>5, <1>6, <1>7, <1>8, <1>9, <1>10 DEF IInv

\* LoadContext at the end of ExitThread resumes another, live thread.
LEMMA ExitLoadContextKeeps ==
    ASSUME IInv, NEW t \in Threads, ExitLoadContext(t)
    PROVE  IInv'
<1> USE Distinct DEF ExitLoadContext, Resume, threadVars, coreVars, timeVars, cpuVars,
   localVars
<1>a. current \in thread_map /\ current \in Known /\ current # t /\ t \notin thread_map
  BY DEF IInv, RingOK, BootOK, TypeOK, StateOK, Leaving, Gone, Known
<1>c. cpu' = current /\ intr' = (pc'[current] # "restore")
  BY <1>a DEF IInv, ContextOK, TypeOK
<1>d. current # Boot /\ pc[current] \notin NotParked /\ pc[current] # "dead"
  BY <1>a DEF IInv, ProcessorOK, PcOK, RingOK, Gone, NotParked, Known
<1>f. \A u \in Threads \ {t} : pc[u] \notin NotParked
  BY DEF IInv, ProcessorOK
<1>1. TypeOK'
  BY <1>a, <1>c DEF IInv, TypeOK, Labels
<1>2. PcOK'
  BY DEF IInv, PcOK, TypeOK, ThreadLabels, UserLabels
<1>3. BootOK'
  BY <1>a, <1>c, <1>d DEF IInv, BootOK, TypeOK, PcOK, Gone
<1>4. ProcessorOK'
  BY <1>a, <1>c, <1>d, <1>f DEF IInv, ProcessorOK, TypeOK, PcOK, Masked, HandedOver,
     NotParked, ThreadLabels, UserLabels
<1>5. RingOK'
  <2>1. \A u \in Threads : pc'[u] \in OffRing <=> pc[u] \in OffRing
    BY DEF IInv, TypeOK, OffRing
  <2>2. \A u \in Threads : pc'[u] \in Gone <=> pc[u] \in Gone
    BY DEF IInv, TypeOK, Gone
  <2>3. RingOK /\ UNCHANGED <<ring, thread_map, current>>
    BY DEF IInv
  <2> QED BY <2>1, <2>2, <2>3, RingStill
<1>6. StateOK'
  BY DEF IInv, StateOK, TypeOK, Leaving
<1>7. ContextOK'
  BY <1>a, <1>c DEF IInv, ContextOK, TypeOK
<1>8. StackOK'
  BY DEF IInv, StackOK, TypeOK, UserMode
<1>9. GsOK'
  BY <1>a, <1>c DEF IInv, GsOK, TypeOK, UserMode
<1>10. LocalOK'
  BY DEF IInv, LocalOK, TypeOK
<1> QED BY <1>1, <1>2, <1>3, <1>4, <1>5, <1>6, <1>7, <1>8, <1>9, <1>10 DEF IInv

\* A timer interrupt that finds no other thread returns to where it came from.
LEMMA TimerIdlesKeeps ==
    ASSUME IInv, TimerInterrupt, ~Preempts
    PROVE  IInv'
<1> USE Distinct DEF TimerInterrupt, TimerIsr, threadVars, coreVars, timeVars, cpuVars,
   localVars
<1>a. ticks' \in Nat /\ delay' \in [Known -> Nat]
  <2>1. TimeShift \in Nat /\ TimeShift <= ticks + 1 /\ ticks \in Nat /\ delay \in [Known -> Nat]
    BY TimeAssumption DEF IInv, TypeOK, TimeShift
  <2> QED BY <2>1
<1>b. UNCHANGED <<state, current, kstack, ctx, cpu, intr>>
  OBVIOUS
<1>1. TypeOK'
  BY <1>a, <1>b DEF IInv, TypeOK, Labels
<1>2. PcOK'
  BY DEF IInv, PcOK, TypeOK, ThreadLabels, UserLabels
<1>3. BootOK'
  BY DEF IInv, BootOK, TypeOK, PcOK, Gone
<1>4. ProcessorOK'
  BY DEF IInv, ProcessorOK, TypeOK, PcOK, Masked, HandedOver, NotParked, ThreadLabels,
     UserLabels
<1>5. RingOK'
  <2>1. \A u \in Threads : pc'[u] \in OffRing <=> pc[u] \in OffRing
    BY DEF IInv, TypeOK, OffRing
  <2>2. \A u \in Threads : pc'[u] \in Gone <=> pc[u] \in Gone
    BY DEF IInv, TypeOK, Gone
  <2>3. RingOK /\ UNCHANGED <<ring, thread_map, current>>
    BY DEF IInv
  <2> QED BY <2>1, <2>2, <2>3, RingStill
<1>6. StateOK'
  BY DEF IInv, StateOK, TypeOK, Leaving
<1>7. ContextOK'
  BY DEF IInv, ContextOK, TypeOK
<1>8. StackOK'
  BY DEF IInv, StackOK, TypeOK, UserMode
<1>9. GsOK'
  BY DEF IInv, GsOK, TypeOK, UserMode
<1>10. LocalOK'
  BY DEF IInv, LocalOK, TypeOK
<1> QED BY <1>1, <1>2, <1>3, <1>4, <1>5, <1>6, <1>7, <1>8, <1>9, <1>10 DEF IInv

\* A timer interrupt that switches saves the interrupted frame into the context of
\* the thread it belongs to, because that thread is the current one.
LEMMA TimerPreemptsKeeps ==
    ASSUME IInv, TimerInterrupt, Preempts
    PROVE  IInv'
<1> USE Distinct DEF TimerInterrupt, TimerIsr, Resume, threadVars, coreVars, timeVars,
   cpuVars, localVars
<1>a. ticks' \in Nat /\ delay' \in [Known -> Nat]
  <2>1. TimeShift \in Nat /\ TimeShift <= ticks + 1 /\ ticks \in Nat /\ delay \in [Known -> Nat]
    BY TimeAssumption DEF IInv, TypeOK, TimeShift
  <2> QED BY <2>1
<1>b. /\ cpu = current /\ current \in Known /\ cpu # Boot /\ pc[Boot] = "left"
      /\ pc[cpu] \notin Masked /\ pc[cpu] \notin NotParked /\ pc[cpu] # "dead"
  BY DEF Preempts, IInv, BootOK, ProcessorOK, Masked, HandedOver, NotParked, TypeOK,
     Flows
<1>c. /\ state \in [Known -> States] /\ SelectNextThread(state)
      /\ NextThread(state) # NoThread
  BY DEF Preempts, IInv, TypeOK
<1>e. /\ state' \in [Known -> States]
      /\ current' \in Known
      /\ current' \in Threads => OnRing(current')
      /\ kstack' = current' /\ state'[current'] = "Running"
      /\ current' = Idle \/ Eligible(state, current')
      /\ \A u \in Known \ {current'} :
           state'[u] = IF u = current /\ state[u] = "Running" THEN "Ready" ELSE state[u]
  BY <1>b, <1>c, SelectNextThreadEffect DEF IInv
<1> HIDE DEF SelectNextThread
<1>f. /\ ctx' = [ctx EXCEPT ![current] = [who |-> cpu, if |-> TRUE]]
      /\ cpu' = ctx'[current'].who /\ intr' = ctx'[current'].if
  BY DEF IInv
<1>g. current' \in thread_map /\ current' \in Known
  BY <1>b, <1>e DEF IInv, RingOK, BootOK, Known
<1>h. /\ \A u \in thread_map : ctx'[u].who = u /\ ctx'[u].if = (pc[u] # "restore")
      /\ ctx' \in [Known -> [who : Flows, if : BOOLEAN]]
  <2>1. ctx \in [Known -> [who : Flows, if : BOOLEAN]] /\ pc[cpu] # "restore" /\ cpu \in Flows
    BY <1>b DEF IInv, TypeOK, Masked
  <2>2. ctx' \in [Known -> [who : Flows, if : BOOLEAN]]
    BY <1>f, <2>1
  <2>3. ASSUME NEW u \in thread_map
        PROVE  ctx'[u].who = u /\ ctx'[u].if = (pc[u] # "restore")
    <3>1. u \in Known /\ (u # cpu => ctx[u].who = u /\ ctx[u].if = (pc[u] # "restore"))
      BY DEF IInv, TypeOK, ContextOK
    <3>2. CASE u = cpu
      BY <1>b, <1>f, <2>1, <3>1, <3>2
    <3>3. CASE u # cpu
      BY <1>b, <1>f, <2>1, <3>1, <3>3
    <3> QED BY <3>2, <3>3
  <2> QED BY <2>2, <2>3
<1>i. cpu' = current' /\ intr' = (pc[current'] # "restore")
  BY <1>f, <1>g, <1>h
<1>j. /\ cpu' # Boot /\ pc[cpu'] \notin NotParked /\ pc[cpu'] # "dead"
      /\ \A u \in Threads : pc[u] \notin NotParked
  BY <1>b, <1>e, <1>g, <1>i DEF IInv, ProcessorOK, RingOK, Gone, PcOK, NotParked, Known
<1>k. UNCHANGED <<ring, user_stack, schedule, thread_map, pc, stack, saved_user, int_state, due>>
      /\ kernel_gs' = ((kernel_gs # UserMode(cpu)) # UserMode(cpu'))
  OBVIOUS
<1> HIDE DEF TimerInterrupt
<1>1. TypeOK'
  BY <1>a, <1>e, <1>h, <1>i, <1>k DEF IInv, TypeOK, Labels
<1>2. PcOK'
  BY <1>k DEF IInv, PcOK, TypeOK, ThreadLabels, UserLabels
<1>3. BootOK'
  BY <1>b, <1>e, <1>j, <1>k DEF IInv, BootOK, TypeOK, PcOK, Gone
<1>4. ProcessorOK'
  BY <1>i, <1>j, <1>k DEF IInv, ProcessorOK, TypeOK, PcOK, Masked, HandedOver,
     NotParked, ThreadLabels, UserLabels
<1>5. RingOK'
  BY <1>e, <1>k DEF IInv, RingOK, TypeOK, OnRing, OffRing, Gone
<1>6. StateOK'
  BY <1>b, <1>e, <1>g, <1>k DEF IInv, StateOK, TypeOK, Leaving, Eligible
<1>7. ContextOK'
  BY <1>h, <1>k DEF IInv, ContextOK, TypeOK
<1>8. StackOK'
  BY <1>e, <1>k DEF IInv, StackOK, TypeOK, UserMode
<1>9. GsOK'
  BY <1>k DEF IInv, GsOK, TypeOK, UserMode
<1>10. LocalOK'
  BY <1>k DEF IInv, LocalOK, TypeOK
<1> QED BY <1>1, <1>2, <1>3, <1>4, <1>5, <1>6, <1>7, <1>8, <1>9, <1>10 DEF IInv

\* Whatever a thread decides to do next preserves the invariant.
LEMMA ChoiceKeeps ==
    ASSUME IInv, NEW t \in Threads, Choice(t)
    PROVE  IInv'
<1> USE Distinct
<1>1. CASE SyscallEntry(t)
  BY <1>1, SyscallEntryKeeps
<1>2. CASE UserException(t)
  BY <1>2, UserExceptionKeeps
<1>3. CASE CallYield(t)
  <2>1. PICK from \in {"run", "svc"} : ControlStep(t, from, "yield") /\ ~UserMode(t)
    BY <1>3 DEF CallYield, InKernelBody, ControlStep, UserMode
  <2> QED BY <2>1, ControlStepKeeps
<1>4. CASE CallExit(t)
  <2>1. PICK from \in {"run", "svc"} : ControlStep(t, from, "exit") /\ ~UserMode(t)
    BY <1>4 DEF CallExit, InKernelBody, ControlStep, UserMode
  <2> QED BY <2>1, ControlStepKeeps
<1>5. CASE SyscallPrint(t)
  <2>1. t \in UserThreads
    BY <1>5 DEF SyscallPrint, IInv, PcOK, ThreadLabels
  <2>2. ControlStep(t, "svc", "sysret") /\ ~UserMode(t)
    BY <1>5 DEF SyscallPrint, ControlStep, UserMode
  <2> QED BY <2>1, <2>2, ControlStepKeeps
<1>6. CASE SyscallBadReturn(t)
  <2>1. ControlStep(t, "sysret", "exit") /\ ~UserMode(t)
    BY <1>6 DEF SyscallBadReturn, ControlStep, UserMode
  <2> QED BY <2>1, ControlStepKeeps
<1>7. CASE \E n \in Delays : CallDelay(t, n)
  BY <1>7, CallDelayKeeps
<1> QED BY <1>1, <1>2, <1>3, <1>4, <1>5, <1>6, <1>7 DEF Choice

\* The invariant is inductive.
LEMMA NextKeeps == IInv /\ [Next]_vars => IInv'
<1> SUFFICES ASSUME IInv, [Next]_vars PROVE IInv'
  OBVIOUS
<1>1. CASE BootStep
  BY <1>1, StartSchedulerKeeps, CreateThreadKeeps, EnterIdleKeeps DEF BootStep
<1>2. CASE IdleLoop
  BY <1>2, IdleLoopKeeps
<1>3. ASSUME NEW t \in Threads, Choice(t) PROVE IInv'
  BY <1>3, ChoiceKeeps
<1>4. ASSUME NEW t \in Threads, KernelStep(t) PROVE IInv'
  BY <1>4, SyscallPushKeeps, SyscallReturnKeeps, DelayStoreKeeps, YieldSelectKeeps,
     YieldSwitchKeeps, YieldRestoreKeeps, ExitSelectKeeps, UnregisterThreadKeeps,
     FreeThreadKeeps, ExitLoadContextKeeps DEF KernelStep
<1>5. CASE TimerInterrupt
  BY <1>5, TimerIdlesKeeps, TimerPreemptsKeeps
<1>6. CASE UNCHANGED vars
  BY <1>6 DEF vars, threadVars, coreVars, timeVars, cpuVars, localVars, IInv, TypeOK,
     PcOK, BootOK, ProcessorOK, RingOK, StateOK, ContextOK, StackOK, GsOK, LocalOK,
     OnRing, UserMode
<1> QED BY <1>1, <1>2, <1>3, <1>4, <1>5, <1>6 DEF Next

\* The control points of the contexts always determine the interrupt flag, the
\* current thread, the ring and the saved contexts as IInv says.
THEOREM Invariance == Spec => []IInv
<1>1. Init => IInv
  BY InitEstablishes
<1> QED BY <1>1, NextKeeps, PTL DEF Spec

\* Every variable keeps its type.
THEOREM TypeCorrect == Spec => []TypeOK
<1>1. IInv => TypeOK
  BY DEF IInv
<1> QED BY <1>1, Invariance, PTL

\* An interrupt only ever arrives on the current thread, which is alive: the
\* window between SelectNextThread and the context switch, and ExitThread's use
\* of its own freed stack, are out of its reach.
THEOREM InterruptSafety == Spec => []InterruptibleIsCurrent
<1>1. IInv => InterruptibleIsCurrent
  BY Distinct DEF IInv, InterruptibleIsCurrent, ProcessorOK, RingOK, BootOK, TypeOK,
     Masked, HandedOver, Known
<1> QED BY <1>1, Invariance, PTL

\* No live thread's saved context resumes another thread's code, whichever way
\* it was saved.
THEOREM ContextSafety == Spec => []ContextsAreOwn
<1>1. IInv => ContextsAreOwn
  BY DEF IInv, ContextsAreOwn, ContextOK
<1> QED BY <1>1, Invariance, PTL

\* Kernel code never runs on another thread's kernel stack, and the stack the
\* next entry from user mode loads belongs to the thread that enters.
THEOREM StackSafety == Spec => []StacksAreOwn
<1>1. IInv => StacksAreOwn
  <2> SUFFICES ASSUME IInv PROVE StacksAreOwn
    OBVIOUS
  <2>1. \A t \in Threads : stack[t] = t
    BY Distinct DEF IInv, StackOK, ProcessorOK, HandedOver, Threads
  <2>2. UserMode(cpu) => kstack = cpu
    BY Distinct DEF IInv, StackOK, ProcessorOK, UserMode, HandedOver, Threads
  <2>3. \A t \in UserThreads : pc[t] \in {"svc", "delay_store", "yield", "switch",
                                          "restore", "sysret"} => saved_user[t] = t
    BY DEF IInv, StackOK
  <2> QED BY <2>1, <2>2, <2>3 DEF StacksAreOwn
<1> QED BY <1>1, Invariance, PTL

\* GS holds the Core exactly while kernel code runs.
THEOREM GsSafety == Spec => []GsFollowsMode
<1>1. IInv => GsFollowsMode
  BY DEF IInv, GsFollowsMode, GsOK
<1> QED BY <1>1, Invariance, PTL

\* The ring and the current thread never name a freed thread, FreeThread never
\* frees twice, no thread but the current one is marked as running and ExitThread
\* always finds another context to load.
THEOREM RingSafety == Spec => [](RingIsLive /\ OnlyCurrentRuns /\ ExitLeavesThread)
<1>1. IInv => RingIsLive
  <2> SUFFICES ASSUME IInv PROVE RingIsLive
    OBVIOUS
  <2>1. \A t \in Threads : OnRing(t) <=> t \in thread_map /\ pc[t] # "exit_free"
    BY DEF IInv, RingOK, OffRing, Gone
  <2>2. current # NoThread => current \in thread_map
    BY DEF IInv, RingOK, BootOK, TypeOK, Known
  <2>3. \A f \in Flows : pc[f] # "panic"
    BY DEF IInv, PcOK, Flows, Known, Threads, ThreadLabels, UserLabels
  <2>4. \A i, j \in DOMAIN ring : ring[i] = ring[j] => i = j
    BY DEF IInv, RingOK
  <2> QED BY <2>1, <2>2, <2>3, <2>4 DEF RingIsLive
<1>2. IInv => OnlyCurrentRuns
  BY DEF IInv, OnlyCurrentRuns, StateOK
<1>3. IInv => ExitLeavesThread
  BY Distinct DEF IInv, ExitLeavesThread, StateOK, ProcessorOK, Leaving
<1> QED BY <1>1, <1>2, <1>3, Invariance, PTL
-----------------------------------------------------------------------------
(* The refinement.                                                          *)

\* One step of ProcessorSharing, or none.
Shares == Sharing!Next \/ UNCHANGED Sharing!vars

\* Counting forward from position p on a ring of n entries reaches position q.
LEMMA RingArithmetic ==
    ASSUME NEW n \in Nat \ {0}, NEW p \in 1..n, NEW q \in 1..n
    PROVE  \E k \in 1..n : ((p + k - 1) % n) + 1 = q
<1>0. (q - 1) % n = q - 1 /\ (q - 1 + n) % n = q - 1
  <2>1. q - 1 \in 0..(n - 1)
    OBVIOUS
  <2> QED BY <2>1, SmallRemainder
<1>1. CASE q > p
  <2>1. q - p \in 1..n /\ p + (q - p) - 1 = q - 1
    BY <1>1
  <2>2. ((p + (q - p) - 1) % n) + 1 = q
    BY <1>0, <2>1
  <2> QED BY <2>1, <2>2
<1>2. CASE q <= p
  <2>1. q - p + n \in 1..n /\ p + (q - p + n) - 1 = q - 1 + n
    BY <1>2
  <2>2. ((p + (q - p + n) - 1) % n) + 1 = q
    BY <1>0, <2>1
  <2> QED BY <2>1, <2>2
<1> QED BY <1>1, <1>2

\* The scan looks at every entry of the ring.
LEMMA ScanIsComplete ==
    ASSUME TypeOK, RingOK, current \in Known, NEW u \in Threads, OnRing(u)
    PROVE  \E k \in 1..Len(ring) : Inspected(k) = u
<1>1. Position(u) \in 1..Len(ring) /\ ring[Position(u)] = u /\ Len(ring) \in Nat
  BY PositionOnRing DEF TypeOK
<1>2. CASE current = Idle
  BY <1>1, <1>2 DEF Inspected
<1>3. CASE current # Idle
  <2>1. Position(current) \in 1..Len(ring)
    BY <1>3, PositionOnRing DEF RingOK, Known
  <2>2. Len(ring) \in Nat \ {0}
    BY <1>1
  <2>3. PICK k \in 1..Len(ring) : ((Position(current) + k - 1) % Len(ring)) + 1 = Position(u)
    BY <1>1, <2>1, <2>2, RingArithmetic
  <2>4. Inspected(k) = ring[Position(u)]
    BY <1>3, <2>3 DEF Inspected
  <2> QED BY <1>1, <2>4
<1> QED BY <1>2, <1>3

\* The idle thread is chosen only when no thread on the ring can run.
LEMMA IdleIsLastResort ==
    ASSUME TypeOK, RingOK, current \in Known, NEW st, NextThread(st) = Idle
    PROVE  \A u \in Threads : OnRing(u) => ~Eligible(st, u)
<1>1. Candidates(st) = {}
  <2> SUFFICES ASSUME Candidates(st) # {} PROVE FALSE
    OBVIOUS
  <2>1. Candidates(st) \subseteq Nat
    BY DEF Candidates, TypeOK
  <2>2. PICK k \in Candidates(st) : NextThread(st) = Inspected(k)
    BY <2>1, LeastNatural DEF NextThread
  <2> QED BY <2>2, InspectedOnRing, Distinct DEF Candidates
<1> QED BY <1>1, ScanIsComplete DEF Candidates

\* A step that touches neither the states, the deadlines, the clock, the set of
\* threads nor the current thread is invisible.
LEMMA InvisibleStep ==
    ASSUME UNCHANGED <<state, delay, ticks, thread_map, current>>
    PROVE  Shares
BY DEF Shares, Sharing!vars, Turn, Live, Asleep, Exiting

\* StartScheduler gives the processor to the first thread.
LEMMA StartSchedulerShares ==
    ASSUME IInv, StartScheduler
    PROVE  Shares
<1>1. current = NoThread /\ thread_map = {} /\ current' = Idle /\ thread_map' = {Idle}
  BY DEF IInv, BootOK, StartScheduler
<1>2. UNCHANGED <<state, delay, ticks>>
  BY DEF StartScheduler, timeVars
<1>3. Exiting = {} /\ Exiting' = {}
  <2>1. state[Idle] # "Terminating"
    BY DEF IInv, StateOK
  <2> QED BY <1>1, <1>2, <2>1 DEF Exiting
<1> QED BY <1>1, <1>2, <1>3, Distinct DEF Shares, Sharing!vars, Turn, Live, Asleep

\* CreateThread makes a thread ready.
LEMMA CreateThreadShares ==
    ASSUME IInv, NEW t \in Threads, CreateThread(t)
    PROVE  Shares
<1>1. /\ cpu = Boot /\ state[t] = "Ready" /\ t \notin thread_map
      /\ thread_map' = thread_map \cup {t} /\ UNCHANGED <<delay, ticks, current>>
  BY DEF IInv, BootOK, CreateThread, coreVars, timeVars
<1>2. state' = state
  BY <1>1 DEF CreateThread, IInv, TypeOK
<1>3. Sharing!Admit(t)
  BY <1>1, <1>2, Distinct DEF Sharing!Admit, Turn, Live, Asleep, Exiting
<1> QED BY <1>3 DEF Shares, Sharing!Next

\* Delay's call changes nothing that ProcessorSharing sees.
LEMMA CallDelayShares ==
    ASSUME IInv, NEW t \in Threads, NEW n \in Delays, CallDelay(t, n)
    PROVE  Shares
<1>1. /\ current = t /\ t \in thread_map /\ state[t] = "Running"
      /\ UNCHANGED <<delay, ticks, current, thread_map>>
  BY Distinct DEF IInv, CallDelay, InKernelBody, coreVars, timeVars, ProcessorOK, HandedOver, Masked,
     RingOK, StateOK
<1>2. state' = [state EXCEPT ![t] = "Waiting"] /\ state \in [Known -> States]
  BY DEF CallDelay, IInv, TypeOK
<1>3. Turn = t /\ Turn' = t /\ Live' = Live /\ Exiting' = Exiting
  BY <1>1, <1>2, Distinct DEF IInv, TypeOK, Turn, Live, Exiting
<1>4. Sharing!Runnable(Turn)
  BY <1>1, <1>3, Distinct DEF Sharing!Runnable, Live, Asleep, Exiting
<1>5. Asleep' = Asleep \/ Asleep' = Asleep \cup {t}
  BY <1>1, <1>2, Distinct DEF Asleep
<1>6. CASE Asleep' = Asleep
  BY <1>3, <1>6 DEF Shares, Sharing!vars
<1>7. CASE Asleep' = Asleep \cup {t}
  BY <1>3, <1>4, <1>7 DEF Shares, Sharing!Next, Sharing!Sleep
<1> QED BY <1>5, <1>6, <1>7

\* Delay puts the thread to sleep before it yields.
LEMMA DelayStoreShares ==
    ASSUME IInv, NEW t \in Threads, DelayStore(t)
    PROVE  Shares
<1>1. /\ current = t /\ t \in thread_map /\ state[t] # "Terminating"
      /\ UNCHANGED <<state, ticks, current, thread_map>>
  BY Distinct DEF IInv, DelayStore, coreVars, timeVars, ProcessorOK, HandedOver, Masked, RingOK,
     StateOK, Leaving
<1>2. \A u \in Threads \ {t} : delay'[u] = delay[u]
  BY DEF DelayStore, IInv, TypeOK
<1>3. Turn = t /\ Turn' = t /\ Live' = Live /\ Exiting' = Exiting
  BY <1>1, Distinct DEF Turn, Live, Exiting
<1>4. Asleep' \subseteq Asleep \/ (t \notin Asleep /\ Asleep' = Asleep \cup {t})
  BY <1>1, <1>2 DEF Asleep
<1>5. CASE Asleep' \subseteq Asleep
  BY <1>3, <1>5 DEF Shares, Sharing!Next, Sharing!Wake
<1>6. CASE t \notin Asleep /\ Asleep' = Asleep \cup {t}
  <2>1. Sharing!Runnable(Turn)
    BY <1>1, <1>3, <1>6, Distinct DEF Sharing!Runnable, Live, Exiting
  <2> QED BY <1>3, <1>6, <2>1 DEF Shares, Sharing!Next, Sharing!Sleep
<1> QED BY <1>4, <1>5, <1>6

\* Where SelectNextThread passes the turn: to a runnable thread, or to the idle
\* thread when nobody but the caller's own terminating thread could run.
LEMMA SelectionPassesTurn ==
    ASSUME IInv, current \in Known, NEW st \in [Known -> States], NEW gone \in SUBSET Threads,
           SelectNextThread(st), NextThread(st) # NoThread,
           \A u \in Threads \ gone : st[u] = state[u],
           \A u \in gone : st[u] = "Terminating"
    PROVE  Sharing!PassTurn(gone)
<1>1. current' = NextThread(st)
  BY DEF SelectNextThread
<1>2. \A u \in Threads : Sharing!Runnable(u) <=> /\ u \in thread_map
                                                /\ state[u] # "Terminating"
                                                /\ ~(state[u] = "Waiting" /\ delay[u] > ticks)
  BY Distinct DEF Sharing!Runnable, Live, Asleep, Exiting
<1>3. CASE NextThread(st) \in Threads
  <2> DEFINE u == NextThread(st)
  <2>1. OnRing(u) /\ Eligible(st, u)
    BY <1>3, NextThreadChoice, Distinct DEF IInv
  <2>2. u \in Threads \ gone /\ Eligible(state, u)
    BY <1>3, <2>1 DEF Eligible
  <2>3. u \in thread_map
    BY <1>3, <2>1 DEF IInv, RingOK
  <2>4. Sharing!Runnable(u)
    <3>1. delay[u] \in Nat /\ ticks \in Nat
      BY <1>3, Distinct DEF IInv, TypeOK
    <3>2. delay[u] <= ticks => ~(delay[u] > ticks)
      BY <3>1
    <3>3. state[u] # "Terminating" /\ (state[u] = "Waiting" => delay[u] <= ticks)
      BY <2>2 DEF Eligible
    <3> QED BY <1>2, <1>3, <2>3, <3>2, <3>3
  <2>5. Turn' = u
    BY <1>1, <1>3, Distinct DEF Turn
  <2> QED BY <2>2, <2>4, <2>5 DEF Sharing!PassTurn
<1>4. CASE NextThread(st) = Idle
  <2>1. ASSUME NEW u \in Threads \ gone, Sharing!Runnable(u) PROVE FALSE
    <3>1. OnRing(u)
      BY <1>2, <2>1 DEF IInv, RingOK, StateOK, OffRing, Leaving
    <3>2. ~Eligible(st, u)
      BY <1>4, <3>1, IdleIsLastResort DEF IInv
    <3>3. state[u] = "Running"
      BY <1>2, <2>1, <3>2, Distinct DEF Eligible, IInv, TypeOK, States
    <3>4. u = current /\ st[current] = "Running"
      BY <2>1, <3>3, Distinct DEF IInv, StateOK
    <3> QED BY <1>4, <3>4, NextThreadChoice, Distinct DEF IInv
  <2>2. Turn' = Idle
    BY <1>1, <1>4, Distinct DEF Turn
  <2> QED BY <2>1, <2>2 DEF Sharing!PassTurn
<1> QED BY <1>3, <1>4, NextThreadChoice, Distinct DEF IInv

\* SelectNextThread wakes nobody whose delay is not over and lets nobody leave.
LEMMA SelectionDisturbsNobody ==
    ASSUME IInv, current \in Known, NEW st \in [Known -> States],
           st[Idle] \in {"Ready", "Running"}, SelectNextThread(st)
    PROVE  \A u \in Known :
             /\ state'[u] = "Terminating" <=> st[u] = "Terminating"
             /\ state'[u] = "Waiting" /\ delay[u] > ticks
                <=> st[u] = "Waiting" /\ delay[u] > ticks
<1>1. CASE NextThread(st) = NoThread
  BY <1>1 DEF SelectNextThread
<1>2. CASE NextThread(st) # NoThread
  <2> DEFINE n == NextThread(st)
  <2>1. \A u \in Known : state'[u] = IF u = n THEN "Running"
                                     ELSE IF u = current /\ st[u] = "Running" THEN "Ready"
                                     ELSE st[u]
    BY <1>2 DEF SelectNextThread
  <2>2. n = Idle \/ (n \in Threads /\ Eligible(st, n))
    BY <1>2, NextThreadChoice DEF IInv
  <2>3. st[n] # "Terminating" /\ ~(st[n] = "Waiting" /\ delay[n] > ticks)
    <3>1. CASE n = Idle
      BY <3>1
    <3>2. CASE n \in Threads /\ Eligible(st, n)
      <4>1. delay[n] \in Nat /\ ticks \in Nat
        BY <3>2, Distinct DEF IInv, TypeOK
      <4>2. delay[n] <= ticks => ~(delay[n] > ticks)
        BY <4>1
      <4> HIDE DEF n
      <4> QED BY <3>2, <4>2 DEF Eligible
    <3> QED BY <2>2, <3>1, <3>2
  <2> HIDE DEF n
  <2> QED BY <2>1, <2>3
<1> QED BY <1>1, <1>2

\* Yield hands the processor on, or keeps it.
LEMMA YieldSelectShares ==
    ASSUME IInv, NEW t \in Threads, YieldSelect(t)
    PROVE  Shares
<1>1. current = t /\ t \in Known /\ state \in [Known -> States] /\ state[Idle] \in {"Ready", "Running"}
  BY Distinct DEF IInv, TypeOK, YieldSelect, ProcessorOK, HandedOver, StateOK
<1>2. SelectNextThread(state) /\ UNCHANGED <<delay, ticks, thread_map>>
  BY DEF YieldSelect, timeVars
<1>3. CASE NextThread(state) = NoThread
  BY <1>2, <1>3, InvisibleStep DEF SelectNextThread
<1>4. CASE NextThread(state) # NoThread
  <2>1. Sharing!PassTurn({})
    BY <1>1, <1>2, <1>4, SelectionPassesTurn
  <2>2. Asleep' = Asleep
    BY <1>1, <1>2, SelectionDisturbsNobody, Distinct DEF Asleep
  <2>4. Exiting' = Exiting
    <3>1. thread_map \subseteq Known
      BY DEF IInv, TypeOK
    <3> QED BY <1>1, <1>2, <3>1, SelectionDisturbsNobody DEF Exiting
  <2>3. Live' = Live
    BY <1>2 DEF Live
  <2> QED BY <2>1, <2>2, <2>3, <2>4 DEF Shares, Sharing!Next, Sharing!Switch
<1> QED BY <1>3, <1>4

\* ExitThread's thread leaves, and the next one has the processor.
LEMMA ExitSelectShares ==
    ASSUME IInv, NEW t \in Threads, ExitSelect(t)
    PROVE  Shares
<1> DEFINE st == [state EXCEPT ![t] = "Terminating"]
<1>1. /\ current = t /\ t \in Known /\ t \in thread_map /\ OnRing(t)
      /\ state[t] = "Running" /\ state[Idle] \in {"Ready", "Running"}
  BY Distinct DEF IInv, TypeOK, ExitSelect, ProcessorOK, HandedOver, StateOK, RingOK
<1>2. st \in [Known -> States] /\ st[t] = "Terminating" /\ \A u \in Known \ {t} : st[u] = state[u]
  BY <1>1 DEF IInv, TypeOK, States
<1>3. SelectNextThread(st) /\ UNCHANGED <<delay, ticks, thread_map>>
  BY DEF ExitSelect, timeVars
<1> HIDE DEF st
<1>4. NextThread(st) # NoThread
  <2>1. current # Idle /\ ring # <<>> /\ st[current] # "Running"
    BY <1>1, <1>2, Distinct DEF OnRing
  <2> QED BY <1>1, <2>1, NextThreadChoice, Distinct DEF IInv
<1>5. Sharing!PassTurn({t})
  BY <1>1, <1>2, <1>3, <1>4, SelectionPassesTurn, Distinct
<1>6. st[Idle] \in {"Ready", "Running"}
  BY <1>1, <1>2, Distinct
<1>7. Asleep' = Asleep
  BY <1>1, <1>2, <1>3, <1>6, SelectionDisturbsNobody, Distinct DEF Asleep
<1>8. Exiting' = Exiting \cup {t}
  <2>1. thread_map \subseteq Known
    BY DEF IInv, TypeOK
  <2>2. \A u \in thread_map : state'[u] = "Terminating" <=> u = t \/ state[u] = "Terminating"
    BY <1>1, <1>2, <1>3, <1>6, <2>1, SelectionDisturbsNobody
  <2> QED BY <1>1, <1>3, <2>2 DEF Exiting
<1>9. Live' = Live /\ Turn = t
  BY <1>1, <1>3, Distinct DEF Live, Turn
<1>10. Sharing!Runnable(Turn)
  BY <1>1, <1>9, Distinct DEF Sharing!Runnable, Live, Asleep, Exiting
<1> QED BY <1>5, <1>7, <1>8, <1>9, <1>10 DEF Shares, Sharing!Next, Sharing!Leave

\* Freeing a thread that has left is a stutter.
LEMMA FreeThreadShares ==
    ASSUME IInv, NEW t \in Threads, FreeThread(t)
    PROVE  Shares
<1>1. t \in thread_map /\ state[t] = "Terminating" /\ current # t
  BY Distinct DEF IInv, FreeThread, BootOK, Gone, StateOK, Leaving
<1>2. thread_map' = thread_map \ {t} /\ UNCHANGED <<state, delay, ticks, current>>
  BY DEF FreeThread, coreVars, timeVars
<1>3. Live' = Live \ {t} /\ Exiting' = Exiting \ {t} /\ Asleep' = Asleep /\ Turn' = Turn
  BY <1>2 DEF Live, Exiting, Asleep, Turn
<1>4. t \in Exiting /\ t # Turn
  BY <1>1, Distinct DEF Exiting, Turn
<1> QED BY <1>3, <1>4 DEF Shares, Sharing!Next, Sharing!Reap

\* A tick, with or without moving the time stamps back, wakes threads and puts
\* none to sleep.
LEMMA TickWakes ==
    ASSUME IInv, TimerIsr, NEW u \in Known
    PROVE  delay'[u] > ticks' => delay[u] > ticks
<1>1. delay[u] \in Nat /\ ticks \in Nat /\ Epoch \in Nat \ {0}
  BY TimeAssumption DEF IInv, TypeOK
<1>2. CASE ticks + 1 = Epoch
  <2>1. ticks' = 0 /\ delay'[u] = IF delay[u] < Epoch THEN 0 ELSE delay[u] - Epoch
    BY <1>1, <1>2 DEF TimerIsr, TimeShift
  <2> QED BY <1>1, <1>2, <2>1
<1>3. CASE ticks + 1 # Epoch
  <2>1. ticks' = ticks + 1 /\ delay'[u] = delay[u]
    BY <1>1, <1>3 DEF TimerIsr, TimeShift
  <2> QED BY <1>1, <2>1
<1> QED BY <1>2, <1>3

\* The timer's tick wakes the threads whose time has come, and may hand the processor on.
LEMMA TimerInterruptShares ==
    ASSUME IInv, TimerInterrupt
    PROVE  Shares
<1>1. TimerIsr /\ thread_map' = thread_map
  BY DEF TimerInterrupt
<1>2. Live' = Live
  BY <1>1 DEF Live
<1>3. CASE ~Preempts
  <2>1. UNCHANGED <<state, current>>
    BY <1>3 DEF TimerInterrupt
  <2>2. Asleep' \subseteq Asleep
    BY <1>1, <2>1, TickWakes, Distinct DEF Asleep
  <2>3. Exiting' = Exiting /\ Turn' = Turn
    BY <1>1, <2>1 DEF Exiting, Turn
  <2> QED BY <1>2, <2>2, <2>3 DEF Shares, Sharing!Next, Sharing!Wake
<1>4. CASE Preempts
  <2>1. SelectNextThread(state) /\ NextThread(state) # NoThread /\ schedule
    BY <1>4 DEF TimerInterrupt, Preempts
  <2>2. current \in Known /\ state \in [Known -> States] /\ state[Idle] \in {"Ready", "Running"}
    BY <2>1, Distinct DEF IInv, TypeOK, BootOK, StateOK
  <2>3. Sharing!PassTurn({})
    BY <2>1, <2>2, SelectionPassesTurn
  <2>4. Exiting' = Exiting
    BY <1>1, <2>1, <2>2, SelectionDisturbsNobody DEF Exiting, IInv, TypeOK
  <2>5. \A u \in Threads : u \in Asleep' => u \in Asleep
    BY <1>1, <2>1, <2>2, SelectionDisturbsNobody, TickWakes, Distinct DEF Asleep
  <2>6. Asleep' \subseteq Asleep
    BY <2>5 DEF Asleep
  <2> QED BY <1>2, <2>3, <2>4, <2>6 DEF Shares, Sharing!Next, Sharing!Switch
<1> QED BY <1>3, <1>4

\* All other steps move control, IF, stacks and contexts only.
LEMMA ControlShares ==
    ASSUME \/ EnterIdle \/ IdleLoop
           \/ \E t \in Threads :
                \/ SyscallEntry(t) \/ SyscallPush(t) \/ SyscallPrint(t) \/ SyscallReturn(t)
                \/ SyscallBadReturn(t) \/ UserException(t) \/ CallYield(t) \/ CallExit(t)
                \/ YieldSwitch(t) \/ YieldRestore(t) \/ UnregisterThread(t) \/ ExitLoadContext(t)
    PROVE  Shares
<1>1. UNCHANGED <<state, delay, ticks, thread_map, current>>
  BY DEF EnterIdle, IdleLoop, SyscallEntry, SyscallPush, SyscallPrint, SyscallReturn,
     SyscallBadReturn, UserException, CallYield, CallExit, YieldSwitch, YieldRestore,
     UnregisterThread, ExitLoadContext, threadVars, coreVars, timeVars
<1> QED BY <1>1, InvisibleStep

\* No thread, and nobody has the processor.
LEMMA InitShares == ASSUME Init PROVE Sharing!Init
<1>1. current = NoThread /\ thread_map = {} /\ state = [u \in Known |-> "Ready"]
  BY DEF Init
<1> QED BY <1>1, Distinct DEF Sharing!Init, Turn, Live, Asleep, Exiting

\* Every step of Scheduler is one of ProcessorSharing's, or a stutter.
LEMMA NextShares == ASSUME IInv, [Next]_vars PROVE Shares
<1>1. CASE BootStep
  BY <1>1, StartSchedulerShares, CreateThreadShares, ControlShares DEF BootStep
<1>2. CASE IdleLoop
  BY <1>2, ControlShares
<1>3. ASSUME NEW t \in Threads, Choice(t) PROVE Shares
  BY <1>3, CallDelayShares, ControlShares DEF Choice
<1>4. ASSUME NEW t \in Threads, KernelStep(t) PROVE Shares
  BY <1>4, DelayStoreShares, YieldSelectShares, ExitSelectShares, FreeThreadShares, ControlShares
     DEF KernelStep
<1>5. CASE TimerInterrupt
  BY <1>5, TimerInterruptShares
<1>6. CASE UNCHANGED vars
  BY <1>6, InvisibleStep DEF vars, threadVars, coreVars, timeVars
<1> QED BY <1>1, <1>2, <1>3, <1>4, <1>5, <1>6 DEF Next

\* The scheduler keeps every promise of ProcessorSharing: whatever SelectNextThread,
\* Yield, Delay, ExitThread and the timer interrupt do, the turn goes to a live
\* thread with something to do, and to the idle thread only when there is none.
THEOREM Refinement == Spec => SharesProcessor
<1>1. Init => Sharing!Init
  BY InitShares
<1>2. IInv /\ [Next]_vars => [Sharing!Next]_(Sharing!vars)
  BY NextShares DEF Shares
<1> QED BY <1>1, <1>2, Invariance, PTL DEF Spec, SharesProcessor, Sharing!Spec
-----------------------------------------------------------------------------
(* Round robin.                                                             *)

\* How far ahead of position p on a ring of n entries position q is.
LEMMA AheadOnRing ==
    ASSUME NEW n \in Nat \ {0}, NEW p \in 1..n, NEW q \in 1..n
    PROVE  ((q + n - p - 1) % n) + 1 = IF q > p THEN q - p ELSE q - p + n
<1>1. CASE q > p
  <2>1. q - p - 1 \in 0..(n - 1) /\ q + n - p - 1 = q - p - 1 + n
    BY <1>1
  <2>2. (q - p - 1 + n) % n = q - p - 1
    BY <2>1, SmallRemainder
  <2>3. ((q + n - p - 1) % n) + 1 = q - p
    BY <2>1, <2>2
  <2> QED BY <1>1, <2>3
<1>2. CASE q <= p
  <2>1. q + n - p - 1 \in 0..(n - 1)
    BY <1>2
  <2>2. (q + n - p - 1) % n = q + n - p - 1
    BY <2>1, SmallRemainder
  <2>3. ((q + n - p - 1) % n) + 1 = q - p + n
    BY <2>1, <2>2
  <2> QED BY <1>2, <2>3
<1> QED BY <1>1, <1>2

\* Where k steps from position p lead.
LEMMA StepsOnRing ==
    ASSUME NEW n \in Nat \ {0}, NEW p \in 1..n, NEW k \in 1..n
    PROVE  ((p + k - 1) % n) + 1 = IF p + k <= n THEN p + k ELSE p + k - n
<1>1. CASE p + k <= n
  <2>1. p + k - 1 \in 0..(n - 1)
    BY <1>1
  <2>2. (p + k - 1) % n = p + k - 1
    BY <2>1, SmallRemainder
  <2> QED BY <1>1, <2>1, <2>2
<1>2. CASE p + k > n
  <2>1. p + k - n - 1 \in 0..(n - 1) /\ p + k - 1 = p + k - n - 1 + n
    BY <1>2
  <2>2. (p + k - 1) % n = p + k - n - 1
    BY <2>1, SmallRemainder
  <2> QED BY <1>2, <2>1, <2>2
<1> QED BY <1>1, <1>2

\* The scan reaches the thread at distance d with its d-th look.
LEMMA DistanceIsReached ==
    ASSUME TypeOK, RingOK, current \in Known, NEW t \in Threads, OnRing(t)
    PROVE  Distance(t) \in 1..Len(ring) /\ Inspected(Distance(t)) = t
<1>1. Position(t) \in 1..Len(ring) /\ ring[Position(t)] = t /\ Len(ring) \in Nat \ {0}
  <2>1. Len(ring) \in Nat
    BY DEF TypeOK
  <2> QED BY <2>1, PositionOnRing
<1>2. CASE current = Idle
  BY <1>1, <1>2 DEF Inspected, Distance
<1>3. CASE current # Idle
  <2> DEFINE n == Len(ring)  p == Position(current)  q == Position(t)  d == Distance(t)
  <2>1. p \in 1..n
    BY <1>3, PositionOnRing DEF RingOK, Known
  <2>2. d = IF q > p THEN q - p ELSE q - p + n
    BY <1>1, <1>3, <2>1, AheadOnRing DEF Distance
  <2>3. Inspected(d) = ring[((p + d - 1) % n) + 1]
    BY <1>3 DEF Inspected
  <2> HIDE DEF n, p, q, d
  <2>4. d \in 1..n
    BY <1>1, <2>1, <2>2 DEF n, q
  <2>5. ((p + d - 1) % n) + 1 = IF p + d <= n THEN p + d ELSE p + d - n
    BY <1>1, <2>1, <2>4, StepsOnRing DEF n
  <2>6. ((p + d - 1) % n) + 1 = q
    <3>1. n \in Nat /\ q \in 1..n
      BY <1>1 DEF n, q
    <3> QED BY <2>1, <2>2, <2>5, <3>1
  <2> QED BY <1>1, <2>3, <2>4, <2>6 DEF n, q, d
<1> QED BY <1>2, <1>3

\* A thread on a ring without repetitions has the position it is found at.
LEMMA PositionFound ==
    ASSUME RingOK, NEW i \in DOMAIN ring
    PROVE  Position(ring[i]) = i
  BY DEF RingOK, Position

\* SelectNextThread serves t, or moves nearer to it.
LEMMA SelectionAdvances ==
    ASSUME TypeOK, RingOK, current \in Known, NEW st, SelectNextThread(st), ring' = ring,
           NextThread(st) # NoThread, NEW t \in Threads, OnRing(t), Eligible(st, t)
    PROVE  current' = t \/ (current' # Idle /\ Distance(t)' < Distance(t))
<1> DEFINE n == Len(ring)  q == Position(t)  d == Distance(t)
<1>1. current' = NextThread(st)
  BY DEF SelectNextThread
<1>2. current' # Idle
  BY <1>1, IdleIsLastResort
<1>3. n \in Nat /\ DOMAIN ring = 1..n /\ q \in 1..n /\ d \in 1..n /\ Inspected(d) = t
  BY DistanceIsReached, PositionOnRing DEF TypeOK
<1>4. d \in Candidates(st)
  BY <1>3 DEF Candidates
<1>5. PICK k \in Candidates(st) : current' = Inspected(k) /\ k <= d
  <2>1. Candidates(st) \subseteq Nat
    BY DEF Candidates, TypeOK
  <2>2. \E k \in Candidates(st) : \A j \in Candidates(st) : k <= j
    BY <1>4, <2>1, LeastNatural
  <2> QED BY <1>1, <1>4, <2>2 DEF NextThread
<1>6. k \in 1..n
  BY <1>5 DEF Candidates
<1>7. CASE k = d
  BY <1>3, <1>5, <1>7
<1>8. CASE k < d
  <2> DEFINE r == Position(current')
  <2>1. Distance(t)' = ((q + n - r - 1) % n) + 1
    BY <1>2 DEF Distance, Position
  <2>2. r \in 1..n /\ (IF q > r THEN q - r ELSE q - r + n) < d
    <3>1. CASE current = Idle
      <4>1. current' = ring[k] /\ d = q
        BY <1>5, <3>1 DEF Inspected, Distance
      <4>2. r = k
        BY <1>3, <1>6, <4>1, PositionFound
      <4> HIDE DEF n, q, d, r
      <4> QED BY <1>3, <1>6, <1>8, <4>1, <4>2
    <3>2. CASE current # Idle
      <4> DEFINE p == Position(current)  i == ((p + k - 1) % n) + 1
      <4>1. p \in 1..n
        BY <3>2, PositionOnRing DEF RingOK, Known
      <4>2. current' = ring[i]
        BY <1>5, <3>2 DEF Inspected
      <4>3. n \in Nat \ {0}
        BY <1>3
      <4>4. i = IF p + k <= n THEN p + k ELSE p + k - n
        BY <1>6, <4>1, <4>3, StepsOnRing
      <4>5. d = IF q > p THEN q - p ELSE q - p + n
        BY <1>3, <3>2, <4>1, <4>3, AheadOnRing DEF Distance
      <4> HIDE DEF n, q, d, p, i
      <4>6. i \in 1..n
        BY <1>6, <4>1, <4>3, <4>4
      <4>7. r = i
        BY <1>3, <4>2, <4>6, PositionFound
      <4> HIDE DEF r
      <4> QED BY <1>3, <1>6, <1>8, <4>1, <4>4, <4>5, <4>6, <4>7
    <3> QED BY <3>1, <3>2
  <2>3. Distance(t)' < d
    <3>1. n \in Nat \ {0}
      BY <1>3
    <3>2. Distance(t)' = IF q > r THEN q - r ELSE q - r + n
      BY <1>3, <2>1, <2>2, <3>1, AheadOnRing
    <3> QED BY <2>2, <3>2
  <2> QED BY <1>2, <2>3
<1> HIDE DEF n, d
<1> QED BY <1>3, <1>5, <1>6, <1>7, <1>8

\* Only SelectNextThread names another current thread, once there is one.
LEMMA NextAdvances ==
    ASSUME IInv, [Next]_vars, NEW t \in Threads, OnRing(t), Eligible(state, t),
           t # current, current' # current, current # NoThread
    PROVE  current' = t \/ (current' # Idle /\ Distance(t)' < Distance(t))
<1>1. current \in Known /\ TypeOK /\ RingOK
  BY DEF IInv, TypeOK
<1>2. CASE BootStep
  BY <1>2 DEF BootStep, StartScheduler, CreateThread, EnterIdle, coreVars, IInv, BootOK
<1>3. CASE IdleLoop
  BY <1>3 DEF IdleLoop, coreVars
<1>4. ASSUME NEW u \in Threads, Choice(u) PROVE FALSE
  BY <1>4 DEF Choice, SyscallEntry, UserException, CallYield, CallExit, SyscallPrint, SyscallBadReturn,
     CallDelay, coreVars
<1>5. ASSUME NEW u \in Threads, YieldSelect(u)
      PROVE  current' = t \/ (current' # Idle /\ Distance(t)' < Distance(t))
  <2>1. SelectNextThread(state) /\ ring' = ring
    BY <1>5 DEF YieldSelect
  <2>2. NextThread(state) # NoThread
    BY <2>1 DEF SelectNextThread
  <2> QED BY <1>1, <2>1, <2>2, SelectionAdvances
<1>6. ASSUME NEW u \in Threads, ExitSelect(u)
      PROVE  current' = t \/ (current' # Idle /\ Distance(t)' < Distance(t))
  <2> DEFINE st == [state EXCEPT ![u] = "Terminating"]
  <2>1. SelectNextThread(st) /\ ring' = ring
    BY <1>6 DEF ExitSelect
  <2>2. u = current
    BY <1>6, Distinct DEF ExitSelect, IInv, ProcessorOK, HandedOver
  <2>3. Eligible(st, t)
    BY <2>2 DEF Eligible, IInv, TypeOK
  <2> HIDE DEF st
  <2>4. NextThread(st) # NoThread
    BY <2>1 DEF SelectNextThread
  <2> QED BY <1>1, <2>1, <2>3, <2>4, SelectionAdvances
<1>7. ASSUME NEW u \in Threads, KernelStep(u), ~YieldSelect(u), ~ExitSelect(u) PROVE FALSE
  BY <1>7 DEF KernelStep, SyscallPush, SyscallReturn, DelayStore, YieldSwitch, YieldRestore,
     UnregisterThread, FreeThread, ExitLoadContext, coreVars
<1>8. CASE TimerInterrupt
  <2>1. Preempts /\ SelectNextThread(state) /\ ring' = ring
    BY <1>8 DEF TimerInterrupt
  <2>2. NextThread(state) # NoThread
    BY <2>1 DEF Preempts
  <2> QED BY <1>1, <2>1, <2>2, SelectionAdvances
<1>9. CASE UNCHANGED vars
  BY <1>9 DEF vars, coreVars
<1> QED BY <1>2, <1>3, <1>4, <1>5, <1>6, <1>7, <1>8, <1>9 DEF Next

\* Round robin is fair for any number of threads: while a thread waits for the
\* processor, every switch to another one brings it nearer, so that each of the
\* others is served at most once before it, and the idle thread never.
THEOREM RoundRobin == Spec => WaitingThreadAdvances
<1> DEFINE Advances == \A t \in Threads :
                         (/\ OnRing(t) /\ Eligible(state, t) /\ t # current
                          /\ current' # current /\ current # NoThread)
                         => current' = t \/ (current' # Idle /\ Distance(t)' < Distance(t))
<1>1. IInv /\ [Next]_vars => Advances
  BY NextAdvances
<1>2. IInv /\ [Next]_vars => [Advances]_vars
  BY <1>1
<1> HIDE DEF Advances
<1>3. Spec => [][Advances]_vars
  BY <1>2, Invariance, PTL DEF Spec
<1> QED BY <1>3 DEF WaitingThreadAdvances, Advances
=============================================================================
