------------------------------- MODULE Traps -------------------------------
(****************************************************************************)
(* Crossings between rings, instruction by instruction as far as GS is      *)
(* concerned: SyscallEntry and LoadContext (cpu.asm), GENERATE_ISR and      *)
(* GENERATE_PARANOID_ISR (isr.asm), IsrCommon's ways out (intctrl.cc).      *)
(*                                                                          *)
(* Kernel code finds its Core through GS, user code has a base of its own,  *)
(* and swapgs exchanges the two.  An NMI or a machine check can arrive      *)
(* between any two instructions, also when ring 0 runs on the user's base.  *)
(* Which thread runs is the business of Scheduler: here any may.            *)
(****************************************************************************)
EXTENDS Integers, Sequences

CONSTANTS UserThreads, KernelThreads

Threads == UserThreads \cup KernelThreads

ASSUME TrapsAssumption == UserThreads \cap KernelThreads = {} /\ KernelThreads # {}

VARIABLES at,       \* what the processor executes
          gs,       \* the active base; swapgs exchanges it with the other
          nested,   \* interrupt frames, the innermost last
          blocked,  \* NMIs are held back, from an NMI to the next iretq
          ctx,      \* thread -> where its context resumes, or "none"
          current   \* Core::current_thread
vars == <<at, gs, nested, blocked, ctx, current>>

\* Mutant of Interruptible: the stub leaves interrupts on for IsrCommon.
InterruptibleInHandlers == {"user", "kernel", "syscall", "paranoid_handler"}

\* Where maskable interrupts can be on; in user mode they are.
Interruptible == {"user", "kernel", "syscall"}

Bases == {"core", "user"}
Other(base) == IF base = "core" THEN "user" ELSE "core"
SwapIf(p) == gs' = IF p THEN Other(gs) ELSE gs

Frame == nested[Len(nested)]
Below == SubSeq(nested, 1, Len(nested) - 1)
Kinds == {"irq", "fault", "debug", "nmi", "mce"}

Push(kind) == nested' = Append(nested, [kind |-> kind, at |-> at, gs |-> gs, swapped |-> FALSE])
-----------------------------------------------------------------------------
(* System calls.                                                            *)

Syscall ==
    /\ at = "user" /\ at' = "syscall_entry"
    /\ UNCHANGED <<gs, nested, blocked, ctx, current>>

SyscallEntry ==
    /\ at = "syscall_entry" /\ at' = "syscall"
    /\ SwapIf(TRUE)
    /\ UNCHANGED <<nested, blocked, ctx, current>>

\* Back in user mode, but for the sysretq.
SyscallReturn ==
    /\ at = "syscall" /\ at' = "sysret"
    /\ SwapIf(TRUE)
    /\ UNCHANGED <<nested, blocked, ctx, current>>

Sysret ==
    /\ at = "sysret" /\ at' = "user"
    /\ UNCHANGED <<gs, nested, blocked, ctx, current>>
-----------------------------------------------------------------------------
(* Interrupts through GENERATE_ISR: the interrupt lines, and exceptions.    *)

Interrupt(kind) ==
    /\ at \in Interruptible /\ kind \in {"irq", "fault"}
    /\ Push(kind) /\ at' = "entry"
    /\ UNCHANGED <<gs, blocked, ctx, current>>

\* Only swap GS if coming from user mode.
Entry ==
    /\ at = "entry" /\ at' = "handler"
    /\ SwapIf(Frame.at = "user")
    /\ UNCHANGED <<nested, blocked, ctx, current>>

HandlerReturns ==
    /\ at = "handler" /\ Frame.kind = "irq"
    /\ at' = "leave"
    /\ UNCHANGED <<gs, nested, blocked, ctx, current>>

\* The timer: IsrCommon stores the frame and returns to another thread's.
HandlerSwitches(next) ==
    /\ at = "handler" /\ Frame.kind = "irq"
    /\ ctx[next] # "none" /\ next # current
    /\ ctx' = [ctx EXCEPT ![current] = Frame.at]
    /\ nested' = Append(Below, [kind |-> "irq", at |-> ctx[next], gs |-> Frame.gs, swapped |-> FALSE])
    /\ current' = next
    /\ at' = "leave"
    /\ UNCHANGED <<gs, blocked>>

\* Mutant of Leave: decides by the thread that came in, not the one that leaves.
LeaveAsEntered ==
    /\ at = "leave" /\ at' = "iret"
    /\ SwapIf(Frame.gs = "user")
    /\ UNCHANGED <<nested, blocked, ctx, current>>

\* The frame in place now, maybe another thread's, decides.
Leave ==
    /\ at = "leave" /\ at' = "iret"
    /\ SwapIf(Frame.at = "user")
    /\ UNCHANGED <<nested, blocked, ctx, current>>

Iret ==
    /\ at \in {"iret", "paranoid_iret"}
    /\ at' = Frame.at /\ nested' = Below /\ blocked' = FALSE
    /\ UNCHANGED <<gs, ctx, current>>
-----------------------------------------------------------------------------
(* GENERATE_PARANOID_ISR: debug exceptions, NMIs and machine checks.        *)

\* The kernel sets no breakpoints and clears TF: debug exceptions are user code's.
\* A machine check during another one shuts the processor down.
Paranoid(kind) ==
    /\ \/ kind = "debug" /\ at = "user"
       \/ kind = "nmi" /\ ~blocked
       \/ kind = "mce" /\ \A i \in 1..Len(nested) : nested[i].kind # "mce"
    /\ at # "halted"
    /\ Push(kind) /\ at' = "paranoid_entry"
    /\ blocked' = (blocked \/ kind = "nmi")
    /\ UNCHANGED <<gs, ctx, current>>

Enter(swap) ==
    /\ at = "paranoid_entry" /\ at' = "paranoid_handler"
    /\ SwapIf(swap)
    /\ nested' = Append(Below, [kind |-> Frame.kind, at |-> Frame.at, gs |-> Frame.gs, swapped |-> swap])
    /\ UNCHANGED <<blocked, ctx, current>>

\* Mutant of ParanoidEntry: looks at CS, as GENERATE_ISR does.
ParanoidEntryByCs == Enter(Frame.at = "user")

\* The sign of the GS base tells whose it is; ebx remembers the swap.
ParanoidEntry == Enter(gs = "user")

\* NMIs continue, from user mode too; the others only from the kernel.
ParanoidReturns ==
    /\ at = "paranoid_handler" /\ Frame.kind = "nmi"
    /\ at' = "paranoid_leave"
    /\ UNCHANGED <<gs, nested, blocked, ctx, current>>

\* Mutant of ParanoidLeave: swaps for the ring the frame returns to.
ParanoidLeaveByCs ==
    /\ at = "paranoid_leave" /\ at' = "paranoid_iret"
    /\ SwapIf(Frame.at = "user")
    /\ UNCHANGED <<nested, blocked, ctx, current>>

ParanoidLeave ==
    /\ at = "paranoid_leave" /\ at' = "paranoid_iret"
    /\ SwapIf(Frame.swapped)
    /\ UNCHANGED <<nested, blocked, ctx, current>>

\* A fault of the kernel, or a machine check anywhere.
HaltSystem ==
    /\ \/ at = "handler" /\ Frame.kind = "fault" /\ Frame.at # "user"
       \/ at = "paranoid_handler" /\ Frame.kind = "mce"
    /\ at' = "halted"
    /\ UNCHANGED <<gs, nested, blocked, ctx, current>>
-----------------------------------------------------------------------------
(* Threads, and LoadContext.                                                *)

CreateThread(t) ==
    /\ at \in {"kernel", "syscall"} /\ ctx[t] = "none" /\ t # current
    /\ ctx' = [ctx EXCEPT ![t] = IF t \in UserThreads THEN "user" ELSE "kernel"]
    /\ UNCHANGED <<at, gs, nested, blocked, current>>

\* SwitchContext: a thread gives the processor up.
Yield(next) ==
    /\ at \in {"kernel", "syscall"} /\ ctx[next] # "none" /\ next # current
    /\ ctx' = [ctx EXCEPT ![current] = at]
    /\ current' = next /\ at' = "load"
    /\ UNCHANGED <<gs, nested, blocked>>

\* A thread ends by itself, by a bad return address or by an exception in user
\* mode; what is left of its stacks is abandoned.
ExitThread(next) ==
    /\ \/ at \in {"kernel", "syscall"}
       \/ at = "handler" /\ Frame.kind = "fault" /\ Frame.at = "user"
       \/ at = "paranoid_handler" /\ Frame.kind = "debug"
    /\ ctx[next] # "none" /\ next # current
    /\ ctx' = [ctx EXCEPT ![current] = "none"]
    /\ nested' = <<>>
    /\ current' = next /\ at' = "load"
    /\ UNCHANGED <<gs, blocked>>

LoadContext ==
    /\ at = "load" /\ at' = "load_iret"
    /\ SwapIf(ctx[current] = "user")
    /\ UNCHANGED <<nested, blocked, ctx, current>>

LoadContextIret ==
    /\ at = "load_iret" /\ at' = ctx[current] /\ blocked' = FALSE
    /\ UNCHANGED <<gs, nested, ctx, current>>
-----------------------------------------------------------------------------
Init ==
    /\ at = "kernel" /\ gs = "core" /\ nested = <<>> /\ blocked = FALSE
    /\ current \in KernelThreads
    /\ ctx = [t \in Threads |-> "none"]

Next ==
    \/ Syscall \/ SyscallEntry \/ SyscallReturn \/ Sysret
    \/ \E kind \in Kinds : Interrupt(kind) \/ Paranoid(kind)
    \/ Entry \/ HandlerReturns \/ Leave \/ Iret
    \/ ParanoidEntry \/ ParanoidReturns \/ ParanoidLeave \/ HaltSystem
    \/ \E t \in Threads : \/ CreateThread(t) \/ HandlerSwitches(t)
                          \/ Yield(t) \/ ExitThread(t)
    \/ LoadContext \/ LoadContextIret

Spec == Init /\ [][Next]_vars
-----------------------------------------------------------------------------
(* Which base belongs to which position.                                    *)

FromIsr      == {"entry", "handler", "leave", "iret"}
FromParanoid == {"paranoid_entry", "paranoid_handler", "paranoid_leave", "paranoid_iret"}
OnUserBase   == {"user", "syscall_entry", "sysret"}
OnCoreBase   == {"kernel", "syscall", "load"}
Frames       == [kind : Kinds, at : OnUserBase \cup OnCoreBase \cup {"load_iret"} \cup FromIsr \cup FromParanoid,
                 gs : Bases, swapped : BOOLEAN]

\* Base g is right for position p, inside of the first n frames of s and with
\* the current thread's context at c.
BaseAt(p, g, n, s, c) ==
    /\ p \in OnUserBase \cup OnCoreBase \cup {"load_iret"} => n = 0
    /\ p \in OnUserBase => g = "user"
    /\ p \in OnCoreBase \cup {"handler", "leave", "paranoid_handler", "paranoid_leave"} => g = "core"
    /\ p \in {"load", "load_iret"} => c # "none"
    /\ p = "load_iret" => (g = "user" <=> c = "user")
    /\ p \in FromIsr => n > 0 /\ s[n].kind \in {"irq", "fault"}
    /\ p \in {"entry", "iret"} => (g = "user" <=> s[n].at = "user")
    /\ p \in FromParanoid => n > 0 /\ s[n].kind \in {"debug", "nmi", "mce"}
    /\ p \in {"paranoid_entry", "paranoid_iret"} => g = s[n].gs
    /\ p \in {"paranoid_handler", "paranoid_leave"} => s[n].swapped = (s[n].gs = "user")
    /\ p \in {"paranoid_leave", "paranoid_iret"} => s[n].kind = "nmi"

\* Every frame that an NMI, a debug exception or a machine check pushed holds a
\* base that is right for what it interrupted.  The others are outermost, and
\* interrupt code whose base does not depend on the way into it.
FrameOK(s, i, c) ==
    IF s[i].kind \in {"irq", "fault"} THEN i = 1 /\ s[i].at \in Interruptible
    ELSE /\ BaseAt(s[i].at, s[i].gs, i - 1, s, c)
         /\ s[i].kind = "debug" => s[i].at = "user"

TypeOK ==
    /\ at \in OnUserBase \cup OnCoreBase \cup {"load_iret", "halted"} \cup FromIsr \cup FromParanoid
    /\ gs \in Bases /\ blocked \in BOOLEAN /\ current \in Threads
    /\ nested \in Seq(Frames)
    /\ ctx \in [Threads -> {"none", "user", "kernel", "syscall"}]

\* The inductive invariant.
Crossing ==
    /\ TypeOK
    /\ at # "halted" => BaseAt(at, gs, Len(nested), nested, ctx[current])
    /\ \A i \in 1..Len(nested) : FrameOK(nested, i, ctx[current])
    /\ \A i \in 1..Len(nested) : nested[i].kind = "nmi" => blocked
-----------------------------------------------------------------------------
(* Properties.                                                              *)

\* The kernel only reads its Core where GS is the core's base, however ring 0
\* was reached: IsrCommon, SelectNextThread and SyscallEntry all go through gs.
KernelFindsCore ==
    at \in {"kernel", "syscall", "handler", "paranoid_handler", "load"} => gs = "core"

\* User code never runs on the core's base, however it was returned to.
UserHasOwnBase == at = "user" => gs = "user"

\* Between any two instructions of a crossing, an NMI leaves GS as it was.
ParanoidIsTransparent == at = "paranoid_iret" => gs = Frame.gs

\* The gates of NMIs and machine checks name one stack each (IstIndex): no
\* frame on it is overwritten before the code it interrupted has resumed.
OneFramePerStack ==
    \A i, j \in 1..Len(nested) :
      nested[i].kind = nested[j].kind /\ nested[i].kind \in {"debug", "nmi", "mce"} => i = j
=============================================================================
