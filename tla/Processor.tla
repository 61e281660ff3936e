----------------------------- MODULE Processor -----------------------------
(****************************************************************************)
(* The processor's tables: how OsInitialize (core/init.cc) and x64.cc set   *)
(* them up in order, and what every later crossing (Traps) then takes from  *)
(* them.  A crossing loads CS and SS from a gate, a frame, a context or the *)
(* STAR register; those selectors have to name descriptors that fit, long   *)
(* after they were written down and by whichever way the ring is left.      *)
(* Data segment registers are loaded once and mean nothing in 64-bit mode.  *)
(****************************************************************************)
EXTENDS Traps

VARIABLES has,          \* what the machine has
          start,        \* where OsInitialize is
          using_apic, cr4,
          space,        \* whose page tables are loaded: the loader's map all memory
          console,      \* where gfx draws: in the loader's space, or in the kernel's
          mapped,       \* the APICs' registers are mapped
          sealed,       \* INIT and .CRT are gone, PROTDATA is read-only
          gdt, idt,     \* in memory
          star, tr, cs, ss,
          frames,       \* what nested's frames hold of this
          kept          \* thread -> its context's selectors

found   == <<has, using_apic, cr4>>
memory  == <<space, console, mapped, sealed>>
written == <<idt, star, tr>>
loaded  == <<gdt, cs, ss>>

\* The bits of CR4 that depend on what the processor has.
Cr4 == {"FSGSBASE", "SMEP", "SMAP", "UMIP"}
Features == Cr4 \cup {"SYSCALL", "8259", "I/O APIC", "Intel"}
-----------------------------------------------------------------------------
(* The tables.                                                              *)

NullIndex == 0
R0Code    == 1
R0Data    == 2
R3Code32  == 3
R3Data    == 4
R3Code    == 5
TssLow    == 6

Selector(index, rpl) == [index |-> index, rpl |-> rpl]
Pair(code, stack)    == [cs |-> code, ss |-> stack]
KernelPair == Pair(Selector(R0Code, 0), Selector(R0Data, 0))
UserPair   == Pair(Selector(R3Code, 3), Selector(R3Data, 3))

\* used is the accessed bit of a segment, the busy bit of a TSS.
GdtEntry(kind, dpl, used, long, present) ==
    [kind |-> kind, dpl |-> dpl, used |-> used, long |-> long, present |-> present]
Absent == GdtEntry("none", 0, FALSE, FALSE, FALSE)

\* Ring 3's 32-bit code is only there for STAR to count from.
Gdt ==
    [i \in 0..7 |->
       CASE i = R0Code   -> GdtEntry("code", 0, TRUE, TRUE, TRUE)
         [] i = R0Data   -> GdtEntry("data", 0, TRUE, TRUE, TRUE)
         [] i = R3Code32 -> GdtEntry("code", 3, FALSE, FALSE, FALSE)
         [] i = R3Data   -> GdtEntry("data", 3, TRUE, TRUE, TRUE)
         [] i = R3Code   -> GdtEntry("code", 3, TRUE, TRUE, TRUE)
         [] i = TssLow   -> GdtEntry("tss", 0, FALSE, FALSE, TRUE)
         [] OTHER        -> Absent]

Irqs           == 32..47
ErrorVector    == 254
SpuriousVector == 255

\* Gates of kernel code; ist chooses a stack of its own, 0 none.
Gate(stub, ist) == [selector |-> Selector(R0Code, 0), stub |-> stub, ist |-> ist]
DoubleFaultIst  == 1
NmiIst          == 2
DebugIst        == 3
MachineCheckIst == 4
Ist(v) ==
    CASE v = 8        -> DoubleFaultIst
      [] v = 2        -> NmiIst
      [] v \in {1, 3} -> DebugIst
      [] v = 18       -> MachineCheckIst
      [] OTHER        -> 0

\* Exceptions and the 16 requests; what is left, which nothing is connected to.
Isrs       == [v \in 0..47 |-> Gate("_Isr", Ist(v))]
Unassigned == [v \in 48..255 |-> Gate("_Isr", 0)]
Idt        == [v \in 0..255 |-> IF v \in DOMAIN Isrs THEN Isrs[v] ELSE Unassigned[v]]

\* STAR: where SYSCALL and SYSRET count from.
MsrStar(syscall, sysret) == [syscall |-> syscall, sysret |-> sysret]

\* The words on the stack when a stub leaves the saved registers: an error code,
\* the processor's own or the stub's, and five that iretq takes.
ErrorCodes == {8, 10, 11, 12, 13, 14, 17, 21, 29, 30}
\* Mutant of HasError: the later exceptions are forgotten.
HasErrorBefore == {8} \cup 10..14 \cup {17}
HasError == {8} \cup 10..14 \cup {17, 21, 29, 30}
Words(v) == 5 + (IF v \in ErrorCodes THEN 1 ELSE 0) + (IF v \in HasError THEN 0 ELSE 1)

Vectors(kind) ==
    CASE kind = "irq"   -> Irqs \cup (IF using_apic THEN {ErrorVector} ELSE {})
      [] kind = "fault" -> (0..21 \cup {29, 30}) \ {1, 2, 9, 15, 18}
      [] kind = "debug" -> {1}
      [] kind = "nmi"   -> {2}
      [] kind = "mce"   -> {18}
-----------------------------------------------------------------------------
(* What the processor asks of a descriptor, and does to it.                 *)

\* The bit is set as the descriptor is loaded, unless it was.
Marks(d) == d.used \/ ~sealed

LoadsCode(selector, ring) ==
    LET d == gdt[selector.index]
    IN  d.kind = "code" /\ d.present /\ d.long /\ d.dpl = ring /\ selector.rpl = ring /\ Marks(d)

\* Ring 0 does with none.
LoadsStack(selector, ring) ==
    LET d == gdt[selector.index]
    IN  \/ selector.index = NullIndex /\ ring = 0
        \/ d.kind = "data" /\ d.present /\ d.dpl = ring /\ selector.rpl = ring /\ Marks(d)

LoadsTss(index) == LET d == gdt[index] IN d.kind = "tss" /\ d.present /\ ~d.used /\ ~sealed

Loads(pair) == LoadsCode(pair.cs, pair.cs.rpl) /\ LoadsStack(pair.ss, pair.cs.rpl)

Mark(indices) ==
    gdt' = [i \in DOMAIN gdt |-> IF i \in indices \ {NullIndex} THEN [gdt[i] EXCEPT !.used = TRUE] ELSE gdt[i]]

Load(pair) == cs' = pair.cs /\ ss' = pair.ss /\ Mark({pair.cs.index, pair.ss.index})
-----------------------------------------------------------------------------
(* OsInitialize.                                                            *)

Go(from, to) == start = from /\ start' = to

\* ke::Panic prints, and the processor halts.
Panic(from) == Go(from, "panic")
Halt ==
    /\ Go("panic", "halted")
    /\ UNCHANGED <<found, memory, written, loaded>>

ParseMadt ==
    /\ Go("madt", "identify")
    /\ using_apic' = ("I/O APIC" \in has)
    /\ UNCHANGED <<has, cr4, memory, written, loaded>>

\* GetCpuModel and CheckFeatureSupport
Identify ==
    /\ IF "SYSCALL" \in has THEN Go("identify", "control") ELSE Panic("identify")
    /\ UNCHANGED <<found, memory, written, loaded>>

\* SetCr0Bits, SetCr4Bits, and the PAT
SetControlRegisters ==
    /\ Go("control", "gdt")
    /\ cr4' = (cr4 \ (has \cap {"FSGSBASE"})) \cup (has \cap (Cr4 \ {"FSGSBASE"}))
    /\ UNCHANGED <<has, using_apic, memory, written, loaded>>

\* lgdt: what is loaded stays loaded.
LoadGdt ==
    /\ Go("gdt", "segments")
    /\ UNCHANGED <<found, memory, written, loaded>>

ReloadSegments ==
    /\ Go("segments", "tr")
    /\ Load(KernelPair)
    /\ UNCHANGED <<found, memory, written>>

LoadTr ==
    /\ Go("tr", "idt")
    /\ tr' = TssLow /\ Mark({TssLow})
    /\ UNCHANGED <<found, memory, idt, star, cs, ss>>

LoadIdt ==
    /\ Go("idt", "tables")
    /\ idt' = IF using_apic THEN [idt EXCEPT ![SpuriousVector] = Gate("_IsrSpurious", 0)] ELSE idt
    /\ UNCHANGED <<found, memory, star, tr, loaded>>

\* The new page tables (PageTable): room for the APICs' registers may be missing.
MapDevices ==
    /\ Go("tables", "cr3")
    /\ mapped' \in (IF using_apic THEN BOOLEAN ELSE {FALSE})
    /\ using_apic' = (using_apic /\ mapped')
    /\ UNCHANGED <<has, cr4, space, console, sealed, written, loaded>>

\* OutOfMemory: there is no room for the back buffer.
MapFails ==
    /\ Panic("tables")
    /\ UNCHANGED <<found, memory, written, loaded>>

\* Mutant of SwitchTables: gfx is not told where the frame buffer is now.
SwitchSilently ==
    /\ Go("cr3", "interrupts")
    /\ space' = "kernel"
    /\ UNCHANGED <<found, console, mapped, sealed, written, loaded>>

\* __writecr3 and SetFrameBufferAddress; nothing is drawn in between.
SwitchTables ==
    /\ Go("cr3", "interrupts")
    /\ space' = "kernel" /\ console' = "kernel"
    /\ UNCHANGED <<found, mapped, sealed, written, loaded>>

InitializeInterrupts ==
    /\ IF using_apic \/ "8259" \in has THEN Go("interrupts", "syscalls") ELSE Panic("interrupts")
    /\ UNCHANGED <<found, memory, written, loaded>>

\* Mutant of InitializeSyscalls: the ring is left to the processor.
InitializeSyscallsRing0 ==
    /\ Go("syscalls", "devices")
    /\ star' = MsrStar(Selector(R0Code, 0), Selector(R3Code32, 0))
    /\ UNCHANGED <<found, memory, idt, tr, loaded>>

InitializeSyscalls ==
    /\ Go("syscalls", "devices")
    /\ star' = MsrStar(Selector(R0Code, 0), Selector(R3Code32, 3))
    /\ UNCHANGED <<found, memory, idt, tr, loaded>>

\* serial, timer and ps2
InitializeDevices ==
    /\ Go("devices", "finalize")
    /\ UNCHANGED <<found, memory, written, loaded>>

FinalizeKernelMapping ==
    /\ Go("finalize", "core")
    /\ sealed' = TRUE
    /\ UNCHANGED <<found, space, console, mapped, written, loaded>>

\* InitializeCore, unmask_interrupts and StartScheduler
StartThreads ==
    /\ Go("core", "running")
    /\ UNCHANGED <<found, memory, written, loaded>>

InitializeStage1 ==
    Identify \/ SetControlRegisters \/ LoadGdt \/ ReloadSegments \/ LoadTr \/ LoadIdt

InitializeStage2 == InitializeInterrupts \/ InitializeSyscalls

OsInitialize ==
    \/ ParseMadt \/ InitializeStage1 \/ MapDevices \/ MapFails \/ SwitchTables
    \/ InitializeStage2 \/ InitializeDevices \/ FinalizeKernelMapping \/ StartThreads
    \/ Halt
-----------------------------------------------------------------------------
(* Crossings.                                                               *)

\* The processor reads no descriptors here, nor in SYSRET.
SyscallPair == Pair(Selector(star.syscall.index, 0), Selector(star.syscall.index + 1, 0))

\* AMD's leave the stack segment the ring that STAR has.
SysretPair ==
    Pair(Selector(star.sysret.index + 2, 3),
         Selector(star.sysret.index + 1, IF "Intel" \in has THEN 3 ELSE star.sysret.rpl))

Take(pair) == cs' = pair.cs /\ ss' = pair.ss /\ UNCHANGED gdt

\* A gate of kernel code; the stack segment is null if that changes the ring.
Deliver(v) ==
    /\ frames' = Append(frames, [cs |-> cs, ss |-> ss, words |-> Words(v), ist |-> idt[v].ist])
    /\ cs' = Selector(idt[v].selector.index, 0)
    /\ ss' = IF cs.rpl = 3 THEN Selector(NullIndex, 0) ELSE ss
    /\ Mark({idt[v].selector.index})

Saved   == frames[Len(frames)]
Outer   == SubSeq(frames, 1, Len(frames) - 1)

\* Steps that change neither segments nor frames.
Within ==
    \/ SyscallEntry \/ SyscallReturn \/ Entry \/ HandlerReturns \/ Leave
    \/ ParanoidEntry \/ ParanoidReturns \/ ParanoidLeave \/ HaltSystem \/ LoadContext

Cross ==
    \/ Within /\ UNCHANGED <<loaded, frames, kept>>
    \/ Syscall /\ Take(SyscallPair) /\ UNCHANGED <<frames, kept>>
    \/ Sysret /\ Take(SysretPair) /\ UNCHANGED <<frames, kept>>
    \/ \E kind \in Kinds :
         /\ Interrupt(kind) \/ Paranoid(kind)
         /\ \E v \in Vectors(kind) : Deliver(v)
         /\ UNCHANGED kept
    \/ Iret /\ Load(Saved) /\ frames' = Outer /\ UNCHANGED kept
    \/ \E t \in Threads : CreateThread(t) /\ UNCHANGED <<loaded, frames>>
         /\ kept' = [kept EXCEPT ![t] = IF t \in UserThreads THEN UserPair ELSE KernelPair]
    \/ \E t \in Threads : HandlerSwitches(t) /\ UNCHANGED loaded
         /\ kept' = [kept EXCEPT ![current] = Pair(Saved.cs, Saved.ss)]
         /\ frames' = Append(Outer, [Saved EXCEPT !.cs = kept[t].cs, !.ss = kept[t].ss])
    \/ \E t \in Threads : Yield(t) /\ UNCHANGED <<loaded, frames>>
         /\ kept' = [kept EXCEPT ![current] = Pair(cs, ss)]
    \/ \E t \in Threads : ExitThread(t) /\ frames' = <<>> /\ UNCHANGED <<loaded, kept>>
    \/ LoadContextIret /\ Load(kept[current]) /\ UNCHANGED <<frames, kept>>

\* What a machine has makes no difference to crossings, but for its maker.
Representative == start = "running" /\ Features \ {"Intel"} \subseteq has /\ using_apic

\* x64Entry.  The selectors are of the loader's table; null stands for them.
InitProcessor ==
    /\ has \in SUBSET Features /\ cr4 \in SUBSET (has \cap {"FSGSBASE", "SMEP"})
    /\ start = "madt" /\ using_apic = FALSE
    /\ space = "loader" /\ console = "loader" /\ mapped = FALSE /\ sealed = FALSE
    /\ gdt = Gdt /\ idt = Idt
    /\ star = MsrStar(Selector(NullIndex, 0), Selector(NullIndex, 0))
    /\ tr = NullIndex /\ cs = Selector(NullIndex, 0) /\ ss = Selector(NullIndex, 0)
    /\ frames = <<>> /\ kept = [t \in Threads |-> KernelPair]
    /\ Init

Starting == OsInitialize /\ UNCHANGED <<frames, kept, vars>>
Running  == Representative /\ Cross /\ UNCHANGED <<start, found, memory, written>>

NextProcessor == Starting \/ Running

SpecProcessor == InitProcessor /\ [][NextProcessor]_<<vars, start, found, memory, written, loaded, frames, kept>>
-----------------------------------------------------------------------------
(* Properties.                                                              *)

\* Every selector that a far return, a gate, an iretq or LoadContext is about to
\* load names a descriptor that fits, whichever way the ring was entered and left
\* before, and no load has to write to the table once it is read-only.
EverySelectorLoads ==
    /\ start = "segments" => Loads(KernelPair)
    /\ start = "tr" => LoadsTss(TssLow)
    /\ start = "running" => LoadsCode(idt[0].selector, 0) /\ tr = TssLow
    /\ at \in {"iret", "paranoid_iret"} => Loads(Saved)
    /\ at = "load_iret" => Loads(kept[current])

\* Frames are what the stubs take them for: an error code and five words, whose CS
\* tells the ring they came from, on a stack where no other frame begins.  The
\* same holds of the CS in a context, by which LoadContext decides.
FramesTellRing ==
    /\ DOMAIN frames = DOMAIN nested
    /\ \A i \in DOMAIN frames :
         /\ frames[i].words = 6 /\ (frames[i].cs.rpl = 3 <=> nested[i].at = "user")
         /\ \A j \in DOMAIN frames : i # j => frames[i].ist = 0 \/ frames[i].ist # frames[j].ist
    /\ \A t \in Threads : ctx[t] # "none" => (kept[t].cs.rpl = 3 <=> ctx[t] = "user")
    /\ start = "running" => (cs.rpl = 3 <=> at = "user")

\* What each step of OsInitialize reads, writes and runs.
Touched ==
    CASE start = "madt"                   -> {"firmware", "INIT", "console"}
      [] start \in {"identify", "control"} -> {"INIT", "console"}
      [] start \in {"gdt", "segments", "tr", "idt"} -> {"INIT", "PROTDATA"}
      [] start = "tables"                 -> {"firmware", "INIT", "console"}
      [] start = "interrupts"             -> {"INIT", "console"} \cup (IF using_apic THEN {"APIC"} ELSE {})
      [] start = "syscalls"               -> {"INIT"}
      [] start = "devices"                -> {"INIT", "console"}
      [] start = "running"                -> {"console"} \cup (IF using_apic THEN {"APIC"} ELSE {})
      [] start = "panic"                  -> {"console"}
      [] OTHER                            -> {}

Present(what) ==
    CASE what = "firmware"            -> space = "loader"
      [] what = "console"             -> console = space
      [] what = "APIC"                -> mapped
      [] what \in {"INIT", "PROTDATA"} -> ~sealed

\* OsInitialize's order: nothing is used before it is mapped in the page tables
\* of the time, nor after it was discarded or write-protected, a panic's message
\* included; and when threads start, spurious interrupts have their own stub and
\* user code cannot write the base that the paranoid stubs go by.
UsedWhilePresent ==
    /\ \A what \in Touched : Present(what)
    /\ start = "running" =>
         /\ using_apic => idt[SpuriousVector].stub = "_IsrSpurious"
         /\ "FSGSBASE" \notin cr4
=============================================================================
