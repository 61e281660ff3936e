# vinci_os: models, checks and proofs

vinci_os is a uniprocessor x86-64 operating system: a UEFI boot loader (`boot/`) and a kernel
(`kernel/`) with preemptive threads, a heap, page tables, interrupt and system-call handling, a text
console and a few drivers. It has no tests. This directory holds TLA+ models of its core logic, TLC
configurations that check them on small instances, and proofs, checked by TLAPS, of the properties
that matter most for every value of the constants. Source paths are relative to the repository root.

`PROJECT.json` is the index: components, runs, the source lines of every definition that models
code, one mutant of the code for every property that is checked, findings, hazards, theorems.

    tlasany M.tla                      # parse a module
    tlc -workers 2 -config X.cfg M     # model-check; X.cfg belongs to the module named in section 4
    tlapm M.tla                        # check the proofs of a module

## 1. Inventory

| component | state | operations | interacts with |
|---|---|---|---|
| Thread scheduler: `kernel/core/thread.cc`, `ke.h`, `hw/cpu/cpu.asm`, the timer half of `hw/cpu/intctrl.cc` | the ring of threads; each thread's state, delay and saved context; `current_thread`, `kernel_stack_top`, `user_stack`, `schedule`, `ticks`, `thread_map`; IF | StartScheduler, CreateThread, CreateUserThread, SelectNextThread, Yield, Delay, ExitThread, SyscallEntry, SwitchContext, LoadContext, the timer interrupt | everything that runs |
| Thread ring: `kernel/lib/ec/list.h` | `m_next` of the head and of every entry | push, pop, remove | scheduler |
| Ring crossings: `cpu.asm`, `hw/cpu/isr.asm`, `IsrCommon` | both GS bases, the frames on the interrupt stacks, NMI blocking | system calls, interrupts, NMIs, machine checks, debug exceptions, context loading | scheduler |
| Kernel heap: `kernel/core/alloc.cc`, `lib/ec/bitmap.h` | `alloc_map`, `total_free`, headers in the pool | Allocate, Free | thread creation and exit, Print |
| Page tables: `kernel/common/mm.h`, `va.h`, `core/init.cc` | the tables, the pool's `present` flags | AllocatePhysical, MapPage, MapPages, MapPagesInRegion, UnmapPage | OsInitialize, FinalizeKernelMapping, CreateUserThread |
| Memory map: `boot/entry.cc`, `core/init.cc` | the UEFI descriptors on their way from the firmware to the kernel | get_memory_map, exit_boot_services, set_virtual_address_map, ReclaimBootPages, CoalesceMemoryDescriptors, MapUefiRuntime | page tables, firmware |
| Interrupt controllers, 8259: `hw/cpu/intctrl.cc`, `isr.h` | requests, in-service bits, masks | ConfirmIrq, SendEoi, SetInterruptMask, IsrCommon | devices, scheduler |
| I/O APIC and local APIC: `hw/acpi/acpi.cc`, `intctrl.cc`, `x64.cc` | source overrides, redirection entries, in-service vectors | ParseMadt, InitializeInterrupts, InitializeController, ConnectIsr, IsrCommon | firmware, devices |
| PS/2 controller: `hw/ps2/ps2.cc` | output buffer, configuration byte, the keyboard's mode | Initialize, DetectDevice, WriteDevice0, Read, Drain, IsrKeyboard | keyboard |
| Keyboard input: `hw/ps2/keyboard.cc` | prefixes and modifiers between two interrupts | HandleInput, OnKey | controller, console |
| Console: `hw/gfx/output.cc` | the ring of text lines, cursor, dirty range, the frame buffer | Initialize, PutCodepoint, NewLine, Present | formatted output, keyboard |
| Formatted output: `lib/libc/print.cc`, `Print`, `serial::Write` | two buffers | vsnprintf, i64toa, the second try on the heap | console, serial port, heap |
| C strings: `lib/libc/str.cc` | none | comparing, searching, joining | formatted output |
| Strings: `lib/ec/string.h`, `string.cc` | the object's own bytes or a block of the heap | construction, assignment, moves, append, push_back, reserve, ... | heap, Print |
| Console font: `hw/gfx/ssfn.h` | the pen | ssfn_utf8, ssfn_putc | console |
| Boot loader: `boot/entry.cc` | the loader block, the kernel's image, page tables | EfiMain, load_kernel, acpi_initialize, map_kernel, ... | firmware, kernel |
| Processor setup, kernel initialization: `core/init.cc`, `hw/cpu/x64.cc`, `x64.h`, `isr.asm` | GDT, IDT, TSS, control registers, MSRs | x64Entry, OsInitialize and what it calls, in order | everything |
| Timer devices: `hw/timer/timer.cc` | the HPET's counter, comparator and period; the PIT | Initialize, Isr | scheduler |
| Serial ports: `hw/serial/serial.cc` | the registers of two ports | Initialize, SetPort, Write | formatted output |
| Panic: `core/panic.cc` | none | prints and halts | console |
| CMOS clock, `ec` headers, vendored headers | see section 8 | | |

What is hard here, and what has to be right:

* **Preemption.** The timer interrupt may come between any two instructions that run with IF set, in
  thread code, in Yield, Delay, ExitThread, system calls, the idle loop and the boot flow. The frame
  is saved into the context of the thread `current_thread` names, which has to be the one that runs.
  Contexts are saved in two ways (interrupt frame, SwitchContext) and loaded in two (`iretq` of the
  stub, LoadContext); IF, GS and both stacks have to be right in all combinations. Nobody starves.
* **A thread frees itself**, stack included, while it runs.
* **NMIs and machine checks** arrive between any two instructions, also in ring 0 before `swapgs`.
* **A Free with interrupts on.** Print's heap buffer is freed after interrupts are enabled again.
* **Failure in the middle.** MapPage may run out of pages at any level, MapPages in any page; few
  callers look at the result.
* **The firmware in between.** The memory map changes under the loader; the MADT comes in any order;
  the controllers have interrupts in service.
* **The order of OsInitialize.** Console, APICs and the firmware's tables are each mapped in one of two
  page tables only; INIT code goes, PROTDATA becomes read-only.
* **Selectors used long after they were written down**: a thread that left by `syscall` is resumed by
  `iretq`, a gate and STAR name descriptors of a table that can no longer be written.
* **Who owns a buffer** when a string moves between its own bytes and the heap, is copied or moved.
* **Registers behind registers**: a serial port's divisor behind DLAB, its echo behind the loopback bit.
* **Devices that answer late**, ask again, or deliver keys amid replies; interrupts that turn out to
  be spurious; scan codes whose meaning depends on those before.
* **Boundaries**: the least integer, a message as long as its buffer, the last line of the ring, the
  last block of the pool, a sequence of bytes that announces more than there are.

## 2. Modules, and the order they were written in

The order is that of importance: what everything runs on first.

| module | models | extends or instantiates |
|---|---|---|
| `Scheduler` | threads, the timer interrupt, system calls | |
| `ProcessorSharing` | abstract: one thread at a time has the turn | implemented by `Scheduler` (`Sharing`) |
| `SchedulerInvariant`, `SchedulerProofs` | the inductive invariant; proofs | `Scheduler` |
| `ThreadRing` | the pointers behind the sequence `ring` of `Scheduler` | |
| `Traps` | GS and interrupt stacks, instruction by instruction | |
| `Processor`, `TrapsProofs` | the tables, OsInitialize, selectors and frames of every crossing; proofs of both | `Traps` |
| `Heap`, `HeapProofs` | the heap under its three kinds of clients | |
| `PageTable` | tables, their pool, all of OsInitialize's mappings | |
| `MemoryMap` | the loader's last steps, the kernel's first | |
| `Loader` | EfiMain with every check that returns or halts | |
| `Boot`, `BootProofs` | composes the three: from the firmware to the first user thread; proofs of all four | `PageTable`, `MemoryMap`, `Loader` |
| `InterruptController` | both 8259s and IsrCommon | |
| `Apic` | MADT, I/O APIC, local APIC | |
| `Interrupts`, `InterruptControllerProofs` | composes the two: InitializeInterrupts' choice; proofs of both | `InterruptController`, `Apic` |
| `Ps2` | starting the keyboard | |
| `Keyboard` | scan codes to keys | |
| `Ps2Keyboard` | composes the two | `Ps2`, `Keyboard` |
| `Serial` | both ports, register by register | |
| `Devices`, `DevicesProofs` | composes them in OsInitialize's order; proofs of all | `Ps2Keyboard`, `Serial` |
| `Terminal` | abstract: a page of lines, a cursor, a display | implemented by `Console` |
| `Console` | the ring of lines with its dirty range | |
| `Formatter` | vsnprintf, Print's two buffers; the loader's vwsnprintf | |
| `TextOutput` | composes the two: from a format to the display | `Console`, `Formatter` |
| `Strings` | `str.cc` as operators, against reference definitions | |
| `EcString` | `ec::string` and the blocks it owns | |
| `Font` | from UTF-8 to pixels | |
| `Library` | what the rest is written with, one part per behaviour | `TextOutput`, `EcString`, `Strings`, `Font`, `ThreadRing` |
| `LibraryProofs` | proofs of all parts and of their composition | `Library` |
| `Timer` | programming the HPET or the PIT, and what the HPET then does | |
| `NaturalFacts` | lemmas: least elements, quotients and remainders, induction over sets, what a loop makes | |
| `MC...` | instances for TLC | |

No module declares a RECURSIVE operator: recursion is by recursive functions and the folds of the
community modules. A module of proofs covers a composition and its parts.

## 3. How state and actions correspond to the code

**Scheduler.** Every context (threads, the idle thread, the boot flow) has a label `pc`; `cpu` is the
one on the processor. A step is the code up to the next point at which an interrupt may arrive or
state becomes visible to others. Delay is two steps (the state, then the deadline) because it runs
with interrupts on; SelectNextThread is one because it runs with interrupts off. `TimerInterrupt` is
enabled in every state with IF set and is IsrCommon with its `ticks++`, its test of `schedule` and of
the quantum, the saving of the frame, SelectNextThread and the loading of the new frame. `intr` is IF,
`kernel_gs` is which base is active. A `stack` per thread records on whose kernel stack its kernel
code runs. `ticks` and `delay` only matter modulo `Quantum` and in comparison with each other, so
that every `Epoch` ticks all of them are moved back by `Epoch` (`TimeShift`), which cuts off no
behaviour and makes the state finite without a bound on time.

**Traps** has the same transfers at the grain of single instructions around `swapgs`, and nothing of
which thread is chosen. A handler may return, switch to any thread's context, or never return.

**Processor.** `start` is where OsInitialize is; each step is one call it makes, on a machine with any
set of features, and the early ones end in `Panic`. `gdt` and `idt` are the tables as they are in
memory, accessed and busy bits included; the selectors in `cs`, `ss`, `tr` and `star` are what was
loaded or written. `Cross` composes every action of `Traps` with what it loads: `Deliver` goes through
the gate of a vector, with or without an error code, on the stack of its IST; `Load` is the check
`iretq` makes; `kept` are the selectors in a thread's context. Crossings follow for one machine
(`Representative`), of either maker: nothing else of a machine matters to them.

**Heap.** `alloc_map` is a set of marked blocks, loaded and stored by words of `WordBits` blocks.
Allocate, and FreeThread's two Frees, run with interrupts off (or at boot) and are one step each.
Free from `heap_str`'s destructor runs with interrupts on: `LoadWord`, `StoreWord` and the loads and
stores of `total_free` are steps. Headers lie in the memory they describe and are overwritten by
whatever is allocated over them; a loop that reads such a header goes `wild`.

**PageTable.** `entry[page][index]` for pages of the pool; tables have `Fanout` entries on four
levels. `todo` is what the current MapPages has not mapped yet; one step maps one page. `stage`
follows OsInitialize; its results are used or ignored as there. `Region` are the regions of `va.h` in
the order they are mapped in and the two user pages, each a set of consecutive pages; physical pages
of the pool are numbered from 0, all others from `Outside` on. CreateUserThread's uninitialised `pa` is any of
four values (`Junk`) when AllocatePhysical fails before it was ever set.

**MemoryMap.** `memory` is what each page is; the firmware may change it at any call. `Coalesce` is
one descriptor: the loop's in-place moves.

**Loader.** `at` is where EfiMain is; each step is one call with its check, and any call of the firmware
may fail. What a page holds is a value (`junk`, `zero`, a section's name). Leaving the boot services is
in both `Loader` (what returns, what halts) and `MemoryMap` (what the map says).

**InterruptController, Apic.** Lines may be raised and dropped between any two of the processor's and
the handler's accesses. Acknowledging is two steps, master and slave. In `Apic` the firmware may leave
redirection entries and entries of the local APIC (`lvt`) enabled and a vector in service; errors of
the local APIC come by its own entry and end in IsrCommon.

**Ps2, Keyboard.** Read may give up at any time (`late`), and what comes later is read by whoever
reads next. The controller may fail a test. Keys may be typed at any time. Scan codes wait on `wire`
until an interrupt reads one.

**Serial.** One register write a step, in InitializePort's order (`line`); `wire` is what leaves the
port, `received` what loopback returns. Any port may be absent or faulty, and the firmware may have
left DLAB or loopback set.

**EcString.** `rep` are an object's fields, `heap` the bytes of each block; an operation is one step, as
an object is used by one thread. `text` is what its user has put in, kept beside it, and `tail` what the
code guarantees of the bytes behind. Moved-from objects may only be assigned to and destroyed.

**Console, Formatter, Strings, ThreadRing.** Lines are physical lines of the ring, `PhysicalLine`
maps screen lines to them; glyphs are drawn over what a cell holds. vsnprintf takes an item of the
format per step; integers are bit patterns of a small width. `Strings` evaluates one call per
behaviour on all arguments, the queries of `ec::string` among them. `Font` takes a code point a
step. `Follow` walks the pointers of the ring.

**Timer.** The timer works as the comment in `hpet::Initialize` says of it. Without an HPET that can be
periodic the PIT is programmed, by three writes.

Compositions hand over once: `Boot` goes on into the page tables from one representative of the
memory maps that name the same runtime services, `Ps2Keyboard` from one of the ways a start can end
well, `Interrupts` to the 8259s with the empty MADT, `TextOutput` to arbitrary code points after the
empty message, `Devices` from two serial ports that work to the keyboard, `Processor` to crossings
on one machine. In each case what follows depends on nothing else the first part leaves behind,
which the guards (`HandedOff`, `Started`, `UsePic`, `Continue`, `SerialStarted`, `Representative`)
make explicit. `Library`'s parts share nothing, so that a behaviour uses one (`used`).

## 4. Runs

| run | instance | what is asked |
|---|---|---|
| `scheduler` (`MCScheduler`) | 1 kernel thread, 2 user threads, quantum 2, delays 0 and 3 | `IInv`; contexts, stacks, the ring and the current thread (`InterruptibleIsCurrent`, `ContextsAreOwn`, `StacksAreOwn`, `RingIsLive`); round robin lets nobody overtake (`WaitingThreadAdvances`); implements `ProcessorSharing` (`SharesProcessor`) |
| `scheduler_live` (`MCSchedulerLive.cfg`) | 1 kernel, 1 user thread, fairness | `NoStarvation`, `YieldReturns`, `ExitCompletes` |
| `scheduler_wait` (`MCSchedulerWait.cfg`) | 2 kernel threads | finding 1: `StillWaitingIsKept` is violated |
| `heap` (`MCHeap`) | 3 printers, 1 thread that exits, 14 blocks, words of 4 | `LiveMemoryIsKept` |
| `heap_leak` (`MCHeapLeak.cfg`) | 1 printer, 2 threads that exit, 18 blocks | finding 2: `MarkedIsOwned` is violated |
| `library` (`MCLibrary`) | buffers of 4 and 7, messages of 3 items, int of 4 bits, long long of 7; screen 3 by 3; byte strings of up to 4 bytes and texts of up to 3 code points on 5 by 4 pixels; strings of up to 3 of 4 characters; 2 string objects with own buffers of 2, texts of 2, 2 blocks; 4 list entries | messages (`ShowsMessage`, `StaysInBuffer`), the display (`ShowsTerminal`: `Console` implements `Terminal`), the font (`PrintsText`), string functions (`AgreesWithReference`), string objects (`HoldsText`, `BuffersHaveOneOwner`), the list (`KeepsSequence`) |
| `traps` (`MCTraps`) | 2 user, 2 kernel threads; machines with every set of features | `KernelFindsCore`, `UserHasOwnBase`, `ParanoidIsTransparent`; `EverySelectorLoads`, `FramesTellRing`; `UsedWhilePresent` |
| `boot` (`MCBoot`) | files of up to 3 sections, 3 ACPI tables; 4 pages of memory; tables of 4 entries, pools of 3 to 19 pages | `KernelIsWhole`, `ReturnsInOrder`; `MapDescribesMemory`, `RuntimeIsWhereTold`; `TablesFormTree`, `UserPagesAreOwn`, `MappingsAreStable` |
| `page_table_runtime` (`MCPageTableRuntime.cfg`) | a runtime service 256 MiB up | finding 3: `BackBufferHoldsItself` is violated |
| `interrupt_controller` (`MCInterruptController`) | MADTs of up to 3 of 12 entries, 3 pins; lines 0, 1, 7, 8, 12, 15 | `RoutesAsFirmwareSays`; `SpuriousIsTold`, `ForemostIsServed` |
| `ps2` (`MCPs2`) | serial ports in every state, 2 characters written; 3 keys and 3 resends during the start; then 7 keys, 5 codes on the way | `SendsText`; `ValidKeyboardScans`, `RepliesAreNotHandled`, `QuietKeyboardIsFound`; `PrintsWhatIsTyped` |
| `timer_period` (`MCTimer`) | a counter of 5 bits | finding 4: `TicksRegularly` is violated |

Every property of a passing run is broken by a mutant of the code it is about (the definitions
commented as mutants next to the originals): the property is about that code and not about the model.

**Why the bounds are enough.** *Scheduler*: a ring of three is the smallest in which a thread can
overtake another, with both kinds of threads and two of the kind that shares `user_stack`; a delay
of 3 with a quantum of 2 ends between two preemptions; time is not bounded. *Heap*: three printers
give two interrupted Frees and a third whose buffer lands on what one of them is freeing; the
exiting thread makes room for it; words of 4 blocks are shared by neighbouring allocations.
*Library*: each buffer is left below, at and above its size, with items that straddle the end;
widths at which the least value is in the inputs and a number takes three characters; three lines
are the fewest with a first, a middle and a last one; four bytes hold the longest sequence UTF-8
announces, and all its truncations; a text of 2 just does not fit an own buffer of 2, so that
strings take both forms, and two objects with two blocks allow every move and copy, with or without
a block to grow into. Blocks and letters are interchangeable, hence the symmetry set (no property of
the run is about liveness). *Traps*: frames nest at most three deep (NMI within machine check within
a stub), which follows from the code and is not a bound; every vector is delivered. *Boot*: each
pool size from "runs out in the first request" to "never" (which is 19: the pool is mapped page by page
too), so that each allocation is the failing one in some behaviour; four pages give gaps, neighbours and chains of three merges. *Interrupts*: 7
and 15 are the lines that can be spurious, 8 and 12 nest in the slave, 0 and 1 go before the
cascade; three MADT entries are two overrides of a source before, after and without an I/O APIC, or
a table with an entry to be skipped. *Ps2*: the third time a
command is asked for again is one more than WriteDevice0 answers (`QuietKeyboardIsFound` speaks of at
most two), so that giving up is not a matter of the bound; `Buffer` of 5 holds two keys with prefixes;
two texts tell characters sent out of order.

**Fairness.** Only `scheduler_live` and `ForemostIsServed` use it. The timer line stays asserted until
it is served and IF is set again and again, hence SF of `TimerInterrupt`. Kernel code is finite
stretches of instructions, thousands of which run between two ticks, so that a thread that is on the
processor again and again gets through it: SF of each thread's kernel steps. What a thread does in its
own code is its business; it may compute for ever, and no fairness is assumed of it. The boot flow and
the idle loop are never held up (WF). On the 8259s the processor accepts what is asked as soon as it
can (WF of the action `Processor`); devices are under no fairness.

**Deadlock** is checked in the scheduler's runs. It is not where the program really stops, or the
model is a finite history: the heap (all threads have printed their messages or exited, or Allocate
has panicked), `traps` (a panic or a machine check halts), `boot` (after the user thread, a panic or
a failed loader), `ps2` (a start that found no keyboard and has interrupts off), the controllers
(panic without any, halt on an unexpected vector), `library` (one message or one call a behaviour),
`timer_period`.

## 5. What is proved

For every value of the constants that the named assumptions of the modules allow (section 7), and not
only for the instances of section 4:

| module | theorem | says |
|---|---|---|
| `SchedulerProofs` | `Invariance` | `Spec => []IInv` |
| | `TypeCorrect`, `InterruptSafety`, `ContextSafety`, `StackSafety`, `GsSafety`, `RingSafety` | the safety properties of the `scheduler` run; beyond them that GS follows the mode, that "running" is the current thread's and that ExitThread leaves the thread |
| | `Refinement` | `Scheduler` implements `ProcessorSharing` |
| | `RoundRobin` | `WaitingThreadAdvances`: a switch to another thread brings a waiting one nearer |
| `HeapProofs` | `HeapTypes`, `LiveMemorySafety` | `TypeOK`, `LiveMemoryIsKept` |
| `TrapsProofs` | `CrossingHolds`, `KernelAlwaysFindsCore`, `UserAlwaysHasOwnBase`, `NmiIsTransparent` | the properties of `traps` that `Traps` states, and that an interrupt stack holds one frame |
| | `ProcessorImplementsTraps` | every step of `Processor` is one of `Traps` or leaves it alone |
| | `ProcessorInvariance`, `SelectorsAlwaysLoad`, `FramesAlwaysTellRing`, `EverythingIsUsedWhilePresent` | the rest of `traps`: selectors, frames, the order of OsInitialize |
| `BootProofs` | `BootImplementsLoader`, `BootImplementsMemoryMap` | every step of `Boot` is one of the part or leaves it alone |
| | `KernelIsAlwaysWhole`, `AlwaysReturnsInOrder` | the loader: `KernelIsWhole`, `ReturnsInOrder` |
| | `MapAlwaysDescribesMemory`, `RuntimeIsAlwaysWhereTold` | the memory map: `MapDescribesMemory`, `RuntimeIsWhereTold` |
| | `TablesAlwaysFormTree`, `UserPagesAreAlwaysOwn`, `MappingsStayStable` | the page tables by themselves: `TablesFormTree`, `UserPagesAreOwn`, `MappingsAreStable` |
| | `TablesAreATree`, `UserPagesStayOwn`, `MappingsAreAlwaysStable` | the same of `Boot`, whatever loader and memory map have done before |
| `InterruptControllerProofs` | `InServiceAlwaysFitsPhase`, `NothingIsLeftInService`, `SpuriousIsAlwaysTold` | what is in service at the 8259s in each phase; spurious requests are told |
| | `RoutesAlwaysAsFirmwareSays` | the APICs: `RoutesAsFirmwareSays` |
| `DevicesProofs` | `TextIsAlwaysSent` | the serial ports: `SendsText` |
| | `ValidKeyboardAlwaysScans`, `RepliesAreNeverHandled`, `QuietKeyboardIsAlwaysFound` | the keyboard's start: `ValidKeyboardScans`, `RepliesAreNotHandled`, `QuietKeyboardIsFound` |
| | `TypingIsAlwaysPrinted` | scan codes: `PrintsWhatIsTyped`, an action property |
| `LibraryProofs` | `NothingIsMissed`, `Implements` | what differs from the frame buffer is dirty; `Console` implements `Terminal` |
| | `BufferIsNeverLeft`, `MessageComesOut` | formatted output: `StaysInBuffer`, `ShowsMessage` |
| | `StringsAgree` | the string functions: `AgreesWithReference` |
| | `TextIsDrawn` | the font: `PrintsText` |
| | `OwnersAreUnique`, `TextIsAlwaysHeld` | `ec::string`: `BuffersHaveOneOwner`, `HoldsText` |
| | `RingKeepsSequence` | the list: `KeepsSequence`, an action property |
| | `LibraryImplementsParts` | every step of `Library` is one of a part and leaves the others alone |
| | `LibraryIsCorrect` | so that all eight properties of the `library` run hold of it |

*Scheduler.* None of its properties is inductive. `IInv` (`SchedulerInvariant`) says what each label
implies: which labels have IF clear (`Masked`), at which the scheduler has already named another
thread (`HandedOver`), which a descheduled thread can be at; from that IF set implies "current runs",
so the timer saves a frame where it belongs, so contexts resume their own code. `RingOK` and `StateOK`
tie the ring to the labels of exiting threads. There is one lemma per action, after lemmas on
SelectNextThread: that `Inspected` stays within the ring, that `NextThread` is on it or idle, that the
scan looks at every entry. The refinement maps a thread to asleep while its delay is ahead, and the
turn to `current`; selection is `PassTurn` because the scan is complete (`ScanIsComplete`).
For `RoundRobin`, the scan reaches the thread at `Distance` d with its d-th look (`DistanceIsReached`) and
takes the first it may, so the distance of a thread it passes over shrinks by the place of the chosen one
(`SelectionAdvances`); every other action leaves distances alone.

*Heap.* `HInv` strengthens `LiveMemoryIsKept` by what an interrupted Free holds: the word it has loaded
contains every bit of that word that a live thread's stack or Thread has (`BufferOK`). It holds because
those bits are set when it is loaded, and only Allocate of another buffer could follow; at boot, where
stacks are allocated, no Free is under way. So a store can set too many bits (finding 2), never too few.

*Traps and Processor.* `Crossing` gives each position its base, and each frame the base of what it
interrupted: an NMI in `syscall_entry` has pushed a frame whose base is the user's, and comes back to
it. `Processor` is shown to implement `Traps`, so that all of this holds of it too; its own invariant
says what is in the tables from which call on (`StartOK`, `TablesOK`) and that every pair of selectors,
in the registers, in a frame or in a thread's context, is the pair of the ring it is kept for, however it
was saved (`PairsOK`). A selector of that kind names a descriptor of the final table, and the table is
written no more once there are pairs to load.

*Boot's three parts* take turns, so that each is proved about by itself and `Boot` implements each.
`PageTable`: `TreeInv` says that there is a level for every page of the pool such that a table's entries
lead to taken pages one level down, each from one entry only, and that a page without a level is empty:
a page of the pool is handed out once. With it the path of a virtual page is known, and two pages share
tables only above the first index in which they differ. `UserInv` adds that nothing but CreateUserThread
opens a level to ring 3, and that it goes through tables of its own half; `FrameInv`, that what it has mapped
is no table once it has had a page, also when there was no second one; `MappedInv`, that a page is
mapped or asked for only once its region's turn has come, and asked for again only with the page it has:
that is why MapPage replaces nothing. `UserInv` and `MappedInv`, as `MappingsAreStable` itself, need `RuntimeFits`:
relocated runtime services stay in their region. The code does not see to that; finding 3 is what
happens without.
`Loader`: each conjunct of `LoaderInv` names the call from which on something holds (areas cleared,
headers checked, sections read, tables found, initializers run); at the kernel's entry all do.
`MemoryMap`: while the firmware may still change memory, a map whose key is current describes it;
afterwards each step of the kernel changes both alike. While coalescing, the descriptors up to `last`
are final, those from `desc` on untouched, and what lies between counts for nothing.

*Interrupt controllers.* At the 8259s, `InServiceFitsPhase` relates phases and in-service bits. For the
APICs, `MadtInv` says that an override is what the last entry read so far says of its source (`SaidBy`);
`EntriesInv`, which step has written each redirection entry and each of the local APIC's last, so that
from the masking loop on only connected lines are open; `RequestInv`, that a vector requested or in
service is one the firmware has left, the error's, or that of a connected line from its own pin (`Known`).

*Serial ports.* `SetUpTo` lists what every line of Setup has added to the registers; a port that passed
its test has its divisor behind a cleared DLAB and its loopback off.

*Keyboard's start.* `PipeInv` says for every place in Initialize which bytes may be under way. Unless one
nobody asked for is ahead of them, they are what the driver is about to read, then scan codes, nothing
else. `FoundInv` adds what a keyboard that is reported has been told, and `QuietInv` how far a quiet one has come.

*Typing.* The property relates what has been printed to all keys ever pressed, with codes on the way and
prefixes half read. `TypingInv` says that the codes on `wire`, read from the flags as they are, print
exactly what is still to be printed and end with the modifiers that are meant. A reading is a set of
flags for every code on the way (a function), so that readings are put together at the keyboard's end
and taken apart at the handler's without induction.

*Console.* `CInv`: a screen line that differs from the frame buffer is in the dirty range or all is
dirty. For the refinement, the ring's view of a scroll is a shift of the page (`Physical`,
`PhysicalInjective`), without ever reasoning about `%` by more than one wrap (`SmallRemainder`).

*Formatted output.* `FInv` says how long `str` is; an item is taken only while `len < n`, strlcpy is told
what is left, and the final NUL goes to `n - 1` or to `n` of the loader's `n + 1` when `len` has run past.
That `i64toa` ends, and fills a text of some length, is shown from the least number for which it would not.
What comes out is `TInv`. With J[k] the texts of the first k items one behind the other (`Joins`), `str`
holds J[next - 1] while there is room, and of the last item put as much as fits or, where strlcpy has cut
it off, a NUL in the last place (`Putting`); `fill` is the length of J[next - 1] all the same, so that a
message that fits is told from one that does not. From there it goes through the second try, the excuse
and the NULs inside an argument (`Returned`, `Came`; `CStringIs`). That a number reads as itself:
the digits of u, read from the front, sum up to u (`DigitsRead`, by `SumOfAppend`, since each round puts
the remainder behind the digits of the quotient), and the magnitude is that of the argument also where
negating it wraps (`NumberReads`).

*String functions.* Each call is one step, so there is no invariant but what the arguments are; the work
is one lemma a function. Two strings are equal or differ at a first place, and that place decides their
order (`OrderOf`). A loop stops at the first place where its condition fails, if there is one
(`FirstOrNone`), and for each loop that place is the one the reference names: the difference, the end
(`StrcmpIs`, `StrncmpIs` and so on), or the least position that matches (`MatchesIsOccurs`). strrev's swaps
have turned the outer part and left the inner one (`SwapsTurn`). `count` goes on behind each occurrence it
finds: of occurrences that lie apart, the first can always be exchanged for the leftmost one (`FirstIsBest`).

*Font.* `ReadInv`: the string is the encodings of the code points it was made of, one behind the other,
what has come off are the first of these, and `*s` is where the next one begins. The step is
`Utf8Decodes`: at the beginning of an encoding, ssfn_utf8 returns its code point and stops behind it,
because its first byte announces as many as there are (`Announces`), and the six bits of each add up
(`CodePointIs`, `AddsUp`). For other strings there remains that a byte is skipped only if it is not the NUL
(`Utf8Goes`). `PaintInv`: `drawn` is the glyphs of `codes`, each at the total of the advances before it
(`Placed`). ssfn_putc's loop finds one entry, for its running total is where each entry begins
(`BothBegin`) and strictly rises (`TotalsRise`, `LookupIs`); a fragment's row pointer has gone as far as y
itself, also where rows below the screen were left out (`DrawIs`), so what is set is the bits of the
glyph that are on the screen.

*Library* takes the steps of one part and leaves the variables of the others as they are, so that
`SpecLibrary` implies the specification of each; `TextOutput`'s steps are `Console`'s or leave it alone.

*Strings.* `EInv`: a pointer the object's form does not use is null, and the only long string without a
block is one that was moved from, which no operation but assignment and destruction takes. A move hands
the pointer over in one step with making it null; growth deletes the block after the new one is chosen.
`HoldInv` adds to it what the buffer holds (`HoldsIn`), with one thing `HoldsText` does not say: a text
that no NUL follows is not empty, or else `clear`, which writes as many NULs as there were characters,
would leave none. Each operation is taken apart into the bytes it makes (`BuildMakes`, `WriteMakes`,
`GrowMakes`), that the other strings keep theirs (`OthersKept`, from `EInv`), and what such bytes hold
(`TextWritten`, `CharacterWritten`).

*List.* `RingInv`: the pointers are those of a sequence of distinct entries, each pointing to the next and
the last to the first (`RingIs`). `Follow` then goes round and round it (`FollowRing`), so a walk ends
after as many steps as there are entries, and the loops of push, pop and remove end at the entry before
the one they look for, or not at all if it is not there (`WalkFinds`). One lemma per operation shows
that what it writes makes the ring of the new sequence. `ThreadRing` removes from a sequence as
`Scheduler`'s `Without` does, so this is what lets `Scheduler` speak of a sequence.

*Recursion.* The library's induction theorems take an operator, which no prover here can instantiate. Where
a proof needs induction, the property is a set of numbers instead, of which a least one that is missing
is refuted (`LeastNatural`): `StepByStep` goes from one number to the next, `FromSmaller` from all
smaller ones, and `Loop` says that there is a function with the value of each round of a loop. What a
recursive function computes is then shown of any function that obeys its equation.

**Model-checked only** are the liveness properties, which are beyond the prover: `NoStarvation`,
`YieldReturns`, `ExitCompletes`, `ForemostIsServed`. Every invariant and every action property of the
passing runs, and both refinements of an abstract specification, are proved. What the runs that expect
a violation show is a counterexample each, which needs no proof.

## 6. Findings

1. **`scheduler_wait`** (`kernel/core/thread.cc:334`). Delay sets `state = Waiting` before it stores the
   deadline, with interrupts on. Preempted in between, the thread is judged by its old deadline, made
   running, stores the new deadline, yields and is set to ready at once: the delay is skipped. The
   comment at `thread.cc:292` says "Set the old thread back to ready, unless it is still waiting."
2. **`heap_leak`** (`kernel/hw/gfx/output.cc:184`). Print enables interrupts before `heap_str` frees its
   buffer; a lost update of a word of `alloc_map` leaves blocks marked that nobody owns. For the same
   reason SetAllocationState goes on reading its bounds from a header in freed memory (`FreeWild`).
   From then on any block may be cleared: `LiveMemoryIsKept` is about what happens before.
   Only messages of 512 characters and more get there, which no caller prints today.
3. **`page_table_runtime`** (`boot/entry.cc:490`). Runtime services are relocated by adding the base of
   their region to the physical address; from 256 MiB up the result lies in the back buffer's region
   of `kernel/common/va.h` or past it, and MapPage replaces the mapping that is there.
4. **`timer_period`** (`kernel/hw/timer/timer.cc:75`). The comment above says that the first write of
   the comparator sets the deadline and the second the period; there is one write. A timer that keeps
   to that ticks once, and then by whatever period it had. Timers that take a single write for both,
   as some emulated ones do, hide it.

Smaller things met while modelling, for which no line of the repository promises anything else:
`stricmp("a", "ab")` and `strnicmp` are 0 (`str.cc:46`; `AgreesWithReference` excepts that case); `%ld`
prints a `d`, and a `%` at the end of a format reads past it; `i64toa` of the least value in radix 2
would not fit its buffer (no caller asks for it); interrupts requested in the local APIC from before
its entries were masked can end in "Unexpected interrupt" (`Unexpected` in `Apic`); CreateUserThread
maps one page twice when the pool runs out after the first, and whatever `pa` held when it is empty
from the start (of these cases `UserPagesAreOwn` only says that in the first no table is mapped);
a reply that comes after the keyboard's detection has failed is handled as a key if the firmware left the
interrupt enabled (`RepliesAreNotHandled` speaks of a keyboard that was found); HandleInput has one flag for
both keys of a modifier, so that releasing one of two ends it, which `PrintsWhatIsTyped` takes over;
the search for room in a region looks at one page only (`mm.h:340`), which does no harm as long as
regions are only filled.

In `ec::string`: assigning a literal builds over what is there, so that a block the object had is never
deleted, and leaves bytes behind the new NUL as they were (after `s = "ab"; s.push_back('x')` nothing
need end the text: `tail` is "open" in `HoldsText`); append with a length counts the whole source;
`count("")` never ends; reserve cuts the capacity to 32 bits; substr's `from + count` may wrap.
In `serial.cc`: when the firmware leaves DLAB set, the first write of `int_enabled` goes to the divisor
and that port's interrupts stay as they were; a port that fails the test stays in loopback.
In `ssfn.h`: overlong sequences are accepted. In the loader: of ACPI's tables only the XSDT's checksum
is looked at; `vwsnprintf` keeps one character less than fits, and passes conversions it does not know
in another way than the kernel's. In `x64.cc`: the local APIC's performance entry is not masked on one
that says it has fewer than five entries.

## 7. Abstractions that matter

* One processor, as the kernel has it; the LOCK prefix and memory order do not come up.
* Registers and memory contents beyond those named are left out. A thread's code is one label `run`.
* Exceptions in kernel code end in a halt and are left out; in user code they end the thread. (The
  kernel executes nothing that raises a debug or breakpoint exception, from which IsrCommon would return.)
* Hardware and firmware (8259s, APICs, PS/2 controller and keyboard, HPET, UEFI) are modelled from how
  the code uses them; those definitions are marked external in `PROJECT.json`.
* Assembly runs as written: IF is cleared by `syscall` (SFMASK) and by interrupt gates.
* The debug build is modelled: reads and writes of `alloc_map` are a load and a store.

* What the proofs assume of the constants, beyond positive sizes and disjoint sets: regions are disjoint,
  consecutive and not empty, and the kernel's lie in the upper half (`PageTableAssumption`,
  `HalvesAssumption`: the constants of `va.h`); a pool has at least two pages, not more than the region it is
  mapped in, as in the code, where both are `kva::kernel_pt`'s, and other memory is numbered above it
  (`Outside`, any number); a file whose checks succeed is laid out as the build lays
  a kernel out (`BootAssumption`); a vector the firmware uses is not one of the lowest 16, which the
  APICs do not deliver (`InterruptsAssumption`); keys have a scan code (`KeysAssumption`); an argument of
  a conversion is of the type it asks for (`ItemsAssumption`); Print's second buffer is not the smaller one
  (`SizesAssumption`); characters are bytes, and a NUL is none of a string's (`CodesAssumption`); the
  glyphs of the font are each for a code point of their own, and a fragment has no more bits than its
  rows have pixels (`FontAssumption`, `IsFont`: data, not code); the list's entries are finitely many,
  and `nullptr` is none of them (`EntriesAssumption`).
  TLC evaluates all of them. One hypothesis stands in theorems instead, because the code does not
  see to it: `RuntimeFits` (finding 3).

## 8. Not modelled, and why

* **CMOS clock** (`hw/cmos/`): not among the objects the makefile builds; its initialisation is
  commented out.
* **`ec` headers** other than bitmap, list and string: compile-time helpers without state.
* **UEFI's header** (`boot/cpp-uefi.hh`) but for the kinds, fields and constants `MemoryMap` and `Loader`
  use, and **the font's bytes** (`hw/gfx/font.h`): declarations, data.
* **The rest of `ssfn.h`**: a renderer with its own formats, switched off by the kernel's macros.
* **A PS/2 controller that stays busy** for 5000 polls, so that a write is dropped; WriteDevice1, which
  has no caller; IsrMouse, which has no body.
* **The stub of a spurious APIC interrupt**: an `iretq`, which changes nothing.
* **Attributes of mappings** (writable, cache, PAT): nothing reads them back. **Colours**: data.
* **Wrap-around of 64-bit time stamps** (`kernel/hw/cpu/x64.cc:563`): it takes a count near 2^64.

## 9. Plan

1. *Done*: the modules of section 2, their runs, the proofs of section 5.
2. *Models to add* when the code starts to use them: the CMOS clock, a mouse, `SERIAL_STDIO`. A second
   processor is not planned by the code.
