-------------------------------- MODULE Apic --------------------------------
(****************************************************************************)
(* From a line of a device to its handler by way of the I/O APIC and the    *)
(* local APIC (hw/cpu/intctrl.cc, namespace apic), where the firmware's     *)
(* table, read by ParseMadt (hw/acpi/acpi.cc), says what line a source is   *)
(* on.  Level-triggered lines raise a request as edges do; that they raise  *)
(* it again while they are held is left out.  NMIs are Traps'.              *)
(****************************************************************************)
EXTENDS Integers, SequencesExt

CONSTANTS PinCount,        \* redir_entry_count of the I/O APIC
          FirmwareVector,  \* the vector of an entry the firmware has left enabled
          Entries,         \* entries MADTs are made of
          MaxEntries       \* bound: entries in a MADT

Pins      == 0..(PinCount - 1)
Sources   == 0..15
IrqBase   == 32
Connected == <<0, 1>>     \* the timer's line, then the keyboard's
Vector(irq) == IrqBase + irq
ErrorVector == 254
None == -1

\* The local APIC's own entries, the timer's for all that are masked with it.
LocalReg == {"TMR_LVTR", "LINT0", "LINT1", "ERR_LVTR"}

VARIABLES
    madt, entry,           \* the firmware's table, and ParseMadt's place in it
    io,                    \* the first interrupt of the I/O APIC chosen, or None
    int_src_overrides,
    step,                  \* how far OsInitialize has come
    table,                 \* the I/O APIC's redirection entries
    lvt,                   \* the local APIC's own
    request, service,      \* the local APIC's registers, as sets of vectors
    blocked,               \* the task priority holds everything back
    handling,              \* the vector IsrCommon is called for, or None
    cause                  \* history: the pin each request came from
vars == <<madt, entry, io, int_src_overrides, step, table, lvt, request, service, blocked,
          handling, cause>>

IoRedirectionEntry(disabled, vector, low, level) ==
    [disabled |-> disabled, vector |-> vector, low |-> low, level |-> level]
LvtEntry(vector, delivery, disabled) == [vector |-> vector, delivery |-> delivery, disabled |-> disabled]
-----------------------------------------------------------------------------
(* ParseMadt.                                                               *)

\* Entries of other types are passed over.
MadtIoApic(base) == [type |-> "io", base |-> base]
MadtIntSourceOverride(source, gsi, flags) ==
    [type |-> "override", source |-> source, gsi |-> gsi, flags |-> flags]

Override(gsi, flags) == [gsi |-> gsi, flags |-> flags]

\* The I/O APIC of the first interrupts, or else the first one.
ParseEntry ==
    /\ step = "parse" /\ entry <= Len(madt)
    /\ LET e == madt[entry]
       IN  /\ io' = IF e.type = "io" /\ (io = None \/ e.base = 0) THEN e.base ELSE io
           /\ int_src_overrides' = IF e.type = "override" /\ e.source \in Sources
                THEN [int_src_overrides EXCEPT ![e.source] = Override(e.gsi, e.flags)]
                ELSE int_src_overrides
    /\ entry' = entry + 1
    /\ UNCHANGED <<madt, step, table, lvt, request, service, blocked, handling, cause>>

\* using_apic: there is an I/O APIC, and both could be mapped.  The 8259s come
\* next, or nothing.
ChooseController ==
    /\ step = "parse" /\ entry > Len(madt)
    /\ step' \in (IF io = None THEN {} ELSE {"enable"}) \cup {"pic", "panic"}
    /\ UNCHANGED <<madt, entry, io, int_src_overrides, table, lvt, request, service, blocked,
                   handling, cause>>
-----------------------------------------------------------------------------
(* InitializeController.                                                    *)

\* Errors of the APIC have a vector of their own.
EnableLocal ==
    /\ step = "enable" /\ step' = "clear"
    /\ lvt' = [lvt EXCEPT !["ERR_LVTR"] = LvtEntry(ErrorVector, "Fixed", FALSE)]
    /\ UNCHANGED <<madt, entry, io, int_src_overrides, table, request, service, blocked,
                   handling, cause>>

Ended(vectors) == {v \in vectors : \E w \in vectors : w > v}

\* SendEoi for as long as something is in service.
ClearInService ==
    /\ step = "clear"
    /\ IF service # {} THEN service' = Ended(service) /\ UNCHANGED step
       ELSE step' = "local" /\ UNCHANGED service
    /\ UNCHANGED <<madt, entry, io, int_src_overrides, table, lvt, request, blocked, handling, cause>>

Mask(reg, entries) == [entries EXCEPT ![reg].disabled = TRUE]

\* Vectors that are the processor's own are for NMIs only.
UpdateLvtEntry(reg, vector, type, enable, entries) ==
    IF vector < 16 /\ type # "Nmi" THEN entries
    ELSE [entries EXCEPT ![reg] = LvtEntry(vector, type, ~enable)]

MaskLocal ==
    /\ step = "local" /\ step' = "mask"
    /\ lvt' = Mask("TMR_LVTR", UpdateLvtEntry("LINT1", 2, "Nmi", TRUE, Mask("LINT0", lvt)))
    /\ UNCHANGED <<madt, entry, io, int_src_overrides, table, request, service, blocked,
                   handling, cause>>

\* The redirection entries, then the processor; then _enable.
MaskEntries ==
    /\ step = "mask" /\ step' = "connect"
    /\ table' = [p \in Pins |-> [table[p] EXCEPT !.disabled = TRUE]]
    /\ blocked' = TRUE
    /\ UNCHANGED <<madt, entry, io, int_src_overrides, lvt, request, service, handling, cause>>

\* Mutant of Gsi: overrides are for polarity and trigger mode only.
GsiOfSource(irq) == irq

Gsi(irq) == int_src_overrides[irq].gsi

\* Both bits of a field are set.
Both(flags, bit) == (flags \div bit) % 4 = 3

RedirEntry(irq) ==
    LET flags == int_src_overrides[irq].flags
    IN  IoRedirectionEntry(FALSE, Vector(irq), Both(flags, 1), Both(flags, 4))

\* ConnectIsr's ConnectRedirEntry, for the timer and for the keyboard, which may
\* be missing.
ConnectIsr(i) ==
    /\ step = (<<"connect", "connected 1">>)[i] /\ step' = (<<"connected 1", "connected 2">>)[i]
    /\ table' = IF Gsi(Connected[i]) \in Pins THEN [table EXCEPT ![Gsi(Connected[i])] = RedirEntry(Connected[i])]
                ELSE table
    /\ UNCHANGED <<madt, entry, io, int_src_overrides, lvt, request, service, blocked, handling, cause>>

UnmaskInterrupts ==
    /\ step \in {"connected 1", "connected 2"}
    /\ step' = IF step = "connected 1" THEN "timer" ELSE "timer and keyboard"
    /\ blocked' = FALSE
    /\ UNCHANGED <<madt, entry, io, int_src_overrides, table, lvt, request, service, handling, cause>>
-----------------------------------------------------------------------------
(* Interrupts.                                                              *)

Raise(p) ==
    /\ step \notin {"parse", "pic", "panic"} /\ ~table[p].disabled
    /\ request' = request \cup {table[p].vector}
    /\ cause' = [cause EXCEPT ![table[p].vector] = p]
    /\ UNCHANGED <<madt, entry, io, int_src_overrides, step, table, lvt, service, blocked, handling>>

\* The timer counts down, a controller asks by LINT0, or the APIC meets an error.
RaiseLocal(reg) ==
    /\ step \notin {"parse", "pic", "panic"} /\ ~lvt[reg].disabled /\ lvt[reg].delivery # "Nmi"
    /\ request' = request \cup {lvt[reg].vector}
    /\ UNCHANGED <<madt, entry, io, int_src_overrides, step, table, lvt, service, blocked, handling, cause>>

\* Interrupts are off until the handler returns.  What comes first is decided by
\* the local APIC: priority classes are of 16 vectors.
Accept ==
    /\ step \in {"connect", "connected 1", "connected 2", "timer", "timer and keyboard"}
    /\ ~blocked /\ handling = None
    /\ \E v \in request :
         /\ \A w \in request : w <= v
         /\ \A s \in service : s \div 16 < v \div 16
         /\ handling' = v /\ request' = request \ {v} /\ service' = service \cup {v}
    /\ UNCHANGED <<madt, entry, io, int_src_overrides, step, table, lvt, blocked, cause>>

\* irq_handlers[irq], if any, or the error that is printed; and SendEoi.
IsrCommon ==
    /\ handling \in {Vector(irq) : irq \in Sources} \cup {ErrorVector}
    /\ service' = Ended(service) /\ handling' = None
    /\ UNCHANGED <<madt, entry, io, int_src_overrides, step, table, lvt, request, blocked, cause>>

\* "Unexpected interrupt": the machine halts.
Unexpected ==
    /\ handling # None /\ handling \notin {Vector(irq) : irq \in Sources} \cup {ErrorVector}
    /\ step' = "halted" /\ handling' = None
    /\ UNCHANGED <<madt, entry, io, int_src_overrides, table, lvt, request, service, blocked, cause>>

\* The firmware may leave an interrupt in service, and any entry enabled.
FirmwareEntries == {IoRedirectionEntry(d, FirmwareVector, FALSE, FALSE) : d \in BOOLEAN}
FirmwareLvt     == {[reg \in LocalReg |-> LvtEntry(FirmwareVector, "Fixed", d)] : d \in BOOLEAN}
Init ==
    /\ madt \in BoundedSeq(Entries, MaxEntries) /\ entry = 1
    /\ io = None /\ int_src_overrides = [s \in Sources |-> Override(s, 0)]
    /\ step = "parse" /\ handling = None /\ blocked = FALSE
    /\ table \in [Pins -> FirmwareEntries]
    /\ lvt \in FirmwareLvt
    /\ request = {} /\ service \in {{}, {FirmwareVector}}
    /\ cause = [v \in {FirmwareVector} \cup {Vector(irq) : irq \in Sources} |-> None]

Next ==
    \/ ParseEntry \/ ChooseController
    \/ EnableLocal \/ ClearInService \/ MaskLocal \/ MaskEntries \/ ConnectIsr(1) \/ ConnectIsr(2) \/ UnmaskInterrupts
    \/ (\E p \in Pins : Raise(p)) \/ (\E reg \in LocalReg : RaiseLocal(reg)) \/ Accept \/ IsrCommon \/ Unexpected

Spec == Init /\ [][Next]_vars
-----------------------------------------------------------------------------
(* Properties.                                                              *)

\* The firmware's last word on a source: its override, or the line of its number.
Overrides(irq) == {i \in DOMAIN madt : madt[i].type = "override" /\ madt[i].source = irq}
Said(irq) ==
    IF Overrides(irq) = {} THEN Override(irq, 0)
    ELSE LET i == CHOOSE j \in Overrides(irq) : \A k \in Overrides(irq) : k <= j
         IN  Override(madt[i].gsi, madt[i].flags)

Attached == IF step = "timer" THEN {0} ELSE IF step = "timer and keyboard" THEN {0, 1} ELSE {}

\* Once interrupts are unmasked, each device's line, as the firmware describes
\* it, and no other is enabled, of the local APIC's only errors and NMIs; what is accepted comes from the line of its
\* source, unless it was requested before the firmware's entries were masked; and
\* nothing is in service behind the processor's back, which would hold back all
\* that follows.  A firmware that puts both devices on a line is not looked at.
RoutesAsFirmwareSays ==
    Said(0).gsi # Said(1).gsi /\ Attached # {} =>
      /\ \A irq \in Attached : Said(irq).gsi \in Pins =>
           table[Said(irq).gsi] =
             IoRedirectionEntry(FALSE, Vector(irq), Said(irq).flags % 4 = 3, (Said(irq).flags \div 4) % 4 = 3)
      /\ \A p \in Pins : ~table[p].disabled => \E irq \in Attached : Said(irq).gsi = p
      /\ \A reg \in LocalReg : ~lvt[reg].disabled => lvt[reg].vector = ErrorVector \/ lvt[reg].delivery = "Nmi"
      /\ handling \notin {None, FirmwareVector, ErrorVector} =>
           handling - IrqBase \in Attached /\ cause[handling] = Said(handling - IrqBase).gsi
      /\ service = (IF handling = None THEN {} ELSE {handling})
=============================================================================
