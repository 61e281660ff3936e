----------------------------- MODULE Interrupts -----------------------------
(****************************************************************************)
(* InitializeInterrupts' choice between the two ways an interrupt takes:    *)
(* Apic as far as it goes, and InterruptController's 8259s if the MADT      *)
(* names no I/O APIC or one of the APICs could not be mapped.               *)
(****************************************************************************)
EXTENDS InterruptController

CONSTANTS PinCount, FirmwareVector, Entries, MaxEntries

VARIABLES madt, entry, io, int_src_overrides, step, table, lvt, request, service, blocked,
          handling

apic == <<madt, entry, io, int_src_overrides, step, table, lvt, request, service, blocked, handling>>

VARIABLE from     \* Apic's cause

Apic == INSTANCE Apic WITH cause <- from

ASSUME InterruptsAssumption ==
    /\ PinCount \in Nat /\ MaxEntries \in Nat /\ FirmwareVector \in 16..255
    /\ \A e \in Entries : e.type = "override" => e.flags \in Nat

all == <<vars, apic, from>>

InitInterrupts == Init /\ Apic!Init

UseApic == Apic!Next /\ UNCHANGED vars

\* The 8259s have nothing to do with the MADT: one that is empty stands for all.
UsePic ==
    /\ step = "pic" /\ madt = <<>> /\ service = {} /\ \A p \in DOMAIN table : table[p].disabled
    /\ \A reg \in DOMAIN lvt : lvt[reg].disabled
    /\ UNCHANGED <<apic, from>>

NextInterrupts == UseApic \/ (UsePic /\ Next)

\* See InterruptController.
SpecInterrupts ==
    InitInterrupts /\ [][NextInterrupts]_all /\ WF_all(UsePic /\ Processor)
-----------------------------------------------------------------------------
(* Apic's properties.                                                       *)

\* See Apic.
RoutesAsFirmwareSays == Apic!RoutesAsFirmwareSays
=============================================================================
