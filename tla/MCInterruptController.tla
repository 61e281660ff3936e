----------------------- MODULE MCInterruptController -----------------------
(* Model-checking instance of the interrupt controllers.  The I/O APIC has   *)
(* three pins; overrides put the timer and the keyboard on any of them and   *)
(* on one of a second I/O APIC.  Flags: as the bus has it, active low and    *)
(* level, active high and level.                                             *)
EXTENDS Interrupts

(* Records are made by an instance that has no entries of its own.           *)
Made == INSTANCE Apic WITH Entries <- {}, cause <- from

MCEntries ==
    {Made!MadtIoApic(base) : base \in {0, 3}}
      \cup {Made!MadtIntSourceOverride(source, gsi, 0) : source \in {0, 1}, gsi \in {1, 2, 3}}
      \cup {Made!MadtIntSourceOverride(source, 1, 15) : source \in {0, 1}}
      \cup {Made!MadtIntSourceOverride(source, 2, 13) : source \in {0, 16}}
=============================================================================
