------------------------ MODULE InterruptController ------------------------
(****************************************************************************)
(* The two 8259 controllers (hw/cpu/intctrl.cc, namespace pic) and the part *)
(* of IsrCommon that every interrupt request runs through: confirm, handle, *)
(* end.  Devices raise and drop their lines at any time; a line that drops  *)
(* before the processor has asked for the vector makes a spurious request.  *)
(****************************************************************************)
EXTENDS Integers

CONSTANT Lines       \* lines that devices are wired to

Master  == 0..7
Slave   == 8..15
IrqBase == 32

\* What InitializeController tells the two: where their vectors begin, and on which
\* of the master's lines there is a slave, and which slave that is.
InitCmdWord == [master |-> [icw2 |-> IrqBase, icw3 |-> {2}], slave |-> [icw2 |-> IrqBase + 8, icw3 |-> 2]]

Cascade == InitCmdWord.slave.icw3

ASSUME LinesAssumption == Lines \subseteq (Master \cup Slave) \ {Cascade}

VARIABLES
    requests,     \* lines raised and not acknowledged
    unmasked,     \* how many of the two masks SetInterruptMask has cleared
    inService,    \* both in-service registers
    phase,        \* what the processor is doing about an interrupt
    irq,          \* IsrCommon's irq
    cause         \* history: the line the processor got the vector for, or -1
vars == <<requests, unmasked, inService, phase, irq, cause>>

Phases == {"running", "accepted", "cascaded", "confirm", "cascade eoi",
           "handler", "eoi", "master eoi"}

TypeOK ==
    /\ requests \subseteq Lines
    /\ unmasked \in 0..2
    /\ inService \subseteq Master \cup Slave
    /\ phase \in Phases
    /\ irq \in Master \cup Slave /\ cause \in Lines \cup {-1}
-----------------------------------------------------------------------------
(* The devices and the controllers.                                         *)

Raise(l) ==
    /\ requests' = requests \cup {l}
    /\ UNCHANGED <<unmasked, inService, phase, irq, cause>>

Drop(l) ==
    /\ requests' = requests \ {l}
    /\ UNCHANGED <<unmasked, inService, phase, irq, cause>>

\* What comes before everything the controller has in service.
Foremost(lines, chip) == {l \in lines : \A s \in inService \cap chip : l < s}

SlaveAsks == IF unmasked < 2 THEN {} ELSE Foremost(requests \cap Slave, Slave)

MasterAsks ==
    IF unmasked < 1 THEN {}
    ELSE Foremost((requests \cap Master) \cup (IF SlaveAsks = {} THEN {} ELSE {Cascade}), Master)

\* A non-specific EOI ends the foremost line in service.
Ended(chip) == {s \in inService : s \notin chip \/ \E r \in inService \cap chip : r < s}

\* OCW2: a specific EOI (3) names its line.
OperationCmdWord(eoi_mode, line) == [eoi_mode |-> eoi_mode, irq |-> line]
Eoi(chip, ocw2) ==
    IF ocw2.eoi_mode = 3 THEN {s \in inService : s \notin chip \/ s % 8 # ocw2.irq} ELSE Ended(chip)

\* What OCW3 has made a controller's port read as.
InServiceRegister(chip) == {l % 8 : l \in inService \cap chip}

Vector(l) == IF l \in Master THEN InitCmdWord.master.icw2 + l ELSE InitCmdWord.slave.icw2 + (l % 8)
-----------------------------------------------------------------------------
(* The processor: interrupts are off from Accept to the return.             *)

Accept ==
    /\ phase = "running" /\ MasterAsks # {}
    /\ phase' = "accepted"
    /\ UNCHANGED <<requests, unmasked, inService, irq, cause>>

Acknowledge(l, next) ==
    /\ requests' = requests \ {l}
    /\ inService' = inService \cup {l}
    /\ phase' = next
    /\ UNCHANGED unmasked

\* The vector, from the master.  Nothing asks any more: IRQ 7.
AskMaster ==
    /\ phase = "accepted"
    /\ \/ \E l \in MasterAsks :
            /\ \A m \in MasterAsks : l <= m
            /\ IF l \in InitCmdWord.master.icw3
               THEN Acknowledge(l, "cascaded") /\ UNCHANGED <<irq, cause>>
               ELSE Acknowledge(l, "confirm") /\ irq' = Vector(l) - IrqBase /\ cause' = l
       \/ /\ MasterAsks = {}
          /\ phase' = "confirm" /\ irq' = Vector(7) - IrqBase /\ cause' = -1
          /\ UNCHANGED <<requests, unmasked, inService>>

\* The vector, from the slave.  Nothing asks any more: IRQ 15.
AskSlave ==
    /\ phase = "cascaded"
    /\ \/ \E l \in SlaveAsks :
            /\ \A m \in SlaveAsks : l <= m
            /\ Acknowledge(l, "confirm") /\ irq' = Vector(l) - IrqBase /\ cause' = l
       \/ /\ SlaveAsks = {}
          /\ phase' = "confirm" /\ irq' = Vector(15) - IrqBase /\ cause' = -1
          /\ UNCHANGED <<requests, unmasked, inService>>
-----------------------------------------------------------------------------
(* IsrCommon, SetInterruptMask.                                             *)

Return == phase' = "running" /\ irq' = 0 /\ cause' = -1

\* Mutant of IsSpurious: reads the request register.
IsSpuriousByRequest == irq \in {7, 15} /\ irq \notin requests

IsSpurious ==
    \/ irq = 7 /\ 7 \notin InServiceRegister(Master)
    \/ irq = 15 /\ 7 \notin InServiceRegister(Slave)

\* ConfirmIrq.
ConfirmIrq ==
    /\ phase = "confirm"
    /\ IF ~IsSpurious THEN phase' = "handler" /\ UNCHANGED <<irq, cause>>
       ELSE IF irq = 15 THEN phase' = "cascade eoi" /\ UNCHANGED <<irq, cause>>
       ELSE Return
    /\ UNCHANGED <<requests, unmasked, inService>>

\* Mutant of EndCascade: the spurious request of the slave is only counted.
EndCascadeForgotten ==
    /\ phase = "cascade eoi"
    /\ Return
    /\ UNCHANGED <<requests, unmasked, inService>>

\* A specific EOI for the cascade: the slave has nothing in service.
EndCascade ==
    /\ phase = "cascade eoi"
    /\ inService' = Eoi(Master, OperationCmdWord(3, Cascade))
    /\ Return
    /\ UNCHANGED <<requests, unmasked>>

\* The scheduler and irq_handlers[irq], if there is one.
Handle ==
    /\ phase = "handler"
    /\ phase' = "eoi"
    /\ UNCHANGED <<requests, unmasked, inService, irq, cause>>

\* SendEoi, its two writes.
EndSlave ==
    /\ phase = "eoi" /\ irq >= 8
    /\ inService' = Eoi(Slave, OperationCmdWord(1, 0))
    /\ phase' = "master eoi"
    /\ UNCHANGED <<requests, unmasked, irq, cause>>

EndMaster ==
    /\ \/ phase = "master eoi"
       \/ phase = "eoi" /\ irq < 8
    /\ inService' = Eoi(Master, OperationCmdWord(1, 0))
    /\ Return
    /\ UNCHANGED <<requests, unmasked>>

\* UnmaskInterrupts, its two writes, with interrupts on.
Unmask ==
    /\ phase = "running" /\ unmasked < 2
    /\ unmasked' = unmasked + 1
    /\ UNCHANGED <<requests, inService, phase, irq, cause>>

\* After InitializeController.
Init ==
    /\ requests = {} /\ unmasked = 0 /\ inService = {}
    /\ phase = "running" /\ irq = 0 /\ cause = -1

Processor ==
    Accept \/ AskMaster \/ AskSlave \/ ConfirmIrq \/ EndCascade \/ Handle \/ EndSlave \/ EndMaster

Next == Processor \/ Unmask \/ \E l \in Lines : Raise(l) \/ Drop(l)

\* The processor accepts an interrupt as soon as it is asked to, and stops for
\* nothing on the way.
Spec == Init /\ [][Next]_vars /\ WF_vars(Processor)
-----------------------------------------------------------------------------
(* Properties.                                                              *)

\* What an acknowledged line has in service, on both controllers.
Own(l) == IF l \in Slave THEN {l, Cascade} ELSE {l}

\* In every phase of a request exactly its line, and the cascade for one of the
\* slave's, is in service: a non-specific EOI, which names no line, has no other
\* line to end.
InServiceFitsPhase ==
    /\ TypeOK
    /\ phase \in {"running", "accepted"} => inService = {}
    /\ phase \in {"cascaded", "cascade eoi", "master eoi"} => inService = {Cascade}
    /\ phase = "cascade eoi" => irq = 15
    /\ phase = "master eoi" => irq \in Slave
    /\ phase \in {"confirm", "handler", "eoi"} =>
         \/ cause = irq /\ inService = Own(irq)
         \/ phase = "confirm" /\ cause = -1 /\ irq = 7 /\ inService = {}
         \/ phase = "confirm" /\ cause = -1 /\ irq = 15 /\ inService = {Cascade}

\* Outside of IsrCommon nothing is in service: every acknowledgement, spurious
\* or not, was ended on the controllers it reached, so no line is locked out.
NothingLeftInService == phase = "running" => inService = {}

\* ConfirmIrq lets a request through if and only if a line was acknowledged as
\* that request: the handler runs for no spurious one, and a genuine IRQ 7 or 15
\* is not mistaken for one.
SpuriousIsTold ==
    [][phase = "confirm" /\ phase' # phase => (phase' = "handler" <=> cause = irq)]_vars

\* A request that stays and has none before it is acknowledged.
Before(l, m) == IF l < 8 THEN m < l ELSE m < Cascade \/ m \in 8..(l - 1)
ForemostIsServed ==
    \A l \in Lines :
      ~<>[](/\ unmasked = 2 /\ l \in requests
            /\ \A m \in requests : ~Before(l, m)
            /\ l \in 3..7 => requests \cap Slave = {})
=============================================================================
