--------------------- MODULE InterruptControllerProofs ---------------------
(****************************************************************************)
(* The two ways of an interrupt.  With the 8259s, what is in service fits   *)
(* the phase of the request, for any set of lines.  With the APICs, devices'*)
(* lines are routed as the firmware describes them, for any MADT of any     *)
(* length, any number of pins, and whatever the firmware has left enabled,  *)
(* requested or in service.                                                 *)
(****************************************************************************)
EXTENDS Interrupts, Sequences, TLAPS

\* Next without the existential quantifier, for case distinctions.
LEMMA Steps ==
  ASSUME Next
  PROVE  \/ \E l \in Lines : Raise(l) \/ Drop(l)
         \/ Accept \/ AskMaster \/ AskSlave \/ ConfirmIrq \/ EndCascade \/ Handle
         \/ EndSlave \/ EndMaster \/ Unmask
  BY DEF Next, Processor

\* ICW2 and ICW3 as numbers, and the vector less its base.
LEMMA CommandWords ==
  /\ Cascade = 2 /\ InitCmdWord.master.icw3 = {2}
  /\ \A l \in Master \cup Slave : Vector(l) - IrqBase = l
  BY DEF InitCmdWord, IrqBase, Master, Slave, Vector, Cascade

\* OCW2 and OCW3 in terms of lines: a specific EOI for the cascade, a non-specific
\* one, and bit 7 of the in-service register.
LEMMA OperationWords ==
  ASSUME TypeOK
  PROVE  /\ Eoi(Master, OperationCmdWord(3, Cascade)) = inService \ {Cascade}
         /\ \A chip \in {Master, Slave} : Eoi(chip, OperationCmdWord(1, 0)) = Ended(chip)
         /\ IsSpurious <=> irq \in {7, 15} /\ irq \notin inService
<1>1. Eoi(Master, OperationCmdWord(3, Cascade)) = inService \ {2}
  BY CommandWords DEF TypeOK, Eoi, OperationCmdWord, Master, Slave
<1>2. \A chip \in {Master, Slave} : Eoi(chip, OperationCmdWord(1, 0)) = Ended(chip)
  BY DEF Eoi, OperationCmdWord
<1>3. (7 \in InServiceRegister(Master) <=> 7 \in inService) /\ (7 \in InServiceRegister(Slave) <=> 15 \in inService)
  BY DEF TypeOK, InServiceRegister, Master, Slave
<1> QED BY <1>1, <1>2, <1>3, CommandWords DEF IsSpurious

\* Nothing is in service at first.
LEMMA InitialState == ASSUME Init PROVE InServiceFitsPhase
  BY LinesAssumption, CommandWords DEF Init, InServiceFitsPhase, TypeOK, Phases, Master, Slave

\* Every step keeps what is in service to what the phase allows.
LEMMA PreservedStep ==
  ASSUME InServiceFitsPhase, [Next]_vars
  PROVE  InServiceFitsPhase'
<1>a. TypeOK
  BY DEF InServiceFitsPhase
<1> USE LinesAssumption, CommandWords DEF Master, Slave, Phases
<1>e. /\ Eoi(Master, OperationCmdWord(3, Cascade)) = inService \ {Cascade}
      /\ Eoi(Master, OperationCmdWord(1, 0)) = Ended(Master)
      /\ Eoi(Slave, OperationCmdWord(1, 0)) = Ended(Slave)
      /\ IsSpurious <=> irq \in {7, 15} /\ irq \notin inService
  BY <1>a, OperationWords
<1>1. CASE UNCHANGED vars
  BY <1>1 DEF InServiceFitsPhase, TypeOK, vars
<1>2. CASE \E l \in Lines : Raise(l) \/ Drop(l)
  <2>1. requests' \subseteq requests \cup Lines /\ UNCHANGED <<unmasked, inService, phase, irq, cause>>
    BY <1>2 DEF Raise, Drop
  <2>2. TypeOK'
    BY <2>1 DEF InServiceFitsPhase, TypeOK
  <2> QED BY <2>1, <2>2 DEF InServiceFitsPhase
<1>3. CASE Accept
  BY <1>3 DEF InServiceFitsPhase, TypeOK, Accept
<1>4. CASE AskMaster
  <2>1. MasterAsks \subseteq (requests \cap Master) \cup {Cascade}
    BY DEF MasterAsks, Foremost
  <2>2. CASE MasterAsks = {}
    <3>1. /\ phase = "accepted" /\ phase' = "confirm" /\ irq' = 7 /\ cause' = -1
          /\ UNCHANGED <<requests, unmasked, inService>>
      BY <1>4, <2>2 DEF AskMaster
    <3> QED BY <3>1 DEF InServiceFitsPhase, TypeOK
  <2>3. phase = "accepted" /\ inService = {} /\ TypeOK
    BY <1>4 DEF AskMaster, InServiceFitsPhase
  <2>4. ASSUME NEW l \in MasterAsks, l = Cascade, Acknowledge(l, "cascaded"), UNCHANGED <<irq, cause>>
        PROVE  InServiceFitsPhase'
    <3>1. inService' = {Cascade} /\ phase' = "cascaded" /\ requests' \subseteq requests /\ unmasked' = unmasked
      BY <2>3, <2>4 DEF Acknowledge
    <3> QED BY <2>3, <2>4, <3>1 DEF InServiceFitsPhase, TypeOK
  <2>5. ASSUME NEW l \in MasterAsks, l # Cascade, Acknowledge(l, "confirm"), irq' = Vector(l) - IrqBase, cause' = l
        PROVE  InServiceFitsPhase'
    <3>1. l \in requests /\ l \in Master
      BY <2>1, <2>5
    <3>2. inService' = {l} /\ Own(l) = {l}
      BY <2>3, <2>5, <3>1 DEF Acknowledge, Own
    <3>3. TypeOK'
      BY <2>3, <2>5, <3>1, <3>2 DEF Acknowledge, TypeOK
    <3>4. phase' = "confirm" /\ cause' = irq' /\ inService' = Own(irq')
      BY <2>5, <3>1, <3>2 DEF Acknowledge
    <3> QED BY <3>3, <3>4 DEF InServiceFitsPhase
  <2> QED BY <1>4, <2>2, <2>4, <2>5 DEF AskMaster
<1>5. CASE AskSlave
  <2>1. SlaveAsks \subseteq requests \cap Slave
    BY DEF SlaveAsks, Foremost
  <2>2. CASE SlaveAsks = {}
    <3>1. /\ phase = "cascaded" /\ phase' = "confirm" /\ irq' = 15 /\ cause' = -1
          /\ UNCHANGED <<requests, unmasked, inService>>
      BY <1>5, <2>2 DEF AskSlave
    <3> QED BY <3>1 DEF InServiceFitsPhase, TypeOK
  <2>3. ASSUME NEW l \in SlaveAsks, Acknowledge(l, "confirm"), irq' = Vector(l) - IrqBase, cause' = l
        PROVE  InServiceFitsPhase'
    <3>1. inService = {Cascade} /\ TypeOK /\ l \in requests /\ l \in Slave
      BY <1>5, <2>1 DEF AskSlave, InServiceFitsPhase
    <3>2. inService' = {l, Cascade} /\ Own(l) = {l, Cascade}
      BY <2>3, <3>1 DEF Acknowledge, Own
    <3>3. TypeOK'
      BY <2>3, <3>1, <3>2 DEF Acknowledge, TypeOK
    <3>4. phase' = "confirm" /\ cause' = irq' /\ inService' = Own(irq')
      BY <2>3, <3>1, <3>2 DEF Acknowledge
    <3> QED BY <3>3, <3>4 DEF InServiceFitsPhase
  <2> QED BY <1>5, <2>2, <2>3 DEF AskSlave
<1>6. CASE ConfirmIrq
  <2>1. phase = "confirm" /\ TypeOK /\ UNCHANGED <<requests, unmasked, inService>>
    BY <1>6 DEF ConfirmIrq, InServiceFitsPhase
  <2>2. CASE ~IsSpurious
    <3>1. phase' = "handler" /\ UNCHANGED <<irq, cause>>
      BY <1>6, <2>2 DEF ConfirmIrq
    <3>2. cause = irq /\ inService = Own(irq)
      BY <1>e, <2>1, <2>2 DEF InServiceFitsPhase
    <3> QED BY <2>1, <3>1, <3>2 DEF InServiceFitsPhase, TypeOK, Own
  <2>3. CASE IsSpurious
    <3>1. /\ cause = -1
          /\ \/ irq = 7 /\ inService = {}
             \/ irq = 15 /\ inService = {Cascade}
      <4>1. irq \in {7, 15} /\ irq \notin inService /\ irq \in Own(irq)
        BY <1>e, <2>3 DEF Own
      <4>2. \/ inService = Own(irq)
            \/ cause = -1 /\ irq = 7 /\ inService = {}
            \/ cause = -1 /\ irq = 15 /\ inService = {Cascade}
        BY <2>1 DEF InServiceFitsPhase
      <4> QED BY <4>1, <4>2
    <3>2. CASE irq = 15
      <4>1. phase' = "cascade eoi" /\ UNCHANGED <<irq, cause>>
        BY <1>6, <2>3, <3>2 DEF ConfirmIrq
      <4>2. irq = 15 /\ inService = {Cascade}
        BY <3>1, <3>2
      <4>3. TypeOK'
        BY <2>1, <4>1 DEF TypeOK
      <4> QED BY <2>1, <4>1, <4>2, <4>3 DEF InServiceFitsPhase
    <3>3. CASE irq # 15
      <4>1. Return /\ inService = {}
        BY <1>6, <2>3, <3>1, <3>3 DEF ConfirmIrq
      <4> QED BY <2>1, <4>1 DEF InServiceFitsPhase, TypeOK, Return
    <3> QED BY <3>2, <3>3
  <2> QED BY <2>2, <2>3
<1>7. CASE EndCascade
  <2>1. inService' = {} /\ TypeOK
    BY <1>e, <1>7 DEF InServiceFitsPhase, EndCascade
  <2>2. phase' = "running" /\ irq' = 0 /\ cause' = -1 /\ UNCHANGED <<requests, unmasked>>
    BY <1>7 DEF EndCascade, Return
  <2>3. TypeOK'
    <3>1. phase' \in Phases
      BY <2>2
    <3>2. irq' \in Master \cup Slave /\ cause' \in Lines \cup {-1}
      BY <2>2
    <3> QED BY <2>1, <2>2, <3>1, <3>2 DEF TypeOK
  <2> QED BY <2>1, <2>2, <2>3 DEF InServiceFitsPhase
<1>8. CASE Handle
  <2>1. phase' = "eoi" /\ cause = irq /\ inService = Own(irq) /\ TypeOK
    BY <1>8 DEF Handle, InServiceFitsPhase
  <2>2. UNCHANGED <<requests, unmasked, inService, irq, cause>>
    BY <1>8 DEF Handle
  <2>3. TypeOK'
    BY <2>1, <2>2 DEF TypeOK
  <2>4. (inService = Own(irq))'
    BY <2>1, <2>2 DEF Own
  <2> QED BY <2>1, <2>2, <2>3, <2>4 DEF InServiceFitsPhase
<1>9. CASE EndSlave
  <2>1. irq \in Slave /\ inService = {irq, Cascade} /\ TypeOK
    <3>1. phase = "eoi" /\ irq >= 8 /\ TypeOK /\ inService = Own(irq)
      BY <1>9 DEF EndSlave, InServiceFitsPhase
    <3>2. irq \in Slave
      BY <3>1 DEF TypeOK
    <3> QED BY <3>1, <3>2 DEF Own
  <2>2. Ended(Slave) = {Cascade}
    BY <2>1 DEF Ended
  <2>3. phase' = "master eoi" /\ inService' = {Cascade} /\ irq' = irq
        /\ UNCHANGED <<requests, unmasked, cause>>
    BY <1>e, <1>9, <2>2 DEF EndSlave
  <2>4. TypeOK'
    BY <2>1, <2>3 DEF TypeOK
  <2> QED BY <2>1, <2>3, <2>4 DEF InServiceFitsPhase
<1>10. CASE EndMaster
  <2>1. TypeOK /\ \E l \in Master : inService = {l}
    <3>1. CASE phase = "master eoi"
      <4>1. TypeOK /\ inService = {Cascade}
        BY <3>1 DEF InServiceFitsPhase
      <4> QED BY <4>1
    <3>2. CASE phase = "eoi" /\ irq < 8
      <4>1. TypeOK /\ inService = Own(irq)
        BY <3>2 DEF InServiceFitsPhase
      <4>2. irq \in Master /\ irq \notin Slave
        BY <3>2, <4>1 DEF TypeOK
      <4> QED BY <4>1, <4>2 DEF Own
    <3> QED BY <1>10, <3>1, <3>2 DEF EndMaster
  <2>2. Ended(Master) = {}
    BY <2>1 DEF Ended
  <2>3. /\ inService' = {} /\ phase' = "running" /\ irq' = 0 /\ cause' = -1
        /\ UNCHANGED <<requests, unmasked>>
    BY <1>e, <1>10, <2>2 DEF EndMaster, Return
  <2>4. TypeOK'
    <3>1. phase' \in Phases
      BY <2>3
    <3>2. irq' \in Master \cup Slave /\ cause' \in Lines \cup {-1}
      BY <2>3
    <3> QED BY <2>1, <2>3, <3>1, <3>2 DEF TypeOK
  <2> QED BY <2>3, <2>4 DEF InServiceFitsPhase
<1>11. CASE Unmask
  BY <1>11 DEF InServiceFitsPhase, TypeOK, Unmask
<1> QED BY <1>1, <1>2, <1>3, <1>4, <1>5, <1>6, <1>7, <1>8, <1>9, <1>10, <1>11, Steps

\* What is in service is the current request's, whatever lines there are.
THEOREM InServiceAlwaysFitsPhase == Spec => []InServiceFitsPhase
<1>1. Init => InServiceFitsPhase
  BY InitialState
<1>2. InServiceFitsPhase /\ [Next]_vars => InServiceFitsPhase'
  BY PreservedStep
<1> QED BY <1>1, <1>2, PTL DEF Spec

\* No line is left in service behind an interrupt (SendEoi, ConfirmIrq).
THEOREM NothingIsLeftInService == Spec => []NothingLeftInService
<1>1. InServiceFitsPhase => NothingLeftInService
  BY DEF InServiceFitsPhase, NothingLeftInService
<1> QED BY <1>1, InServiceAlwaysFitsPhase, PTL

\* ConfirmIrq tells spurious requests from genuine ones.
THEOREM SpuriousIsAlwaysTold == Spec => SpuriousIsTold
<1>1. InServiceFitsPhase /\ [Next]_vars =>
        [phase = "confirm" /\ phase' # phase => (phase' = "handler" <=> cause = irq)]_vars
  <2> SUFFICES ASSUME InServiceFitsPhase, Next, phase = "confirm", phase' # phase
               PROVE  phase' = "handler" <=> cause = irq
    OBVIOUS
  <2>a. TypeOK
    BY DEF InServiceFitsPhase
  <2>e. IsSpurious <=> irq \in {7, 15} /\ irq \notin inService
    BY <2>a, OperationWords
  <2>1. ConfirmIrq
    BY Steps DEF Raise, Drop, Accept, AskMaster, AskSlave, EndCascade, Handle, EndSlave,
                 EndMaster, Unmask
  <2>2. CASE cause = irq
    <3>1. ~IsSpurious
      BY <2>2, <2>e, CommandWords DEF InServiceFitsPhase, Own, TypeOK
    <3> QED BY <2>1, <2>2, <3>1 DEF ConfirmIrq
  <2>3. CASE cause # irq
    <3>1. irq \in {7, 15} /\ irq \notin inService
      BY <2>3, CommandWords DEF InServiceFitsPhase
    <3>2. IsSpurious
      BY <3>1, <2>e
    <3> QED BY <2>1, <2>3, <3>2 DEF ConfirmIrq, Return
  <2> QED BY <2>2, <2>3
<1> QED BY <1>1, InServiceAlwaysFitsPhase, PTL DEF Spec, SpuriousIsTold

(* The APICs.                                                               *)

Conn(s) ==
    IF s \in {"connected 1", "timer"} THEN {0}
    ELSE IF s \in {"connected 2", "timer and keyboard"} THEN {0, 1} ELSE {}

\* From which step on what is true; "pic", "panic" and "halted" are followed no further.
MasksHold   == {"connect", "connected 1", "connected 2"}
MaskedSteps == MasksHold \cup {"timer", "timer and keyboard"}
LocalSteps  == {"mask"} \cup MaskedSteps
Early       == {"parse", "pic", "panic", "enable", "clear", "local"}
Places       == Early \cup LocalSteps \cup {"halted"}

Overriding(i, src) == madt[i].type = "override" /\ madt[i].source = src

\* What the first n entries say of a source, the last of them if there are several.
SaidBy(n, src, o) ==
    \/ o = Apic!Override(src, 0) /\ \A i \in 1..n : ~Overriding(i, src)
    \/ \E i \in 1..n :
         /\ Overriding(i, src) /\ o = Apic!Override(madt[i].gsi, madt[i].flags)
         /\ \A j \in 1..n : Overriding(j, src) => j <= i

MadtInv ==
    /\ DOMAIN madt = 1..Len(madt) /\ Len(madt) \in Nat
    /\ \A i \in DOMAIN madt : madt[i] \in Entries
    /\ entry \in Nat \ {0} /\ entry <= Len(madt) + 1 /\ step \in Places
    /\ step # "parse" => entry = Len(madt) + 1
    /\ DOMAIN int_src_overrides = Apic!Sources
    /\ \A src \in Apic!Sources : SaidBy(entry - 1, src, int_src_overrides[src])

\* The redirection entries and the local APIC's own.
EntriesInv ==
    /\ DOMAIN table = Apic!Pins /\ \A p \in Apic!Pins : "disabled" \in DOMAIN table[p]
    /\ step \in Early \cup {"mask"} => \A p \in Apic!Pins : table[p].vector = FirmwareVector
    /\ step \in MaskedSteps =>
         /\ \A p \in Apic!Pins : ~table[p].disabled =>
              \E src \in Conn(step) : Apic!Gsi(src) = p /\ table[p] = Apic!RedirEntry(src)
         /\ \A src \in Conn(step) : Apic!Gsi(src) \in Apic!Pins /\ Apic!Gsi(0) # Apic!Gsi(1) =>
              table[Apic!Gsi(src)] = Apic!RedirEntry(src)
    /\ DOMAIN lvt = Apic!LocalReg /\ \A reg \in Apic!LocalReg : "disabled" \in DOMAIN lvt[reg]
    /\ \A reg \in Apic!LocalReg : lvt[reg].delivery # "Nmi" => lvt[reg].vector \in {FirmwareVector, Apic!ErrorVector}
    /\ step \in {"clear", "local"} \cup LocalSteps => lvt["ERR_LVTR"].vector = Apic!ErrorVector
    /\ step \in LocalSteps => \A reg \in Apic!LocalReg :
         ~lvt[reg].disabled => lvt[reg].vector = Apic!ErrorVector \/ lvt[reg].delivery = "Nmi"

\* A vector that is none of the firmware's comes from the line of a device.
Known(v) ==
    \/ v \in {FirmwareVector, Apic!ErrorVector}
    \/ \E src \in Conn(step) : v = Apic!Vector(src) /\ from[v] = Apic!Gsi(src)

RequestInv ==
    /\ DOMAIN from = {FirmwareVector} \cup {Apic!Vector(src) : src \in Apic!Sources}
    /\ step \in Early \cup {"mask"} => request \subseteq {FirmwareVector, Apic!ErrorVector}
    /\ step \in MaskedSteps => \A v \in request : Known(v)
    /\ step \in MasksHold => blocked
    /\ step \in Early \cup {"mask"} \cup MasksHold => handling = Apic!None
    /\ step \in {"timer", "timer and keyboard"} => handling = Apic!None \/ Known(handling)
    /\ step \in Early => service \subseteq {FirmwareVector}
    /\ step \in LocalSteps => service = IF handling = Apic!None THEN {} ELSE {handling}
    /\ step = "local" => service = {}

ApicInv == MadtInv /\ EntriesInv /\ RequestInv

\* Numbers, names and vectors.
LEMMA ApicFacts ==
  /\ FirmwareVector \in Nat /\ Apic!ErrorVector = 254 /\ Apic!None = -1 /\ Apic!IrqBase = 32
  /\ Apic!Vector(0) = 32 /\ Apic!Vector(1) = 33 /\ Apic!Connected[1] = 0 /\ Apic!Connected[2] = 1
  /\ {0, 1} \subseteq Apic!Sources /\ \A s : Conn(s) \subseteq {0, 1}
<1>1. FirmwareVector \in Nat
  BY InterruptsAssumption
<1>2. Apic!ErrorVector = 254 /\ Apic!None = -1 /\ Apic!IrqBase = 32 /\ Apic!Vector(0) = 32 /\ Apic!Vector(1) = 33
  BY DEF Apic!ErrorVector, Apic!None, Apic!IrqBase, Apic!Vector
<1>3. Apic!Connected[1] = 0 /\ Apic!Connected[2] = 1
  BY DEF Apic!Connected
<1>4. {0, 1} \subseteq Apic!Sources
  BY DEF Apic!Sources
<1>5. \A s : Conn(s) \subseteq {0, 1}
  BY DEF Conn
<1> QED BY <1>1, <1>2, <1>3, <1>4, <1>5

\* Nothing is in service after an EOI for a single vector.
LEMMA EndedOne ==
  ASSUME NEW v \in Nat
  PROVE  Apic!Ended({v}) = {} /\ Apic!Ended({}) = {}
BY DEF Apic!Ended

\* ParseMadt begins.
LEMMA ApicInit == ASSUME Apic!Init PROVE ApicInv
<1> USE DEF Apic!Init
<1>1. /\ madt \in UNION {[1..n -> Entries] : n \in 0..MaxEntries} /\ entry = 1 /\ step = "parse"
      /\ int_src_overrides = [s \in Apic!Sources |-> Apic!Override(s, 0)]
  BY DEF Apic!BoundedSeq, Apic!SeqOf
<1>2. PICK n \in 0..MaxEntries : madt \in [1..n -> Entries]
  BY <1>1
<1>3. n \in Nat /\ Len(madt) = n /\ DOMAIN madt = 1..n
  BY <1>2, InterruptsAssumption
<1>4. MadtInv
  <2>1. entry - 1 = 0 /\ 1..0 = {}
    BY <1>1
  <2>2. \A src \in Apic!Sources : SaidBy(0, src, int_src_overrides[src])
    BY <1>1, <2>1 DEF SaidBy
  <2>3. step \in Places
    BY <1>1 DEF Places, Early
  <2> QED BY <1>1, <1>2, <1>3, <2>1, <2>2, <2>3 DEF MadtInv
<1>5. EntriesInv
  <2>1. step \notin MaskedSteps /\ step \notin LocalSteps /\ step \notin {"clear", "local"}
    BY <1>1 DEF MaskedSteps, LocalSteps, MasksHold
  <2>2. DOMAIN table = Apic!Pins
        /\ \A p \in Apic!Pins : "disabled" \in DOMAIN table[p] /\ table[p].vector = FirmwareVector
    BY DEF Apic!FirmwareEntries, Apic!IoRedirectionEntry
  <2>3. DOMAIN lvt = Apic!LocalReg
        /\ \A reg \in Apic!LocalReg : "disabled" \in DOMAIN lvt[reg] /\ lvt[reg].vector = FirmwareVector
    BY DEF Apic!FirmwareLvt, Apic!LvtEntry
  <2> QED BY <2>1, <2>2, <2>3 DEF EntriesInv
<1>6. RequestInv
  BY <1>1 DEF RequestInv, MaskedSteps, LocalSteps, MasksHold, Early
<1> QED BY <1>4, <1>5, <1>6 DEF ApicInv

\* An entry of the MADT has the last word until the next.
LEMMA ParseKeeps == ASSUME ApicInv, Apic!ParseEntry PROVE ApicInv'
<1>1. /\ step = "parse" /\ entry <= Len(madt) /\ entry' = entry + 1
      /\ int_src_overrides' = IF madt[entry].type = "override" /\ madt[entry].source \in Apic!Sources
                              THEN [int_src_overrides EXCEPT ![madt[entry].source]
                                      = Apic!Override(madt[entry].gsi, madt[entry].flags)]
                              ELSE int_src_overrides
      /\ UNCHANGED <<madt, step, table, lvt, request, service, blocked, handling, from>>
  BY DEF Apic!ParseEntry
<1>2. /\ entry \in Nat \ {0} /\ Len(madt) \in Nat /\ entry' \in Nat \ {0} /\ entry' <= Len(madt) + 1
      /\ entry' - 1 = entry /\ entry \in 1..entry /\ 1..entry = 1..(entry - 1) \cup {entry}
      /\ \A i \in 1..(entry - 1) : i <= entry
  BY <1>1 DEF ApicInv, MadtInv
<1>3. ASSUME NEW src \in Apic!Sources PROVE SaidBy(entry, src, int_src_overrides'[src])
  <2>1. SaidBy(entry - 1, src, int_src_overrides[src]) /\ DOMAIN int_src_overrides = Apic!Sources
    BY DEF ApicInv, MadtInv
  <2>2. CASE Overriding(entry, src)
    <3>1. int_src_overrides'[src] = Apic!Override(madt[entry].gsi, madt[entry].flags)
      BY <1>1, <2>1, <2>2 DEF Overriding
    <3>2. \A j \in 1..entry : j <= entry
      BY <1>2
    <3> QED BY <1>2, <2>2, <3>1, <3>2 DEF SaidBy
  <2>3. CASE ~Overriding(entry, src)
    <3>1. int_src_overrides'[src] = int_src_overrides[src]
      BY <1>1, <2>1, <2>3 DEF Overriding
    <3>2. \A i \in 1..entry : Overriding(i, src) => i \in 1..(entry - 1)
      BY <1>2, <2>3
    <3> QED BY <1>2, <2>1, <3>1, <3>2 DEF SaidBy
  <2> QED BY <2>2, <2>3
<1>4. MadtInv'
  <2>2. \A src \in Apic!Sources : SaidBy(entry - 1, src, int_src_overrides[src])'
    BY <1>1, <1>2, <1>3 DEF SaidBy, Overriding
  <2>3. DOMAIN int_src_overrides' = Apic!Sources
    BY <1>1 DEF ApicInv, MadtInv
  <2> QED BY <1>1, <1>2, <2>2, <2>3 DEF ApicInv, MadtInv
<1>5. EntriesInv'
  <2>1. step \notin MaskedSteps /\ step \in Early
    BY <1>1 DEF MaskedSteps, MasksHold, Early
  <2> QED BY <1>1, <2>1 DEF ApicInv, EntriesInv
<1>6. RequestInv'
  <2>1. step \notin MaskedSteps /\ step \in Early /\ step \notin {"timer", "timer and keyboard"}
    BY <1>1 DEF MaskedSteps, MasksHold, Early
  <2> QED BY <1>1, <2>1 DEF ApicInv, RequestInv
<1> QED BY <1>4, <1>5, <1>6 DEF ApicInv

\* MADT and overrides do not change after ParseMadt.
LEMMA MadtStays ==
  ASSUME MadtInv, UNCHANGED <<madt, entry, int_src_overrides>>, step' \in Places,
         step' # "parse" => entry = Len(madt) + 1
  PROVE  MadtInv'
<1>1. \A src \in Apic!Sources : SaidBy(entry - 1, src, int_src_overrides[src])'
  BY DEF MadtInv, SaidBy, Overriding
<1> QED BY <1>1 DEF MadtInv

\* Devices' lines, entries and vectors as they were.
LEMMA GsiStays ==
  ASSUME UNCHANGED int_src_overrides
  PROVE  \A src : Apic!Gsi(src)' = Apic!Gsi(src) /\ Apic!RedirEntry(src)' = Apic!RedirEntry(src)
BY DEF Apic!Gsi, Apic!RedirEntry

\* The steps by their names.
LEMMA ApicSteps ==
  /\ "mask" \in LocalSteps /\ "mask" \notin Early /\ "mask" \notin MaskedSteps
  /\ \A s \in MaskedSteps : s \in LocalSteps /\ s \notin Early /\ s # "mask" /\ s \in Places
  /\ \A s \in MasksHold : s \in MaskedSteps /\ s \notin {"timer", "timer and keyboard"}
  /\ \A s \in Early : s \notin LocalSteps /\ s \notin MaskedSteps /\ s \notin MasksHold /\ s \in Places
                      /\ s \notin {"timer", "timer and keyboard"}
  /\ \A s \in LocalSteps \ MaskedSteps : s = "mask"
BY DEF LocalSteps, MaskedSteps, MasksHold, Early, Places

\* The way is chosen.
LEMMA ChooseKeeps == ASSUME ApicInv, Apic!ChooseController PROVE ApicInv'
<1>1. /\ step = "parse" /\ entry > Len(madt) /\ step' \in {"enable", "pic", "panic"}
      /\ UNCHANGED <<madt, entry, int_src_overrides, table, lvt, request, service, blocked, handling, from>>
  BY DEF Apic!ChooseController
<1>2. step \in Early /\ step' \in Early /\ step' \notin {"parse", "clear", "local", "mask"} /\ "parse" # "mask"
  BY <1>1 DEF Early
<1>3. MadtInv'
  <2>1. step' \in Places
    BY <1>2, ApicSteps
  <2>2. entry = Len(madt) + 1
    BY <1>1 DEF ApicInv, MadtInv
  <2> QED BY <1>1, <2>1, <2>2, MadtStays DEF ApicInv
<1>4. EntriesInv'
  BY <1>1, <1>2, ApicSteps DEF ApicInv, EntriesInv
<1>5. RequestInv'
  BY <1>1, <1>2, ApicSteps DEF ApicInv, RequestInv
<1> QED BY <1>3, <1>4, <1>5 DEF ApicInv

\* The APIC's errors get their vector.
LEMMA EnableKeeps == ASSUME ApicInv, Apic!EnableLocal PROVE ApicInv'
<1>1. /\ step = "enable" /\ step' = "clear"
      /\ lvt' = [lvt EXCEPT !["ERR_LVTR"] = Apic!LvtEntry(Apic!ErrorVector, "Fixed", FALSE)]
      /\ UNCHANGED <<madt, entry, int_src_overrides, table, request, service, blocked, handling, from>>
  BY DEF Apic!EnableLocal
<1>2. step \in Early /\ step' \in Early
  BY <1>1 DEF Early
<1>3. MadtInv'
  <2>1. entry = Len(madt) + 1 /\ step' \in Places
    BY <1>1, <1>2, ApicSteps DEF ApicInv, MadtInv
  <2> QED BY <1>1, <2>1, MadtStays DEF ApicInv
<1>4. EntriesInv'
  <2>1. DOMAIN lvt = Apic!LocalReg /\ "ERR_LVTR" \in Apic!LocalReg
    BY DEF ApicInv, EntriesInv, Apic!LocalReg
  <2>2. DOMAIN lvt' = Apic!LocalReg /\ lvt'["ERR_LVTR"].vector = Apic!ErrorVector
        /\ "disabled" \in DOMAIN lvt'["ERR_LVTR"]
        /\ \A reg \in Apic!LocalReg \ {"ERR_LVTR"} : lvt'[reg] = lvt[reg]
    BY <1>1, <2>1 DEF Apic!LvtEntry
  <2>3. \A reg \in Apic!LocalReg :
          lvt'[reg].delivery # "Nmi" => lvt'[reg].vector \in {FirmwareVector, Apic!ErrorVector}
    BY <2>2 DEF ApicInv, EntriesInv
  <2> QED BY <1>1, <1>2, <2>2, <2>3, ApicSteps DEF ApicInv, EntriesInv
<1>5. RequestInv'
  BY <1>1, <1>2, ApicSteps DEF ApicInv, RequestInv
<1> QED BY <1>3, <1>4, <1>5 DEF ApicInv

\* What is in service is ended.
LEMMA ClearKeeps == ASSUME ApicInv, Apic!ClearInService PROVE ApicInv'
<1>1. /\ step = "clear" /\ (IF service # {} THEN service' = Apic!Ended(service) /\ step' = step
                            ELSE step' = "local" /\ service' = service)
      /\ UNCHANGED <<madt, entry, int_src_overrides, table, lvt, request, blocked, handling, from>>
  BY DEF Apic!ClearInService
<1>2. step \in Early /\ step' \in Early /\ step' # "parse" /\ step # "parse" /\ step # "mask"
  BY <1>1 DEF Early
<1>3. MadtInv'
  <2>1. entry = Len(madt) + 1 /\ step' \in Places
    BY <1>2, ApicSteps DEF ApicInv, MadtInv
  <2> QED BY <1>1, <2>1, MadtStays DEF ApicInv
<1>4. EntriesInv'
  BY <1>1, <1>2, ApicSteps DEF ApicInv, EntriesInv
<1>5. service' \subseteq {FirmwareVector} /\ (step' = "local" => service' = {})
  <2>1. service \in {{}, {FirmwareVector}}
    BY <1>2 DEF ApicInv, RequestInv
  <2>2. service # {} => service' = {}
    BY <1>1, <2>1, ApicFacts, EndedOne
  <2> QED BY <1>1, <2>1, <2>2
<1>6. RequestInv'
  BY <1>1, <1>2, <1>5, ApicSteps DEF ApicInv, RequestInv
<1> QED BY <1>3, <1>4, <1>6 DEF ApicInv

\* The local APIC's entries but the error's and the NMI's are masked.
LEMMA MaskLocalKeeps == ASSUME ApicInv, Apic!MaskLocal PROVE ApicInv'
<1>1. /\ step = "local" /\ step' = "mask"
      /\ lvt' = Apic!Mask("TMR_LVTR", Apic!UpdateLvtEntry("LINT1", 2, "Nmi", TRUE, Apic!Mask("LINT0", lvt)))
      /\ UNCHANGED <<madt, entry, int_src_overrides, table, request, service, blocked, handling, from>>
  BY DEF Apic!MaskLocal
<1>2. step \in Early /\ step' \in LocalSteps /\ step' \notin Early /\ step' \notin MaskedSteps /\ step' \notin MasksHold
      /\ step' \notin {"timer", "timer and keyboard"} /\ step' \in Places
  BY <1>1 DEF Early, LocalSteps, MaskedSteps, MasksHold, Places
<1>3. MadtInv'
  <2>1. entry = Len(madt) + 1
    BY <1>1 DEF ApicInv, MadtInv
  <2> QED BY <1>1, <1>2, <2>1, MadtStays DEF ApicInv
<1>4. EntriesInv'
  <2>1. DOMAIN lvt = Apic!LocalReg /\ Apic!LocalReg = {"TMR_LVTR", "LINT0", "LINT1", "ERR_LVTR"}
    BY DEF ApicInv, EntriesInv, Apic!LocalReg
  <2> DEFINE one == [lvt EXCEPT !["LINT0"].disabled = TRUE]
             two == [one EXCEPT !["LINT1"] = Apic!LvtEntry(2, "Nmi", FALSE)]
  <2>2. lvt' = [two EXCEPT !["TMR_LVTR"].disabled = TRUE]
    BY <1>1 DEF Apic!Mask, Apic!UpdateLvtEntry
  <2>3. DOMAIN one = Apic!LocalReg /\ DOMAIN two = Apic!LocalReg
    BY <2>1
  <2>4. /\ one["LINT0"] = [lvt["LINT0"] EXCEPT !.disabled = TRUE]
        /\ two["LINT1"] = Apic!LvtEntry(2, "Nmi", FALSE) /\ two["LINT0"] = one["LINT0"]
        /\ two["TMR_LVTR"] = lvt["TMR_LVTR"] /\ two["ERR_LVTR"] = lvt["ERR_LVTR"]
    BY <2>1
  <2> HIDE DEF one, two
  <2>5. DOMAIN lvt' = Apic!LocalReg
    BY <2>2, <2>3
  <2>6. /\ lvt'["TMR_LVTR"] = [lvt["TMR_LVTR"] EXCEPT !.disabled = TRUE]
        /\ lvt'["LINT0"] = [lvt["LINT0"] EXCEPT !.disabled = TRUE]
        /\ lvt'["LINT1"] = Apic!LvtEntry(2, "Nmi", FALSE) /\ lvt'["ERR_LVTR"] = lvt["ERR_LVTR"]
    BY <2>1, <2>2, <2>3, <2>4
  <2>7. \A reg \in Apic!LocalReg : "disabled" \in DOMAIN lvt[reg]
          /\ (lvt[reg].delivery # "Nmi" => lvt[reg].vector \in {FirmwareVector, Apic!ErrorVector})
    BY DEF ApicInv, EntriesInv
  <2>8. lvt["ERR_LVTR"].vector = Apic!ErrorVector
    BY <1>1 DEF ApicInv, EntriesInv
  <2>9. ASSUME NEW reg \in {"TMR_LVTR", "LINT0"}
        PROVE  /\ "disabled" \in DOMAIN lvt'[reg] /\ lvt'[reg].disabled
               /\ lvt'[reg].delivery # "Nmi" => lvt'[reg].vector \in {FirmwareVector, Apic!ErrorVector}
    <3>1. lvt'[reg] = [lvt[reg] EXCEPT !.disabled = TRUE]
      BY <2>6
    <3>2. /\ DOMAIN lvt'[reg] = DOMAIN lvt[reg] /\ lvt'[reg].disabled = TRUE
          /\ lvt'[reg].delivery = lvt[reg].delivery /\ lvt'[reg].vector = lvt[reg].vector
      BY <2>1, <2>7, <3>1
    <3> QED BY <2>1, <2>7, <3>2
  <2>10. lvt'["LINT1"].delivery = "Nmi" /\ "disabled" \in DOMAIN lvt'["LINT1"]
    BY <2>6 DEF Apic!LvtEntry
  <2>11. /\ \A reg \in Apic!LocalReg : "disabled" \in DOMAIN lvt'[reg]
           /\ (lvt'[reg].delivery # "Nmi" => lvt'[reg].vector \in {FirmwareVector, Apic!ErrorVector})
         /\ \A reg \in Apic!LocalReg :
              ~lvt'[reg].disabled => lvt'[reg].vector = Apic!ErrorVector \/ lvt'[reg].delivery = "Nmi"
    BY <2>1, <2>6, <2>7, <2>8, <2>9, <2>10
  <2> QED BY <1>1, <1>2, <2>5, <2>6, <2>8, <2>11 DEF ApicInv, EntriesInv
<1>5. RequestInv'
  <2>1. service = {} /\ handling = Apic!None /\ request \subseteq {FirmwareVector, Apic!ErrorVector}
    BY <1>1, <1>2 DEF ApicInv, RequestInv
  <2> QED BY <1>1, <1>2, <2>1 DEF ApicInv, RequestInv
<1> QED BY <1>3, <1>4, <1>5 DEF ApicInv

\* All redirection entries are masked, and the processor.
LEMMA MaskEntriesKeeps == ASSUME ApicInv, Apic!MaskEntries PROVE ApicInv'
<1>1. /\ step = "mask" /\ step' = "connect" /\ blocked' = TRUE
      /\ table' = [p \in Apic!Pins |-> [table[p] EXCEPT !.disabled = TRUE]]
      /\ UNCHANGED <<madt, entry, int_src_overrides, lvt, request, service, handling, from>>
  BY DEF Apic!MaskEntries
<1>2. step' \in MasksHold /\ step' \in MaskedSteps /\ step' \in LocalSteps /\ step' \in Places /\ Conn(step') = {}
      /\ step' \notin Early /\ step' \notin {"timer", "timer and keyboard", "parse", "clear", "local", "mask"}
  BY <1>1 DEF MasksHold, MaskedSteps, LocalSteps, Early, Places, Conn
<1>3. MadtInv'
  <2>1. entry = Len(madt) + 1
    BY <1>1 DEF ApicInv, MadtInv
  <2> QED BY <1>1, <1>2, <2>1, MadtStays DEF ApicInv
<1>4. EntriesInv'
  <2>1. DOMAIN table = Apic!Pins /\ \A p \in Apic!Pins : "disabled" \in DOMAIN table[p]
    BY DEF ApicInv, EntriesInv
  <2>2. \A p \in Apic!Pins : "disabled" \in DOMAIN table'[p] /\ table'[p].disabled
    BY <1>1, <2>1
  <2>3. step \in LocalSteps
    BY <1>1, ApicSteps
  <2> QED BY <1>1, <1>2, <2>2, <2>3 DEF ApicInv, EntriesInv
<1>5. RequestInv'
  <2>1. request \subseteq {FirmwareVector, Apic!ErrorVector} /\ handling = Apic!None
        /\ service = {} /\ DOMAIN from = {FirmwareVector} \cup {Apic!Vector(src) : src \in Apic!Sources}
    BY <1>1, ApicSteps DEF ApicInv, RequestInv
  <2>2. \A v \in request : Known(v)'
    BY <2>1 DEF Known, Apic!ErrorVector
  <2> QED BY <1>1, <1>2, <2>1, <2>2 DEF RequestInv
<1> QED BY <1>3, <1>4, <1>5 DEF ApicInv

\* A device's line gets its entry, if the I/O APIC has the pin.
LEMMA ConnectKeeps == ASSUME ApicInv, NEW i \in {1, 2}, Apic!ConnectIsr(i) PROVE ApicInv'
<1> DEFINE new == Apic!Connected[i]
<1>1. /\ new \in {0, 1} /\ step \in MasksHold /\ step' \in MasksHold /\ new \in Conn(step') /\ new \notin Conn(step)
      /\ Conn(step') = Conn(step) \cup {new} /\ new \in Apic!Sources
  <2>1. CASE i = 1
    <3>1. step = "connect" /\ step' = "connected 1" /\ new = 0
      BY <2>1, ApicFacts DEF Apic!ConnectIsr
    <3>2. Conn("connect") = {} /\ Conn("connected 1") = {0}
      BY DEF Conn
    <3> HIDE DEF new
    <3>3. Conn(step) = {} /\ Conn(step') = {0}
      BY <3>1, <3>2
    <3>4. step \in MasksHold /\ step' \in MasksHold
      BY <3>1 DEF MasksHold
    <3>5. 0 \in Apic!Sources /\ 1 \in Apic!Sources
      BY ApicFacts
    <3> QED BY <3>1, <3>3, <3>4, <3>5
  <2>2. CASE i = 2
    <3>1. step = "connected 1" /\ step' = "connected 2" /\ new = 1
      BY <2>2, ApicFacts DEF Apic!ConnectIsr
    <3>2. Conn("connected 1") = {0} /\ Conn("connected 2") = {0, 1}
      BY DEF Conn
    <3> HIDE DEF new
    <3>3. Conn(step) = {0} /\ Conn(step') = {0, 1}
      BY <3>1, <3>2
    <3>4. step \in MasksHold /\ step' \in MasksHold
      BY <3>1 DEF MasksHold
    <3>5. 0 \in Apic!Sources /\ 1 \in Apic!Sources
      BY ApicFacts
    <3>6. {0, 1} = {0} \cup {1} /\ 1 \notin {0}
      OBVIOUS
    <3>7. Conn(step') = Conn(step) \cup {new}
      BY <3>1, <3>3, <3>6
    <3>8. new \in Conn(step') /\ new \notin Conn(step) /\ new \in {0, 1}
      BY <3>1, <3>3, <3>6
    <3> QED BY <3>1, <3>4, <3>5, <3>7, <3>8
  <2> QED BY <2>1, <2>2
<1>2. /\ table' = IF Apic!Gsi(new) \in Apic!Pins THEN [table EXCEPT ![Apic!Gsi(new)] = Apic!RedirEntry(new)] ELSE table
      /\ UNCHANGED <<madt, entry, int_src_overrides, lvt, request, service, blocked, handling, from>>
  BY DEF Apic!ConnectIsr
<1> HIDE DEF new
<1>3. \A s \in MasksHold : /\ s \in MaskedSteps /\ s \in LocalSteps /\ s \in Places /\ s \notin Early
        /\ s \notin {"timer", "timer and keyboard", "parse", "clear", "local", "mask"}
  BY DEF MasksHold, MaskedSteps, LocalSteps, Places, Early
<1>4. MadtInv'
  <2>1. entry = Len(madt) + 1
    BY <1>1, <1>3 DEF ApicInv, MadtInv
  <2> QED BY <1>1, <1>2, <1>3, <2>1, MadtStays DEF ApicInv
<1>5. \A src : Apic!Gsi(src)' = Apic!Gsi(src) /\ Apic!RedirEntry(src)' = Apic!RedirEntry(src)
  BY <1>2, GsiStays
<1>6. "disabled" \in DOMAIN Apic!RedirEntry(new)
  BY DEF Apic!RedirEntry, Apic!IoRedirectionEntry
<1>7. /\ DOMAIN table = Apic!Pins /\ \A p \in Apic!Pins : "disabled" \in DOMAIN table[p]
      /\ \A p \in Apic!Pins : ~table[p].disabled =>
           \E src \in Conn(step) : Apic!Gsi(src) = p /\ table[p] = Apic!RedirEntry(src)
      /\ \A src \in Conn(step) : Apic!Gsi(src) \in Apic!Pins /\ Apic!Gsi(0) # Apic!Gsi(1) =>
           table[Apic!Gsi(src)] = Apic!RedirEntry(src)
  BY <1>1, <1>3 DEF ApicInv, EntriesInv
<1>8. /\ DOMAIN table' = Apic!Pins
      /\ Apic!Gsi(new) \in Apic!Pins => table'[Apic!Gsi(new)] = Apic!RedirEntry(new)
      /\ \A p \in Apic!Pins : p # Apic!Gsi(new) => table'[p] = table[p]
  BY <1>2, <1>7
<1>9. \A p \in Apic!Pins : "disabled" \in DOMAIN table'[p]
  BY <1>6, <1>7, <1>8
<1>10. \A p \in Apic!Pins : ~table'[p].disabled =>
         \E src \in Conn(step') : Apic!Gsi(src)' = p /\ table'[p] = Apic!RedirEntry(src)'
  <2> SUFFICES ASSUME NEW p \in Apic!Pins, ~table'[p].disabled
               PROVE  \E src \in Conn(step') : Apic!Gsi(src) = p /\ table'[p] = Apic!RedirEntry(src)
    BY <1>5
  <2>1. CASE p = Apic!Gsi(new)
    BY <1>1, <1>8, <2>1
  <2>2. CASE p # Apic!Gsi(new)
    BY <1>1, <1>7, <1>8, <2>2
  <2> QED BY <2>1, <2>2
<1>11. \A src \in Conn(step') : Apic!Gsi(src)' \in Apic!Pins /\ Apic!Gsi(0)' # Apic!Gsi(1)' =>
         table'[Apic!Gsi(src)'] = Apic!RedirEntry(src)'
  <2> SUFFICES ASSUME NEW src \in Conn(step'), Apic!Gsi(src) \in Apic!Pins, Apic!Gsi(0) # Apic!Gsi(1)
               PROVE  table'[Apic!Gsi(src)] = Apic!RedirEntry(src)
    BY <1>5
  <2>1. CASE src = new
    BY <1>8, <2>1
  <2>2. CASE src # new
    <3>1. src \in Conn(step) /\ src \in {0, 1}
      BY <1>1, <2>2, ApicFacts
    <3>2. Apic!Gsi(src) # Apic!Gsi(new)
      BY <1>1, <2>2, <3>1
    <3> QED BY <1>7, <1>8, <3>1, <3>2
  <2> QED BY <2>1, <2>2
<1>12. EntriesInv'
  <2>1. /\ DOMAIN lvt = Apic!LocalReg /\ \A reg \in Apic!LocalReg : "disabled" \in DOMAIN lvt[reg]
        /\ \A reg \in Apic!LocalReg :
             lvt[reg].delivery # "Nmi" => lvt[reg].vector \in {FirmwareVector, Apic!ErrorVector}
        /\ lvt["ERR_LVTR"].vector = Apic!ErrorVector
        /\ \A reg \in Apic!LocalReg :
             ~lvt[reg].disabled => lvt[reg].vector = Apic!ErrorVector \/ lvt[reg].delivery = "Nmi"
    BY <1>1, <1>3 DEF ApicInv, EntriesInv
  <2>2. lvt' = lvt /\ step' \in MaskedSteps /\ step' \notin Early \cup {"mask"}
    BY <1>1, <1>2, <1>3
  <2> QED BY <2>1, <2>2, <1>8, <1>9, <1>10, <1>11 DEF EntriesInv
<1>13. RequestInv'
  <2>1. \A v \in request : Known(v)'
    <3>1. \A v \in request : Known(v)
      BY <1>1, <1>3 DEF ApicInv, RequestInv
    <3> QED BY <1>1, <1>2, <1>5, <3>1 DEF Known, Apic!Vector, Apic!IrqBase, Apic!ErrorVector
  <2> QED BY <1>1, <1>2, <1>3, <2>1 DEF ApicInv, RequestInv
<1> QED BY <1>4, <1>12, <1>13 DEF ApicInv

\* Interrupts are let through.
LEMMA UnmaskKeeps == ASSUME ApicInv, Apic!UnmaskInterrupts PROVE ApicInv'
<1>1. /\ step \in {"connected 1", "connected 2"} /\ blocked' = FALSE
      /\ step' = IF step = "connected 1" THEN "timer" ELSE "timer and keyboard"
      /\ UNCHANGED <<madt, entry, int_src_overrides, table, lvt, request, service, handling, from>>
  BY DEF Apic!UnmaskInterrupts
<1>2. /\ step \in MasksHold /\ step' \in {"timer", "timer and keyboard"} /\ step' \in MaskedSteps
      /\ step' \in LocalSteps /\ step' \in Places
      /\ step' \notin Early /\ step' \notin MasksHold /\ step' \notin {"parse", "clear", "local", "mask"}
  BY <1>1 DEF MasksHold, MaskedSteps, LocalSteps, Early, Places
<1>3. Conn(step') = Conn(step)
  BY <1>1 DEF Conn
<1>4. step \in MaskedSteps /\ step \in LocalSteps /\ step \notin Early /\ step # "parse"
  BY <1>2 DEF MasksHold, MaskedSteps, LocalSteps, Early
<1>5. \A src : Apic!Gsi(src)' = Apic!Gsi(src) /\ Apic!RedirEntry(src)' = Apic!RedirEntry(src)
  BY <1>1, GsiStays
<1>6. MadtInv'
  <2>1. entry = Len(madt) + 1
    BY <1>4 DEF ApicInv, MadtInv
  <2> QED BY <1>1, <1>2, <2>1, MadtStays DEF ApicInv
<1>7. EntriesInv'
  <2>1. /\ DOMAIN lvt = Apic!LocalReg /\ \A reg \in Apic!LocalReg : "disabled" \in DOMAIN lvt[reg]
        /\ \A reg \in Apic!LocalReg :
             lvt[reg].delivery # "Nmi" => lvt[reg].vector \in {FirmwareVector, Apic!ErrorVector}
        /\ lvt["ERR_LVTR"].vector = Apic!ErrorVector
        /\ \A reg \in Apic!LocalReg :
             ~lvt[reg].disabled => lvt[reg].vector = Apic!ErrorVector \/ lvt[reg].delivery = "Nmi"
    BY <1>4 DEF ApicInv, EntriesInv
  <2>2. /\ DOMAIN table = Apic!Pins /\ \A p \in Apic!Pins : "disabled" \in DOMAIN table[p]
        /\ \A p \in Apic!Pins : ~table[p].disabled =>
             \E src \in Conn(step') : Apic!Gsi(src)' = p /\ table[p] = Apic!RedirEntry(src)'
        /\ \A src \in Conn(step') : Apic!Gsi(src)' \in Apic!Pins /\ Apic!Gsi(0)' # Apic!Gsi(1)' =>
             table[Apic!Gsi(src)'] = Apic!RedirEntry(src)'
    BY <1>3, <1>4, <1>5 DEF ApicInv, EntriesInv
  <2>3. table' = table /\ lvt' = lvt
    BY <1>1
  <2> QED BY <1>2, <2>1, <2>2, <2>3 DEF EntriesInv
<1>8. RequestInv'
  <2>1. \A v : Known(v) => Known(v)'
    BY <1>1, <1>3, <1>5 DEF Known, Apic!Vector, Apic!IrqBase, Apic!ErrorVector
  <2> QED BY <1>1, <1>2, <1>4, <2>1 DEF ApicInv, RequestInv
<1> QED BY <1>6, <1>7, <1>8 DEF ApicInv

\* What does not concern the entries leaves them as they are.
LEMMA EntriesStay ==
  ASSUME EntriesInv, UNCHANGED <<int_src_overrides, step, table, lvt>>
  PROVE  EntriesInv'
<1>1. \A src : Apic!Gsi(src)' = Apic!Gsi(src) /\ Apic!RedirEntry(src)' = Apic!RedirEntry(src)
  BY GsiStays
<1>2. step' = step /\ table' = table /\ lvt' = lvt
  OBVIOUS
<1>3. Conn(step') = Conn(step)
  BY <1>2
<1>4. step \in MaskedSteps =>
        /\ \A p \in Apic!Pins : ~table[p].disabled =>
             \E src \in Conn(step') : Apic!Gsi(src)' = p /\ table[p] = Apic!RedirEntry(src)'
        /\ \A src \in Conn(step') : Apic!Gsi(src)' \in Apic!Pins /\ Apic!Gsi(0)' # Apic!Gsi(1)' =>
             table[Apic!Gsi(src)'] = Apic!RedirEntry(src)'
  BY <1>1, <1>3 DEF EntriesInv
<1> QED BY <1>2, <1>4 DEF EntriesInv

\* Nor does it the MADT.
LEMMA MadtKept ==
  ASSUME MadtInv, UNCHANGED <<madt, entry, int_src_overrides, step>>
  PROVE  MadtInv'
<1>1. step' \in Places /\ (step' # "parse" => entry = Len(madt) + 1)
  BY DEF MadtInv
<1> QED BY <1>1, MadtStays

\* A line is asserted.
LEMMA RaiseKeeps == ASSUME ApicInv, NEW p \in Apic!Pins, Apic!Raise(p) PROVE ApicInv'
<1> DEFINE v == table[p].vector
<1>1. /\ ~table[p].disabled /\ request' = request \cup {v} /\ from' = [from EXCEPT ![v] = p]
      /\ UNCHANGED <<madt, entry, int_src_overrides, step, table, lvt, service, blocked, handling>>
  BY DEF Apic!Raise
<1>2. \A src : Apic!Gsi(src)' = Apic!Gsi(src)
  BY <1>1, GsiStays
<1>3. step \in Early \cup {"mask"} => v = FirmwareVector
  BY DEF ApicInv, EntriesInv
<1>4. step \in MaskedSteps => \E src \in Conn(step) : Apic!Gsi(src) = p /\ v = Apic!Vector(src)
  <2> SUFFICES ASSUME step \in MaskedSteps PROVE \E src \in Conn(step) : Apic!Gsi(src) = p /\ v = Apic!Vector(src)
    OBVIOUS
  <2>1. PICK src \in Conn(step) : Apic!Gsi(src) = p /\ table[p] = Apic!RedirEntry(src)
    BY <1>1 DEF ApicInv, EntriesInv
  <2>2. table[p].vector = Apic!Vector(src)
    BY <2>1 DEF Apic!RedirEntry, Apic!IoRedirectionEntry
  <2> QED BY <2>1, <2>2
<1> HIDE DEF v
<1>5. DOMAIN from = {FirmwareVector} \cup {Apic!Vector(src) : src \in Apic!Sources}
  BY DEF ApicInv, RequestInv
<1>6. DOMAIN from' = DOMAIN from /\ \A w \in DOMAIN from : from'[w] = IF w = v THEN p ELSE from[w]
  BY <1>1
<1>7. ASSUME step \in MaskedSteps, NEW w, Known(w) \/ w = v PROVE Known(w)'
  <2>1. PICK src \in Conn(step) : Apic!Gsi(src) = p /\ v = Apic!Vector(src)
    BY <1>4, <1>7
  <2>2. v \in DOMAIN from
    BY <1>5, <2>1, ApicFacts
  <2>3. CASE w = v
    <3>1. from'[w] = p
      BY <1>6, <2>2, <2>3
    <3> QED BY <1>1, <1>2, <2>1, <2>3, <3>1 DEF Known, Apic!Vector, Apic!IrqBase
  <2>4. CASE w # v /\ w \in {FirmwareVector, Apic!ErrorVector}
    BY <2>4 DEF Known, Apic!ErrorVector
  <2>5. CASE w # v /\ w \notin {FirmwareVector, Apic!ErrorVector}
    <3>1. PICK s \in Conn(step) : w = Apic!Vector(s) /\ from[w] = Apic!Gsi(s)
      BY <1>7, <2>5 DEF Known
    <3>2. w \in DOMAIN from
      BY <1>5, <3>1, ApicFacts
    <3>3. from'[w] = from[w]
      BY <1>6, <2>5, <3>2
    <3> QED BY <1>1, <1>2, <3>1, <3>3 DEF Known, Apic!Vector, Apic!IrqBase
  <2> QED BY <2>3, <2>4, <2>5
<1>8. RequestInv'
  <2>1. step \in MaskedSteps => \A w \in request' : Known(w)'
    BY <1>1, <1>7 DEF ApicInv, RequestInv
  <2>2. step \in Early \cup {"mask"} => request' \subseteq {FirmwareVector, Apic!ErrorVector}
    BY <1>1, <1>3 DEF ApicInv, RequestInv
  <2>3. step \in {"timer", "timer and keyboard"} => handling = Apic!None \/ Known(handling)'
    <3>1. step \in {"timer", "timer and keyboard"} => step \in MaskedSteps
      BY DEF MaskedSteps
    <3>2. step \in MaskedSteps /\ Known(handling) => Known(handling)'
      BY <1>1, <1>7 DEF Known
    <3> QED BY <3>1, <3>2 DEF ApicInv, RequestInv
  <2> QED BY <1>1, <1>5, <1>6, <2>1, <2>2, <2>3 DEF ApicInv, RequestInv, Apic!Vector, Apic!IrqBase, Apic!Sources
<1> QED BY <1>1, <1>8, MadtKept, EntriesStay DEF ApicInv

\* So is one of the local APIC's own.
LEMMA RaiseLocalKeeps == ASSUME ApicInv, NEW reg \in Apic!LocalReg, Apic!RaiseLocal(reg) PROVE ApicInv'
<1> DEFINE v == lvt[reg].vector
<1>1. /\ ~lvt[reg].disabled /\ lvt[reg].delivery # "Nmi" /\ request' = request \cup {v}
      /\ UNCHANGED <<madt, entry, int_src_overrides, step, table, lvt, service, blocked, handling, from>>
  BY DEF Apic!RaiseLocal
<1>2. v \in {FirmwareVector, Apic!ErrorVector}
  BY <1>1 DEF ApicInv, EntriesInv
<1> HIDE DEF v
<1>3. \A w : (Known(w) \/ w = v) => Known(w)'
  <2>1. \A src : Apic!Gsi(src)' = Apic!Gsi(src)
    BY <1>1, GsiStays
  <2> QED BY <1>1, <1>2, <2>1 DEF Known, Apic!Vector, Apic!IrqBase, Apic!ErrorVector
<1>4. RequestInv'
  BY <1>1, <1>2, <1>3 DEF ApicInv, RequestInv
<1> QED BY <1>1, <1>4, MadtKept, EntriesStay DEF ApicInv

\* A request that is known is handled.
LEMMA AcceptKeeps == ASSUME ApicInv, Apic!Accept PROVE ApicInv'
<1>1. PICK v \in request : handling' = v /\ request' = request \ {v} /\ service' = service \cup {v}
  BY DEF Apic!Accept
<1>2. /\ step \in MasksHold \cup {"timer", "timer and keyboard"} /\ ~blocked /\ handling = Apic!None
      /\ UNCHANGED <<madt, entry, int_src_overrides, step, table, lvt, blocked, from>>
  BY DEF Apic!Accept, MasksHold
<1>3. /\ step \in {"timer", "timer and keyboard"} /\ step \in MaskedSteps /\ step \in LocalSteps
      /\ step \notin Early /\ step \notin MasksHold /\ step \notin {"mask", "local"}
  BY <1>2 DEF ApicInv, RequestInv, MasksHold, MaskedSteps, LocalSteps, Early
<1>4. Known(v) /\ service = {} /\ \A w \in request : Known(w)
  BY <1>2, <1>3 DEF ApicInv, RequestInv
<1>5. v # Apic!None
  <2>1. CASE v \in {FirmwareVector, Apic!ErrorVector}
    BY <2>1, ApicFacts
  <2>2. CASE \E src \in Conn(step) : v = Apic!Vector(src)
    <3>1. v \in {32, 33}
      BY <2>2, ApicFacts
    <3> QED BY <3>1, ApicFacts
  <2> QED BY <1>4, <2>1, <2>2 DEF Known
<1>6. \A w : Known(w) => Known(w)'
  <2>1. \A src : Apic!Gsi(src)' = Apic!Gsi(src)
    BY <1>2, GsiStays
  <2> QED BY <1>2, <2>1 DEF Known, Apic!Vector, Apic!IrqBase, Apic!ErrorVector
<1>7. RequestInv'
  <2>1. DOMAIN from' = {FirmwareVector} \cup {Apic!Vector(src) : src \in Apic!Sources}
    BY <1>2 DEF ApicInv, RequestInv
  <2>2. service' = IF handling' = Apic!None THEN {} ELSE {handling'}
    BY <1>1, <1>4, <1>5
  <2>3. \A w \in request' : Known(w)'
    BY <1>1, <1>4, <1>6
  <2>4. Known(handling)'
    BY <1>1, <1>4, <1>6 DEF Known
  <2> QED BY <1>2, <1>3, <2>1, <2>2, <2>3, <2>4 DEF RequestInv, Apic!None
<1> QED BY <1>2, <1>7, MadtKept, EntriesStay DEF ApicInv

\* A handler returns.
LEMMA IsrKeeps == ASSUME ApicInv, Apic!IsrCommon PROVE ApicInv'
<1>1. /\ handling' = Apic!None /\ service' = Apic!Ended(service)
      /\ UNCHANGED <<madt, entry, int_src_overrides, step, table, lvt, request, blocked, from>>
  BY DEF Apic!IsrCommon
<1>2. handling \in Nat
  BY DEF Apic!IsrCommon, Apic!Vector, Apic!IrqBase, Apic!Sources, Apic!ErrorVector
<1>3. handling # Apic!None /\ step \notin Early \cup {"mask"} \cup MasksHold
  <2>1. handling # Apic!None
    BY <1>2, ApicFacts
  <2> QED BY <2>1 DEF ApicInv, RequestInv
<1>4. step \notin {"local", "mask"}
  BY <1>3 DEF Early
<1>5. step \in LocalSteps => service' = {}
  <2>1. step \in LocalSteps => service = {handling}
    BY <1>3 DEF ApicInv, RequestInv
  <2> QED BY <1>1, <1>2, <2>1, EndedOne
<1>6. \A w : Known(w) => Known(w)'
  <2>1. \A src : Apic!Gsi(src)' = Apic!Gsi(src)
    BY <1>1, GsiStays
  <2> QED BY <1>1, <2>1 DEF Known, Apic!Vector, Apic!IrqBase, Apic!ErrorVector
<1>7. RequestInv'
  <2>1. \A w \in request : step \in MaskedSteps => Known(w)'
    BY <1>6 DEF ApicInv, RequestInv
  <2> QED BY <1>1, <1>3, <1>4, <1>5, <2>1 DEF ApicInv, RequestInv, Apic!None
<1> QED BY <1>1, <1>7, MadtKept, EntriesStay DEF ApicInv

\* Or the machine halts.
LEMMA UnexpectedKeeps == ASSUME ApicInv, Apic!Unexpected PROVE ApicInv'
<1>1. /\ step' = "halted" /\ handling # Apic!None
      /\ UNCHANGED <<madt, entry, int_src_overrides, table, lvt, request, service, blocked, from>>
  BY DEF Apic!Unexpected
<1>2. /\ step' \notin Early /\ step' \notin LocalSteps /\ step' \notin MaskedSteps /\ step' \notin MasksHold
      /\ step' \notin {"mask", "local", "clear", "parse", "timer", "timer and keyboard"} /\ step' \in Places
  BY <1>1 DEF Early, LocalSteps, MaskedSteps, MasksHold, Places
<1>3. MadtInv'
  <2>1. step \notin Early
    BY <1>1 DEF ApicInv, RequestInv
  <2>2. step # "parse"
    BY <2>1 DEF Early
  <2> QED BY <1>1, <1>2, <2>2, MadtStays DEF ApicInv, MadtInv
<1>4. EntriesInv'
  <2>1. /\ DOMAIN table = Apic!Pins /\ \A p \in Apic!Pins : "disabled" \in DOMAIN table[p]
        /\ DOMAIN lvt = Apic!LocalReg /\ \A reg \in Apic!LocalReg : "disabled" \in DOMAIN lvt[reg]
        /\ \A reg \in Apic!LocalReg :
             lvt[reg].delivery # "Nmi" => lvt[reg].vector \in {FirmwareVector, Apic!ErrorVector}
    BY DEF ApicInv, EntriesInv
  <2>2. table' = table /\ lvt' = lvt
    BY <1>1
  <2> QED BY <1>2, <2>1, <2>2 DEF EntriesInv
<1>5. RequestInv'
  <2>1. DOMAIN from' = {FirmwareVector} \cup {Apic!Vector(src) : src \in Apic!Sources}
    BY <1>1 DEF ApicInv, RequestInv
  <2> QED BY <1>2, <2>1 DEF RequestInv
<1> QED BY <1>3, <1>4, <1>5 DEF ApicInv

\* Every step of the APICs, of the 8259s, or of neither.
LEMMA ApicKeeps == ASSUME ApicInv, [NextInterrupts]_all PROVE ApicInv'
<1>1. CASE Apic!Next
  BY <1>1, ParseKeeps, ChooseKeeps, EnableKeeps, ClearKeeps, MaskLocalKeeps, MaskEntriesKeeps, ConnectKeeps,
     UnmaskKeeps, RaiseKeeps, RaiseLocalKeeps, AcceptKeeps, IsrKeeps, UnexpectedKeeps DEF Apic!Next
<1>2. CASE UNCHANGED <<apic, from>>
  <2>1. UNCHANGED <<madt, entry, int_src_overrides, step, table, lvt, request, service, blocked, handling, from>>
    BY <1>2 DEF apic
  <2>2. \A src : Apic!Gsi(src)' = Apic!Gsi(src)
    BY <2>1, GsiStays
  <2>3. \A w : Known(w) => Known(w)'
    BY <2>1, <2>2 DEF Known, Apic!Vector, Apic!IrqBase, Apic!ErrorVector
  <2>4. Known(handling) => Known(handling)'
    BY <2>1, <2>3 DEF Known
  <2>5. RequestInv'
    BY <2>1, <2>3, <2>4 DEF ApicInv, RequestInv
  <2> QED BY <2>1, <2>5, MadtKept, EntriesStay DEF ApicInv
<1> QED BY <1>1, <1>2 DEF NextInterrupts, UseApic, UsePic, all

\* ParseMadt's overrides are what the firmware says, in the last place it says it.
LEMMA SaysIt ==
  ASSUME MadtInv, step # "parse", NEW src \in Apic!Sources
  PROVE  /\ Apic!Said(src) = int_src_overrides[src]
         /\ int_src_overrides[src].flags \in Nat
<1>1. SaidBy(Len(madt), src, int_src_overrides[src]) /\ DOMAIN madt = 1..Len(madt) /\ Len(madt) \in Nat
  <2>1. entry - 1 = Len(madt)
    BY DEF MadtInv
  <2> QED BY <2>1 DEF MadtInv
<1>2. Apic!Overrides(src) = {i \in 1..Len(madt) : Overriding(i, src)}
  BY <1>1 DEF Apic!Overrides, Overriding
<1>3. CASE \A i \in 1..Len(madt) : ~Overriding(i, src)
  <2>1. int_src_overrides[src] = Apic!Override(src, 0)
    BY <1>1, <1>3 DEF SaidBy
  <2>2. Apic!Said(src) = Apic!Override(src, 0)
    BY <1>2, <1>3 DEF Apic!Said
  <2> QED BY <2>1, <2>2 DEF Apic!Override
<1>4. CASE \E i \in 1..Len(madt) : Overriding(i, src)
  <2>1. PICK i \in 1..Len(madt) :
          /\ Overriding(i, src) /\ int_src_overrides[src] = Apic!Override(madt[i].gsi, madt[i].flags)
          /\ \A j \in 1..Len(madt) : Overriding(j, src) => j <= i
    BY <1>1, <1>4 DEF SaidBy
  <2> DEFINE last == CHOOSE j \in Apic!Overrides(src) : \A k \in Apic!Overrides(src) : k <= j
  <2>2. last \in Apic!Overrides(src) /\ \A k \in Apic!Overrides(src) : k <= last
    BY <1>2, <2>1
  <2>3. Apic!Said(src) = Apic!Override(madt[last].gsi, madt[last].flags)
    BY <1>2, <2>1 DEF Apic!Said
  <2> HIDE DEF last
  <2>4. last = i
    BY <1>1, <1>2, <2>1, <2>2
  <2>5. madt[i].flags \in Nat
    BY <1>1, <2>1, InterruptsAssumption DEF MadtInv, Overriding
  <2> QED BY <2>1, <2>3, <2>4, <2>5 DEF Apic!Override
<1> QED BY <1>3, <1>4

\* The invariant says what is routed.
LEMMA ApicRoutes == ASSUME ApicInv PROVE Apic!RoutesAsFirmwareSays
<1> SUFFICES ASSUME Apic!Said(0).gsi # Apic!Said(1).gsi, Apic!Attached # {}
             PROVE  /\ \A src \in Apic!Attached : Apic!Said(src).gsi \in Apic!Pins =>
                         table[Apic!Said(src).gsi] =
                           Apic!IoRedirectionEntry(FALSE, Apic!Vector(src), Apic!Said(src).flags % 4 = 3,
                                                   (Apic!Said(src).flags \div 4) % 4 = 3)
                    /\ \A p \in Apic!Pins : ~table[p].disabled => \E src \in Apic!Attached : Apic!Said(src).gsi = p
                    /\ \A reg \in Apic!LocalReg :
                         ~lvt[reg].disabled => lvt[reg].vector = Apic!ErrorVector \/ lvt[reg].delivery = "Nmi"
                    /\ handling \notin {Apic!None, FirmwareVector, Apic!ErrorVector} =>
                         /\ handling - Apic!IrqBase \in Apic!Attached
                         /\ from[handling] = Apic!Said(handling - Apic!IrqBase).gsi
                    /\ service = (IF handling = Apic!None THEN {} ELSE {handling})
  BY DEF Apic!RoutesAsFirmwareSays
<1>1. step \in {"timer", "timer and keyboard"}
  BY DEF Apic!Attached
<1>2. step \in MaskedSteps /\ step \in LocalSteps /\ step # "parse" /\ Apic!Attached = Conn(step)
  BY <1>1 DEF MaskedSteps, LocalSteps, Conn, Apic!Attached
<1>3. \A src \in {0, 1} : /\ Apic!Said(src) = int_src_overrides[src] /\ Apic!Said(src).gsi = Apic!Gsi(src)
                          /\ int_src_overrides[src].flags \in Nat
  BY <1>2, SaysIt, ApicFacts DEF ApicInv, Apic!Gsi
<1>4. Apic!Gsi(0) # Apic!Gsi(1) /\ Conn(step) \subseteq {0, 1}
  BY <1>3, ApicFacts
<1>5. ASSUME NEW src \in Apic!Attached, Apic!Said(src).gsi \in Apic!Pins
      PROVE  table[Apic!Said(src).gsi] =
               Apic!IoRedirectionEntry(FALSE, Apic!Vector(src), Apic!Said(src).flags % 4 = 3,
                                       (Apic!Said(src).flags \div 4) % 4 = 3)
  <2>1. src \in Conn(step) /\ src \in {0, 1}
    BY <1>2, <1>4
  <2>2. table[Apic!Gsi(src)] = Apic!RedirEntry(src)
    BY <1>2, <1>3, <1>4, <1>5, <2>1 DEF ApicInv, EntriesInv
  <2> DEFINE f == int_src_overrides[src].flags
  <2>3. (f \div 1) % 4 = f % 4
    BY <1>3, <2>1
  <2>4. Apic!RedirEntry(src) = Apic!IoRedirectionEntry(FALSE, Apic!Vector(src), f % 4 = 3, (f \div 4) % 4 = 3)
    BY <2>3 DEF Apic!RedirEntry, Apic!Both
  <2> QED BY <1>3, <2>1, <2>2, <2>4
<1>6. \A p \in Apic!Pins : ~table[p].disabled => \E src \in Apic!Attached : Apic!Said(src).gsi = p
  BY <1>2, <1>3, <1>4 DEF ApicInv, EntriesInv
<1>7. \A reg \in Apic!LocalReg : ~lvt[reg].disabled => lvt[reg].vector = Apic!ErrorVector \/ lvt[reg].delivery = "Nmi"
  BY <1>2 DEF ApicInv, EntriesInv
<1>8. ASSUME handling \notin {Apic!None, FirmwareVector, Apic!ErrorVector}
      PROVE  /\ handling - Apic!IrqBase \in Apic!Attached
             /\ from[handling] = Apic!Said(handling - Apic!IrqBase).gsi
  <2>1. PICK src \in Conn(step) : handling = Apic!Vector(src) /\ from[handling] = Apic!Gsi(src)
    BY <1>1, <1>8 DEF ApicInv, RequestInv, Known
  <2>2. handling - Apic!IrqBase = src
    <3>1. src \in {0, 1}
      BY <1>4
    <3> QED BY <2>1, <3>1, ApicFacts
  <2> QED BY <1>2, <1>3, <1>4, <2>1, <2>2
<1>9. service = (IF handling = Apic!None THEN {} ELSE {handling})
  BY <1>2 DEF ApicInv, RequestInv
<1> QED BY <1>5, <1>6, <1>7, <1>8, <1>9

\* Once interrupts are unmasked, each device's line as the firmware's last word
\* describes it, and no other, is routed, whatever the MADT, the pins, and what
\* the firmware has left enabled or in service.
THEOREM RoutesAlwaysAsFirmwareSays == SpecInterrupts => []RoutesAsFirmwareSays
<1>1. InitInterrupts => ApicInv
  BY ApicInit DEF InitInterrupts
<1>2. ApicInv /\ [NextInterrupts]_all => ApicInv'
  BY ApicKeeps
<1>3. ApicInv => RoutesAsFirmwareSays
  BY ApicRoutes DEF RoutesAsFirmwareSays
<1> QED BY <1>1, <1>2, <1>3, PTL DEF SpecInterrupts
=============================================================================
