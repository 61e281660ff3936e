------------------------------- MODULE Timer -------------------------------
(****************************************************************************)
(* timer::Initialize (hw/timer/timer.cc) and the HPET's timer 0 afterwards, *)
(* which works as the comment in hpet::Initialize says: with                *)
(* TmrSetAccumulator set, one write of the comparator sets a deadline, the  *)
(* next one the period.  Where there is no HPET or none that is periodic,   *)
(* the PIT is programmed; it counts by itself from then on.                 *)
(****************************************************************************)
EXTENDS Integers

CONSTANTS TickPeriods,     \* what tick_period may be; 0 for none
          Second,          \* a second in the unit of tick_period, 10^15 femtoseconds
          Hz,              \* hz
          CounterBits,     \* 64
          Divisor,         \* the PIT's, of 16 bits
          Periods          \* what a reset or the firmware has left for a period

VARIABLES hpet,      \* the device: its address is known, it can be periodic, tick_period
          step, device,     \* how far Initialize has come; the timer it has chosen
          enabled, counter, comparator,
          accumulates,      \* TmrSetAccumulator: the next write is for the deadline
          period,
          pit,              \* the PIT's channel 0
          ticks, last       \* ticks; history: counter at the last one, or at the start
vars == <<hpet, step, device, enabled, counter, comparator, accumulates, period, pit, ticks, last>>

\* hpet::Registers as far as they are read: the address, if there is one, the
\* timer's TmrPeriodicSupport, and tick_period.
Registers == [address : BOOLEAN, periodic : BOOLEAN, tick_period : TickPeriods]

\* What the ports of the PIT are given.
ControlWord == [mode |-> "RateGenerator", access |-> "LowHigh"]
Programmed(word, first, second) ==
    [mode |-> word.mode,
     divisor |-> IF word.access = "LowHigh" THEN first + 256 * second ELSE first]

TicksPerInterrupt == (Second \div hpet.tick_period) \div Hz

Usable == hpet.address /\ hpet.tick_period # 0 /\ hpet.periodic

\* hpet::Initialize, or else pit::Initialize.
Choose ==
    /\ step = "choose"
    /\ IF Usable THEN step' = "reset" /\ device' = "hpet" ELSE step' = "pit" /\ device' = "pit"
    /\ UNCHANGED <<hpet, enabled, counter, comparator, accumulates, period, pit, ticks, last>>

\* The control word, and the divisor's bytes, lower one first.
InitializePit ==
    /\ step = "pit" /\ step' = "running"
    /\ pit' = Programmed(ControlWord, Divisor % 256, Divisor \div 256)
    /\ UNCHANGED <<hpet, device, enabled, counter, comparator, accumulates, period, ticks, last>>

\* Halted, zeroed, periodic.
ResetTimer ==
    /\ step = "reset" /\ step' = "program"
    /\ enabled' = FALSE /\ counter' = 0 /\ accumulates' = TRUE
    /\ UNCHANGED <<hpet, device, comparator, period, pit, ticks, last>>

\* The one write of the comparator.
WriteComparator ==
    /\ step = "program" /\ step' = "start"
    /\ IF accumulates THEN comparator' = TicksPerInterrupt /\ UNCHANGED period
       ELSE period' = TicksPerInterrupt /\ UNCHANGED comparator
    /\ accumulates' = FALSE
    /\ UNCHANGED <<hpet, device, enabled, counter, pit, ticks, last>>

Start ==
    /\ step = "start" /\ step' = "running"
    /\ enabled' = TRUE /\ last' = 0
    /\ UNCHANGED <<hpet, device, counter, comparator, accumulates, period, pit, ticks>>

\* The counter meets the deadline: timer::Isr.
Count ==
    /\ step = "running" /\ device = "hpet" /\ enabled
    /\ counter' = (counter + 1) % 2 ^ CounterBits
    /\ IF counter' = comparator
       THEN /\ comparator' = (comparator + period) % 2 ^ CounterBits
            /\ ticks' = ticks + 1 /\ last' = counter'
       ELSE UNCHANGED <<comparator, ticks, last>>
    /\ UNCHANGED <<hpet, step, device, enabled, accumulates, period, pit>>

\* The firmware may have left the counter running.
Init ==
    /\ hpet \in Registers
    /\ step = "choose" /\ device = "none"
    /\ enabled \in BOOLEAN /\ counter = 0 /\ comparator = 0 /\ accumulates = FALSE
    /\ period \in Periods
    /\ pit = [mode |-> "firmware's", divisor |-> 0]
    /\ ticks = 0 /\ last = 0

Next == Choose \/ InitializePit \/ ResetTimer \/ WriteComparator \/ Start \/ Count

Spec == Init /\ [][Next]_vars
-----------------------------------------------------------------------------
(* Properties.                                                              *)

\* "the second sets the period added after each interrupt" (timer.cc:74): once
\* the HPET runs, it is never longer than ticks_per_interrupt from one tick to
\* the next.
TicksRegularly ==
    device = "hpet" /\ step = "running" => (counter - last) % 2 ^ CounterBits <= TicksPerInterrupt
=============================================================================
