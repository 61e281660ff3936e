SPECIFICATION Spec
CONSTANTS
    TickPeriods = {0, 2}
    Second = 20
    Hz = 2
    CounterBits = 5
    Periods = {0, 5}
    Divisor = 1193
INVARIANTS
    TicksRegularly
CHECK_DEADLOCK FALSE
