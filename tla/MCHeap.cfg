SPECIFICATION Spec
CONSTANTS
    Threads = {t1, t2, t3, t4}
    Printers = {t1, t2, t3}
    Exiters = {t4}
    NBlocks = 14
    WordBits = 4
    SizeOf <- SmallSizes
    MaxMessages = 3
SYMMETRY PrinterSymmetry
CHECK_DEADLOCK FALSE
INVARIANTS
    LiveMemoryIsKept
