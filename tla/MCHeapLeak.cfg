SPECIFICATION Spec
CONSTANTS
    Threads = {t1, t2, t3}
    Printers = {t1}
    Exiters = {t2, t3}
    NBlocks = 18
    WordBits = 4
    SizeOf <- Sizes
    MaxMessages = 2
SYMMETRY PrinterSymmetry
CHECK_DEADLOCK FALSE
INVARIANT MarkedIsOwned
