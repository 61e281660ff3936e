SPECIFICATION SpecProcessor
CONSTANTS
    UserThreads = {u1, u2}
    KernelThreads = {k1, k2}
INVARIANTS
    KernelFindsCore
    UserHasOwnBase
    ParanoidIsTransparent
    EverySelectorLoads
    FramesTellRing
    UsedWhilePresent
CHECK_DEADLOCK FALSE
