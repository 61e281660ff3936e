SPECIFICATION FairSpec
CONSTANTS
    KernelThreads = {k1}
    UserThreads = {u1}
    Idle = idle
    Boot = boot
    NoThread = none
    Quantum = 2
    Delays = {0, 3}
    Epoch = 2
PROPERTIES
    NoStarvation
    YieldReturns
    ExitCompletes
