SPECIFICATION Spec
CONSTANTS
    KernelThreads = {k1, k2}
    UserThreads = {}
    Idle = idle
    Boot = boot
    NoThread = none
    Quantum = 2
    Delays = {3}
    Epoch = 2
PROPERTIES
    StillWaitingIsKept
