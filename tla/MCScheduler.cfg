SPECIFICATION Spec
CONSTANTS
    KernelThreads = {k1}
    UserThreads = {u1, u2}
    Idle = idle
    Boot = boot
    NoThread = none
    Quantum = 2
    Delays = {0, 3}
    Epoch = 2
INVARIANTS
    IInv
    InterruptibleIsCurrent
    ContextsAreOwn
    StacksAreOwn
    RingIsLive
PROPERTIES
    WaitingThreadAdvances
    SharesProcessor
