SPECIFICATION Spec
CONSTANTS
    Fanout = 4
    PoolSizes = {19}
    Outside = 100
    Image = {128, 129}
    KernelPt = {130, 131, 132, 133, 134, 135, 136, 137, 138, 139, 140, 141, 142, 143, 144, 145, 146, 147, 148}
    Devices = {149, 150}
    FrameBuffer = {151}
    KernelPool = {152}
    Uefi = {153, 154}
    BackBuffer = {155, 156}
    UserCode = 61
    UserStack = 62
    Runtime = {0, 1, 2}
    MaxDevices = 3
    None = None
INVARIANT
    BackBufferHoldsItself
CHECK_DEADLOCK FALSE
