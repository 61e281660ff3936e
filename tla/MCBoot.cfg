SPECIFICATION SpecBoot
CONSTANTS
    Fanout = 4
    PoolSizes = {3, 4, 5, 6, 7, 8, 9, 10, 11, 12, 13, 14, 15, 16, 17, 18, 19}
    Outside = 100
    Image = {128, 129}
    KernelPt = {130, 131, 132, 133, 134, 135, 136, 137, 138, 139, 140, 141, 142, 143, 144, 145, 146, 147, 148}
    Devices = {149, 150}
    FrameBuffer = {151}
    KernelPool = {152}
    Uefi = {153, 154}
    BackBuffer = {155, 156}
    UserCode = 61
    UserStack = 62
    Runtime = {0, 1}
    MaxDevices = 3
    None = None
    NPages = 4
    Spare = 1
    Base = 153
    Files <- MCFiles
    AcpiTables <- MCTables
    MaxTables = 3
INVARIANTS
    KernelIsWhole
    ReturnsInOrder
    MapDescribesMemory
    RuntimeIsWhereTold
    TablesFormTree
    UserPagesAreOwn
PROPERTIES
    MappingsAreStable
CHECK_DEADLOCK FALSE
