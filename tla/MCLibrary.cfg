SPECIFICATION SpecLibrary
CONSTANTS
    NLines = 3
    Columns = 3
    TabCells = 2
    Glyphs = {a}
    Small = 4
    Large = 7
    IntBits = 4
    LongLongBits = 7
    MaxItems = 3
    Items <- MCItems
    Codes = {65, 97, 98, 200}
    MaxLength = 3
    Entries = {t1, t2, t3, t4}
    Null = null
    Objects = {o1, o2}
    Blocks = {b1, b2}
    Letters = {x, y}
    LocalCap = 2
    MaxText = 2
    MaxReserve = 3
    Zero = zero
    Junk = junk
    None = none
    Bytes = {65, 130, 195, 226, 240, 255}
    MaxBytes = 4
    Sayings <- MCSayings
    Characters <- MCCharacters
    Shapes <- MCShapes
    Width = 5
    Height = 4
INVARIANTS
    ShowsMessage
    StaysInBuffer
    AgreesWithReference
    BuffersHaveOneOwner
    HoldsText
    PrintsText
PROPERTIES
    ShowsTerminal
    KeepsSequence
SYMMETRY LibrarySymmetry
CHECK_DEADLOCK FALSE
