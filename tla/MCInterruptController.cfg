SPECIFICATION SpecInterrupts
CONSTANTS
    Lines = {0, 1, 7, 8, 12, 15}
    PinCount = 3
    FirmwareVector = 64
    MaxEntries = 3
    Entries <- MCEntries
INVARIANTS
    RoutesAsFirmwareSays
PROPERTIES
    SpuriousIsTold
    ForemostIsServed
CHECK_DEADLOCK FALSE
