SPECIFICATION SpecDevices
CONSTANTS
    MaxKeys = 3
    MaxResends = 3
    Keys = {"left_shift", "right_shift", "right_ctrl", "caps", "letter", "arrow", "pause"}
    Buffer = 5
    Texts = {a, b}
    MaxSent = 2
INVARIANTS
    ValidKeyboardScans
    RepliesAreNotHandled
    QuietKeyboardIsFound
    SendsText
PROPERTIES
    PrintsWhatIsTyped
CHECK_DEADLOCK FALSE
