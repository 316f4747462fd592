SPECIFICATION Spec
CONSTANTS
    NumberSpan = 12
    MaxCredit = 3
    Regrant = 3
    Window = 2
    GapPatience = 2
    SlotsPerMessage = 2
    MaxSlot = 1
    RetransmitLimit = 1
    Ours = "us"
    Unnamed = "none"
    HostWindow = 2
    Grants = {0, 1}
    WireRoom = 6
    MaxKeys = 2
    MaxTexts = 2
    MaxLosses = 1
    Endings = {}
    Patient = TRUE
CHECK_DEADLOCK FALSE
INVARIANTS
    NoIdleCredit
