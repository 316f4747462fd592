SPECIFICATION Spec
CONSTANTS
    NumberSpan = 12
    MaxCredit = 2
    Regrant = 6
    Window = 2
    GapPatience = 1
    SlotsPerMessage = 2
    MaxSlot = 1
    RetransmitLimit = 2
    Ours = "us"
    Unnamed = "none"
    HostWindow = 2
    Grants = {0, 1}
    WireRoom = 6
    MaxKeys = 0
    MaxTexts = 3
    MaxLosses = 2
    Endings = {}
    Patient = TRUE
CHECK_DEADLOCK FALSE
INVARIANTS
    HostMaySpeak
