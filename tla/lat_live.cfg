SPECIFICATION FairSpec
CONSTANTS
    NumberSpan = 12
    MaxCredit = 2
    Regrant = 3
    Window = 2
    GapPatience = 2
    SlotsPerMessage = 2
    MaxSlot = 1
    RetransmitLimit = 2
    Ours = "us"
    Unnamed = "none"
    HostWindow = 2
    Grants = {0}
    WireRoom = 6
    MaxKeys = 1
    MaxTexts = 2
    MaxLosses = 1
    Endings = {"die"}
    Patient = TRUE
CHECK_DEADLOCK FALSE
PROPERTIES TypingArrives HostIsHeard
