SPECIFICATION Spec
CONSTANTS
    NumberSpan = 12
    MaxCredit = 3
    Regrant = 3
    Window = 2
    GapPatience = 2
    SlotsPerMessage = 2
    MaxSlot = 1
    RetransmitLimit = 1
    Ours = "us"
    Unnamed = "none"
    HostWindow = 2
    Grants = {1}
    WireRoom = 6
    MaxKeys = 2
    MaxTexts = 2
    MaxLosses = 1
    Endings = {"end", "drop", "stop"}
    Patient = TRUE
CHECK_DEADLOCK FALSE
INVARIANTS NothingIsLost CreditsReckoned
PROPERTIES DeliversInOrder
