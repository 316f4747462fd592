SPECIFICATION MCSpec
CONSTANTS
    NumberSpan = 6
    MaxCredit = 3
    Regrant = 2
    Window = 2
    GapPatience = 2
    SlotsPerMessage = 2
    MaxSlot = 1
    RetransmitLimit = 1
    Ours = "us"
    Unnamed = "none"
    Identifiers = {"us", "host", "other", "none"}
    Bytes = {"t"}
    Inbound <- MCInbound
    Typing <- MCTyping
    MaxTyped = 2
    MaxKept = 1
    MaxAllowance = 0
    MaxForced = 1
    RetransmitAfter = 1
    HoldAfter = 2
    KeepaliveAfter = 2
    DeadAfter = 9
    AgreeWait = 3
    CallAgain = 2
    HostKeepalive = 3
    SocketRoom = 2
    MaxLost = 1
    MaxSaid = 1
    MaxWritten = 1
CHECK_DEADLOCK FALSE
INVARIANTS SessionSound KeptInOrder TypingInsideWindow CreditAboveLowMark CircuitOwed SilenceIsJudged
PROPERTIES NeverUndone
