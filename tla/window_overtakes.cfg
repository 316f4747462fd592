SPECIFICATION Spec
CONSTANTS
    Settings <- OnlyLimited
    Changing = {"limited"}
    KeyLengths = {1, 2}
    Chunks <- Flow
    May = {"setup"}
    MaxKeys = 2
    MaxReplies = 0
    MaxPackets = 0
CHECK_DEADLOCK FALSE
INVARIANTS
    NothingOvertakes
