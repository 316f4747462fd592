SPECIFICATION Spec
CONSTANTS
    Settings <- OnlyLimited
    Changing = {}
    KeyLengths = {1, 2}
    Chunks <- FlowAndPackets
    May = {"transfer"}
    MaxKeys = 2
    MaxReplies = 0
    MaxPackets = 2
CHECK_DEADLOCK FALSE
PROPERTIES
    KeysKeptOut
