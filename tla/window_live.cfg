SPECIFICATION FairSpec
CONSTANTS
    Settings <- Either
    Changing = {}
    KeyLengths = {1, 2}
    Chunks <- FlowAndPackets
    May = {"hold", "close", "transfer"}
    MaxKeys = 1
    MaxReplies = 0
    MaxPackets = 1
CHECK_DEADLOCK FALSE
PROPERTIES KeysGoOut ThreadsEnd
