SPECIFICATION Spec
CONSTANTS
    Settings <- Either
    Changing = {"flow", "online"}
    KeyLengths = {1, 2}
    Chunks <- FlowAndAsking
    May = {"hold", "setup", "close"}
    MaxKeys = 2
    MaxReplies = 1
    MaxPackets = 0
CHECK_DEADLOCK FALSE
INVARIANTS LineWhole NothingWaitsUnstopped OneWriteAfterXoff
