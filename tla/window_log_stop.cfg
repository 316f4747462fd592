SPECIFICATION Spec
CONSTANTS
    MaxText = 3
    MaxLogs = 1
CHECK_DEADLOCK FALSE
INVARIANTS
    StopWritesAllShown
