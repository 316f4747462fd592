SPECIFICATION Spec
CONSTANTS
    MaxText = 5
    MaxLogs = 3
CHECK_DEADLOCK FALSE
INVARIANTS LogsWhole
