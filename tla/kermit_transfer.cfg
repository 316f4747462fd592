SPECIFICATION MCSpec
CONSTANTS
    Sides = {"left", "right"}
    Castings <- MCCastings
    Agreements <- MCAgreements
    Files <- MCFiles
    Setting = "text"
    Span = 8
    Retries = 2
    ShortRoom = 3
    LongRoom = 8
    FirstSize = 4
    LeastSize = 2
    MaxTrouble = 2
    MaxCancels = 2
    WireRoom = 2
    MaxCount = 18
    Exchanges <- MCExchanges
    Noises <- MCNoises
    Spoils <- MCSpoils
INVARIANTS FolderSound PacketsSound
PROPERTIES KeepsPromise EndsWell
