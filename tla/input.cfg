SPECIFICATION MCSpec
CONSTANTS
  MaxParams = 2
  MaxValue = 42
  MaxIntermediates = 2
  DcsLimit = 6
  Slots = 2
  MacroMemory = 6
  MaxDepth = 2
  Width = 2
  Hosts <- MCHosts
  UserActs = TRUE
  Words <- MCWords
  MaxSteps = 4
  KeyMemory = 12
  UdkCapacity = 4
  LongestUds = 4
  KeyStarts <- MCKeyStarts
  Presses <- MCPresses
  Loads <- MCLoads
  UdkLoads <- MCUdkLoads
  Edits <- MCEdits
  MaxKeySteps = 2
CHECK_DEADLOCK FALSE
INVARIANTS HoweverItComes TakenWhole KeysSound
