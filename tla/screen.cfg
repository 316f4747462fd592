SPECIFICATION MCSpec
CONSTANTS
  Narrow = 4
  Wide = 6
  Lengths <- MCLengths
  PagesFor <- MCPagesFor
  Heights <- MCHeights
  TabWidth = 2
  BellGap = 2
  ScrollMax = 1
  SetUps <- MCSetUps
  NotSaved = NotSaved
  Repertoires <- MCRepertoires
  MaxSteps = 5
  CharStarts <- MCCharStarts
  Downloads <- MCDownloads
  Renditions <- MCRenditions
  Givings <- MCGivings
  Strays <- MCStrays
CHECK_DEADLOCK FALSE
INVARIANTS ScreenSound RunPrintsTheSame CharactersSound
PROPERTY AsideKept
