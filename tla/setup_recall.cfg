SPECIFICATION MCSpec
CONSTANTS
  Narrow = 3
  Wide = 5
  Unlisted = {"14400"}
  Messages <- MCMessages
  Courses <- MCRecalled
  Visited <- MCVisited
  Told <- MCTold
  Inputs <- MCInputs
  KeysAfter = 2
CHECK_DEADLOCK FALSE
PROPERTY RecallReturnsAll
