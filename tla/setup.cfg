SPECIFICATION MCSpec
CONSTANTS
  Narrow = 3
  Wide = 5
  Unlisted = {"14400"}
  Messages <- MCMessages
  Courses <- MCCourses
  Visited <- MCVisited
  Told <- MCTold
  Inputs <- MCInputs
  KeysAfter = 2
CHECK_DEADLOCK FALSE
INVARIANTS LineAsShown SetUpSound SavedAndKept
PROPERTIES VisitHarmless CarrierTimed
