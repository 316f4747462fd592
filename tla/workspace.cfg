SPECIFICATION FairSpec
CONSTANT Courses <- MCCourses
CHECK_DEADLOCK FALSE
INVARIANTS WindowSound
PROPERTIES LaterOnesKept EndIsShown
