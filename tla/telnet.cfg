SPECIFICATION FairSpec
CONSTANT Courses <- MCCourses
CHECK_DEADLOCK FALSE
INVARIANTS BothAgree TextUnchanged
PROPERTIES Settles
