\* One worker and every operation: what the window thread may wait for.
SPECIFICATION FairSpec
CONSTANTS
  Window = window
  Workers = {w1}
  Operations = {"extract", "update", "new", "strip", "rebuild", "rename", "delete"}
  Objects = {1, 2, 3}
INVARIANTS
  TypeOK
PROPERTIES
  WindowAnswers
CHECK_DEADLOCK FALSE
