\* Two workers that rebuild, and the window thread.
SPECIFICATION Spec
CONSTANTS
  Window = window
  Workers = {w1, w2}
  Operations = {"rebuild"}
  Objects = {1, 2, 3, 4}
SYMMETRY Symmetry
INVARIANTS
  FlagHasOwner
  JobIsProtected
  JobsExclusive
  QuitSparesJobs
PROPERTIES
  CancelSticks
CHECK_DEADLOCK FALSE
