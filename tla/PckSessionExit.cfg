\* Exit while a job runs, confirmed.
SPECIFICATION FairSpec
CONSTANTS
  Window = window
  Workers = {w1}
  Operations = {"extract"}
  Objects = {1, 2, 3}
PROPERTIES
  ExitHappens
CHECK_DEADLOCK FALSE
