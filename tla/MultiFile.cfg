SPECIFICATION Spec
CONSTANTS
  Cells = 3
  MaxPck = 3
  DetectSize = 1
  StepSize = 2
  TailSize = 2
  Chunks = {1, 3}
  MaxAddress = 10
  MaxJobs = 3
  SpaceMayLack = TRUE
  EditsMayCross = FALSE
INVARIANTS TypeOK ReadBack NeverRefused
PROPERTIES EndsExact
CHECK_DEADLOCK FALSE
