\* All operations on one archive, crashes, cancellation, everything may fail.
SPECIFICATION Spec
CONSTANTS
  Names = {a, b}
  Folders = {}
  Files = {"x.pck"}
  Operations = {"update", "new", "delete", "rename", "info"}
  MayFail = {"open", "index", "tail", "head"}
  UserMayCancel = TRUE
  MaxJobs = 4
INVARIANTS
  HandleMatchesFile
PROPERTIES
  OnlyInPlaceBreaks
  DataNeverOverwritten
