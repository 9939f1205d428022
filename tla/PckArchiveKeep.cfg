\* Adding files that all get stored, two archives, crashes.
SPECIFICATION Spec
CONSTANTS
  Names = {a, b}
  Folders = {}
  Files = {"x.pck", "y.pck"}
  Operations = {"update"}
  MayFail = {"tail", "head"}
  UserMayCancel = FALSE
  MaxJobs = 3
INVARIANTS
  DataIsThere
  NoDuplicates
PROPERTIES
  EntriesKept
