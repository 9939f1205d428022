\* Adding files: crashes, cancellation, failed openings, tails and heads, clashes.
SPECIFICATION Spec
CONSTANTS
  Names = {a, b, c}
  Folders = {c}
  Files = {"x.pck"}
  Operations = {"update"}
  MayFail = {"open", "tail", "head"}
  UserMayCancel = TRUE
  MaxJobs = 3
INVARIANTS
  TypeOK
PROPERTIES
  AddingIsAtomic
