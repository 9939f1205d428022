\* A rebuild with a script that parses and names what is in the archive.
SPECIFICATION Spec
CONSTANTS
  Parts = {"a", "b"}
  PartSize <- MCPartSize
  MAX_PATH_PCK_256 = 7
  SizeModulus = 64
  AddedNames <- MCAddedNames
  SearchNames <- MCSearchNames
  DataSizes = {1}
  Scripts <- MCScripts
  Textures <- MCTextures
  AddressModulus = 16
  RenamesMayClash = FALSE
  UserMayCancel = FALSE
  MaxEntries = 4
  MaxJobs = 2
INVARIANTS
  ScriptApplied
CHECK_DEADLOCK FALSE
