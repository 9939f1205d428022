\* Adding, renaming, deleting, rebuilding and opening the result, four operations.  No
\* rename gives a file the name of a folder or the reverse: the code does not check that,
\* and MountsAgain and TreeShowsAll do not hold with RenamesMayClash = TRUE.
SPECIFICATION Spec
CONSTANTS
  Parts = {"a", "b"}
  PartSize <- MCPartSize
  MAX_PATH_PCK_256 = 7
  SizeModulus = 64
  AddedNames <- MCAddedNames
  SearchNames <- MCSearchNames
  DataSizes = {1}
  Scripts <- MCScripts
  Textures <- MCTextures
  AddressModulus = 16
  RenamesMayClash = FALSE
  UserMayCancel = TRUE
  MaxEntries = 4
  MaxJobs = 4
INVARIANTS
  TypeOK
  MountsAgain
  TreeShowsAll
  RebuiltWhole
  ExtractedInPlace
PROPERTIES
  HandleUnchanged
  NamesFit
CHECK_DEADLOCK FALSE
