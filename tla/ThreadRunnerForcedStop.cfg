\* The user cancels a job that adds files; nothing else goes wrong.
SPECIFICATION FairSpec
CONSTANTS
  Compressors = {c1, c2}
  Writer = w
  Source = "DATA_FROM_FILE"
  NEntries = 4
  Clear <- MCClear
  Bound <- MCBound
  Packed <- MCPacked
  Stored <- MCStored
  Inflated <- MCClear
  Invalid = {}
  NoZlibHeader = {}
  NoCompress = 1
  ShrinkLimit = 2
  MaxMemory = 40
  MemModulus = 64
  MallocRetries = 1
  StartAt = 12
  UnreadableFiles = {}
  MallocMayFail = FALSE
  WriteMayFail = FALSE
  UserMayCancel = TRUE
PROPERTIES
  ForcedStopEnds
CHECK_DEADLOCK FALSE
