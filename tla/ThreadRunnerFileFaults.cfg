\* Adding files, everything may fail and the user may cancel.  The writer may
\* wait for ever then (ForcedStopEnds), so deadlock is not checked.
SPECIFICATION Spec
CONSTANTS
  Compressors = {c1, c2}
  Writer = w
  Source = "DATA_FROM_FILE"
  NEntries = 4
  Clear <- MCClear
  Bound <- MCBound
  Packed <- MCPacked
  Stored <- MCStored
  Inflated <- MCClear
  Invalid = {}
  NoZlibHeader = {}
  NoCompress = 1
  ShrinkLimit = 2
  MaxMemory = 4
  MemModulus = 64
  MallocRetries = 1
  StartAt = 12
  UnreadableFiles = {1, 3}
  MallocMayFail = TRUE
  WriteMayFail = TRUE
  UserMayCancel = TRUE
INVARIANTS
  TypeOK
  PublishedLaidOut
  PublishedStored
  PublishedOnce
  PublishedComplete
  WaitersAnnounced
PROPERTIES
  DiskGrowsAtEnd
  KeepsPromise
CHECK_DEADLOCK FALSE
