\* Recompressing an archive with an invalid and a damaged entry, with views and writes that
\* fail and cancellation.  Compressors wait for memory.  The budget is the smallest that
\* suffices (BudgetSuffices): with MaxMemory = 20 the two of them may wait for each other
\* for ever.  Finishes is about budgets that suffice, and about no smaller ones.
SPECIFICATION FairSpec
CONSTANTS
  Compressors = {c1, c2}
  Writer = w
  Source = "DATA_FROM_PCK"
  NEntries = 5
  Clear <- MCClearPck
  Bound <- MCBoundPck
  Packed <- MCPackedPck
  Stored <- MCStoredPck
  Inflated <- MCInflatedPck
  Invalid = {2}
  NoZlibHeader = {}
  NoCompress = 1
  ShrinkLimit = 2
  MaxMemory = 21
  MemModulus = 64
  MallocRetries = 1
  StartAt = 12
  UnreadableFiles = {1}
  MallocMayFail = FALSE
  WriteMayFail = TRUE
  UserMayCancel = TRUE
INVARIANTS
  BudgetIsExact
  NoLeakOnSuccess
  OverdraftBounded
  PublishedComplete
PROPERTIES
  KeepsPromise
  Finishes
CHECK_DEADLOCK FALSE
