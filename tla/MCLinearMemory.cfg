SPECIFICATION FairSpec
CONSTANTS
  t1 = t1
  t2 = t2
  Threads = {t1, t2}
  MainThread = t1
  NoOne = NoOne
  Shared = TRUE
  MinPages = 1
  MaxPages = 3
  Deltas <- MCDeltas
INVARIANTS
  TypeOK
  SizeBacked
  GrantUsable
PROPERTIES
  SizeMonotone
  GrantOnce
  StoresKept
  LockReleased
