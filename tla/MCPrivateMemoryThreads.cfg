SPECIFICATION Spec
CONSTANTS
  t1 = t1
  t2 = t2
  Threads = {t1, t2}
  MainThread = t1
  NoOne = NoOne
  Shared = FALSE
  MinPages = 1
  MaxPages = 3
  Deltas <- MCDeltas
PROPERTIES
  StoresKept
