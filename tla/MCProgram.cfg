SPECIFICATION Spec
CONSTANTS
  FileLen = 6
  MaxBlocks = 16
  Inputs <- MCInputs
  Main = Main
  t1 = t1
  t2 = t2
  Threads = {t1, t2}
SYMMETRY Symmetry
INVARIANTS
  ModuleSound
  NamesSized
  OwnedOnce
  ExitClean
  DebuggerSound
  IdsNameThreads
CHECK_DEADLOCK FALSE
