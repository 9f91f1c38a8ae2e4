SPECIFICATION Spec
CONSTANTS
  FileLen = 6
  MaxBlocks = 16
  Inputs <- MCCompiled
  Main = Main
  Threads = {}
INVARIANTS
  NamesInBounds
CHECK_DEADLOCK FALSE
