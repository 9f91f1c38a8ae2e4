SPECIFICATION Spec
CONSTANTS
  I32 = I32
  I64 = I64
  F32 = F32
  F64 = F64
  NoType = NoType
  LocalType <- MCNoLocal
  RetType = I32
  BlockTypes = {NoType, I32}
  Signatures <- MCMixed
  Depths = {0, 1}
  Tables <- MCTables
  CallTypes <- MCCalls
  Validated = TRUE
  MaxOps = 7
INVARIANTS
  MergeCorrect
  PhiPerEdge
  ValuesDominate
  BlocksClosed
CHECK_DEADLOCK FALSE
