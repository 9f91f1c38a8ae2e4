SPECIFICATION Spec
CONSTANTS
  I32 = I32
  I64 = I64
  F32 = F32
  F64 = F64
  NoType = NoType
  LocalType <- MCOneLocal
  RetType = NoType
  BlockTypes = {NoType}
  Signatures <- MCConst
  Depths = {0, 1}
  Tables <- MCEmpty
  CallTypes <- MCEmpty
  Validated = TRUE
  MaxOps = 8
INVARIANTS
  TypeOK
  MergeCorrect
  PhiPerEdge
  CursorOpen
  CursorReachable
  FramesMatch
  ValuesDominate
CHECK_DEADLOCK FALSE
