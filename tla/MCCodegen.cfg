SPECIFICATION Spec
CONSTANTS
  Modules <- MCModules
  CodeSizes = {7, 32}
  Pools <- MCPools
  Page = 64
  MaxRefs = 2
  OffsetRange = 128
  SizeRange = 256
INVARIANTS
  TypeOK
  CodeLayout
  RodataLayout
  ClosureComplete
  UnusedRefused
  EmittedOnce
  BlobsFreedOnce
  IndirectTargets
CHECK_DEADLOCK FALSE
