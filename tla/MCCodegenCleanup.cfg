SPECIFICATION Spec
CONSTANTS
  Modules <- MCModules
  CodeSizes = {7, 32}
  Pools <- MCPools
  Page = 64
  MaxRefs = 2
  OffsetRange = 128
  SizeRange = 256
INVARIANTS
  OnlyBlobsDestroyed
CHECK_DEADLOCK FALSE
