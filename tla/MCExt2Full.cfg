\* The disk fills up while a file is rewritten.
CONSTANTS
  Name <- MCName
  Paths <- MCPaths
  Targets <- LongLink
  Sizes = {1, 2}
  NBlocks = 5
  BlocksPerGroup = 3
  NInodes = 4
  InodesPerGroup = 2
  NDirect = 1
  PtrsPerBlock = 2
  DirCap = 3
  MaxHops = 2
SPECIFICATION Spec
INVARIANT NoSharedBlock
