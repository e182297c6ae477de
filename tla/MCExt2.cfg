\* Two groups, the second one short; a directory block holds one name beside
\* . and .., a second block needs an indirect block.
CONSTANTS
  Name <- MCName
  Paths <- MCPaths
  Targets <- LongLink
  Sizes = {1, 2}
  NBlocks = 5
  BlocksPerGroup = 3
  NInodes = 4
  InodesPerGroup = 2
  NDirect = 1
  PtrsPerBlock = 2
  DirCap = 3
  MaxHops = 2
SPECIFICATION Spec
CONSTRAINT NotSpoiled
INVARIANTS BlocksOwnedOnce CountsAgree NamesLead LinksAgree NothingLeaks
PROPERTY ThrowKeepsNames
