CONSTANTS
  cols = 2
  rows = 2
  Chars = {"x"}
  default_fg = 7
  default_bg = 0
  TabStop = 1
  MaxSequences = 2
  ParamLists <- MCParamLists
SPECIFICATION Spec
INVARIANT ShownAsCells
