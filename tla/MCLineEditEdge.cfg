CONSTANTS
  cols = 2
  rows = 3
  Chars = {"a", "(", ")", ">", ".", "^", "C", "o"}
  default_fg = 7
  default_bg = 0
  TabStop = 1
  MaxSequences = 0
  ParamLists <- MCParamLists
  Prompt <- MCPrompt
  ContinuationPrompt <- MCContinuation
  Typed = {"a", "(", ")", " "}
  FirstHistory <- MCFirstHistory
  OtherLines <- MCOtherLines
  history_max = 2
  MaxKeys = 5
SPECIFICATION EditSpec
INVARIANTS EdgeShown
CHECK_DEADLOCK FALSE
