\* Classes of 1, 2 and 4 cells of two bytes; alignments of two and four cells.
CONSTANTS
  x = x
  Zero = Zero
  Data <- MCData
  Align = 2
  SmallCount = 2
  LargeCount = 1
  HeapCells = 9
  Sizes = {0, 3, 5}
  Aligns = {2, 4}
SPECIFICATION Spec
INVARIANTS OwnBlock FreeListsSound EnoughRoom DataKept
