\* Windows are opened, closed, raised and dragged while renderers present.
CONSTANTS
  Width = 3
  Height = 2
  WinW = 2
  WinH = 2
  GFX_SURFACES = 3
  Cascade = 1
  MaxWindows = 2
  MaxMoves = 3
SPECIFICATION Spec
INVARIANTS ShownAsStacked FocusOnTop OwnSurface
\* With MaxWindows windows opened and closed and the run loop dead, it stops.
CHECK_DEADLOCK FALSE
