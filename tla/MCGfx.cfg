\* Every sequence of four calls after gfx_init.
CONSTANTS
  black = black
  white = white
  red = red
  Black <- black
  White <- white
  g_w = 2
  g_h = 3
  GFX_SURFACES = 2
  CUR_W = 2
  CUR_H = 2
  cursor_art <- MCArt
  Word = 16
  Rects <- MCRects
  Points <- MCPoints
  Sides = {0, 2}
  Scales = {1, 2}
  Inks <- MCInks
  Glyphs <- MCGlyphs
  Pictures <- MCPictures
  MaxCalls = 4
SPECIFICATION GfxSpec
INVARIANT DrawnAsAsked
\* The bound on calls ends every behaviour.
CHECK_DEADLOCK FALSE
