-------------------------------- MODULE MCGfx --------------------------------
(* A screen of 2 x 3 pixels, one surface, a pointer of 2 x 2 pixels.       *)
EXTENDS Gfx

CONSTANTS black, white, red

MCArt == [c \in Area(2, 2) |-> IF c = <<0, 0>> THEN "#" ELSE IF c = <<1, 1>> THEN "." ELSE " "]

\* More than the screen, as wide as the word allows; over an edge or a corner; two rows; one pixel.
MCRects == {Rect(0, 0, 15, 4), Rect(-1, 1, 2, 2), Rect(1, -1, 2, 3), Rect(0, 0, 2, 2), Rect(1, 1, 1, 1)}
MCPoints == {<<0, 0>>, <<0, 1>>, <<1, 2>>, <<-1, 1>>}
MCInks == {red}
MCGlyphs == {[w |-> 2, h |-> 1, bits |-> [c \in Area(2, 1) |-> c = <<1, 0>>]]}
MCPictures == {[w |-> 2, h |-> 2, px |-> [c \in Area(2, 2) |-> IF c = <<0, 0>> THEN red ELSE white]]}
=============================================================================
