------------------------------- MODULE Term -------------------------------
(***************************************************************************)
(* rootfs/lib/beer/term.beer: the terminal emulator, from the characters   *)
(* its renderer feeds it to the cells and to the pixels that show them.    *)
(* A pixel here is as large as a cell.  The renderer is the one task that  *)
(* changes a term and draws it, so a character is one action; hiding and   *)
(* showing the cursor around a batch of them are actions of their own.     *)
(*                                                                         *)
(* The digits of one parameter of a control sequence come as one           *)
(* character, their number.  What is not a number there counts as nil and  *)
(* is left out.  Colours are what resolve-color makes of them, before they *)
(* are turned into RGB.                                                    *)
(***************************************************************************)
EXTENDS Integers, Sequences

CONSTANTS cols, rows,
          Chars,                     \* printable characters beside the space
          default_fg, default_bg,
          ParamLists,                \* bound: the parameters of sequences
          TabStop,                   \* 8
          MaxSequences               \* bound: control sequences

Nil == -1

ASSUME TermAssumption ==
  /\ cols \in Nat \ {0} /\ rows \in Nat \ {0} /\ TabStop \in Nat \ {0}
  /\ MaxSequences \in Nat
  /\ default_fg \in Nat /\ default_bg \in Nat
  /\ ParamLists \subseteq Seq(Nat \cup {Nil})
  /\ \A ps \in ParamLists : ps # << >>

VARIABLES cells, px,                 \* the cells, and what the surface shows of each
          cx, cy, wrap,
          saved,                     \* a position, or None
          cursor, drawn_cursor,      \* drawn_cursor: a position, or None
          pen,                       \* fg, bg, bold, inverse
          mode, private, params,     \* the parser; private: params begin with "?"
          task                       \* "none", "idle", or "feeding" characters

\* History: ESC E came while a wrap was pending; control sequences so far.
VARIABLES next_line, sequences

grid == <<cells, px>>
at == <<cx, cy, wrap, next_line>>
look == <<saved, cursor, pen>>
parser == <<mode, private, params, sequences>>
vars == <<grid, at, look, drawn_cursor, parser, task>>

Position == (0 .. cols - 1) \X (0 .. rows - 1)
None == <<Nil, Nil>>
Space == " "
Cell == [c : Chars \cup {Space}, fg : Int, bg : Int]
Pen == [fg : Int, bg : Int, bold : BOOLEAN, inverse : BOOLEAN]

Least(a, b) == IF a <= b THEN a ELSE b
Greatest(a, b) == IF a >= b THEN a ELSE b

-----------------------------------------------------------------------------
\* The pen and what it draws

resolve_color(c, bold) == IF bold /\ c < 8 THEN c + 8 ELSE c
pen_fg(p) == IF p.inverse THEN p.bg ELSE resolve_color(p.fg, p.bold)
pen_bg(p) == IF p.inverse THEN resolve_color(p.fg, p.bold) ELSE p.bg
Plain == [fg |-> default_fg, bg |-> default_bg, bold |-> FALSE, inverse |-> FALSE]

blank == [c |-> Space, fg |-> default_fg, bg |-> pen_bg(pen)]

\* draw-cell!: the pixels of a cell; a space shows only its background.
Drawn(cell) == IF cell.c = Space THEN [cell EXCEPT !.fg = cell.bg] ELSE cell
Inverted(cell) == [cell EXCEPT !.fg = cell.bg, !.bg = cell.fg]

Init ==
  /\ pen = Plain
  /\ cells = [p \in Position |-> [c |-> Space, fg |-> default_fg, bg |-> default_bg]]
  /\ px = [p \in Position |-> [c |-> Space, fg |-> Nil, bg |-> Nil]]   \* whatever was there
  /\ cx = 0 /\ cy = 0 /\ wrap = FALSE /\ next_line = FALSE
  /\ saved = None /\ cursor = TRUE /\ drawn_cursor = None
  /\ mode = "ground" /\ private = FALSE /\ params = <<Nil>>
  /\ task = "none" /\ sequences = 0

-----------------------------------------------------------------------------
\* Cells and pixels, updated together

\* erase-cells and erase-rows: in the cells cs and the pixels ps, the
\* positions of S are blanked.
ErasedCells(cs, S) == [p \in Position |-> IF p \in S THEN blank ELSE cs[p]]
ErasedPixels(ps, S) == [p \in Position |-> IF p \in S THEN Drawn(blank) ELSE ps[p]]
Erase(S) == cells' = ErasedCells(cells, S) /\ px' = ErasedPixels(px, S)

RowsIn(from, to) == {p \in Position : from <= p[2] /\ p[2] < to}

\* copy-rect-on! and the rows that stay, n rows up or, for n < 0, down
Shifted(f, n) ==
  [p \in Position |-> IF p[2] + n \in 0 .. rows - 1 THEN f[<<p[1], p[2] + n>>] ELSE f[p]]

\* Mutant: the rows that were scrolled in keep their pixels.
ScrolledUpStale(n) == Shifted(px, Least(n, rows))

ScrolledUp(n) == ErasedPixels(Shifted(px, Least(n, rows)), RowsIn(rows - Least(n, rows), rows))
CellsUp(n) == ErasedCells(Shifted(cells, Least(n, rows)), RowsIn(rows - Least(n, rows), rows))
scroll_up(n) == cells' = CellsUp(n) /\ px' = ScrolledUp(n)

scroll_down(n) ==
  LET k == Least(n, rows) IN
  /\ cells' = ErasedCells(Shifted(cells, -k), RowsIn(0, k))
  /\ px' = ErasedPixels(Shifted(px, -k), RowsIn(0, k))

line_feed ==
  IF cy >= rows - 1 THEN scroll_up(1) /\ cy' = cy
  ELSE cy' = cy + 1 /\ UNCHANGED grid

\* After a pending wrap the character goes to the start of the next line.
put_char(c) ==
  LET cell == [c |-> c, fg |-> pen_fg(pen), bg |-> pen_bg(pen)]
      scroll == wrap /\ cy >= rows - 1
      col == IF wrap THEN 0 ELSE cx
      row == IF wrap /\ ~scroll THEN cy + 1 ELSE cy
  IN
  /\ cells' = [IF scroll THEN CellsUp(1) ELSE cells EXCEPT ![<<col, row>>] = cell]
  /\ px' = [IF scroll THEN ScrolledUp(1) ELSE px EXCEPT ![<<col, row>>] = Drawn(cell)]
  /\ cy' = row
  /\ cx' = IF col >= cols - 1 THEN col ELSE col + 1
  /\ wrap' = (col >= cols - 1)
  /\ next_line' = FALSE

move_to(col, row) ==
  /\ cx' = Greatest(0, Least(col, cols - 1))
  /\ cy' = Greatest(0, Least(row, rows - 1))
  /\ wrap' = FALSE /\ next_line' = FALSE

MoveToSaved == IF saved = None THEN move_to(0, 0) ELSE move_to(saved[1], saved[2])

-----------------------------------------------------------------------------
\* Control sequences

\* The i-th parameter as a position or a count (n of the source), as a code (z)
n(i, dflt) == IF i > Len(params) THEN dflt
              ELSE IF params[i] \in {Nil, 0} THEN dflt ELSE params[i]
z(i) == IF i > Len(params) THEN 0 ELSE IF params[i] = Nil THEN 0 ELSE params[i]

rgb_flag == 2 ^ 24
Rgb(i) == rgb_flag + z(i) * 2 ^ 16 + z(i + 1) * 2 ^ 8 + z(i + 2)

\* The pen after the codes of params from the i-th on
sgr[i \in Nat, p \in Pen] ==
  IF i > Len(params) THEN p
  ELSE CASE z(i) = 0  -> sgr[i + 1, Plain]
         [] z(i) = 1  -> sgr[i + 1, [p EXCEPT !.bold = TRUE]]
         [] z(i) = 22 -> sgr[i + 1, [p EXCEPT !.bold = FALSE]]
         [] z(i) = 7  -> sgr[i + 1, [p EXCEPT !.inverse = TRUE]]
         [] z(i) = 27 -> sgr[i + 1, [p EXCEPT !.inverse = FALSE]]
         [] z(i) \in 30 .. 37 -> sgr[i + 1, [p EXCEPT !.fg = z(i) - 30]]
         [] z(i) \in 90 .. 97 -> sgr[i + 1, [p EXCEPT !.fg = z(i) - 82]]
         [] z(i) \in 40 .. 47 -> sgr[i + 1, [p EXCEPT !.bg = z(i) - 40]]
         [] z(i) \in 100 .. 107 -> sgr[i + 1, [p EXCEPT !.bg = z(i) - 92]]
         [] z(i) = 39 -> sgr[i + 1, [p EXCEPT !.fg = default_fg]]
         [] z(i) = 49 -> sgr[i + 1, [p EXCEPT !.bg = default_bg]]
         [] z(i) = 38 /\ z(i + 1) = 5 -> sgr[i + 3, [p EXCEPT !.fg = z(i + 2)]]
         [] z(i) = 48 /\ z(i + 1) = 5 -> sgr[i + 3, [p EXCEPT !.bg = z(i + 2)]]
         [] z(i) = 38 /\ z(i + 1) = 2 -> sgr[i + 5, [p EXCEPT !.fg = Rgb(i + 2)]]
         [] z(i) = 48 /\ z(i + 1) = 2 -> sgr[i + 5, [p EXCEPT !.bg = Rgb(i + 2)]]
         [] z(i) \in {38, 48} /\ z(i + 1) \notin {2, 5} -> p
         [] OTHER -> sgr[i + 1, p]

PenAfter == sgr[1, pen]

\* Where the sequences that move the cursor send it
Target(final) ==
  CASE final = "A" -> <<cx, cy - n(1, 1)>>
    [] final = "B" -> <<cx, cy + n(1, 1)>>
    [] final = "C" -> <<cx + n(1, 1), cy>>
    [] final = "D" -> <<Least(cx, cols - 1) - n(1, 1), cy>>
    [] final = "E" -> <<0, cy + n(1, 1)>>
    [] final = "F" -> <<0, cy - n(1, 1)>>
    [] final = "G" -> <<n(1, 1) - 1, cy>>
    [] final = "d" -> <<cx, n(1, 1) - 1>>
    [] final = "H" -> <<n(2, 1) - 1, n(1, 1) - 1>>

\* What J and K blank: from the cursor on, up to it, or all; of the screen or
\* of the row
Region(final) ==
  LET Here(p) == CASE z(1) = 0 -> p[2] > cy \/ (p[2] = cy /\ p[1] >= cx)
                   [] z(1) = 1 -> p[2] < cy \/ (p[2] = cy /\ p[1] <= cx)
                   [] OTHER -> TRUE
  IN  {p \in Position : Here(p) /\ (final = "K" => p[2] = cy)}

\* h and l without "?" stand for the sequences that are not understood, H for f.
csi(final) ==
  /\ mode = "csi"
  /\ mode' = "ground" /\ private' = FALSE /\ params' = <<Nil>> /\ UNCHANGED sequences
  /\ \/ /\ private /\ final \in {"h", "l"} /\ z(1) = 25
        /\ cursor' = (final = "h")
        /\ UNCHANGED <<grid, at, saved, pen>>
     \/ /\ private \/ final \in {"h", "l"}
        /\ ~(private /\ final \in {"h", "l"} /\ z(1) = 25)
        /\ UNCHANGED <<grid, at, look>>
     \/ /\ ~private /\ final \in {"A", "B", "C", "D", "E", "F", "G", "d", "H"}
        /\ move_to(Target(final)[1], Target(final)[2])
        /\ UNCHANGED <<grid, look>>
     \/ /\ ~private /\ final \in {"J", "K"}
        /\ Erase(Region(final))
        /\ UNCHANGED <<at, look>>
     \/ ~private /\ final = "S" /\ scroll_up(n(1, 1)) /\ UNCHANGED <<at, look>>
     \/ ~private /\ final = "T" /\ scroll_down(n(1, 1)) /\ UNCHANGED <<at, look>>
     \/ /\ ~private /\ final = "m"
        /\ pen' = PenAfter /\ UNCHANGED <<grid, at, saved, cursor>>
     \/ /\ ~private /\ final = "s"
        /\ saved' = <<cx, cy>> /\ UNCHANGED <<grid, at, cursor, pen>>
     \/ ~private /\ final = "u" /\ MoveToSaved /\ UNCHANGED <<grid, look>>

\* Parameter ps[Len(ps)] has come in, or the ";" before it.
Follows(ps) ==
  \/ ps = Append(params, Nil)
  \/ /\ params[Len(params)] = Nil /\ ps[Len(ps)] # Nil
     /\ ps = [params EXCEPT ![Len(params)] = ps[Len(ps)]]

\* The other characters in a control sequence: "?", a number, ";", or ESC, which
\* begins anew.  Other control characters are ignored.
CsiOther ==
  /\ mode = "csi"
  /\ \/ params = <<Nil>> /\ private' = TRUE /\ UNCHANGED <<mode, params>>
     \/ \E ps \in ParamLists : Follows(ps) /\ params' = ps /\ UNCHANGED <<mode, private>>
     \/ mode' = "esc" /\ private' = FALSE /\ params' = <<Nil>>
  /\ UNCHANGED <<sequences, grid, at, look>>

reset_state ==
  /\ pen' = Plain /\ cursor' = TRUE /\ saved' = None
  /\ cells' = [p \in Position |-> [c |-> Space, fg |-> default_fg, bg |-> default_bg]]
  /\ px' = [p \in Position |-> Drawn(cells'[p])]
  /\ move_to(0, 0)

\* The character after ESC.  Those not listed, a second ESC too, do nothing.
esc(c) ==
  /\ mode = "esc"
  /\ mode' = IF c = "[" THEN "csi" ELSE "ground"
  /\ c = "[" => sequences < MaxSequences
  /\ sequences' = IF c = "[" THEN sequences + 1 ELSE sequences
  /\ UNCHANGED <<private, params>>
  /\ \/ c \in {"[", "other"} /\ UNCHANGED <<grid, at, look>>
     \/ c = "7" /\ saved' = <<cx, cy>> /\ UNCHANGED <<grid, at, cursor, pen>>
     \/ c = "8" /\ MoveToSaved /\ UNCHANGED <<grid, look>>
     \/ c = "c" /\ reset_state
     \/ c = "D" /\ line_feed /\ UNCHANGED <<cx, wrap, next_line, look>>
     \/ c = "M" /\ cy = 0 /\ scroll_down(1) /\ UNCHANGED <<at, look>>
     \/ c = "M" /\ cy # 0 /\ cy' = cy - 1 /\ UNCHANGED <<grid, cx, wrap, next_line, look>>
     \/ /\ c = "E" /\ line_feed /\ cx' = 0 /\ next_line' = wrap
        /\ UNCHANGED <<wrap, look>>

Backspace ==
  /\ cx' = Greatest(0, Least(cx, cols - 1) - 1) /\ wrap' = FALSE /\ next_line' = FALSE
  /\ UNCHANGED <<cy, grid>>

\* Outside sequences.  Other control characters and DEL are ignored.
ground ==
  /\ mode = "ground"
  /\ UNCHANGED <<private, params, sequences, look>>
  /\ \/ mode' = "esc" /\ UNCHANGED <<grid, at>>
     \/ mode' = mode /\ cx' = 0 /\ wrap' = FALSE /\ next_line' = FALSE /\ UNCHANGED <<cy, grid>>
     \/ mode' = mode /\ line_feed /\ wrap' = FALSE /\ next_line' = FALSE /\ UNCHANGED cx
     \/ mode' = mode /\ Backspace
     \/ /\ mode' = mode /\ UNCHANGED grid
        /\ move_to(Least(cols - 1, TabStop * (cx \div TabStop + 1)), cy)
     \/ mode' = mode /\ \E c \in Chars \cup {Space} : put_char(c)

Finals == {"A", "B", "C", "D", "E", "F", "G", "d", "H", "J", "K", "S", "T", "m", "s", "u", "h", "l"}

feed_char ==
  /\ task = "feeding"
  /\ \/ \E f \in Finals : csi(f)
     \/ CsiOther
     \/ \E c \in {"[", "7", "8", "c", "D", "M", "E", "other"} : esc(c)
     \/ ground
  /\ UNCHANGED <<drawn_cursor, task>>

-----------------------------------------------------------------------------
\* The cursor, before and after a batch of characters

hide_cursor ==
  /\ px' = IF drawn_cursor = None THEN px
           ELSE [px EXCEPT ![drawn_cursor] = Drawn(cells[drawn_cursor])]
  /\ drawn_cursor' = None

\* show-cursor, with what the surface shows before
show_cursor(before) ==
  LET p == <<Least(cx, cols - 1), cy>> IN
  IF cursor THEN /\ px' = [before EXCEPT ![p] = Drawn(Inverted(cells[p]))]
                 /\ drawn_cursor' = p
  ELSE px' = before /\ drawn_cursor' = None

\* start!: redraw!, then the renderer
start ==
  /\ task = "none" /\ task' = "idle"
  /\ show_cursor([p \in Position |-> Drawn(cells[p])])
  /\ UNCHANGED <<cells, at, look, parser>>

\* render-once! feeds a batch.
FeedBegin ==
  /\ task = "idle" /\ task' = "feeding"
  /\ hide_cursor
  /\ UNCHANGED <<cells, at, look, parser>>
FeedEnd ==
  /\ task = "feeding" /\ task' = "idle"
  /\ show_cursor(px)
  /\ UNCHANGED <<cells, at, look, parser>>

Next == start \/ FeedBegin \/ feed_char \/ FeedEnd
Spec == Init /\ [][Next]_vars

-----------------------------------------------------------------------------
\* The cursor, the saved one and the drawn one are inside the grid.
CursorInside ==
  /\ cx \in 0 .. cols - 1 /\ cy \in 0 .. rows - 1
  /\ saved \in Position \cup {None} /\ drawn_cursor \in Position \cup {None}

\* Once drawn, the surface shows the cells, each as it is, however they were
\* scrolled, erased and written; only where the cursor was drawn the cell is
\* inverse, and between batches that is where the cursor is, if it is visible.
ShownAsCells ==
  task # "none" =>
    /\ \A p \in Position :
         px[p] = Drawn(IF p = drawn_cursor THEN Inverted(cells[p]) ELSE cells[p])
    /\ drawn_cursor = IF task = "idle" /\ cursor THEN <<cx, cy>> ELSE None

\* A wrap is pending only behind the last column, where the character that
\* caused it was put; but for ESC E, which goes to the next line and leaves it
\* pending.
WrapAtEdge == wrap => cx = cols - 1 \/ next_line
=============================================================================
