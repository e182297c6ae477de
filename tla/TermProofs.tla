----------------------------- MODULE TermProofs -----------------------------
(***************************************************************************)
(* For a terminal of every size: the cursors never leave the grid, a wrap  *)
(* is pending only at the edge, and the surface shows the cells.           *)
(*                                                                         *)
(* For the editor that writes to it: whoever walks the history, of any     *)
(* length and changed by others meanwhile, never leaves it, and comes back *)
(* to the line as it was typed.                                            *)
(***************************************************************************)
EXTENDS LineEdit, SequenceTheorems, WellFoundedInduction, TLAPS

\* The cells cs and the surface ps as functions on the grid; the surface shows
\* the cells, with no cursor drawn.
Grid(f) == f = [p \in Position |-> f[p]]
Alike(cs, ps) == \A p \in Position : ps[p] = Drawn(cs[p])
Good(cs, ps) == Grid(cs) /\ Grid(ps) /\ Alike(cs, ps)

Shaped == Grid(cells) /\ Grid(px)

\* The inductive invariant
Flags == wrap \in BOOLEAN /\ next_line \in BOOLEAN
Listed == params \in Seq(Nat \cup {Nil})
IInv == CursorInside /\ WrapAtEdge /\ Flags /\ Listed /\ Shaped /\ ShownAsCells

-----------------------------------------------------------------------------
\* Numbers the cursor and the counts of sequences are made of
LEMMA Numbers ==
  /\ cols \in Nat \ {0} /\ rows \in Nat \ {0} /\ TabStop \in Nat \ {0}
  /\ Nil \in Int /\ Nil < 0
BY TermAssumption DEF Nil

\* Erasing keeps cells and surface alike.
LEMMA EraseGood ==
  ASSUME NEW cs, NEW ps, NEW S, Grid(cs), Grid(ps), \A p \in Position \ S : ps[p] = Drawn(cs[p])
  PROVE  Good(ErasedCells(cs, S), ErasedPixels(ps, S))
<1> DEFINE b == blank
<1> HIDE DEF b
<1>1. /\ ErasedCells(cs, S) = [p \in Position |-> IF p \in S THEN b ELSE cs[p]]
      /\ ErasedPixels(ps, S) = [p \in Position |-> IF p \in S THEN Drawn(b) ELSE ps[p]]
  BY DEF ErasedCells, ErasedPixels, b
<1>2. QED
  BY <1>1 DEF Good, Grid, Alike

\* Rows that are shifted out of the grid leave the others alike.
LEMMA ShiftGood ==
  ASSUME NEW cs, NEW ps, Good(cs, ps), NEW k \in Int
  PROVE  /\ Grid(Shifted(cs, k)) /\ Grid(Shifted(ps, k))
         /\ \A p \in Position : p[2] + k \in 0 .. rows - 1 =>
              Shifted(ps, k)[p] = Drawn(Shifted(cs, k)[p])
<1>1. ASSUME NEW p \in Position, p[2] + k \in 0 .. rows - 1
      PROVE  Shifted(ps, k)[p] = Drawn(Shifted(cs, k)[p])
  <2> DEFINE q == <<p[1], p[2] + k>>
  <2>1. q \in Position
    BY <1>1 DEF Position
  <2>2. ps[q] = Drawn(cs[q])
    BY <2>1 DEF Good, Alike
  <2>3. Shifted(ps, k)[p] = ps[q] /\ Shifted(cs, k)[p] = cs[q]
    BY <1>1 DEF Shifted
  <2>4. QED
    BY <2>2, <2>3
<1>2. Grid(Shifted(cs, k)) /\ Grid(Shifted(ps, k))
  BY DEF Grid, Shifted
<1>3. QED
  BY <1>1, <1>2

\* Scrolling: the rows scrolled in are erased in both.
LEMMA UpGood ==
  ASSUME Good(cells, px), NEW k \in Nat
  PROVE  Good(CellsUp(k), ScrolledUp(k))
<1> DEFINE m == Least(k, rows)
           S == RowsIn(rows - m, rows)
<1>1. m \in 0 .. rows
  BY Numbers DEF Least
<1>2. ASSUME NEW p \in Position \ S
      PROVE  p[2] + m \in 0 .. rows - 1
  BY <1>1, <1>2, Numbers DEF RowsIn, Position
<1>3. /\ Grid(Shifted(cells, m)) /\ Grid(Shifted(px, m))
      /\ \A p \in Position \ S : Shifted(px, m)[p] = Drawn(Shifted(cells, m)[p])
  <2>1. m \in Int
    BY <1>1
  <2> HIDE DEF m, S
  <2>2. QED
    BY <1>2, <2>1, ShiftGood
<1>4. Good(ErasedCells(Shifted(cells, m), S), ErasedPixels(Shifted(px, m), S))
  <2> HIDE DEF m, S
  <2>1. QED
    BY <1>3, EraseGood
<1>5. QED
  BY <1>4 DEF CellsUp, ScrolledUp

LEMMA DownGood ==
  ASSUME Good(cells, px), NEW k \in Nat, scroll_down(k)
  PROVE  Good(cells', px')
<1> DEFINE m == Least(k, rows)
           S == RowsIn(0, m)
<1>1. m \in 0 .. rows
  BY Numbers DEF Least
<1>2. ASSUME NEW p \in Position \ S
      PROVE  p[2] + (-m) \in 0 .. rows - 1
  BY <1>1, <1>2, Numbers DEF RowsIn, Position
<1>3. /\ Grid(Shifted(cells, -m)) /\ Grid(Shifted(px, -m))
      /\ \A p \in Position \ S : Shifted(px, -m)[p] = Drawn(Shifted(cells, -m)[p])
  <2>1. -m \in Int
    BY <1>1
  <2> HIDE DEF m, S
  <2>2. QED
    BY <1>2, <2>1, ShiftGood
<1>4. Good(ErasedCells(Shifted(cells, -m), S), ErasedPixels(Shifted(px, -m), S))
  <2> HIDE DEF m, S
  <2>1. QED
    BY <1>3, EraseGood
<1>5. QED
  BY <1>4 DEF scroll_down

\* Writing one cell in both
LEMMA PutGood ==
  ASSUME NEW cs, NEW ps, Good(cs, ps), NEW q \in Position, NEW cell
  PROVE  Good([cs EXCEPT ![q] = cell], [ps EXCEPT ![q] = Drawn(cell)])
<1>1. DOMAIN cs = Position /\ DOMAIN ps = Position
  BY DEF Good, Grid
<1> DEFINE c2 == [cs EXCEPT ![q] = cell]
           p2 == [ps EXCEPT ![q] = Drawn(cell)]
<1>2. Grid(c2) /\ Grid(p2)
  BY <1>1 DEF Good, Grid
<1>3. \A p \in Position : p2[p] = Drawn(c2[p])
  BY <1>1 DEF Good, Grid, Alike
<1>4. QED
  BY <1>2, <1>3 DEF Good, Alike

-----------------------------------------------------------------------------
\* A count is a natural number, at least 1 where that is the default.
LEMMA Counts ==
  ASSUME Listed, NEW i \in Nat \ {0}
  PROVE  n(i, 1) \in Nat
<1>1. CASE i > Len(params)
  BY <1>1 DEF n
<1>2. CASE ~(i > Len(params))
  <2>1. params[i] \in Nat \cup {Nil}
    BY <1>2 DEF Listed
  <2>2. QED
    BY <1>2, <2>1 DEF n
<1>3. QED
  BY <1>1, <1>2

\* move-to keeps the cursor inside, wherever it is sent.
LEMMA MoveInside ==
  ASSUME NEW a \in Int, NEW b \in Int, move_to(a, b)
  PROVE  /\ cx' \in 0 .. cols - 1 /\ cy' \in 0 .. rows - 1
         /\ wrap' = FALSE /\ next_line' = FALSE
BY Numbers DEF move_to, Least, Greatest

LEMMA SavedInside ==
  ASSUME CursorInside, MoveToSaved
  PROVE  /\ cx' \in 0 .. cols - 1 /\ cy' \in 0 .. rows - 1
         /\ wrap' = FALSE /\ next_line' = FALSE
<1>1. CASE saved = None
  <2>1. move_to(0, 0) /\ 0 \in Int
    BY <1>1 DEF MoveToSaved
  <2>2. QED
    BY <2>1, MoveInside
<1>2. CASE saved # None
  <2>1. saved[1] \in Int /\ saved[2] \in Int
    BY <1>2, Numbers DEF CursorInside, Position
  <2>2. QED
    BY <1>2, <2>1, MoveInside DEF MoveToSaved
<1>3. QED
  BY <1>1, <1>2

LEMMA TargetInt ==
  ASSUME CursorInside, Listed,
         NEW f \in {"A", "B", "C", "D", "E", "F", "G", "d", "H"}
  PROVE  Target(f)[1] \in Int /\ Target(f)[2] \in Int
<1>1. n(1, 1) \in Nat /\ n(2, 1) \in Nat
  BY Counts
<1>2. cx \in Int /\ cy \in Int /\ Least(cx, cols - 1) \in Int
  BY Numbers DEF CursorInside, Least
<1>3. CASE f = "A"
  BY <1>1, <1>2, <1>3 DEF Target
<1>4. CASE f = "B"
  BY <1>1, <1>2, <1>4 DEF Target
<1>5. CASE f = "C"
  BY <1>1, <1>2, <1>5 DEF Target
<1>6. CASE f = "D"
  BY <1>1, <1>2, <1>6 DEF Target
<1>7. CASE f = "E"
  BY <1>1, <1>2, <1>7 DEF Target
<1>8. CASE f = "F"
  BY <1>1, <1>2, <1>8 DEF Target
<1>9. CASE f = "G"
  BY <1>1, <1>2, <1>9 DEF Target
<1>10. CASE f = "d"
  BY <1>1, <1>2, <1>10 DEF Target
<1>11. CASE f = "H"
  BY <1>1, <1>2, <1>11 DEF Target
<1>12. QED
  BY <1>3, <1>4, <1>5, <1>6, <1>7, <1>8, <1>9, <1>10, <1>11

\* A line feed, also the one of a pending wrap
LEMMA FeedInside ==
  ASSUME CursorInside, line_feed
  PROVE  cy' \in 0 .. rows - 1
BY Numbers DEF line_feed, CursorInside

LEMMA FeedGood ==
  ASSUME Good(cells, px), line_feed
  PROVE  Good(cells', px')
<1>1. CASE cy >= rows - 1
  BY <1>1, UpGood DEF line_feed, scroll_up
<1>2. CASE ~(cy >= rows - 1)
  BY <1>2 DEF line_feed, grid
<1>3. QED
  BY <1>1, <1>2

LEMMA PutChar ==
  ASSUME CursorInside, wrap \in BOOLEAN, Good(cells, px),
         NEW c, put_char(c)
  PROVE  /\ Good(cells', px')
         /\ cx' \in 0 .. cols - 1 /\ cy' \in 0 .. rows - 1
         /\ wrap' \in BOOLEAN /\ next_line' = FALSE
         /\ wrap' => cx' = cols - 1
<1> DEFINE cell == [c |-> c, fg |-> pen_fg(pen), bg |-> pen_bg(pen)]
           scroll == wrap /\ cy >= rows - 1
           col == IF wrap THEN 0 ELSE cx
           row == IF wrap /\ ~scroll THEN cy + 1 ELSE cy
<1>1. /\ cells' = [IF scroll THEN CellsUp(1) ELSE cells EXCEPT ![<<col, row>>] = cell]
      /\ px' = [IF scroll THEN ScrolledUp(1) ELSE px EXCEPT ![<<col, row>>] = Drawn(cell)]
      /\ cy' = row
      /\ cx' = IF col >= cols - 1 THEN col ELSE col + 1
      /\ wrap' = (col >= cols - 1)
      /\ next_line' = FALSE
  BY DEF put_char
<1>2. col \in 0 .. cols - 1 /\ row \in 0 .. rows - 1
  BY Numbers DEF CursorInside
<1>3. <<col, row>> \in Position
  BY <1>2 DEF Position
<1>4. Good(IF scroll THEN CellsUp(1) ELSE cells, IF scroll THEN ScrolledUp(1) ELSE px)
  <2>1. Good(CellsUp(1), ScrolledUp(1))
    BY UpGood
  <2> HIDE DEF scroll
  <2>2. QED
    BY <2>1
<1>5. Good(cells', px')
  <2> HIDE DEF cell, scroll, col, row
  <2>1. QED
    BY <1>1, <1>3, <1>4, PutGood
<1>6. cx' \in 0 .. cols - 1 /\ cy' \in 0 .. rows - 1 /\ (col >= cols - 1 => cx' = cols - 1)
  <2> HIDE DEF cell, scroll, col, row
  <2>1. QED
    BY <1>1, <1>2, Numbers
<1>7. (col >= cols - 1) \in BOOLEAN
  OBVIOUS
<1>8. wrap' \in BOOLEAN /\ (wrap' => col >= cols - 1)
  <2> HIDE DEF cell, scroll, col, row
  <2>1. QED
    BY <1>1, <1>7, Zenon
<1>9. QED
  BY <1>1, <1>5, <1>6, <1>8

-----------------------------------------------------------------------------
\* What a character does, in terms of the invariant: to the grid and to the
\* cursor.
GridStep == Good(cells', px')
CursorStep ==
  /\ cx' \in 0 .. cols - 1 /\ cy' \in 0 .. rows - 1
  /\ wrap' \in BOOLEAN /\ next_line' \in BOOLEAN
  /\ wrap' => cx' = cols - 1 \/ next_line'
SavedStep == saved' = saved \/ saved' = None \/ saved' = <<cx, cy>>

Ready == CursorInside /\ WrapAtEdge /\ Flags /\ Listed /\ Good(cells, px)

LEMMA StillCursor ==
  ASSUME Ready, UNCHANGED at
  PROVE  CursorStep
BY DEF Ready, CursorStep, at, CursorInside, WrapAtEdge, Flags

LEMMA StillGrid ==
  ASSUME Ready, UNCHANGED grid
  PROVE  GridStep
BY DEF Ready, GridStep, grid

LEMMA MovedCursor ==
  ASSUME cx' \in 0 .. cols - 1 /\ cy' \in 0 .. rows - 1,
         wrap' = FALSE /\ next_line' = FALSE
  PROVE  CursorStep
BY DEF CursorStep

LEMMA ErasedGrid ==
  ASSUME Ready, NEW S, Erase(S)
  PROVE  GridStep
<1>1. Grid(cells) /\ Grid(px) /\ \A p \in Position \ S : px[p] = Drawn(cells[p])
  BY DEF Ready, Good, Alike
<1>2. QED
  BY <1>1, EraseGood DEF Erase, GridStep

LEMMA CsiStep ==
  ASSUME Ready, NEW f \in Finals, csi(f)
  PROVE  GridStep /\ CursorStep /\ SavedStep
<1> DEFINE Moving == {"A", "B", "C", "D", "E", "F", "G", "d", "H"}
<1>1. CASE UNCHANGED <<grid, at, saved>>
  BY <1>1, StillCursor, StillGrid DEF SavedStep
<1>2. CASE f \in Moving /\ move_to(Target(f)[1], Target(f)[2]) /\ UNCHANGED <<grid, look>>
  <2>1. Target(f)[1] \in Int /\ Target(f)[2] \in Int
    BY <1>2, TargetInt DEF Ready
  <2>2. CursorStep
    BY <1>2, <2>1, MoveInside, MovedCursor
  <2>3. QED
    BY <1>2, <2>2, StillGrid DEF SavedStep, look
<1>3. CASE Erase(Region(f)) /\ UNCHANGED <<at, look>>
  BY <1>3, StillCursor, ErasedGrid DEF SavedStep, look
<1>4. n(1, 1) \in Nat
  BY Counts DEF Ready
<1>5. CASE scroll_up(n(1, 1)) /\ UNCHANGED <<at, look>>
  <2>1. GridStep
    BY <1>4, <1>5, UpGood DEF Ready, scroll_up, GridStep
  <2>2. QED
    BY <1>5, <2>1, StillCursor DEF SavedStep, look
<1>6. CASE scroll_down(n(1, 1)) /\ UNCHANGED <<at, look>>
  <2>1. GridStep
    BY <1>4, <1>6, DownGood DEF Ready, GridStep
  <2>2. QED
    BY <1>6, <2>1, StillCursor DEF SavedStep, look
<1>7. CASE saved' = <<cx, cy>> /\ UNCHANGED <<grid, at>>
  BY <1>7, StillCursor, StillGrid DEF SavedStep
<1>8. CASE MoveToSaved /\ UNCHANGED <<grid, look>>
  <2>1. CursorStep
    BY <1>8, SavedInside, MovedCursor DEF Ready
  <2>2. QED
    BY <1>8, <2>1, StillGrid DEF SavedStep, look
<1>9. QED
  BY <1>1, <1>2, <1>3, <1>5, <1>6, <1>7, <1>8 DEF csi, look

LEMMA EscStep ==
  ASSUME Ready, NEW c, esc(c)
  PROVE  GridStep /\ CursorStep /\ SavedStep
<1>1. CASE UNCHANGED <<grid, at, look>>
  BY <1>1, StillCursor, StillGrid DEF SavedStep, look
<1>2. CASE saved' = <<cx, cy>> /\ UNCHANGED <<grid, at>>
  BY <1>2, StillCursor, StillGrid DEF SavedStep
<1>3. CASE MoveToSaved /\ UNCHANGED <<grid, look>>
  <2>1. CursorStep
    BY <1>3, SavedInside, MovedCursor DEF Ready
  <2>2. QED
    BY <1>3, <2>1, StillGrid DEF SavedStep, look
<1>4. CASE reset_state
  <2>1. move_to(0, 0) /\ 0 \in Int
    BY <1>4 DEF reset_state
  <2>2. CursorStep
    BY <2>1, MoveInside, MovedCursor
  <2>3. GridStep
    BY <1>4 DEF reset_state, GridStep, Good, Grid, Alike
  <2>4. QED
    BY <1>4, <2>2, <2>3 DEF reset_state, SavedStep
<1>5. CASE line_feed /\ UNCHANGED <<cx, wrap, next_line, look>>
  <2>1. GridStep
    BY <1>5, FeedGood DEF Ready, GridStep
  <2>2. cy' \in 0 .. rows - 1
    BY <1>5, FeedInside DEF Ready
  <2>3. CursorStep
    BY <1>5, <2>2 DEF Ready, CursorStep, CursorInside, WrapAtEdge, Flags
  <2>4. QED
    BY <1>5, <2>1, <2>3 DEF SavedStep, look
<1>6. CASE scroll_down(1) /\ UNCHANGED <<at, look>>
  <2>1. GridStep
    BY <1>6, DownGood DEF Ready, GridStep
  <2>2. QED
    BY <1>6, <2>1, StillCursor DEF SavedStep, look
<1>7. CASE cy # 0 /\ cy' = cy - 1 /\ UNCHANGED <<grid, cx, wrap, next_line, look>>
  <2>1. cy' \in 0 .. rows - 1
    BY <1>7, Numbers DEF Ready, CursorInside
  <2>2. CursorStep
    BY <1>7, <2>1 DEF Ready, CursorStep, CursorInside, WrapAtEdge, Flags
  <2>3. QED
    BY <1>7, <2>2, StillGrid DEF SavedStep, look
<1>8. CASE line_feed /\ cx' = 0 /\ next_line' = wrap /\ UNCHANGED <<wrap, look>>
  <2>1. GridStep
    BY <1>8, FeedGood DEF Ready, GridStep
  <2>2. cy' \in 0 .. rows - 1 /\ cx' \in 0 .. cols - 1
    BY <1>8, FeedInside, Numbers DEF Ready
  <2>3. wrap' \in BOOLEAN /\ next_line' \in BOOLEAN /\ (wrap' => next_line')
    BY <1>8, Zenon DEF Ready, Flags
  <2>4. QED
    BY <1>8, <2>1, <2>2, <2>3 DEF CursorStep, SavedStep, look
<1>9. QED
  BY <1>1, <1>2, <1>3, <1>4, <1>5, <1>6, <1>7, <1>8 DEF esc, look

LEMMA GroundStep ==
  ASSUME Ready, ground
  PROVE  GridStep /\ CursorStep /\ SavedStep
<1>1. SavedStep
  BY DEF ground, look, SavedStep
<1>2. CASE UNCHANGED <<grid, at>>
  BY <1>1, <1>2, StillCursor, StillGrid
<1>3. CASE cx' = 0 /\ wrap' = FALSE /\ next_line' = FALSE /\ UNCHANGED <<cy, grid>>
  <2>1. cx' \in 0 .. cols - 1 /\ cy' \in 0 .. rows - 1
    BY <1>3, Numbers DEF Ready, CursorInside
  <2>2. QED
    BY <1>1, <1>3, <2>1, MovedCursor, StillGrid
<1>4. CASE line_feed /\ wrap' = FALSE /\ next_line' = FALSE /\ UNCHANGED cx
  <2>1. GridStep
    BY <1>4, FeedGood DEF Ready, GridStep
  <2>2. cx' \in 0 .. cols - 1 /\ cy' \in 0 .. rows - 1
    BY <1>4, FeedInside DEF Ready, CursorInside
  <2>3. QED
    BY <1>1, <1>4, <2>1, <2>2, MovedCursor
<1>5. CASE Backspace
  <2>1. cx' \in 0 .. cols - 1 /\ cy' \in 0 .. rows - 1
    BY <1>5, Numbers DEF Ready, CursorInside, Backspace, Greatest, Least
  <2>2. QED
    BY <1>1, <1>5, <2>1, MovedCursor, StillGrid DEF Backspace
<1>6. CASE /\ UNCHANGED grid
           /\ move_to(Least(cols - 1, TabStop * (cx \div TabStop + 1)), cy)
  <2>1. Least(cols - 1, TabStop * (cx \div TabStop + 1)) \in Int /\ cy \in Int
    BY Numbers DEF Ready, CursorInside, Least
  <2> DEFINE to == Least(cols - 1, TabStop * (cx \div TabStop + 1))
  <2> HIDE DEF to
  <2>2. CursorStep
    BY <1>6, <2>1, MoveInside, MovedCursor DEF to
  <2>3. QED
    BY <1>1, <1>6, <2>2, StillGrid
<1>7. CASE \E c \in Chars \cup {Space} : put_char(c)
  <2>1. PICK c \in Chars \cup {Space} : put_char(c)
    BY <1>7
  <2>2. /\ Good(cells', px')
        /\ cx' \in 0 .. cols - 1 /\ cy' \in 0 .. rows - 1
        /\ wrap' \in BOOLEAN /\ next_line' = FALSE
        /\ wrap' => cx' = cols - 1
    BY <2>1, PutChar DEF Ready, Flags
  <2>3. QED
    BY <1>1, <2>2 DEF GridStep, CursorStep
<1>8. QED
  BY <1>2, <1>3, <1>4, <1>5, <1>6, <1>7 DEF ground

-----------------------------------------------------------------------------
\* While characters are fed, no cursor is drawn.
LEMMA FeedingReady ==
  ASSUME IInv, task = "feeding"
  PROVE  Ready /\ drawn_cursor = None
<1>1. drawn_cursor = None
  BY DEF IInv, ShownAsCells
<1>2. ASSUME NEW p \in Position PROVE p # None
  BY Numbers DEF Position, None
<1>3. Alike(cells, px)
  BY <1>1, <1>2 DEF IInv, ShownAsCells, Alike
<1>4. QED
  BY <1>1, <1>3 DEF IInv, Ready, Good, Shaped

LEMMA ParamsStep ==
  ASSUME Listed, feed_char
  PROVE  Listed'
<1>1. <<Nil>> \in Seq(Nat \cup {Nil})
  OBVIOUS
<1>2. CASE \E f \in Finals : csi(f)
  BY <1>1, <1>2 DEF csi, Listed
<1>3. CASE CsiOther
  BY <1>1, <1>3, TermAssumption DEF CsiOther, Listed
<1>4. CASE \E c \in {"[", "7", "8", "c", "D", "M", "E", "other"} : esc(c)
  BY <1>4 DEF esc, Listed
<1>5. CASE ground
  BY <1>5 DEF ground, Listed
<1>6. QED
  BY <1>2, <1>3, <1>4, <1>5 DEF feed_char

LEMMA CharStep ==
  ASSUME IInv, feed_char
  PROVE  IInv'
<1>1. task = "feeding" /\ task' = "feeding" /\ drawn_cursor' = drawn_cursor
  BY DEF feed_char
<1>2. Ready /\ drawn_cursor = None
  BY <1>1, FeedingReady
<1>3. GridStep /\ CursorStep /\ SavedStep
  <2>1. CASE \E f \in Finals : csi(f)
    BY <1>2, <2>1, CsiStep
  <2>2. CASE CsiOther
    BY <1>2, <2>2, StillCursor, StillGrid DEF CsiOther, SavedStep, look
  <2>3. CASE \E c \in {"[", "7", "8", "c", "D", "M", "E", "other"} : esc(c)
    BY <1>2, <2>3, EscStep
  <2>4. CASE ground
    BY <1>2, <2>4, GroundStep
  <2>5. QED
    BY <2>1, <2>2, <2>3, <2>4 DEF feed_char
<1>4. CursorInside'
  <2>1. <<cx, cy>> \in Position
    BY DEF IInv, CursorInside, Position
  <2>2. saved' \in Position \cup {None}
    BY <1>3, <2>1 DEF SavedStep, IInv, CursorInside
  <2>3. QED
    BY <1>1, <1>2, <1>3, <2>2 DEF CursorStep, CursorInside
<1>5. WrapAtEdge' /\ Flags'
  BY <1>3 DEF CursorStep, WrapAtEdge, Flags
<1>6. Listed'
  BY ParamsStep DEF IInv
<1>7. Shaped'
  BY <1>3 DEF GridStep, Good, Shaped, Grid
<1>8. ShownAsCells'
  <2>1. ASSUME NEW p \in Position PROVE p # None
    BY Numbers DEF Position, None
  <2>2. \A p \in Position : px'[p] = Drawn(cells'[p])
    BY <1>3 DEF GridStep, Good, Alike
  <2>3. QED
    BY <1>1, <1>2, <2>1, <2>2 DEF ShownAsCells
<1>9. QED
  BY <1>4, <1>5, <1>6, <1>7, <1>8 DEF IInv

\* Showing the cursor on a surface that shows the cells
LEMMA CursorShown ==
  ASSUME IInv, NEW before, Good(cells, before), show_cursor(before),
         task' = "idle", UNCHANGED <<cells, at, look, parser>>
  PROVE  IInv'
<1> DEFINE q == <<Least(cx, cols - 1), cy>>
<1>1. q = <<cx, cy>> /\ q \in Position
  BY Numbers DEF IInv, CursorInside, Position, Least
<1>2. ASSUME NEW p \in Position PROVE p # None
  BY Numbers DEF Position, None
<1>3. UNCHANGED <<cx, cy, wrap, next_line, saved, cursor, params, cells>>
  BY DEF at, look, parser
<1>4. WrapAtEdge' /\ Flags' /\ Listed'
  BY <1>3 DEF IInv, WrapAtEdge, Flags, Listed
<1>5. DOMAIN before = Position /\ Grid(before) /\ Grid(cells)
  BY DEF Good, Grid
<1>6. CASE cursor
  <2>1. px' = [before EXCEPT ![q] = Drawn(Inverted(cells[q]))] /\ drawn_cursor' = q
    BY <1>6 DEF show_cursor
  <2> HIDE DEF q
  <2>2. CursorInside'
    BY <1>1, <1>3, <2>1 DEF IInv, CursorInside
  <2>3. Shaped'
    BY <1>3, <1>5, <2>1 DEF Shaped, Grid
  <2>4. \A p \in Position :
          px'[p] = Drawn(IF p = q THEN Inverted(cells[p]) ELSE cells[p])
    BY <1>1, <1>5, <2>1 DEF Good, Alike
  <2>5. ShownAsCells'
    BY <1>1, <1>3, <1>6, <2>1, <2>4 DEF ShownAsCells
  <2>6. QED
    BY <1>4, <2>2, <2>3, <2>5 DEF IInv
<1>7. CASE ~cursor
  <2>1. px' = before /\ drawn_cursor' = None
    BY <1>7 DEF show_cursor
  <2>2. CursorInside'
    BY <1>3, <2>1 DEF IInv, CursorInside
  <2>3. Shaped'
    BY <1>3, <1>5, <2>1 DEF Shaped, Grid
  <2>4. ShownAsCells'
    BY <1>2, <1>3, <1>7, <2>1 DEF ShownAsCells, Good, Alike
  <2>5. QED
    BY <1>4, <2>2, <2>3, <2>4 DEF IInv
<1>8. QED
  BY <1>6, <1>7

LEMMA BeginStep ==
  ASSUME IInv, FeedBegin
  PROVE  IInv'
<1>1. UNCHANGED <<cx, cy, wrap, next_line, saved, cursor, params, cells>>
  BY DEF FeedBegin, at, look, parser
<1>2. task = "idle" /\ task' = "feeding" /\ drawn_cursor' = None
  BY DEF FeedBegin, hide_cursor
<1>3. ASSUME NEW p \in Position PROVE p # None
  BY Numbers DEF Position, None
<1>4. DOMAIN px = Position
  BY DEF IInv, Shaped, Grid
<1>5. \A p \in Position : px'[p] = Drawn(cells[p])
  BY <1>2, <1>3, <1>4 DEF IInv, ShownAsCells, FeedBegin, hide_cursor
<1>6. Shaped'
  BY <1>1, <1>4 DEF IInv, Shaped, Grid, FeedBegin, hide_cursor
<1>7. ShownAsCells'
  BY <1>1, <1>2, <1>3, <1>5 DEF ShownAsCells
<1>8. WrapAtEdge' /\ Flags' /\ Listed' /\ CursorInside'
  BY <1>1, <1>2 DEF IInv, WrapAtEdge, Flags, Listed, CursorInside
<1>9. QED
  BY <1>6, <1>7, <1>8 DEF IInv

LEMMA Step == IInv /\ [Next]_vars => IInv'
<1> SUFFICES ASSUME IInv, [Next]_vars PROVE IInv'
  OBVIOUS
<1>1. CASE start
  <2> DEFINE whole == [p \in Position |-> Drawn(cells[p])]
  <2>1. Good(cells, whole)
    BY DEF IInv, Shaped, Good, Grid, Alike
  <2>2. show_cursor(whole)
    BY <1>1 DEF start
  <2> HIDE DEF whole
  <2>3. QED
    BY <1>1, <2>1, <2>2, CursorShown DEF start
<1>2. CASE FeedBegin
  BY <1>2, BeginStep
<1>3. CASE feed_char
  BY <1>3, CharStep
<1>4. CASE FeedEnd
  <2>1. Good(cells, px)
    BY <1>4, FeedingReady DEF FeedEnd, Ready
  <2>2. QED
    BY <1>4, <2>1, CursorShown DEF FeedEnd
<1>5. CASE UNCHANGED vars
  BY <1>5 DEF vars, grid, at, look, parser, IInv, CursorInside, WrapAtEdge, Flags,
              Listed, Shaped, Grid, ShownAsCells
<1>6. QED
  BY <1>1, <1>2, <1>3, <1>4, <1>5 DEF Next

LEMMA Initially == Init => IInv
<1> SUFFICES ASSUME Init PROVE IInv
  OBVIOUS
<1>1. CursorInside
  BY Numbers DEF Init, CursorInside
<1>2. WrapAtEdge /\ Flags /\ ShownAsCells
  BY DEF Init, WrapAtEdge, Flags, ShownAsCells
<1>3. Listed
  BY DEF Init, Listed
<1>4. Shaped
  BY DEF Init, Shaped, Grid
<1>5. QED
  BY <1>1, <1>2, <1>3, <1>4 DEF IInv

\* The invariant of a terminal of any size, fed anything.
THEOREM Invariance == Spec => []IInv
BY Initially, Step, PTL DEF Spec

\* The cursor, the saved and the drawn one never leave the grid: no character
\* and no parameter makes put-char or draw-cell! reach outside it.
THEOREM CursorInsideTheorem == Spec => []CursorInside
<1>1. IInv => CursorInside
  BY DEF IInv
<1>2. QED
  BY <1>1, Invariance, PTL

\* The surface always shows the cells and, between batches, the cursor.
THEOREM ShownAsCellsTheorem == Spec => []ShownAsCells
<1>1. IInv => ShownAsCells
  BY DEF IInv
<1>2. QED
  BY <1>1, Invariance, PTL

\* But for ESC E, a wrap is pending only at the right edge.
THEOREM WrapAtEdgeTheorem == Spec => []WrapAtEdge
<1>1. IInv => WrapAtEdge
  BY DEF IInv
<1>2. QED
  BY <1>1, Invariance, PTL

-----------------------------------------------------------------------------
\* Of a set of numbers, the least; of a bounded one, the greatest
LEMMA LeastOf ==
  ASSUME NEW S, S \subseteq Nat, S # {}
  PROVE  \E m \in S : \A x \in S : m <= x
<1>1. IsWellFoundedOn(OpToRel(<, Nat), Nat)
  BY NatLessThanWellFounded
<1>2. PICK m \in S : \A x \in S : ~ (<<x, m>> \in OpToRel(<, Nat))
  BY <1>1, WFMin
<1>3. ASSUME NEW x \in S PROVE m <= x
  <2>1. m \in Nat /\ x \in Nat
    OBVIOUS
  <2>2. ~ (x < m)
    BY <1>2, <2>1 DEF OpToRel
  <2> QED BY <2>1, <2>2
<1> QED BY <1>3

LEMMA GreatestOf ==
  ASSUME NEW top \in Nat, NEW S, S \subseteq 0 .. top, S # {}
  PROVE  \E m \in S : \A x \in S : x <= m
<1> DEFINE T == {top - x : x \in S}
<1>1. T \subseteq Nat /\ T # {}
  OBVIOUS
<1>2. PICK l \in T : \A x \in T : l <= x
  <2> HIDE DEF T
  <2> QED BY <1>1, LeastOf
<1>3. PICK m \in S : l = top - m
  OBVIOUS
<1>4. ASSUME NEW x \in S PROVE x <= m
  <2>1. top - m <= top - x
    BY <1>2, <1>3
  <2> QED BY <2>1
<1> QED BY <1>4

-----------------------------------------------------------------------------
\* While an entry of the history is shown, the line that was typed is saved.
Walking == hist # Nil => saved_line = typed
\* What is kept of lines are texts.
Lines ==
  /\ history \in Seq(Text) /\ kill_ring \in Text /\ lines \in Text
  /\ buf \in Text /\ saved_line \in Text /\ hist \in Nat \cup {Nil}

\* The inductive invariant of the editor
WalkInv == HistoryWalk /\ Walking /\ Lines

\* A text without the characters after from up to and with to
LEMMA Cutting ==
  ASSUME NEW s \in Text, NEW from \in 0 .. Len(s), NEW to \in from .. Len(s)
  PROVE  LET r == SubSeq(s, 1, from) \o SubSeq(s, to + 1, Len(s))
         IN  /\ r \in Text /\ Len(r) = Len(s) - (to - from)
             /\ SubSeq(s, 1, from) \in Text /\ Len(SubSeq(s, 1, from)) = from
             /\ SubSeq(s, to + 1, Len(s)) \in Text /\ Len(SubSeq(s, to + 1, Len(s))) = Len(s) - to
             /\ SubSeq(s, from + 1, to) \in Text
<1> DEFINE C == Chars \cup {Space}
<1>0. s \in Seq(C) /\ Text = Seq(C)
  BY DEF Text
<1> HIDE DEF C
<1>1. Len(s) \in Nat
  BY <1>0
<1>2. PICK a : a = SubSeq(s, 1, from)
  OBVIOUS
<1>3. PICK b : b = SubSeq(s, to + 1, Len(s))
  OBVIOUS
<1>4. a \in Seq(C) /\ Len(a) = from
  BY <1>0, <1>1, <1>2, SubSeqProperties
<1>5. b \in Seq(C) /\ Len(b) = Len(s) - to
  BY <1>0, <1>1, <1>3, SubSeqProperties
<1>6. SubSeq(s, from + 1, to) \in Seq(C)
  BY <1>0, <1>1, SubSeqProperties
<1>7. a \o b \in Seq(C) /\ Len(a \o b) = Len(a) + Len(b)
  BY <1>4, <1>5, ConcatProperties
<1>8. Len(a \o b) = Len(s) - (to - from)
  BY <1>1, <1>4, <1>5, <1>7
<1> QED BY <1>0, <1>2, <1>3, <1>4, <1>5, <1>6, <1>7, <1>8

\* word-left goes to the left and stays in the line.
LEMMA WordLeft ==
  ASSUME pos \in 0 .. Len(buf), Len(buf) \in Nat
  PROVE  word_left \in 0 .. pos
<1> DEFINE S == {p \in 0 .. pos - 1 : word_char(buf[p + 1]) /\ (p > 0 => ~word_char(buf[p]))}
<1>1. S \subseteq 0 .. pos /\ pos \in Nat
  OBVIOUS
<1>2. word_left = IF S = {} THEN 0 ELSE CHOOSE p \in S : \A q \in S : q <= p
  BY DEF word_left
<1> HIDE DEF S
<1>3. CASE S = {}
  BY <1>1, <1>2, <1>3
<1>4. CASE S # {}
  <2>1. \E p \in S : \A q \in S : q <= p
    BY <1>1, <1>4, GreatestOf
  <2> QED BY <1>1, <1>2, <1>4, <2>1
<1> QED BY <1>3, <1>4

\* word-right goes to the right and stays in the line.
LEMMA WordRight ==
  ASSUME pos \in 0 .. Len(buf), Len(buf) \in Nat
  PROVE  word_right \in pos .. Len(buf)
<1> DEFINE S == {p \in pos + 1 .. Len(buf) :
                   word_char(buf[p]) /\ (p < Len(buf) => ~word_char(buf[p + 1]))}
<1>1. S \subseteq Nat /\ S \subseteq pos .. Len(buf)
  OBVIOUS
<1>2. word_right = IF S = {} THEN Len(buf) ELSE CHOOSE p \in S : \A q \in S : q >= p
  BY DEF word_right
<1> HIDE DEF S
<1>3. CASE S = {}
  BY <1>2, <1>3
<1>4. CASE S # {}
  <2>1. PICK p \in S : \A q \in S : p <= q
    BY <1>1, <1>4, LeastOf
  <2>2. \A q \in S : q >= p
    BY <1>1, <2>1
  <2> QED BY <1>1, <1>2, <1>4, <2>2
<1> QED BY <1>3, <1>4

\* What trim returns is a text.
LEMMA Trimmed ==
  ASSUME NEW text \in Text
  PROVE  trim(text) \in Text
<1> DEFINE I == {i \in 1 .. Len(text) : text[i] # Space}
           from == IF I # {} THEN Seqs!Min(I) ELSE 0
           to == IF I # {} THEN Seqs!Max(I) ELSE 0
<1>1. trim(text) = IF to = 0 THEN <<>> ELSE SubSeq(text, from, to)
  BY DEF trim, Seqs!SelectInSeq, Seqs!SelectLastInSeq
<1>2. I \subseteq 1 .. Len(text)
  OBVIOUS
<1>3. Len(text) \in Nat
  BY DEF Text
<1> HIDE DEF I
<1>4. CASE I = {}
  <2>1. trim(text) = <<>>
    BY <1>1, <1>4
  <2> QED BY <2>1 DEF Text
<1>5. CASE I # {}
  <2>0. I \subseteq Nat /\ I \subseteq 0 .. Len(text)
    BY <1>2, <1>3
  <2>1. PICK a \in I : \A x \in I : a <= x
    BY <1>5, <2>0, LeastOf
  <2>2. PICK b \in I : \A x \in I : x <= b
    BY <1>3, <1>5, <2>0, GreatestOf
  <2>3. from \in I /\ \A x \in I : from <= x
    BY <1>5, <2>1 DEF Seqs!Min
  <2>4. to \in I
    <3>1. \A x \in I : b >= x
      BY <1>2, <1>3, <2>2
    <3> QED BY <1>5, <3>1 DEF Seqs!Max
  <2> HIDE DEF from, to
  <2>5. from \in 1 .. Len(text) + 1 /\ to \in from - 1 .. Len(text) /\ to # 0
    BY <1>2, <1>3, <2>3, <2>4
  <2>6. SubSeq(text, from, to) \in Text
    BY <1>3, <2>5, SubSeqProperties DEF Text
  <2> QED BY <1>1, <2>5, <2>6
<1> QED BY <1>4, <1>5

\* remember! makes no history shorter: at its limit it drops one entry for the new one.
LEMMA Remembering ==
  ASSUME NEW h \in Seq(Text), NEW text \in Text
  PROVE  Remembered(h, text) \in Seq(Text) /\ Len(Remembered(h, text)) >= Len(h)
<1>1. Len(h) \in Nat
  OBVIOUS
<1>2. PICK a : a = Append(h, text)
  OBVIOUS
<1>3. a \in Seq(Text) /\ Len(a) = Len(h) + 1
  BY <1>2, AppendProperties
<1>4. a # <<>>
  BY <1>1, <1>3
<1>5. Tail(a) \in Seq(Text) /\ Len(Tail(a)) = Len(h)
  BY <1>1, <1>3, <1>4, HeadTailProperties
<1>6. Remembered(h, text) \in {h, a, Tail(a)}
  BY <1>2 DEF Remembered
<1> QED BY <1>1, <1>3, <1>5, <1>6

-----------------------------------------------------------------------------
\* A history that is no shorter keeps the index.
LEMMA HistoryGrows ==
  ASSUME WalkInv, history' \in Seq(Text), Len(history') >= Len(history),
         kill_ring' \in Text, lines' \in Text,
         UNCHANGED <<buf, pos, hist, saved_line, typed>>
  PROVE  WalkInv'
<1>1. Len(history) \in Nat /\ Len(history') \in Nat
  BY DEF WalkInv, Lines
<1>2. HistoryWalk'
  BY <1>1 DEF WalkInv, HistoryWalk, Lines
<1> QED BY <1>2 DEF WalkInv, Walking, Lines

\* An editing command keeps the invariant if it leaves the cursor in the line.
LEMMA Edited ==
  ASSUME WalkInv, Edit, buf' \in Text, pos' \in 0 .. Len(buf'), kill_ring' \in Text
  PROVE  WalkInv'
<1>1. UNCHANGED <<hist, saved_line, history, lines>> /\ typed' = IF hist = Nil THEN buf' ELSE typed
  BY DEF Edit, Shows
<1> QED BY <1>1 DEF WalkInv, HistoryWalk, Walking, Lines

\* insert and delete-range leave the cursor in the line.
LEMMA Inserted ==
  ASSUME WalkInv, NEW cs \in Text, insert(cs)
  PROVE  buf' \in Text /\ pos' \in 0 .. Len(buf')
<1> DEFINE C == Chars \cup {Space}
<1>0. Text = Seq(C) /\ buf \in Text /\ pos \in 0 .. Len(buf)
  BY DEF Text, WalkInv, Lines, HistoryWalk
<1> HIDE DEF C
<1>1. Len(buf) \in Nat /\ Len(cs) \in Nat /\ pos \in pos .. Len(buf)
  BY <1>0
<1>2. PICK a : a = SubSeq(buf, 1, pos)
  OBVIOUS
<1>3. PICK b : b = SubSeq(buf, pos + 1, Len(buf))
  OBVIOUS
<1>4. a \in Text /\ Len(a) = pos /\ b \in Text /\ Len(b) = Len(buf) - pos
  BY <1>0, <1>1, <1>2, <1>3, Cutting
<1>5. PICK c : c = a \o cs
  OBVIOUS
<1>6. c \in Seq(C) /\ Len(c) = pos + Len(cs)
  BY <1>0, <1>4, <1>5, ConcatProperties
<1>7. c \o b \in Seq(C) /\ Len(c \o b) = Len(c) + Len(b)
  BY <1>0, <1>4, <1>6, ConcatProperties
<1>8. buf' = c \o b /\ pos' = pos + Len(cs)
  BY <1>2, <1>3, <1>5 DEF insert
<1> QED BY <1>0, <1>1, <1>4, <1>6, <1>7, <1>8

LEMMA Deleted ==
  ASSUME WalkInv, NEW from \in 0 .. Len(buf), NEW to \in from .. Len(buf), delete_range(from, to)
  PROVE  buf' \in Text /\ pos' \in 0 .. Len(buf') /\ SubSeq(buf, from + 1, to) \in Text
<1>1. buf \in Text /\ Len(buf) \in Nat
  BY DEF WalkInv, Lines, Text
<1>2. PICK r : r = SubSeq(buf, 1, from) \o SubSeq(buf, to + 1, Len(buf))
  OBVIOUS
<1>3. r \in Text /\ Len(r) = Len(buf) - (to - from) /\ SubSeq(buf, from + 1, to) \in Text
  BY <1>1, <1>2, Cutting
<1>4. buf' = r /\ pos' = from
  BY <1>2 DEF delete_range
<1> QED BY <1>1, <1>3, <1>4

\* The keys that edit
LEMMA KeyStep ==
  ASSUME WalkInv, Type \/ Move \/ Delete \/ kill \/ Yank
  PROVE  WalkInv'
<1>0. /\ buf \in Text /\ pos \in 0 .. Len(buf) /\ Len(buf) \in Nat /\ kill_ring \in Text
  BY DEF WalkInv, Lines, HistoryWalk, Text
<1>1. CASE Type
  <2>1. PICK c \in Typed : insert(<<c>>)
    BY <1>1 DEF Type
  <2>2. <<c>> \in Text
    BY LineEditAssumption DEF Text
  <2>3. Edit /\ kill_ring' \in Text
    BY <1>0, <1>1 DEF Type
  <2> QED BY <2>1, <2>2, <2>3, Inserted, Edited
<1>2. CASE Move
  <2>1. pos' \in 0 .. Len(buf)
    <3>1. Moves \subseteq 0 .. Len(buf)
      BY <1>0, WordLeft, WordRight DEF Moves, Greatest, Least
    <3> QED BY <1>2, <3>1 DEF Move
  <2> QED BY <1>0, <1>2, <2>1, Edited DEF Move
<1>3. CASE Delete
  <2>1. Edit /\ kill_ring' \in Text
    BY <1>0, <1>3 DEF Delete
  <2>2. CASE pos > 0 /\ delete_range(pos - 1, pos)
    <3>1. pos - 1 \in 0 .. Len(buf) /\ pos \in pos - 1 .. Len(buf)
      BY <1>0, <2>2
    <3> QED BY <2>1, <2>2, <3>1, Deleted, Edited
  <2>3. CASE pos < Len(buf) /\ delete_range(pos, pos + 1)
    <3>1. pos + 1 \in pos .. Len(buf)
      BY <1>0, <2>3
    <3> QED BY <1>0, <2>1, <2>3, <3>1, Deleted, Edited
  <2> QED BY <1>3, <2>2, <2>3 DEF Delete
<1>4. CASE kill
  <2>1. PICK r \in {<<pos, Len(buf)>>, <<0, pos>>, <<word_left, pos>>, <<pos, word_right>>} :
          kill_ring' = SubSeq(buf, r[1] + 1, r[2]) /\ delete_range(r[1], r[2])
    BY <1>4 DEF kill
  <2>2. word_left \in 0 .. pos /\ word_right \in pos .. Len(buf)
    BY <1>0, WordLeft, WordRight
  <2>4. r[1] \in 0 .. Len(buf) /\ r[2] \in r[1] .. Len(buf)
    <3>1. CASE r = <<pos, Len(buf)>>
      BY <1>0, <3>1
    <3>2. CASE r = <<0, pos>>
      BY <1>0, <3>2
    <3>3. CASE r = <<word_left, pos>>
      BY <1>0, <2>2, <3>3
    <3>4. CASE r = <<pos, word_right>>
      BY <1>0, <2>2, <3>4
    <3> QED BY <2>1, <3>1, <3>2, <3>3, <3>4
  <2>5. buf' \in Text /\ pos' \in 0 .. Len(buf') /\ kill_ring' \in Text
    BY <2>1, <2>4, Deleted
  <2>3. Edit
    BY <1>4 DEF kill
  <2> QED BY <2>3, <2>5, Edited
<1>5. CASE Yank
  BY <1>0, <1>5, Inserted, Edited DEF Yank
<1> QED BY <1>1, <1>2, <1>3, <1>4, <1>5

\* Up and down: at most one entry, and past the last back to the typed line
LEMMA HistoryMoveStep ==
  ASSUME WalkInv, history_move
  PROVE  WalkInv'
<1>1. PICK dir \in {-1, 1} :
        /\ hist' = Target_(dir) /\ saved_line' = SavedLine
        /\ IF Target_(dir) = Nil /\ hist = Nil THEN UNCHANGED <<buf, pos>>
           ELSE /\ buf' = IF Target_(dir) = Nil THEN SavedLine ELSE history[Target_(dir) + 1]
                /\ pos' = Len(buf')
  BY DEF history_move
<1>2. UNCHANGED <<history, kill_ring, typed, lines>>
  BY DEF history_move, shared, Shows
<1>3. PICK j : j = Target_(dir)
  OBVIOUS
<1>4. /\ history \in Seq(Text) /\ Len(history) \in Nat /\ buf \in Text /\ saved_line \in Text
      /\ hist \in Nat \cup {Nil}
      /\ hist # Nil => hist \in 0 .. Len(history) - 1
  BY DEF WalkInv, Lines, HistoryWalk
<1>5. j = Nil \/ j \in 0 .. Len(history) - 1
  <2>1. CASE hist = Nil
    BY <1>3, <1>4, <2>1 DEF Target_
  <2>2. CASE hist # Nil /\ dir < 0
    <3>1. hist \in 0 .. Len(history) - 1
      BY <1>4, <2>2
    <3>2. j = IF 0 >= hist - 1 THEN 0 ELSE hist - 1
      BY <1>3, <2>2, <3>1 DEF Target_, Greatest
    <3> QED BY <1>4, <3>1, <3>2
  <2>3. CASE hist # Nil /\ ~(dir < 0)
    <3>1. hist \in 0 .. Len(history) - 1
      BY <1>4, <2>3
    <3>2. j = IF hist + 1 < Len(history) THEN hist + 1 ELSE Nil
      BY <1>3, <2>3 DEF Target_
    <3> QED BY <1>4, <3>1, <3>2
  <2> QED BY <2>1, <2>2, <2>3
<1>6. SavedLine \in Text /\ SavedLine = typed
  BY <1>4 DEF SavedLine, WalkInv, Walking, HistoryWalk
<1>7. j # Nil => history[j + 1] \in Text
  <2>1. j # Nil => j + 1 \in 1 .. Len(history)
    BY <1>4, <1>5
  <2> QED BY <1>4, <2>1, ElementOfSeq
<1>8. buf' \in Text /\ pos' \in 0 .. Len(buf')
  <2>1. CASE j = Nil /\ hist = Nil
    BY <1>1, <1>3, <2>1 DEF WalkInv, HistoryWalk, Lines
  <2>2. CASE ~(j = Nil /\ hist = Nil)
    <3>1. buf' \in Text /\ pos' = Len(buf')
      BY <1>1, <1>3, <1>6, <1>7, <2>2
    <3>2. Len(buf') \in Nat
      BY <3>1 DEF Text
    <3> QED BY <3>1, <3>2
  <2> QED BY <2>1, <2>2
<1>9. hist' = Nil => buf' = typed'
  BY <1>1, <1>2, <1>3, <1>6 DEF SavedLine, WalkInv, HistoryWalk
<1>10. HistoryWalk'
  BY <1>1, <1>2, <1>3, <1>5, <1>8, <1>9 DEF HistoryWalk
<1>11. Lines' /\ Walking'
  <2>1. hist' \in Nat \cup {Nil}
    BY <1>1, <1>3, <1>4, <1>5
  <2> QED BY <1>1, <1>2, <1>6, <1>8, <2>1 DEF WalkInv, Lines, Walking
<1> QED BY <1>10, <1>11 DEF WalkInv

\* Tab
LEMMA CompleteStep ==
  ASSUME WalkInv, complete
  PROVE  WalkInv'
<1>1. UNCHANGED <<hist, saved_line, history, kill_ring, lines>> /\ typed' = IF hist = Nil THEN buf' ELSE typed
  BY DEF complete, Shows, shared
<1>2. buf' \in Text /\ pos' \in 0 .. Len(buf')
  <2>1. CASE UNCHANGED <<buf, pos>>
    BY <2>1 DEF WalkInv, HistoryWalk, Lines
  <2>2. CASE \E cs \in {<<>>} \cup {<<c>> : c \in Typed} : insert(cs)
    <3>1. {<<>>} \cup {<<c>> : c \in Typed} \subseteq Text
      <4>1. <<>> \in Text
        BY DEF Text
      <4>2. ASSUME NEW c \in Typed PROVE <<c>> \in Text
        BY LineEditAssumption DEF Text
      <4> QED BY <4>1, <4>2
    <3> QED BY <2>2, <3>1, Inserted
  <2> QED BY <2>1, <2>2 DEF complete
<1> QED BY <1>1, <1>2 DEF WalkInv, HistoryWalk, Walking, Lines

\* Enter, which may remember the line
LEMMA EnterStep ==
  ASSUME WalkInv, Enter
  PROVE  WalkInv'
<1>1. UNCHANGED <<kill_ring, buf, pos, hist, saved_line, typed>>
  BY DEF Enter
<1>2. PICK text : text = lines \o buf
  OBVIOUS
<1>3. text \in Text /\ trim(text) \in Text
  <2>1. text \in Text
    BY <1>2 DEF WalkInv, Lines, Text
  <2> QED BY <2>1, Trimmed
<1>4. Append(text, Space) \in Text /\ <<>> \in Text
  BY <1>3 DEF Text
<1>5. history \in Seq(Text) /\ Len(history) \in Nat /\ kill_ring \in Text
  BY DEF WalkInv, Lines
<1>6. history' \in Seq(Text) /\ Len(history') >= Len(history) /\ lines' \in Text
  <2>1. CASE history' = Remembered(history, trim(text)) /\ lines' = <<>>
    BY <1>3, <1>4, <1>5, <2>1, Remembering
  <2>2. CASE lines' = Append(text, Space) /\ UNCHANGED history
    BY <1>4, <1>5, <2>2
  <2> QED BY <1>2, <2>1, <2>2 DEF Enter
<1> QED BY <1>1, <1>5, <1>6, HistoryGrows

\* The other REPL, between two keys
LEMMA OtherReplStep ==
  ASSUME WalkInv, OtherRepl
  PROVE  WalkInv'
<1>1. UNCHANGED <<lines, buf, pos, hist, saved_line, typed>>
  BY DEF OtherRepl, line
<1>2. history \in Seq(Text) /\ Len(history) \in Nat /\ kill_ring \in Text /\ lines' \in Text
  BY <1>1 DEF WalkInv, Lines
<1>3. PICK text \in OtherLines : \/ history' = Remembered(history, text) /\ UNCHANGED kill_ring
                                 \/ kill_ring' = text /\ UNCHANGED history
  BY DEF OtherRepl
<1>4. text \in Text
  BY LineEditAssumption
<1>5. history' \in Seq(Text) /\ Len(history') >= Len(history) /\ kill_ring' \in Text
  <2>1. CASE history' = Remembered(history, text) /\ UNCHANGED kill_ring
    BY <1>2, <1>4, <2>1, Remembering
  <2>2. CASE kill_ring' = text /\ UNCHANGED history
    BY <1>2, <1>4, <2>2
  <2> QED BY <1>3, <2>1, <2>2
<1> QED BY <1>1, <1>2, <1>5, HistoryGrows

LEMMA WalkStep == WalkInv /\ [EditNext]_editVars => WalkInv'
<1> SUFFICES ASSUME WalkInv, [EditNext]_editVars PROVE WalkInv'
  OBVIOUS
<1>0. ASSUME UNCHANGED <<history, kill_ring, lines, buf, pos, hist, saved_line, typed>> PROVE WalkInv'
  BY <1>0 DEF WalkInv, HistoryWalk, Walking, Lines
<1>1. CASE Draw
  BY <1>0, <1>1 DEF Draw, line, shared
<1>2. CASE read_line
  <2>1. /\ buf' = <<>> /\ pos' = 0 /\ hist' = Nil /\ saved_line' = <<>> /\ typed' = <<>>
        /\ UNCHANGED <<history, kill_ring, lines>>
    BY <1>2 DEF read_line, shared
  <2>2. <<>> \in Text /\ Len(<<>>) = 0
    BY DEF Text
  <2>3. HistoryWalk' /\ Walking'
    BY <2>1, <2>2 DEF HistoryWalk, Walking
  <2> QED BY <2>1, <2>2, <2>3 DEF WalkInv, Lines
<1>3. CASE NextLine
  BY <1>0, <1>3 DEF NextLine, shared
<1>4. CASE Clear
  BY <1>0, <1>4 DEF Clear, shared, Shows
<1>5. CASE Cancel
  <2>1. UNCHANGED <<history, kill_ring, buf, pos, hist, saved_line, typed>> /\ lines' = <<>>
    BY <1>5 DEF Cancel, shared
  <2>2. <<>> \in Text
    BY DEF Text
  <2> QED BY <2>1, <2>2 DEF WalkInv, HistoryWalk, Walking, Lines
<1>6. CASE UNCHANGED editVars
  BY <1>0, <1>6 DEF editVars, line, shared
<1> QED BY <1>1, <1>2, <1>3, <1>4, <1>5, <1>6, KeyStep, HistoryMoveStep, CompleteStep, EnterStep,
           OtherReplStep DEF EditNext

LEMMA WalkInitially == EditInit => WalkInv
<1> SUFFICES ASSUME EditInit PROVE WalkInv
  OBVIOUS
<1>1. <<>> \in Text /\ Len(<<>>) = 0
  BY DEF Text
<1> QED BY <1>1, LineEditAssumption DEF EditInit, WalkInv, HistoryWalk, Walking, Lines

\* For every history, limit and key, and whatever the other REPL remembers or
\* kills between two keys: history-move never leaves the history, leaving it gives
\* back the typed line, and the cursor stays in the line.
THEOREM HistoryWalkTheorem == EditSpec => []HistoryWalk
<1>1. WalkInv => HistoryWalk
  BY DEF WalkInv
<1> QED BY WalkInitially, WalkStep, <1>1, PTL DEF EditSpec
=============================================================================
