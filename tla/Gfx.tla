-------------------------------- MODULE Gfx --------------------------------
(***************************************************************************)
(* kernel/gfx.c and the natives of kernel/gfx_natives.c: off-screen        *)
(* surfaces, the owner map, and the software pointer that every write to   *)
(* the screen has to hide and draw again.  A native runs to its end, so a  *)
(* call is one action.  Writes are unions of functions, so that a write    *)
(* beside a buffer would be seen.                                          *)
(***************************************************************************)
EXTENDS Screen

CONSTANTS g_w, g_h,             \* size of the screen
          GFX_SURFACES,
          CUR_W, CUR_H, cursor_art,
          Black, White,         \* colours of the pointer
          Word,                 \* 2^32: uint32_t
          Rects, Points, Sides, Scales, Inks,   \* arguments of the calls:
          Glyphs, Pictures,     \* ... bitmaps and images
          MaxCalls              \* bound: calls since gfx_init

ASSUME GfxAssumption ==
  /\ g_w \in Nat \ {0} /\ g_h \in Nat \ {0} /\ GFX_SURFACES \in Nat \ {0}
  /\ CUR_W \in Nat /\ CUR_H \in Nat /\ Word \in Nat /\ g_w < Word /\ g_h < Word
  \* cursor! and blit-bits! take int32_t, to which the size of the pointer is added;
  \* a glyph is scaled in uint32_t.
  /\ \A p \in Points : {p[1], p[2], p[1] + CUR_W, p[2] + CUR_H} \subseteq -(Word \div 2) .. Word \div 2 - 1
  /\ \A b \in Glyphs, k \in Scales : b.w * k < Word /\ b.h * k < Word
  /\ cursor_art \in [Area(CUR_W, CUR_H) -> {"#", ".", " "}]
  /\ Rects \subseteq [x : Int, y : Int, w : Int, h : Int] /\ Points \subseteq Int \X Int
  /\ Sides \subseteq Int /\ Scales \subseteq Nat
  /\ \A b \in Glyphs : b.w \in Nat /\ b.h \in Nat /\ b.bits \in [Area(b.w, b.h) -> BOOLEAN]
  /\ \A b \in Pictures : b.w \in Nat /\ b.h \in Nat /\ DOMAIN b.px = Area(b.w, b.h)

VARIABLES surfaces,             \* id -> image; NoImage: px is NULL
          owner,
          cur_x, cur_y, cur_shown, cur_saved

VARIABLE wild                   \* a memmove has left its surface

\* History: the images as the calls asked for them; whether a copy was asked for
\* that ends beyond the 32 bits; calls so far.
VARIABLES asked, far, calls

cursor == <<cur_x, cur_y, cur_shown>>
gfxVars == <<surfaces, owner, cursor, cur_saved, wild, asked, far, calls>>

Ids == 0 .. GFX_SURFACES - 1
ScreenCells == Area(g_w, g_h)
CursorCells == Area(CUR_W, CUR_H)

\* A number as uint32_t.  The natives of the screen take their arguments so: a
\* rectangle that begins left of the screen or above it begins far beyond it.
Unsigned(i) == i % Word
UnsignedRect(r) == Rect(Unsigned(r.x), Unsigned(r.y), Unsigned(r.w), Unsigned(r.h))

\* gfx_init: the frame buffer holds whatever was in memory, each pixel a value
\* of its own here.
GfxInit ==
  /\ surfaces = [i \in Ids |->
       IF i = 0 THEN [w |-> g_w, h |-> g_h, px |-> [p \in ScreenCells |-> p]] ELSE NoImage]
  /\ owner = [p \in ScreenCells |-> 0]
  /\ cur_x = 0 /\ cur_y = 0 /\ cur_shown = FALSE
  /\ cur_saved = [c \in CursorCells |-> Black]
  /\ wild = FALSE
  /\ asked = surfaces /\ far = FALSE /\ calls = 0

-----------------------------------------------------------------------------
\* The pointer

\* Frame buffer fb with the pointer at x, y; with what it hid put back; what it
\* hides.
cursor_draw(fb, x, y) ==
  LET Art(p) == cursor_art[<<p[1] - x, p[2] - y>>]
      on == {p \in Cells(Rect(x, y, CUR_W, CUR_H)) \cap ScreenCells : Art(p) # " "}
  IN  Over([p \in on |-> IF Art(p) = "#" THEN Black ELSE White], fb)
cursor_restore(fb) ==
  Over([p \in Cells(Rect(cur_x, cur_y, CUR_W, CUR_H)) \cap ScreenCells |->
          cur_saved[<<p[1] - cur_x, p[2] - cur_y>>]], fb)
Saved(fb, x, y) ==
  [c \in CursorCells |-> IF <<x + c[1], y + c[2]>> \in ScreenCells
                           THEN fb[<<x + c[1], y + c[2]>>] ELSE cur_saved[c]]

cursor_hide_for(r) ==
  cur_shown /\ ~(\/ r.x >= cur_x + CUR_W \/ r.y >= cur_y + CUR_H
                 \/ r.x + r.w <= cur_x \/ r.y + r.h <= cur_y)

\* Surface id, without the pointer if it was hidden
Uncovered(id, hid) ==
  IF id = 0 /\ hid THEN cursor_restore(surfaces[0].px) ELSE surfaces[id].px

\* Drawing d goes onto surface id.  On the screen the pointer is taken away
\* before, if hid, and drawn again after.
Write(id, hid, d) ==
  LET px == Over(d, Uncovered(id, hid))
  IN  /\ surfaces' = [surfaces EXCEPT ![id].px =
                        IF id = 0 /\ hid THEN cursor_draw(px, cur_x, cur_y) ELSE px]
      /\ cur_saved' = IF id = 0 /\ hid THEN Saved(px, cur_x, cur_y) ELSE cur_saved
      /\ UNCHANGED <<owner, cursor>>

Skip == UNCHANGED <<surfaces, owner, cursor, cur_saved>>

gfx_cursor(x, y, show) ==
  LET fb == IF cur_shown THEN cursor_restore(surfaces[0].px) ELSE surfaces[0].px
  IN  /\ cur_x' = x /\ cur_y' = y /\ cur_shown' = show
      /\ surfaces' = [surfaces EXCEPT ![0].px = IF show THEN cursor_draw(fb, x, y) ELSE fb]
      /\ cur_saved' = IF show THEN Saved(fb, x, y) ELSE cur_saved
      /\ UNCHANGED <<owner, asked>>

-----------------------------------------------------------------------------
\* Surfaces and the owner map

NULL(id) == surfaces[id] = NoImage

\* calloc may fail.
gfx_surface_new(w, h) ==
  /\ \/ \E i \in Ids \ {0} :
          /\ w > 0 /\ h > 0
          /\ NULL(i) /\ \A j \in Ids : 0 < j /\ j < i => ~NULL(j)
          /\ surfaces' = [surfaces EXCEPT ![i] = Image(w, h, Black)]
          /\ asked' = [asked EXCEPT ![i] = Image(w, h, Black)]
     \/ UNCHANGED <<surfaces, asked>>
  /\ UNCHANGED <<owner, cursor, cur_saved>>

gfx_surface_free(id) ==
  /\ id > 0 /\ ~NULL(id)
  /\ surfaces' = [surfaces EXCEPT ![id] = NoImage]
  /\ asked' = [asked EXCEPT ![id] = NoImage]
  /\ owner' = [p \in ScreenCells |-> IF owner[p] = id THEN 0 ELSE owner[p]]
  /\ UNCHANGED <<cursor, cur_saved>>

ClipAxis(x, w, max) ==
  LET w1 == IF x < 0 THEN w + x ELSE w
      x1 == IF x < 0 THEN 0 ELSE x
  IN  [at |-> x1, len |-> IF x1 + w1 > max THEN max - x1 ELSE w1]
clip(r, w_max, h_max) ==
  LET a == ClipAxis(r.x, r.w, w_max)
      b == ClipAxis(r.y, r.h, h_max)
  IN  Rect(a.at, b.at, a.len, b.len)
Left(r) == r.w > 0 /\ r.h > 0

gfx_own(id, r) ==
  /\ Left(clip(r, g_w, g_h))
  /\ owner' = Over([p \in Cells(clip(r, g_w, g_h)) |-> id], owner)
  /\ UNCHANGED <<surfaces, cursor, cur_saved, asked>>

-----------------------------------------------------------------------------
\* Drawing.  What is asked of a surface that does not exist is ignored.

Ask(id, d) == asked' = IF NULL(id) THEN asked ELSE [asked EXCEPT ![id] = Onto(@, d)]

\* gfx_fill_rect_on without what is asked, also for fill-rect! and clear!
FillRect(id, r, c) ==
  LET k == clip(r, surfaces[id].w, surfaces[id].h)
  IN  IF NULL(id) \/ ~Left(k) THEN Skip ELSE Write(id, cursor_hide_for(k), Fill(k, c))

gfx_fill_rect_on(id, r, c) == FillRect(id, r, c) /\ Ask(id, Fill(r, c))

gfx_fill_rect(r, c) == FillRect(0, UnsignedRect(r), c) /\ Ask(0, Fill(UnsignedRect(r), c))

native_gfx_clear(c) == gfx_fill_rect(Rect(0, 0, g_w, g_h), c)

gfx_set_pixel(x, y, c) ==
  LET p == Rect(Unsigned(x), Unsigned(y), 1, 1)
  IN  /\ IF <<p.x, p.y>> \notin ScreenCells THEN Skip
         ELSE Write(0, cursor_hide_for(p), Fill(p, c))
      /\ Ask(0, Fill(p, c))

\* bits: a glyph, w x h, TRUE where it is set; bg NoInk is transparent.
NoInk == "transparent"
gfx_blit_bits_on(id, at, b, k, fg, bg) ==
  LET t == surfaces[id]
      all == Rect(at[1], at[2], b.w * k, b.h * k)
      On(p) == b.bits[<<(p[1] - at[1]) \div k, (p[2] - at[2]) \div k>>]
      inked == {p \in Cells(all) : /\ 0 <= p[1] /\ p[1] < t.w /\ 0 <= p[2] /\ p[2] < t.h
                                   /\ On(p) \/ bg # NoInk}
      drawn == [p \in inked |-> IF On(p) THEN fg ELSE bg]
      glyph == [q \in {q \in Area(b.w, b.h) : b.bits[q] \/ bg # NoInk} |->
                  IF b.bits[q] THEN fg ELSE bg]
  IN  /\ IF NULL(id) \/ k = 0 THEN Skip ELSE Write(id, cursor_hide_for(all), drawn)
      /\ Ask(id, Scaled(glyph, <<0, 0>>, at, k))

\* Mutant: always from the top row down.
RowDown(sy, dy, h, i) == i - 1

\* The row that is copied as the i-th, and frame buffer fb after all of them
RowInOrder(sy, dy, h, i) == IF dy > sy THEN h - i ELSE i - 1
CopyRows(fb, s, at) ==
  LET after[i \in 0 .. s.h] ==
        IF i = 0 THEN fb
        ELSE LET r == RowInOrder(s.y, at[2], s.h, i)
             IN  Over([p \in Cells(Rect(at[1], at[2] + r, s.w, 1)) |->
                         after[i - 1][Carry(p, at, <<s.x, s.y>>)]], after[i - 1])
  IN  after[s.h]

\* The sums of the clip are uint32_t: one that wraps clips nothing, and memmove
\* then goes beyond the surface.  What it does there is not modelled.
gfx_copy_rect_on(id, s, at) ==
  LET t == surfaces[id]
      maxx == IF s.x > at[1] THEN s.x ELSE at[1]
      maxy == IF s.y > at[2] THEN s.y ELSE at[2]
      w == IF Unsigned(maxx + s.w) > t.w THEN t.w - maxx ELSE s.w
      h == IF Unsigned(maxy + s.h) > t.h THEN t.h - maxy ELSE s.h
      beyond == w > 0 /\ h > 0 /\ (maxx + w > t.w \/ maxy + h > t.h)
      hid == \/ cursor_hide_for(Rect(s.x, s.y, w, h))
             \/ cursor_hide_for(Rect(at[1], at[2], w, h))
  IN  /\ IF NULL(id) \/ s.x >= t.w \/ s.y >= t.h \/ at[1] >= t.w \/ at[2] >= t.h
           THEN Skip /\ UNCHANGED wild
         ELSE IF beyond THEN Skip /\ wild' = TRUE
         ELSE /\ Write(id, hid, CopyRows(Uncovered(id, hid), Rect(s.x, s.y, w, h), at))
              /\ UNCHANGED wild
      /\ Ask(id, Moved(asked[id], s, at))
      /\ far' = (far \/ maxx + s.w >= Word \/ maxy + s.h >= Word)

\* Clipped to the surface, then to the screen, the other side moved along.
gfx_present(id, s, at) ==
  LET c == clip(s, surfaces[id].w, surfaces[id].h)
      ox == at[1] + c.x - s.x
      oy == at[2] + c.y - s.y
      d == clip(Rect(ox, oy, c.w, c.h), g_w, g_h)
      from == <<c.x + d.x - ox, c.y + d.y - oy>>
      mine == [p \in {q \in Cells(d) : owner[q] = id} |->
                 surfaces[id].px[Carry(p, <<d.x, d.y>>, from)]]
  IN  /\ IF NULL(id) \/ id = 0 \/ ~Left(c) \/ ~Left(d) THEN Skip
         ELSE Write(0, cursor_hide_for(d), mine)
      /\ Ask(0, IF id = 0 THEN NoImage.px ELSE Owned(Moved(asked[id], s, at), owner, id))

gfx_fill_owned(id, r, c) ==
  LET k == clip(r, g_w, g_h)
      mine == {q \in Cells(k) : owner[q] = id}
  IN  /\ IF ~Left(k) THEN Skip ELSE Write(0, cursor_hide_for(k), [p \in mine |-> c])
      /\ Ask(0, Owned(Fill(r, c), owner, id))

\* b: an image; its pixels equal to key are skipped.
gfx_blit_pixels_on(id, at, b, key) ==
  LET r == Rect(at[1], at[2], b.w, b.h)
      k == clip(r, surfaces[id].w, surfaces[id].h)
      Source(p) == b.px[Carry(p, at, <<0, 0>>)]
      drawn == [p \in {q \in Cells(k) : Source(q) # key} |-> Source(p)]
      keyed == Within(b.px, {q \in DOMAIN b.px : b.px[q] # key})
  IN  /\ IF NULL(id) \/ ~Left(k) THEN Skip ELSE Write(id, cursor_hide_for(k), drawn)
      /\ Ask(id, Scaled(keyed, <<0, 0>>, at, 1))

\* The source rectangle is cut to its surface and the destination left where
\* it is.  A copy of the screen has the pointer in it.
gfx_blit_surface(src, r, dst, at, k) ==
  LET c == clip(r, surfaces[src].w, surfaces[src].h)
      t == surfaces[dst]
      all == Rect(at[1], at[2], c.w * k, c.h * k)
      Source(p) == <<c.x + (p[1] - at[1]) \div k, c.y + (p[2] - at[2]) \div k>>
      in == {p \in Cells(all) : 0 <= p[1] /\ p[1] < t.w /\ 0 <= p[2] /\ p[2] < t.h}
      drawn == [p \in in |-> surfaces[src].px[Source(p)]]
      image == IF src = 0 THEN surfaces[0] ELSE asked[src]
  IN  IF NULL(src) \/ NULL(dst) \/ src = dst \/ k < 1 \/ ~Left(c) THEN Skip /\ UNCHANGED asked
      ELSE /\ Write(dst, cursor_hide_for(all), drawn)
           /\ Ask(dst, Scaled(Within(image.px, Cells(r)), <<c.x, c.y>>, at, k))

\* What the natives turn away before they call gfx.c
native_gfx_surface(w, h) == w > 0 /\ h > 0 /\ gfx_surface_new(Unsigned(w), Unsigned(h))
copy_rect(id, s, at) ==
  /\ s.x >= 0 /\ s.y >= 0 /\ s.w >= 0 /\ s.h >= 0 /\ at[1] >= 0 /\ at[2] >= 0
  /\ gfx_copy_rect_on(id, UnsignedRect(s), <<Unsigned(at[1]), Unsigned(at[2])>>)
native_gfx_blit_pixels(id, at, b, key) == b.w > 0 /\ b.h > 0 /\ gfx_blit_pixels_on(id, at, b, key)

Draws ==
  /\ \/ \E at \in Points, show \in BOOLEAN : gfx_cursor(at[1], at[2], show)
     \/ \E w \in Sides, h \in Sides : native_gfx_surface(w, h)
     \/ \E i \in Ids : gfx_surface_free(i)
     \/ \E i \in Ids, r \in Rects : gfx_own(i, r)
     \/ \E i \in Ids, r \in Rects, c \in Inks : gfx_fill_rect_on(i, r, c)
     \/ \E r \in Rects, c \in Inks : gfx_fill_rect(r, c)
     \/ \E c \in Inks : native_gfx_clear(c)
     \/ \E at \in Points, c \in Inks : gfx_set_pixel(at[1], at[2], c)
     \/ \E i \in Ids, at \in Points, b \in Glyphs, k \in Scales, bg \in Inks \cup {NoInk} :
          gfx_blit_bits_on(i, at, b, k, Black, bg)
     \/ \E i \in Ids, r \in Rects, at \in Points : gfx_present(i, r, at)
     \/ \E i \in Ids, r \in Rects, c \in Inks : gfx_fill_owned(i, r, c)
     \/ \E i \in Ids, at \in Points, b \in Pictures, key \in Inks \cup {NoInk} :
          native_gfx_blit_pixels(i, at, b, key)
     \/ \E i \in Ids, r \in Rects, j \in Ids, at \in Points, k \in Scales :
          gfx_blit_surface(i, r, j, at, k)
  /\ UNCHANGED <<wild, far>>

Copies == \E i \in Ids, r \in Rects, at \in Points : copy_rect(i, r, at)

\* Nothing is said of what follows a write beyond a surface.
GfxNext ==
  /\ ~wild
  /\ calls < MaxCalls /\ calls' = calls + 1
  /\ Draws \/ Copies

GfxSpec == GfxInit /\ [][GfxNext]_gfxVars

-----------------------------------------------------------------------------
\* The screen with the pointer taken away.
Bare == IF cur_shown THEN cursor_restore(surfaces[0].px) ELSE surfaces[0].px

\* Every surface holds what the calls asked for, the pointer is not in it, and it
\* is whole on the screen while it is shown.
Drawn ==
  /\ Bare = asked[0].px
  /\ \A i \in Ids \ {0} : surfaces[i] = asked[i]
  /\ cur_shown => surfaces[0].px = cursor_draw(Bare, cur_x, cur_y)

\* Whatever is clipped, hidden and drawn again, in whichever order rows are
\* copied, every surface holds what the calls asked for, and the pointer is
\* never left behind on the screen or copied by a scroll; while it is shown it is
\* whole, for no call paints over it; and no copy goes beyond its surface.  All
\* this as long as no copy is asked for whose far edge is beyond the 32 bits of
\* gfx_copy_rect_on's arguments.
DrawnAsAsked == ~far => ~wild /\ Drawn

\* gfx_copy_rect_on clips every copy to its surface (gfx.c:195): not kept, for its
\* sums wrap.
NeverBeyond == ~wild
=============================================================================
