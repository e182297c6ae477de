------------------------------- MODULE Screen -------------------------------
(***************************************************************************)
(* What the graphics natives promise their callers (the docs in            *)
(* kernel/gfx_natives.c), as a reference for Gfx.  An image is a rectangle *)
(* of pixels; a drawing is a partial function on the plane, negative       *)
(* coordinates included, and an image takes what falls on it.  There is no *)
(* clipping, no order of rows and no pointer here.                         *)
(***************************************************************************)
EXTENDS Integers

Rect(x, y, w, h) == [x |-> x, y |-> y, w |-> w, h |-> h]
Cells(r) == (r.x .. r.x + r.w - 1) \X (r.y .. r.y + r.h - 1)
Area(w, h) == Cells(Rect(0, 0, w, h))

NoImage == [w |-> 0, h |-> 0, px |-> [p \in {} |-> 0]]
Image(w, h, c) == [w |-> w, h |-> h, px |-> [p \in Area(w, h) |-> c]]

\* p, carried along when from is moved to to
Carry(p, from, to) == <<p[1] - from[1] + to[1], p[2] - from[2] + to[2]>>

\* Image img with drawing d on it
Onto(img, d) ==
  [img EXCEPT !.px = [p \in DOMAIN img.px |-> IF p \in DOMAIN d THEN d[p] ELSE img.px[p]]]

\* f with d over it, also where f has nothing
Over(d, f) ==
  [p \in (DOMAIN d) \cup (DOMAIN f) |-> IF p \in DOMAIN d THEN d[p] ELSE f[p]]

Fill(r, c) == [p \in Cells(r) |-> c]

\* The part of drawing d in cells s
Within(d, s) == [p \in DOMAIN d \cap s |-> d[p]]

\* The pixels of img in r, with the corner of r carried to at
Moved(img, r, at) ==
  LET Origin(p) == Carry(p, at, <<r.x, r.y>>)
  IN  [p \in {q \in Cells(Rect(at[1], at[2], r.w, r.h)) : Origin(q) \in DOMAIN img.px}
         |-> img.px[Origin(p)]]

\* Drawing d with every pixel as a k x k square; the one of pixel from at at
Scaled(d, from, at, k) ==
  LET Square(q) == Cells(Rect(at[1] + (q[1] - from[1]) * k, at[2] + (q[2] - from[2]) * k, k, k))
  IN  [p \in UNION {Square(q) : q \in DOMAIN d} |-> d[CHOOSE q \in DOMAIN d : p \in Square(q)]]

\* The part of drawing d that falls where the owner map says id
Owned(d, owner, id) == Within(d, {q \in DOMAIN owner : owner[q] = id})
=============================================================================
