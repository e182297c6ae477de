--------------------------------- MODULE Wm ---------------------------------
(***************************************************************************)
(* rootfs/lib/beer/wm.beer: the window manager.  Its operations run in one *)
(* task (the run loop, or a program that calls them while the loop waits)  *)
(* but can be preempted before each call of the graphics core, and then    *)
(* the windows' own tasks present what they drew, at a position they read  *)
(* earlier.  todo is the rest of the operation under way.                  *)
(*                                                                         *)
(* A pixel is as large as the title tab: the first row of a window is its  *)
(* tab, the last pixel of that row the close box.  Surfaces and owner map  *)
(* are those of kernel/gfx.c, whose drawing is the subject of Gfx; here    *)
(* each pixel of the screen shows one pixel of one surface.                *)
(***************************************************************************)
EXTENDS Screen, SequencesExt, FiniteSetsExt

CONSTANTS Width, Height,        \* the screen
          WinW, WinH,           \* a window, its frame included
          GFX_SURFACES,
          Cascade,              \* each new window that much further down
          MaxWindows,           \* bound: windows ever opened
          MaxMoves              \* bound: pointer motions

ASSUME WmAssumption ==
  /\ {Width, Height, GFX_SURFACES, MaxWindows, WinW, WinH} \subseteq Nat \ {0}
  /\ WinW >= 2 /\ WinH >= 2 /\ Cascade \in Nat /\ MaxMoves \in Nat

VARIABLES windows,              \* back to front
          focus,                \* id, or None
          pointer, drag,        \* drag: [id, ox, oy], or NoDrag
          next, task,           \* task: "none", "running", or "dead"
          batch,                \* the run loop has taken an event and not yet waited again
          surfaces,             \* the ones in use
          canvases,             \* [id, surface] of canvases not closed with close-canvas!
          owner, screen,        \* pixel -> surface
          from,                 \* pixel -> which pixel of that surface it shows
          lit,                  \* surfaces whose frame is drawn as focused
          todo,
          rend,                 \* the window some window's task is about to draw or present
          drawn                 \* it has drawn, and not presented

\* History: surfaces that an operation that threw left behind; motions so far;
\* surfaces last presented elsewhere than where their window is.
VARIABLES lost, moves, shifted

vars == <<windows, focus, pointer, drag, next, task, batch, surfaces, canvases, owner, screen, from,
          lit, todo, rend, drawn, lost, moves, shifted>>

None == 0
NoDrag == [id |-> None, ox |-> 0, oy |-> 0]
Pixels == Area(Width, Height)
Desktop == 0                    \* the surface that is no window's
Boot == -1                      \* what the frame buffer shows before start!
NoWindow == [id |-> None, surf |-> Desktop, x |-> 0, y |-> 0, w |-> 0, h |-> 0,
             frame |-> FALSE, canvas |-> FALSE, help |-> FALSE]

Window(id) == LET i == SelectInSeq(windows, LAMBDA w : w.id = id)
              IN  IF i = 0 THEN NoWindow ELSE windows[i]
Shape(w) == Rect(w.x, w.y, w.w, w.h)
\* An id is not used twice: there is at most one window to take away.
Without(ws, id) == RemoveFirstMatch(ws, LAMBDA w : w.id = id)
WindowAt(p) == LET i == SelectLastInSeq(windows, LAMBDA w : p \in Cells(Shape(w)))
               IN  IF i = 0 THEN NoWindow ELSE windows[i]
Clamp(v, max) == Max({0, Min({v, max})})

Init ==
  /\ windows = << >> /\ focus = None /\ pointer = <<0, 0>> /\ drag = NoDrag
  /\ next = 1 /\ task = "none" /\ batch = FALSE
  /\ surfaces = {} /\ canvases = {} /\ lost = {} /\ lit = {} /\ moves = 0
  /\ owner = [p \in Pixels |-> Desktop] /\ screen = [p \in Pixels |-> Boot]
  /\ from = [p \in Pixels |-> p] /\ shifted = {}
  /\ todo = << >> /\ rend = NoWindow /\ drawn = FALSE

-----------------------------------------------------------------------------
\* The steps an operation is made of

DoFocus(id)     == [op |-> "focus", win |-> [NoWindow EXCEPT !.id = id]]
DoRestack       == [op |-> "restack", win |-> NoWindow]
DoOwn(w)        == [op |-> "own", win |-> w]
DoFill          == [op |-> "fill", win |-> NoWindow]
DoPresent(w)    == [op |-> "present", win |-> w]
DoClose(id)     == [op |-> "close", win |-> [NoWindow EXCEPT !.id = id]]
DoFree(s)       == [op |-> "free", win |-> [NoWindow EXCEPT !.surf = s]]
DoRefocus       == [op |-> "refocus", win |-> NoWindow]
DoDrag(id, p)   == [op |-> "drag", win |-> [NoWindow EXCEPT !.id = id, !.x = p[1], !.y = p[2]]]
DoDragTo        == [op |-> "drag-to", win |-> NoWindow]
DoDrop          == [op |-> "drop", win |-> NoWindow]
DoOpen(p, help) == [op |-> "open", win |-> [NoWindow EXCEPT !.x = p[1], !.y = p[2], !.help = help]]
DoSpawn         == [op |-> "spawn", win |-> NoWindow]
DoHelp(id)      == [op |-> "help", win |-> [NoWindow EXCEPT !.id = id]]

\* Mutant: windows are presented before the desktop is filled and owned.
RestackPresentsFirst(ws) ==
  [i \in 1 .. Len(ws) |-> DoPresent(ws[i])] \o <<DoFill, DoOwn([NoWindow EXCEPT !.w = Width, !.h = Height])>>
    \o [i \in 1 .. Len(ws) |-> DoOwn(ws[i])]

\* restack!, of the windows it read
restack(ws) ==
  <<DoOwn([NoWindow EXCEPT !.w = Width, !.h = Height])>>
    \o [i \in 1 .. Len(ws) |-> DoOwn(ws[i])] \o <<DoFill>>
    \o [i \in 1 .. Len(ws) |-> DoPresent(ws[i])]

Todo(op) == todo # << >> /\ Head(todo).op = op
Win == Head(todo).win
Then(steps) == todo' = steps \o Tail(todo)

\* draw-frame! of the window that had the focus and of the one that gets it
Frames(old, w) ==
  LET off == IF old.id \notin {None, w.id} /\ old.frame THEN lit \ {old.surf} ELSE lit
  IN  IF w.frame THEN off \cup {w.surf} ELSE off

focus_bang ==
  /\ Todo("focus")
  /\ LET w == Window(Win.id)
     IN  IF w = NoWindow
           THEN Then(<< >>) /\ UNCHANGED <<windows, focus, lit>>
           ELSE /\ focus' = w.id
                /\ windows' = Append(Without(windows, w.id), w)
                /\ lit' = Frames(Window(focus), w)
                /\ Then(<<DoRestack>>)
  /\ UNCHANGED <<pointer, drag, next, task, batch, surfaces, canvases, owner, screen, from, shifted,
                 rend, drawn, lost, moves>>

restack_bang ==
  /\ Todo("restack")
  /\ Then(restack(windows))
  /\ UNCHANGED <<windows, focus, pointer, drag, next, task, batch, surfaces, canvases, owner,
                 screen, from, shifted, lit, rend, drawn, lost, moves>>

\* Graphics core: present! of the rows of window w from row top on, at the
\* position w has in the caller's hands.  A pixel that another surface owns
\* stays as it is.
Body(w, top) == Rect(w.x, w.y + top, w.w, w.h - top)
Painted(w, top) == {p \in Pixels : /\ p \in Cells(Body(w, top)) /\ w.surf \in surfaces
                                   /\ owner[p] = w.surf}
In(p, w) == <<p[1] - w.x, p[2] - w.y>>

present(w, top) ==
  /\ screen' = [p \in Pixels |-> IF p \in Painted(w, top) THEN w.surf ELSE screen[p]]
  /\ from' = [p \in Pixels |-> IF p \in Painted(w, top) THEN In(p, w) ELSE from[p]]

\* own!, fill-owned! of the desktop, present!
GraphicsStep ==
  /\ todo # << >> /\ Then(<< >>)
  /\ \/ /\ Todo("own")
        /\ owner' = [p \in Pixels |-> IF p \in Cells(Shape(Win)) THEN Win.surf ELSE owner[p]]
        /\ UNCHANGED <<screen, from, shifted>>
     \/ /\ Todo("fill")
        /\ screen' = [p \in Pixels |-> IF owner[p] = Desktop THEN Desktop ELSE screen[p]]
        /\ from' = [p \in Pixels |-> IF owner[p] = Desktop THEN p ELSE from[p]]
        /\ UNCHANGED <<owner, shifted>>
     \/ Todo("present") /\ present(Win, 0) /\ shifted' = shifted \ {Win.surf} /\ UNCHANGED owner
  /\ UNCHANGED <<windows, focus, pointer, drag, next, task, batch, surfaces, canvases, lit, rend,
                 drawn, lost, moves>>

close_bang ==
  /\ Todo("close")
  /\ LET w == Window(Win.id)
     IN  IF w = NoWindow
           THEN Then(<< >>) /\ UNCHANGED <<windows, focus>>
           ELSE /\ windows' = Without(windows, w.id)
                /\ focus' = IF focus = w.id THEN None ELSE focus
                /\ Then(<<DoFree(w.surf), DoRefocus>>)
  /\ UNCHANGED <<pointer, drag, next, task, batch, surfaces, canvases, owner, screen, from, shifted,
                 lit, rend, drawn, lost, moves>>

surface_free ==
  /\ Todo("free") /\ Then(<< >>)
  /\ surfaces' = surfaces \ {Win.surf} /\ lit' = lit \ {Win.surf}
  /\ owner' = [p \in Pixels |-> IF owner[p] = Win.surf THEN Desktop ELSE owner[p]]
  /\ shifted' = shifted \ {Win.surf}
  /\ UNCHANGED <<windows, focus, pointer, drag, next, task, batch, canvases, screen, from, rend,
                 drawn, lost, moves>>

\* Mutant: the window on top does not get the focus.
RefocusNever ==
  /\ Todo("refocus") /\ Then(<<DoRestack>>)
  /\ UNCHANGED <<windows, focus, pointer, drag, next, task, batch, surfaces, canvases, owner,
                 screen, from, shifted, lit, rend, drawn, lost, moves>>

Refocus ==
  /\ Todo("refocus")
  /\ Then(IF windows # << >> /\ focus = None THEN <<DoFocus(Last(windows).id)>> ELSE <<DoRestack>>)
  /\ UNCHANGED <<windows, focus, pointer, drag, next, task, batch, surfaces, canvases, owner,
                 screen, from, shifted, lit, rend, drawn, lost, moves>>

\* on-press! and the end of a drag set :drag
SetDrag ==
  /\ \/ Todo("drag") /\ drag' = [id |-> Win.id, ox |-> Win.x, oy |-> Win.y]
     \/ Todo("drop") /\ drag' = NoDrag
  /\ Then(<< >>)
  /\ UNCHANGED <<windows, focus, pointer, next, task, batch, surfaces, canvases, owner, screen,
                 from, shifted, lit, rend, drawn, lost, moves>>

move(id, x, y) ==
  windows' = [i \in DOMAIN windows |->
    IF windows[i].id = id THEN [windows[i] EXCEPT !.x = x, !.y = y] ELSE windows[i]]

drag_to ==
  /\ Todo("drag-to")
  /\ IF drag = NoDrag THEN Then(<< >>) /\ UNCHANGED windows
     ELSE /\ move(drag.id, pointer[1] - drag.ox, pointer[2] - drag.oy)
          /\ Then(<<DoRestack>>)
  /\ UNCHANGED <<focus, pointer, drag, next, task, batch, surfaces, canvases, owner, screen, from,
                 shifted, lit, rend, drawn, lost, moves>>

MarkHelp ==
  /\ Todo("help") /\ Then(<< >>)
  /\ windows' = [i \in DOMAIN windows |-> [windows[i] EXCEPT !.help = @ \/ windows[i].id = Win.id]]
  /\ UNCHANGED <<focus, pointer, drag, next, task, batch, surfaces, canvases, owner, screen, from,
                 shifted, lit, rend, drawn, lost, moves>>

-----------------------------------------------------------------------------
\* New windows

FreeSurfaces == (1 .. GFX_SURFACES - 1) \ surfaces
DefaultAt == <<Cascade * (next % 10), Cascade * (next % 10)>>

\* No free surface.  The run loop has no handler: its task ends.
Thrown ==
  /\ todo' = << >>
  /\ task' = IF batch THEN "dead" ELSE task

open_bang ==
  /\ Todo("open")
  /\ IF FreeSurfaces = {} THEN Thrown /\ UNCHANGED <<surfaces, windows, next>>
     ELSE LET s == Min(FreeSurfaces)
          IN  /\ surfaces' = surfaces \cup {s}
              /\ windows' = Append(windows,
                   [NoWindow EXCEPT !.id = next, !.surf = s, !.frame = TRUE, !.w = WinW, !.h = WinH,
                      !.x = Clamp(Win.x, Width - WinW), !.y = Clamp(Win.y, Height - WinH)])
              /\ next' = next + 1
              /\ Then(<<DoFocus(next)>> \o IF Win.help THEN <<DoHelp(next)>> ELSE << >>)
              /\ UNCHANGED task
  /\ UNCHANGED <<focus, pointer, drag, batch, canvases, owner, screen, from, shifted, lit, rend,
                 drawn, lost, moves>>

\* canvas!: one surface for the window and one to draw on.  If only the
\* second cannot be had, the first is not given back.
canvas_bang(full) ==
  /\ ~batch /\ todo = << >> /\ next <= MaxWindows
  /\ IF FreeSurfaces = {} THEN UNCHANGED <<surfaces, windows, next, canvases, todo, lost>>
     ELSE LET ws == Min(FreeSurfaces)
          IN  IF FreeSurfaces = {ws}
                THEN /\ surfaces' = surfaces \cup {ws} /\ lost' = lost \cup {ws}
                     /\ UNCHANGED <<windows, next, canvases, todo>>
                ELSE LET us == Min(FreeSurfaces \ {ws})
                         w == IF full THEN Width ELSE WinW
                         h == IF full THEN Height ELSE WinH
                     IN  /\ surfaces' = surfaces \cup {ws, us}
                         /\ windows' = Append(windows,
                              [id |-> next, surf |-> ws, frame |-> ~full, w |-> w, h |-> h,
                               canvas |-> TRUE, help |-> FALSE,
                               x |-> IF full THEN 0 ELSE Clamp(DefaultAt[1], Width - w),
                               y |-> IF full THEN 0 ELSE Clamp(DefaultAt[2], Height - h)])
                         /\ canvases' = canvases \cup {[id |-> next, surface |-> us]}
                         /\ next' = next + 1
                         /\ todo' = <<DoFocus(next)>>
                         /\ UNCHANGED lost
  /\ UNCHANGED <<focus, pointer, drag, task, batch, owner, screen, from, shifted, lit, rend, drawn,
                 moves>>

\* Mutant: the surface of a canvas the user closed is forgotten.
CloseCanvasKeeps(c) ==
  /\ ~batch /\ todo = << >> /\ c \in canvases
  /\ canvases' = canvases \ {c}
  /\ todo' = IF Window(c.id) # NoWindow THEN <<DoClose(c.id), DoFree(c.surface)>> ELSE << >>
  /\ UNCHANGED <<windows, focus, pointer, drag, next, task, batch, surfaces, owner, screen, from,
                 shifted, lit, rend, drawn, lost, moves>>

close_canvas(c) ==
  /\ ~batch /\ todo = << >> /\ c \in canvases
  /\ canvases' = canvases \ {c}
  /\ todo' = (IF Window(c.id) # NoWindow THEN <<DoClose(c.id)>> ELSE << >>) \o <<DoFree(c.surface)>>
  /\ UNCHANGED <<windows, focus, pointer, drag, next, task, batch, surfaces, owner, screen, from,
                 shifted, lit, rend, drawn, lost, moves>>

\* A program, or a :run window whose function returned, calls the window
\* manager while the run loop waits.
Program(steps) ==
  /\ task # "none" /\ ~batch /\ todo = << >>
  /\ todo' = steps
  /\ UNCHANGED <<windows, focus, pointer, drag, next, task, batch, surfaces, canvases, owner,
                 screen, from, shifted, lit, rend, drawn, lost, moves>>

MayOpen == next <= MaxWindows

Programs ==
  \/ MayOpen /\ Program(<<DoOpen(DefaultAt, FALSE)>>)
  \/ \E i \in DOMAIN windows : Program(<<DoClose(windows[i].id)>>) \/ Program(<<DoFocus(windows[i].id)>>)
  \/ task # "none" /\ (\E full \in BOOLEAN : canvas_bang(full))
  \/ \E c \in canvases : close_canvas(c)

-----------------------------------------------------------------------------
\* The run loop

start_bang ==
  /\ task = "none" /\ todo = << >>
  /\ pointer' = <<Width \div 2, Height \div 2>>
  /\ todo' = <<DoRestack, DoOpen(DefaultAt, FALSE), DoSpawn>>
  /\ UNCHANGED <<windows, focus, drag, next, task, batch, surfaces, canvases, owner, screen, from,
                 shifted, lit, rend, drawn, lost, moves>>

Spawn ==
  /\ Todo("spawn") /\ Then(<< >>) /\ task' = "running"
  /\ UNCHANGED <<windows, focus, pointer, drag, next, batch, surfaces, canvases, owner, screen,
                 from, shifted, lit, rend, drawn, lost, moves>>

\* handle! of an event that leads to steps
Handle(steps) ==
  /\ task = "running" /\ todo = << >>
  /\ batch' = TRUE
  /\ todo' = steps
  /\ UNCHANGED <<windows, focus, pointer, drag, next, task, surfaces, canvases, owner, screen, from,
                 shifted, lit, rend, drawn, lost, moves>>

Motions == {-1, 0, 1} \X {-1, 0, 1} \ {<<0, 0>>}

pointer_bang(dx, dy) ==
  /\ task = "running" /\ todo = << >>
  /\ moves < MaxMoves /\ moves' = moves + 1
  /\ batch' = TRUE
  /\ pointer' = <<Clamp(pointer[1] + dx, Width - 1), Clamp(pointer[2] + dy, Height - 1)>>
  /\ UNCHANGED <<windows, focus, drag, next, task, surfaces, canvases, owner, screen, from, shifted,
                 lit, todo, rend, drawn, lost>>

OnTab(w) == w.frame /\ pointer[2] = w.y
OnCloseBox(w) == OnTab(w) /\ pointer[1] = w.x + w.w - 1

on_press ==
  LET w == WindowAt(pointer)
      at == <<pointer[1] - w.x, pointer[2] - w.y>>
  IN  \/ w = NoWindow /\ MayOpen /\ Handle(<<DoOpen(pointer, FALSE)>>)
      \/ w # NoWindow /\ OnCloseBox(w) /\ Handle(<<DoClose(w.id)>>)
      \/ w # NoWindow /\ OnTab(w) /\ ~OnCloseBox(w) /\ Handle(<<DoFocus(w.id), DoDrag(w.id, at)>>)
      \/ w # NoWindow /\ ~OnTab(w) /\ focus # w.id /\ Handle(<<DoFocus(w.id)>>)

OnRelease == drag # NoDrag /\ Handle(<<DoDragTo, DoDrop>>)

help_bang ==
  LET i == SelectInSeq(windows, LAMBDA w : w.help)
  IN  IF i # 0 THEN Handle(<<DoFocus(windows[i].id)>>)
      ELSE MayOpen /\ Handle(<<DoOpen(<<1, 0>>, TRUE)>>)

next_window == Len(windows) > 1 /\ Handle(<<DoFocus(Head(windows).id)>>)

wm_key ==
  \/ MayOpen /\ Handle(<<DoOpen(DefaultAt, FALSE)>>)
  \/ next_window
  \/ Window(focus) # NoWindow /\ Handle(<<DoClose(focus)>>)
  \/ help_bang

\* Nothing more in the queue.
EndBatch ==
  /\ task = "running" /\ batch /\ todo = << >>
  /\ batch' = FALSE
  /\ todo' = IF drag # NoDrag THEN <<DoDragTo>> ELSE << >>
  /\ UNCHANGED <<windows, focus, pointer, drag, next, task, surfaces, canvases, owner, screen, from,
                 shifted, lit, rend, drawn, lost, moves>>

-----------------------------------------------------------------------------
\* The task of some window.  It has its window, or its terminal's surface, in
\* its hands, draws on the surface, whosever that is by then, and presents it:
\* a terminal looks its window up before it presents, show! before it draws, and
\* show! presents only what is below the tab.
RenderBegin ==
  /\ rend = NoWindow
  /\ \E i \in DOMAIN windows : rend' = windows[i]
  /\ UNCHANGED <<windows, focus, pointer, drag, next, task, batch, surfaces, canvases, owner,
                 screen, from, shifted, lit, todo, drawn, lost, moves>>

RenderDraw ==
  /\ rend # NoWindow /\ ~drawn
  /\ rend' = IF rend.canvas THEN rend ELSE Window(rend.id)
  /\ drawn' = (rend' # NoWindow)
  /\ UNCHANGED <<windows, focus, pointer, drag, next, task, batch, surfaces, canvases, owner,
                 screen, from, shifted, lit, todo, lost, moves>>

\* The window that has w's surface now is elsewhere than w was; it is just there.
Elsewhere(w) ==
  \E i \in DOMAIN windows : windows[i].surf = w.surf /\ <<windows[i].x, windows[i].y>> # <<w.x, w.y>>
InPlace(w) == \E i \in DOMAIN windows : windows[i].surf = w.surf /\ Shape(windows[i]) = Shape(w)

RenderEnd ==
  LET top == IF rend.canvas /\ rend.frame THEN 1 ELSE 0
  IN  /\ drawn /\ rend' = NoWindow /\ drawn' = FALSE
      /\ present(rend, top)
      /\ shifted' = IF Elsewhere(rend) THEN shifted \cup {rend.surf}
                    ELSE IF InPlace(rend) /\ ~rend.canvas THEN shifted \ {rend.surf} ELSE shifted
  /\ UNCHANGED <<windows, focus, pointer, drag, next, task, batch, surfaces, canvases, owner, lit,
                 todo, lost, moves>>

Steps ==
  \/ focus_bang \/ restack_bang \/ GraphicsStep \/ close_bang \/ surface_free \/ Refocus
  \/ SetDrag \/ drag_to \/ MarkHelp \/ open_bang \/ Spawn

Next ==
  \/ Steps \/ Programs \/ start_bang
  \/ \E d \in Motions : pointer_bang(d[1], d[2])
  \/ on_press \/ OnRelease \/ wm_key \/ EndBatch
  \/ RenderBegin \/ RenderDraw \/ RenderEnd

Spec == Init /\ [][Next]_vars

-----------------------------------------------------------------------------
Rest == todo = << >> /\ task # "none"

\* "So a terminal's renderer can draw and present at any time without painting
\* over the window above it" (docs/console.md): when no operation is under way
\* every pixel of the screen shows and belongs to the window that is on top
\* there, whatever renderers presented in between, with whichever stale window
\* or surface in their hands.  What it shows is the pixel of the window that lies
\* there, except in a window that was last presented for another place: such a
\* picture is put right as soon as the window manager restacks, or a terminal
\* presents its window again.
ShownAsStacked ==
  Rest => \A p \in Pixels :
            LET w == WindowAt(p)
            IN  /\ screen[p] = w.surf /\ owner[p] = w.surf
                /\ w # NoWindow /\ w.surf \notin shifted => from[p] = In(p, w)

\* Not kept: the same without the exception.  A renderer that read its window's
\* position, and presents after the window was dragged, leaves its picture
\* shifted where the two places overlap.
ShownInPlace ==
  Rest => \A p \in Pixels : LET w == WindowAt(p) IN w # NoWindow => from[p] = In(p, w)

\* Not kept: "Every window draws into its own beer.gfx surface" (wm.beer).  A
\* task that has not noticed yet that its window was closed draws on the surface
\* of the next one that was given that number.
OwnDrawing ==
  [][RenderDraw =>
       /\ \A i \in DOMAIN windows : windows[i].surf = rend.surf => windows[i].id = rend.id
       /\ \A c \in canvases : c.surface # rend.surf]_vars

\* The keyboard goes to the window on top, and its frame, no other, says so.
FocusOnTop ==
  Rest => /\ focus = IF windows = << >> THEN None ELSE Last(windows).id
          /\ lit = {w.surf : w \in {x \in ToSet(windows) : x.id = focus /\ x.frame}}

\* "Every window draws into its own beer.gfx surface" (wm.beer): windows and
\* canvases never share one, and one that none of them has is free, except
\* after a canvas! that threw.
OwnSurface ==
  Rest => LET held == [i \in 1 .. Len(windows) |-> windows[i].surf]
          IN  /\ IsInjective(held)
              /\ \A c, d \in canvases : c.surface = d.surface => c = d
              /\ ToSet(held) \cap {c.surface : c \in canvases} = {}
              /\ surfaces = ToSet(held) \cup {c.surface : c \in canvases} \cup lost
=============================================================================
