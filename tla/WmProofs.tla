------------------------------ MODULE WmProofs ------------------------------
(***************************************************************************)
(* Proofs about the window manager, for any screen, any number of surfaces *)
(* and of windows.  What the properties say holds when no operation is     *)
(* under way; the inductive invariant says, for every point an operation   *)
(* can be preempted at, what has been done and what its remaining steps,   *)
(* todo, will put right.                                                   *)
(* Upon it rests a second one, Places: a window whose pixels do not lie    *)
(* where they should is in shifted, or is about to be presented.           *)
(***************************************************************************)
EXTENDS Wm, SequenceTheorems, WellFoundedInduction, TLAPS

WindowRecord ==
  [id : Nat, surf : Nat, x : Int, y : Int, w : Int, h : Int,
   frame : BOOLEAN, canvas : BOOLEAN, help : BOOLEAN]
Ops == {"focus", "restack", "own", "fill", "present", "close", "free", "refocus", "drag", "drag-to",
        "drop", "open", "spawn", "help"}
Step == [op : Ops, win : WindowRecord]

Types ==
  /\ windows \in Seq(WindowRecord) /\ todo \in Seq(Step) /\ rend \in WindowRecord
  /\ focus \in Nat /\ next \in Nat \ {0} /\ pointer \in Int \X Int
  /\ drag \in [id : Nat, ox : Int, oy : Int]
  /\ canvases \subseteq [id : Nat, surface : Nat]
  /\ surfaces \subseteq 1 .. GFX_SURFACES - 1
  /\ lost \subseteq Nat /\ lit \subseteq Nat
  /\ task \in {"none", "running", "dead"} /\ batch \in BOOLEAN
  /\ owner \in [Pixels -> Nat] /\ screen \in [Pixels -> Int]

\* No two windows have the same id, new ones get another, and the focus is on
\* a window if on any.
Ids ==
  /\ \A i \in 1 .. Len(windows) : windows[i].id \in 1 .. next - 1
  /\ \A i, j \in 1 .. Len(windows) : windows[i].id = windows[j].id => i = j
  /\ focus # None => \E i \in 1 .. Len(windows) : windows[i].id = focus

\* The surfaces of windows ws, and those that steps td will free
Held(ws) == {s \in Nat : \E i \in 1 .. Len(ws) : ws[i].surf = s}
Frees(td) == {s \in Nat : \E i \in 1 .. Len(td) : td[i].op = "free" /\ td[i].win.surf = s}
OnCanvas == {s \in Nat : \E c \in canvases : c.surface = s}
FreesOnce(td) ==
  \A i, j \in 1 .. Len(td) :
    td[i].op = "free" /\ td[j].op = "free" /\ td[i].win.surf = td[j].win.surf => i = j
HeldOnce(ws) == \A i, j \in 1 .. Len(ws) : ws[i].surf = ws[j].surf => i = j

\* Every surface in use has one owner: a window, a canvas, a step that will
\* free it, or nobody any more.
Surfaces ==
  /\ HeldOnce(windows) /\ FreesOnce(todo)
  /\ \A c, d \in canvases : c.surface = d.surface => c = d
  /\ Held(windows) \cap OnCanvas = {} /\ Held(windows) \cap Frees(todo) = {}
  /\ OnCanvas \cap Frees(todo) = {}
  /\ lost \cap (Held(windows) \cup OnCanvas \cup Frees(todo)) = {}
  /\ surfaces = Held(windows) \cup OnCanvas \cup Frees(todo) \cup lost

\* The surface of the window with the focus, if it has a frame
Lit(ws, f) == {s \in Nat : \E i \in 1 .. Len(ws) : ws[i].id = f /\ ws[i].frame /\ ws[i].surf = s}
Lights == Lit(windows, focus) \subseteq lit /\ lit \subseteq Lit(windows, focus) \cup Frees(todo)

\* From the n-th step on, td has only steps that leave the stack alone or, as
\* open, begin anew.  What follows an open that may throw matters to nobody.
Back == {"open", "spawn", "drag", "drop", "help", "free"}
BackFrom(td, n) == \A i \in n .. Len(td) : td[i].op \in Back
Opening(td) == \A i, j \in 1 .. Len(td) : td[i].op = "open" /\ i < j => td[j].op = "spawn"

\* s is what is on top at pixel p among the first n of the windows ws.
OnTop(ws, n, p, s) ==
  \/ s = Desktop /\ \A i \in 1 .. n : p \notin Cells(Shape(ws[i]))
  \/ \E i \in 1 .. n : /\ s = ws[i].surf /\ p \in Cells(Shape(ws[i]))
                       /\ \A j \in i + 1 .. n : p \notin Cells(Shape(ws[j]))

Settled == \A p \in Pixels : screen[p] = owner[p] /\ OnTop(windows, Len(windows), p, owner[p])
FocusOk == focus = IF Len(windows) = 0 THEN None ELSE windows[Len(windows)].id
Live == \E i \in 1 .. Len(windows) : windows[i].id = todo[1].win.id

\* k steps of restack! are done, the others are next.
Restacking(k) ==
  /\ Len(todo) >= 2 * Len(windows) + 2 - k
  /\ \A j \in 1 .. 2 * Len(windows) + 2 - k : todo[j] = restack(windows)[k + j]
  /\ BackFrom(todo, 2 * Len(windows) + 3 - k)
  /\ \A p \in Pixels :
       /\ k \in 1 .. Len(windows) + 1 => OnTop(windows, k - 1, p, owner[p])
       /\ k > Len(windows) => OnTop(windows, Len(windows), p, owner[p])
       /\ k > Len(windows) + 1 /\ owner[p] = Desktop => screen[p] = owner[p]
       /\ \A i \in 1 .. k - (Len(windows) + 2) : owner[p] = windows[i].surf => screen[p] = owner[p]

\* Where an operation can be
Quiet      == BackFrom(todo, 1) /\ FocusOk /\ (Settled \/ (task = "none" /\ todo = << >>))
ToFocus    == Todo("focus") /\ BackFrom(todo, 2) /\ (Live \/ (Settled /\ FocusOk))
ToRestack  == Todo("restack") /\ BackFrom(todo, 2) /\ FocusOk
ToClose    == Todo("close") /\ BackFrom(todo, 2) /\ Settled /\ FocusOk
ToFree     == /\ Todo("free") /\ Len(todo) > 1 /\ todo[2].op = "refocus" /\ BackFrom(todo, 3)
              /\ FocusOk \/ focus = None
ToRefocus  == Todo("refocus") /\ BackFrom(todo, 2) /\ (FocusOk \/ focus = None)
ToDrag     == Todo("drag-to") /\ BackFrom(todo, 2) /\ Settled /\ FocusOk
InRestack  == FocusOk /\ \E k \in 0 .. 2 * Len(windows) + 1 : Restacking(k)

Phase ==
  \/ Quiet \/ ToFocus \/ ToRestack \/ ToClose \/ ToFree \/ ToRefocus \/ ToDrag \/ InRestack

\* The inductive invariant
Inv ==
  /\ Types /\ Ids /\ Surfaces /\ Lights /\ Opening(todo) /\ Phase
  /\ task = "none" => canvases = {}

-----------------------------------------------------------------------------
(***************************************************************************)
(* Sequences of steps and of windows                                       *)
(***************************************************************************)

\* A set of numbers has a least one.
LEMMA Least ==
  ASSUME NEW S \in SUBSET Nat, S # {}
  PROVE  Min(S) \in S
<1>1. PICK x \in S : \A y \in S : ~ (<<y, x>> \in OpToRel(<, Nat))
  <2>1. IsWellFoundedOn(OpToRel(<, Nat), Nat)
    BY NatLessThanWellFounded
  <2>2. QED
    BY <2>1, WFMin
<1>2. \A y \in S : ~(y < x)
  BY <1>1 DEF OpToRel
<1>3. \A y \in S : x <= y
  BY <1>2
<1>4. QED
  BY <1>3 DEF Min

\* No window, and one made from it
LEMMA NoWindowIs ==
  /\ NoWindow \in WindowRecord
  /\ NoWindow.id = None /\ NoWindow.surf = Desktop
BY DEF NoWindow, WindowRecord, None, Desktop

\* The steps are steps.
LEMMA StepsAre ==
  /\ DoRestack \in Step /\ DoFill \in Step /\ DoRefocus \in Step
  /\ DoDragTo \in Step /\ DoDrop \in Step /\ DoSpawn \in Step
  /\ \A w \in WindowRecord : DoOwn(w) \in Step /\ DoPresent(w) \in Step
  /\ \A n \in Nat : DoFocus(n) \in Step /\ DoClose(n) \in Step /\ DoFree(n) \in Step /\ DoHelp(n) \in Step
  /\ \A n \in Nat, p \in Int \X Int : DoDrag(n, p) \in Step
  /\ \A b \in BOOLEAN, p \in Int \X Int : DoOpen(p, b) \in Step
<1>1. NoWindow \in WindowRecord
  BY NoWindowIs
<1>2. /\ DoRestack \in Step /\ DoFill \in Step /\ DoRefocus \in Step
      /\ DoDragTo \in Step /\ DoDrop \in Step /\ DoSpawn \in Step
  BY <1>1 DEF DoRestack, DoFill, DoRefocus, DoDragTo, DoDrop, DoSpawn, Step, Ops
<1>3. \A w \in WindowRecord : DoOwn(w) \in Step /\ DoPresent(w) \in Step
  BY DEF DoOwn, DoPresent, Step, Ops
<1>4. \A n \in Nat : [NoWindow EXCEPT !.id = n] \in WindowRecord /\ [NoWindow EXCEPT !.surf = n] \in WindowRecord
  BY <1>1 DEF WindowRecord
<1>5. \A n \in Nat : DoFocus(n) \in Step /\ DoClose(n) \in Step /\ DoFree(n) \in Step /\ DoHelp(n) \in Step
  BY <1>4 DEF DoFocus, DoClose, DoFree, DoHelp, Step, Ops
<1>6. ASSUME NEW n \in Nat, NEW p \in Int \X Int PROVE DoDrag(n, p) \in Step
  <2>1. [NoWindow EXCEPT !.id = n, !.x = p[1], !.y = p[2]] \in WindowRecord
    BY <1>1 DEF WindowRecord
  <2>2. QED
    BY <2>1 DEF DoDrag, Step, Ops
<1>7. ASSUME NEW b \in BOOLEAN, NEW p \in Int \X Int PROVE DoOpen(p, b) \in Step
  <2>1. [NoWindow EXCEPT !.x = p[1], !.y = p[2], !.help = b] \in WindowRecord
    BY <1>1 DEF WindowRecord
  <2>2. QED
    BY <2>1 DEF DoOpen, Step, Ops
<1>8. QED
  BY <1>2, <1>3, <1>5, <1>6, <1>7

\* Steps s, then steps t
LEMMA CatIs ==
  ASSUME NEW s \in Seq(Step), NEW t \in Seq(Step)
  PROVE  /\ s \o t \in Seq(Step) /\ Len(s \o t) = Len(s) + Len(t)
         /\ Len(s) \in Nat /\ Len(t) \in Nat
         /\ \A i \in 1 .. Len(s) : (s \o t)[i] = s[i]
         /\ \A i \in 1 .. Len(t) : (s \o t)[Len(s) + i] = t[i]
<1>1. /\ s \o t \in Seq(Step) /\ Len(s \o t) = Len(s) + Len(t) /\ Len(s) \in Nat /\ Len(t) \in Nat
      /\ \A i \in 1 .. Len(s) + Len(t) : (s \o t)[i] = IF i <= Len(s) THEN s[i] ELSE t[i - Len(s)]
  BY ConcatProperties
<1>2. ASSUME NEW i \in 1 .. Len(t) PROVE (s \o t)[Len(s) + i] = t[i]
  <2>1. Len(s) + i \in 1 .. Len(s) + Len(t) /\ ~(Len(s) + i <= Len(s)) /\ (Len(s) + i) - Len(s) = i
    BY <1>1
  <2>2. QED
    BY <1>1, <2>1
<1>3. QED
  BY <1>1, <1>2

\* The first step of td replaced by steps st
LEMMA ThenIs ==
  ASSUME NEW td \in Seq(Step), td # << >>, NEW st \in Seq(Step), NEW u, u = st \o Tail(td)
  PROVE  /\ u \in Seq(Step) /\ Len(u) = Len(st) + Len(td) - 1
         /\ \A i \in 1 .. Len(st) : u[i] = st[i]
         /\ \A i \in Len(st) + 1 .. Len(u) : u[i] = td[i - Len(st) + 1]
         /\ Len(td) \in Nat \ {0} /\ Len(st) \in Nat /\ Len(u) \in Nat
         /\ Head(td) = td[1]
<1>1. /\ Tail(td) \in Seq(Step) /\ Len(Tail(td)) = Len(td) - 1 /\ Len(td) \in Nat \ {0} /\ Len(st) \in Nat
      /\ \A i \in 1 .. Len(td) - 1 : Tail(td)[i] = td[i + 1]
  OBVIOUS
<1>2. /\ u \in Seq(Step) /\ Len(u) = Len(st) + Len(Tail(td))
      /\ \A i \in 1 .. Len(u) : u[i] = IF i <= Len(st) THEN st[i] ELSE Tail(td)[i - Len(st)]
  BY <1>1, ConcatProperties
<1>3. Head(td) = td[1]
  OBVIOUS
<1>4. ASSUME NEW i \in Len(st) + 1 .. Len(u) PROVE u[i] = td[i - Len(st) + 1]
  <2>1. i - Len(st) \in 1 .. Len(td) - 1 /\ i \in 1 .. Len(u) /\ ~(i <= Len(st))
    BY <1>1, <1>2
  <2>2. QED
    BY <2>1, <1>1, <1>2
<1>5. \A i \in 1 .. Len(st) : u[i] = st[i]
  BY <1>1, <1>2
<1>6. QED
  BY <1>1, <1>2, <1>3, <1>4, <1>5

\* Steps st that free and open nothing, in place of a step that frees nothing
LEMMA PlainThen ==
  ASSUME NEW td \in Seq(Step), td # << >>, NEW st \in Seq(Step), NEW u, u = st \o Tail(td),
         \A i \in 1 .. Len(st) : st[i].op \notin {"free", "open"},
         FreesOnce(td), Opening(td)
  PROVE  /\ td[1].op # "free" => Frees(u) = Frees(td)
         /\ td[1].op = "free" => Frees(u) = Frees(td) \ {td[1].win.surf}
         /\ FreesOnce(u) /\ Opening(u)
<1>1. /\ Len(u) = Len(st) + Len(td) - 1
      /\ \A i \in 1 .. Len(st) : u[i] = st[i]
      /\ \A i \in Len(st) + 1 .. Len(u) : u[i] = td[i - Len(st) + 1]
      /\ Len(td) \in Nat \ {0} /\ Len(st) \in Nat /\ Len(u) \in Nat
  BY ThenIs
<1> DEFINE n == Len(st)
           m == Len(td)
<1>2. \A i \in 1 .. Len(u) : u[i].op \in {"free", "open"} =>
        i > n /\ i - n + 1 \in 2 .. m /\ u[i] = td[i - n + 1]
  BY <1>1
<1>3. \A j \in 2 .. m : j + n - 1 \in 1 .. Len(u) /\ u[j + n - 1] = td[j]
  <2> SUFFICES ASSUME NEW j \in 2 .. m PROVE j + n - 1 \in 1 .. Len(u) /\ u[j + n - 1] = td[j]
    OBVIOUS
  <2>1. j + n - 1 \in n + 1 .. Len(u) /\ (j + n - 1) - n + 1 = j
    BY <1>1
  <2>2. QED
    BY <2>1, <1>1
<1>4. FreesOnce(u)
  <2> SUFFICES ASSUME NEW i \in 1 .. Len(u), NEW j \in 1 .. Len(u), u[i].op = "free", u[j].op = "free",
                      u[i].win.surf = u[j].win.surf
               PROVE  i = j
    BY DEF FreesOnce
  <2>1. /\ i - n + 1 \in 1 .. m /\ u[i] = td[i - n + 1]
        /\ j - n + 1 \in 1 .. m /\ u[j] = td[j - n + 1]
    <3>1. \A a \in 1 .. Len(u) : a - n + 1 \in 2 .. m => a - n + 1 \in 1 .. m
      BY <1>1
    <3>2. i - n + 1 \in 2 .. m /\ u[i] = td[i - n + 1]
      BY <1>2
    <3>3. j - n + 1 \in 2 .. m /\ u[j] = td[j - n + 1]
      BY <1>2
    <3> HIDE DEF n, m
    <3>4. QED
      BY <3>1, <3>2, <3>3
  <2>2. i - n + 1 = j - n + 1
    BY <2>1 DEF FreesOnce
  <2>3. QED
    BY <2>2, <1>1
<1>5. Opening(u)
  <2> SUFFICES ASSUME NEW i \in 1 .. Len(u), NEW j \in 1 .. Len(u), u[i].op = "open", i < j
               PROVE  u[j].op = "spawn"
    BY DEF Opening
  <2>1. i - n + 1 \in 1 .. m /\ u[i] = td[i - n + 1]
    BY <1>1, <1>2
  <2>2. j \in n + 1 .. Len(u) /\ j - n + 1 \in 1 .. m /\ i - n + 1 < j - n + 1
    BY <1>1, <1>2
  <2>3. u[j] = td[j - n + 1]
    BY <2>2, <1>1
  <2>4. QED
    BY <2>1, <2>2, <2>3 DEF Opening
<1>6. Frees(u) = {s \in Nat : \E j \in 2 .. m : td[j].op = "free" /\ td[j].win.surf = s}
  <2>1. ASSUME NEW s \in Nat, NEW i \in 1 .. Len(u), u[i].op = "free", u[i].win.surf = s
        PROVE  \E j \in 2 .. m : td[j].op = "free" /\ td[j].win.surf = s
    BY <2>1, <1>2
  <2>2. ASSUME NEW s \in Nat, NEW j \in 2 .. m, td[j].op = "free", td[j].win.surf = s
        PROVE  \E i \in 1 .. Len(u) : u[i].op = "free" /\ u[i].win.surf = s
    BY <2>2, <1>3
  <2>3. \A s \in Nat : (\E i \in 1 .. Len(u) : u[i].op = "free" /\ u[i].win.surf = s)
                       <=> \E j \in 2 .. m : td[j].op = "free" /\ td[j].win.surf = s
    BY <2>1, <2>2
  <2> DEFINE U == {s \in Nat : \E j \in 2 .. m : td[j].op = "free" /\ td[j].win.surf = s}
  <2>4. \A s : s \in Frees(u) <=> s \in U
    BY <2>3 DEF Frees
  <2> HIDE DEF U
  <2>5. Frees(u) = U
    BY <2>4
  <2>6. QED
    BY <2>5 DEF U
<1>7. CASE td[1].op # "free"
  <2>1. \A j \in 1 .. m : td[j].op = "free" => j \in 2 .. m
    BY <1>7, <1>1
  <2>2. \A j \in 2 .. m : j \in 1 .. m
    BY <1>1
  <2> HIDE DEF m, n
  <2>3. \A s \in Nat : (\E j \in 2 .. m : td[j].op = "free" /\ td[j].win.surf = s)
                       <=> \E j \in 1 .. m : td[j].op = "free" /\ td[j].win.surf = s
    BY <2>1, <2>2
  <2>4. Frees(td) = {s \in Nat : \E j \in 2 .. m : td[j].op = "free" /\ td[j].win.surf = s}
    <3> DEFINE A == Frees(td)
               B == {s \in Nat : \E j \in 2 .. m : td[j].op = "free" /\ td[j].win.surf = s}
    <3>1. \A s : s \in A <=> s \in B
      BY <2>3, ZenonT(30) DEF Frees, m
    <3> HIDE DEF A, B
    <3>2. A = B
      BY <3>1
    <3>3. QED
      BY <3>2 DEF A, B
  <2>5. QED
    BY <1>4, <1>5, <1>6, <1>7, <2>4
<1>8. CASE td[1].op = "free"
  <2>1. \A j \in 2 .. m : td[j].op = "free" => td[j].win.surf # td[1].win.surf
    BY <1>8, <1>1 DEF FreesOnce
  <2>2. \A j \in 1 .. m : j = 1 \/ j \in 2 .. m
    BY <1>1
  <2>3. \A j \in 2 .. m : j \in 1 .. m
    BY <1>1
  <2> HIDE DEF m, n
  <2>4. \A s \in Nat : (\E j \in 2 .. m : td[j].op = "free" /\ td[j].win.surf = s)
                       <=> /\ \E j \in 1 .. m : td[j].op = "free" /\ td[j].win.surf = s
                           /\ s # td[1].win.surf
    BY <2>1, <2>2, <2>3
  <2>5. Frees(td) \ {td[1].win.surf}
          = {s \in Nat : \E j \in 2 .. m : td[j].op = "free" /\ td[j].win.surf = s}
    <3> DEFINE A == Frees(td) \ {td[1].win.surf}
               B == {s \in Nat : \E j \in 2 .. m : td[j].op = "free" /\ td[j].win.surf = s}
    <3>1. \A s : s \in A <=> s \in B
      BY <2>4, ZenonT(30) DEF Frees, m
    <3> HIDE DEF A, B
    <3>2. A = B
      BY <3>1
    <3>3. QED
      BY <3>2 DEF A, B
  <2>6. QED
    BY <1>4, <1>5, <1>6, <1>8, <2>5
<1>9. QED
  BY <1>7, <1>8

\* The steps of restack!
LEMMA RestackIs ==
  ASSUME NEW ws \in Seq(WindowRecord)
  PROVE  /\ restack(ws) \in Seq(Step) /\ Len(restack(ws)) = 2 * Len(ws) + 2
         /\ restack(ws)[1] = DoOwn([NoWindow EXCEPT !.w = Width, !.h = Height])
         /\ \A i \in 1 .. Len(ws) : restack(ws)[i + 1] = DoOwn(ws[i])
         /\ restack(ws)[Len(ws) + 2] = DoFill
         /\ \A i \in 1 .. Len(ws) : restack(ws)[Len(ws) + 2 + i] = DoPresent(ws[i])
<1> DEFINE n == Len(ws)
           a == <<DoOwn([NoWindow EXCEPT !.w = Width, !.h = Height])>>
           b == [i \in 1 .. n |-> DoOwn(ws[i])]
           c == <<DoFill>>
           d == [i \in 1 .. n |-> DoPresent(ws[i])]
<1>1. n \in Nat /\ \A i \in 1 .. n : ws[i] \in WindowRecord
  OBVIOUS
<1>2. a \in Seq(Step) /\ Len(a) = 1 /\ a[1] = DoOwn([NoWindow EXCEPT !.w = Width, !.h = Height])
  <2>1. [NoWindow EXCEPT !.w = Width, !.h = Height] \in WindowRecord
    <3>1. Width \in Int /\ Height \in Int
      BY WmAssumption DEF WmAssumption
    <3>2. QED
      BY <3>1, NoWindowIs DEF WindowRecord
  <2>2. DoOwn([NoWindow EXCEPT !.w = Width, !.h = Height]) \in Step
    BY <2>1, StepsAre
  <2>3. QED
    BY <2>2
<1>3. b \in Seq(Step) /\ Len(b) = n /\ \A i \in 1 .. n : b[i] = DoOwn(ws[i])
  BY <1>1, StepsAre
<1>4. c \in Seq(Step) /\ Len(c) = 1 /\ c[1] = DoFill
  BY StepsAre
<1>5. d \in Seq(Step) /\ Len(d) = n /\ \A i \in 1 .. n : d[i] = DoPresent(ws[i])
  BY <1>1, StepsAre
<1>6. restack(ws) = ((a \o b) \o c) \o d
  BY DEF restack
<1> HIDE DEF a, b, c, d, n
<1>7. /\ a \o b \in Seq(Step) /\ Len(a \o b) = 1 + n /\ (a \o b)[1] = a[1]
      /\ \A i \in 1 .. n : (a \o b)[1 + i] = b[i]
  <2>1. /\ a \o b \in Seq(Step) /\ Len(a \o b) = Len(a) + Len(b)
        /\ \A i \in 1 .. Len(a) : (a \o b)[i] = a[i]
        /\ \A i \in 1 .. Len(b) : (a \o b)[Len(a) + i] = b[i]
    BY <1>2, <1>3, CatIs
  <2>2. Len(a) = 1 /\ Len(b) = n /\ 1 \in 1 .. 1
    BY <1>2, <1>3
  <2>3. QED
    BY <2>1, <2>2
<1> DEFINE ab == a \o b
<1> HIDE DEF ab
<1>8. /\ ab \o c \in Seq(Step) /\ Len(ab \o c) = 1 + n + 1 /\ (ab \o c)[1 + n + 1] = c[1]
      /\ \A i \in 1 .. 1 + n : (ab \o c)[i] = ab[i]
  <2>1. ab \in Seq(Step) /\ Len(ab) = 1 + n
    BY <1>7 DEF ab
  <2>2. /\ ab \o c \in Seq(Step) /\ Len(ab \o c) = Len(ab) + Len(c)
        /\ \A i \in 1 .. Len(ab) : (ab \o c)[i] = ab[i]
        /\ \A i \in 1 .. Len(c) : (ab \o c)[Len(ab) + i] = c[i]
    BY <2>1, <1>4, CatIs
  <2>3. Len(c) = 1 /\ 1 \in 1 .. 1
    BY <1>4
  <2>4. QED
    BY <2>1, <2>2, <2>3
<1> DEFINE abc == ab \o c
<1> HIDE DEF abc
<1>9. /\ abc \o d \in Seq(Step) /\ Len(abc \o d) = 2 * n + 2
      /\ \A i \in 1 .. n + 2 : (abc \o d)[i] = abc[i]
      /\ \A i \in 1 .. n : (abc \o d)[n + 2 + i] = d[i]
  <2>1. abc \in Seq(Step) /\ Len(abc) = n + 2 /\ (n + 2) + n = 2 * n + 2
    BY <1>1, <1>8 DEF abc, n
  <2>2. /\ abc \o d \in Seq(Step) /\ Len(abc \o d) = Len(abc) + Len(d)
        /\ \A i \in 1 .. Len(abc) : (abc \o d)[i] = abc[i]
        /\ \A i \in 1 .. Len(d) : (abc \o d)[Len(abc) + i] = d[i]
    BY <2>1, <1>5, CatIs
  <2>3. QED
    BY <2>1, <2>2, <1>5
<1>10. restack(ws) = abc \o d
  BY <1>6 DEF ab, abc
<1>11. /\ 1 \in 1 .. n + 2 /\ 1 \in 1 .. 1 + n /\ n + 2 \in 1 .. n + 2 /\ 1 + n + 1 = n + 2
       /\ \A i \in 1 .. n : i + 1 \in 1 .. 1 + n /\ i + 1 \in 1 .. n + 2 /\ 1 + i = i + 1
  BY <1>1 DEF n
<1>12. restack(ws)[1] = a[1] /\ \A i \in 1 .. n : restack(ws)[i + 1] = b[i]
  BY <1>7, <1>8, <1>9, <1>10, <1>11 DEF ab, abc
<1>13. restack(ws)[n + 2] = c[1] /\ \A i \in 1 .. n : restack(ws)[n + 2 + i] = d[i]
  BY <1>8, <1>9, <1>10, <1>11 DEF abc
<1>14. QED
  BY <1>2, <1>3, <1>4, <1>5, <1>9, <1>10, <1>12, <1>13 DEF n

\* Windows ws without the k-th
LEMMA RemoveIs ==
  ASSUME NEW ws \in Seq(WindowRecord), NEW k \in 1 .. Len(ws)
  PROVE  /\ RemoveAt(ws, k) \in Seq(WindowRecord) /\ Len(RemoveAt(ws, k)) = Len(ws) - 1
         /\ \A i \in 1 .. Len(ws) - 1 : RemoveAt(ws, k)[i] = IF i < k THEN ws[i] ELSE ws[i + 1]
<1>1. Len(ws) \in Nat /\ k \in Nat /\ 1 <= k /\ k <= Len(ws)
  OBVIOUS
<1> DEFINE a == SubSeq(ws, 1, k - 1)
           b == SubSeq(ws, k + 1, Len(ws))
<1>2. a \in Seq(WindowRecord) /\ Len(a) = k - 1 /\ \A i \in 1 .. k - 1 : a[i] = ws[i]
  BY <1>1
<1>3. /\ b \in Seq(WindowRecord) /\ Len(b) = Len(ws) - k
      /\ \A i \in 1 .. Len(ws) - k : b[i] = ws[k + i]
  BY <1>1
<1>4. RemoveAt(ws, k) = a \o b
  BY DEF RemoveAt
<1> HIDE DEF a, b
<1>5. /\ a \o b \in Seq(WindowRecord) /\ Len(a \o b) = Len(a) + Len(b)
      /\ \A i \in 1 .. Len(a) + Len(b) : (a \o b)[i] = IF i <= Len(a) THEN a[i] ELSE b[i - Len(a)]
  BY <1>2, <1>3, ConcatProperties
<1>6. ASSUME NEW i \in 1 .. Len(ws) - 1
      PROVE  (a \o b)[i] = IF i < k THEN ws[i] ELSE ws[i + 1]
  <2>1. (a \o b)[i] = IF i <= k - 1 THEN a[i] ELSE b[i - (k - 1)]
    BY <1>1, <1>2, <1>3, <1>5
  <2>2. CASE i < k
    BY <2>1, <2>2, <1>1, <1>2
  <2>3. CASE ~(i < k)
    <3>1. i - (k - 1) \in 1 .. Len(ws) - k /\ k + (i - (k - 1)) = i + 1 /\ ~(i <= k - 1)
      BY <2>3, <1>1
    <3>2. b[i - (k - 1)] = ws[k + (i - (k - 1))]
      BY <3>1, <1>3
    <3>3. QED
      BY <2>1, <2>3, <3>1, <3>2
  <2>4. QED
    BY <2>2, <2>3
<1>7. QED
  <2>1. RemoveAt(ws, k) \in Seq(WindowRecord)
    BY <1>4, <1>5
  <2>2. Len(RemoveAt(ws, k)) = Len(ws) - 1
    <3>1. Len(RemoveAt(ws, k)) = (k - 1) + (Len(ws) - k)
      BY <1>2, <1>3, <1>4, <1>5
    <3>2. QED
      BY <1>1, <3>1
  <2>3. QED
    BY <1>4, <1>6, <2>1, <2>2

\* Windows ws with the k-th on top of the others
LEMMA RaiseIs ==
  ASSUME NEW ws \in Seq(WindowRecord), NEW k \in 1 .. Len(ws)
  PROVE  LET u == Append(RemoveAt(ws, k), ws[k]) IN
         /\ u \in Seq(WindowRecord) /\ Len(u) = Len(ws)
         /\ \A i \in 1 .. Len(ws) :
              u[i] = IF i < k THEN ws[i] ELSE IF i < Len(ws) THEN ws[i + 1] ELSE ws[k]
<1> DEFINE r == RemoveAt(ws, k)
           w == ws[k]
<1>1. /\ r \in Seq(WindowRecord) /\ Len(r) = Len(ws) - 1
      /\ \A i \in 1 .. Len(ws) - 1 : r[i] = IF i < k THEN ws[i] ELSE ws[i + 1]
  BY RemoveIs
<1>2. w \in WindowRecord /\ Len(ws) \in Nat
  OBVIOUS
<1> HIDE DEF r
<1>3. Append(r, w) \in Seq(WindowRecord) /\ Len(Append(r, w)) = Len(ws) /\ Append(r, w)[Len(ws)] = w
      /\ \A i \in 1 .. Len(ws) - 1 : Append(r, w)[i] = r[i]
  BY <1>1, <1>2
<1>4. ASSUME NEW i \in 1 .. Len(ws)
      PROVE  Append(r, w)[i] = IF i < k THEN ws[i] ELSE IF i < Len(ws) THEN ws[i + 1] ELSE ws[k]
  <2>1. CASE i = Len(ws)
    BY <2>1, <1>2, <1>3
  <2>2. CASE i # Len(ws)
    <3>1. i \in 1 .. Len(ws) - 1 /\ i < Len(ws)
      BY <2>2, <1>2
    <3>2. Append(r, w)[i] = r[i] /\ r[i] = IF i < k THEN ws[i] ELSE ws[i + 1]
      BY <3>1, <1>1, <1>3
    <3>3. QED
      BY <3>1, <3>2
  <2>3. QED
    BY <2>1, <2>2
<1>5. QED
  BY <1>3, <1>4 DEF r

\* Looking a window up by its id, and taking it away
LEMMA WindowIs ==
  ASSUME Types, Ids, NEW id \in Nat
  PROVE  \/ Window(id) = NoWindow /\ \A i \in 1 .. Len(windows) : windows[i].id # id
         \/ \E k \in 1 .. Len(windows) :
              /\ windows[k].id = id /\ Window(id) = windows[k] /\ windows[k] # NoWindow
              /\ Without(windows, id) = RemoveAt(windows, k)
<1> DEFINE I == {i \in 1 .. Len(windows) : windows[i].id = id}
<1>1. Window(id) = IF I # {} THEN windows[Min(I)] ELSE NoWindow
  <2>1. SelectInSeq(windows, LAMBDA w : w.id = id) = IF I # {} THEN Min(I) ELSE 0
    BY DEF SelectInSeq
  <2>2. I # {} => Min(I) # 0
    <3>1. I \in SUBSET Nat /\ \A i \in I : i # 0
      OBVIOUS
    <3> HIDE DEF I
    <3>2. QED
      BY <3>1, Least
  <2> HIDE DEF I
  <2>3. QED
    BY <2>1, <2>2 DEF Window
<1>2. CASE I = {}
  BY <1>1, <1>2
<1>3. CASE I # {}
  <2>1. PICK k \in 1 .. Len(windows) : windows[k].id = id
    BY <1>3
  <2>2. I = {k}
    BY <2>1 DEF Ids
  <2>3. Min(I) = k
    BY <2>2 DEF Min
  <2>4. windows[k] # NoWindow
    <3>1. windows[k].id \in 1 .. next - 1
      BY DEF Ids
    <3>2. QED
      BY <3>1, NoWindowIs DEF Types, None
  <2>5. Without(windows, id) = RemoveAt(windows, k)
    <3>1. SelectInSeq(windows, LAMBDA w : w.id = id) = k
      BY <1>3, <2>3 DEF SelectInSeq
    <3>2. QED
      BY <2>1, <3>1 DEF Without, RemoveFirstMatch
  <2>6. QED
    BY <1>1, <1>3, <2>1, <2>3, <2>4, <2>5
<1>4. QED
  BY <1>2, <1>3

\* What is on top at a pixel is the surface of the window there.
LEMMA TopIs ==
  ASSUME Types, NEW p, NEW s, OnTop(windows, Len(windows), p, s)
  PROVE  /\ WindowAt(p).surf = s
         /\ \/ WindowAt(p) = NoWindow
            \/ \E i \in 1 .. Len(windows) : WindowAt(p) = windows[i] /\ p \in Cells(Shape(windows[i]))
<1> DEFINE I == {i \in 1 .. Len(windows) : p \in Cells(Shape(windows[i]))}
<1>0. SelectLastInSeq(windows, LAMBDA w : p \in Cells(Shape(w))) = IF I # {} THEN Max(I) ELSE 0
  BY DEF SelectLastInSeq
<1>1. CASE s = Desktop /\ \A i \in 1 .. Len(windows) : p \notin Cells(Shape(windows[i]))
  <2>1. I = {}
    BY <1>1
  <2>2. WindowAt(p) = NoWindow
    BY <2>1, <1>0 DEF WindowAt
  <2>3. QED
    BY <1>1, <2>2, NoWindowIs
<1>2. CASE \E i \in 1 .. Len(windows) :
             /\ s = windows[i].surf /\ p \in Cells(Shape(windows[i]))
             /\ \A j \in i + 1 .. Len(windows) : p \notin Cells(Shape(windows[j]))
  <2>1. PICK i \in 1 .. Len(windows) :
          /\ s = windows[i].surf /\ p \in Cells(Shape(windows[i]))
          /\ \A j \in i + 1 .. Len(windows) : p \notin Cells(Shape(windows[j]))
    BY <1>2
  <2>2. Len(windows) \in Nat
    BY DEF Types
  <2>3. i \in I /\ \A j \in I : j <= i
    BY <2>1, <2>2
  <2>4. I \subseteq Nat
    BY <2>2
  <2> HIDE DEF I
  <2>5. \A x \in I : (\A y \in I : x >= y) <=> x = i
    BY <2>3, <2>4
  <2>6. Max(I) = i
    BY <2>3, <2>5 DEF Max
  <2>7. WindowAt(p) = windows[i]
    BY <2>3, <2>6, <2>4, <1>0 DEF WindowAt
  <2>8. QED
    BY <2>1, <2>7
<1>3. QED
  BY <1>1, <1>2 DEF OnTop

\* A position within the screen is a number.
LEMMA ClampIs ==
  ASSUME NEW v \in Int, NEW max \in Int
  PROVE  Clamp(v, max) \in Int
<1>1. Min({v, max}) \in {v, max}
  <2>1. \E x \in {v, max} : \A y \in {v, max} : x <= y
    OBVIOUS
  <2>2. QED
    BY <2>1 DEF Min
<1> DEFINE m == Min({v, max})
<1>2. m \in Int
  BY <1>1
<1> HIDE DEF m
<1>3. Max({0, m}) \in {0, m}
  <2>1. \E x \in {0, m} : \A y \in {0, m} : x >= y
    BY <1>2
  <2>2. QED
    BY <2>1 DEF Max
<1>4. QED
  BY <1>2, <1>3 DEF Clamp, m

\* The first step that is left
LEMMA HeadIs ==
  ASSUME Types, NEW op, Todo(op)
  PROVE  /\ todo # << >> /\ todo \in Seq(Step) /\ Len(todo) \in Nat \ {0}
         /\ Head(todo) = todo[1] /\ todo[1] \in Step /\ todo[1].op = op /\ Win = todo[1].win
         /\ Win \in WindowRecord
<1>1. todo # << >> /\ todo \in Seq(Step) /\ Head(todo).op = op
  BY DEF Types, Todo
<1>2. Len(todo) \in Nat \ {0} /\ Head(todo) = todo[1] /\ todo[1] \in Step
  BY <1>1
<1>3. QED
  BY <1>1, <1>2 DEF Win, Step

\* What is left after the c-th step stays as it is.
LEMMA BackThen ==
  ASSUME NEW td \in Seq(Step), td # << >>, NEW st \in Seq(Step), NEW u, u = st \o Tail(td),
         NEW c \in Nat, c >= 2, BackFrom(td, c)
  PROVE  BackFrom(u, c + Len(st) - 1)
<1>1. /\ Len(u) = Len(st) + Len(td) - 1
      /\ \A i \in Len(st) + 1 .. Len(u) : u[i] = td[i - Len(st) + 1]
      /\ Len(td) \in Nat \ {0} /\ Len(st) \in Nat /\ Len(u) \in Nat
  BY ThenIs
<1>2. ASSUME NEW i \in c + Len(st) - 1 .. Len(u) PROVE u[i].op \in Back
  <2>1. i \in Len(st) + 1 .. Len(u) /\ i - Len(st) + 1 \in c .. Len(td)
    BY <1>1
  <2>2. QED
    BY <1>1, <2>1 DEF BackFrom
<1>3. QED
  BY <1>2 DEF BackFrom

\* In the middle of restack!, a step of the graphics core is next.
LEMMA RestackHead ==
  ASSUME Types, NEW k \in 0 .. 2 * Len(windows) + 1, Restacking(k)
  PROVE  /\ todo # << >> /\ todo[1] = restack(windows)[k + 1]
         /\ k = 0 => todo[1] = DoOwn([NoWindow EXCEPT !.w = Width, !.h = Height])
         /\ k \in 1 .. Len(windows) => todo[1] = DoOwn(windows[k])
         /\ k = Len(windows) + 1 => todo[1] = DoFill
         /\ k > Len(windows) + 1 => todo[1] = DoPresent(windows[k - Len(windows) - 1])
         /\ todo[1].op \in {"own", "fill", "present"}
<1> DEFINE n == Len(windows)
           R == restack(windows)
<1>0. n \in Nat /\ windows \in Seq(WindowRecord) /\ todo \in Seq(Step)
  BY DEF Types
<1>1. /\ R[1] = DoOwn([NoWindow EXCEPT !.w = Width, !.h = Height])
      /\ \A i \in 1 .. n : R[i + 1] = DoOwn(windows[i])
      /\ R[n + 2] = DoFill
      /\ \A i \in 1 .. n : R[n + 2 + i] = DoPresent(windows[i])
  BY <1>0, RestackIs
<1>2. Len(todo) >= 1 /\ 1 \in 1 .. 2 * n + 2 - k
  BY <1>0 DEF Restacking
<1>3. todo # << >> /\ todo[1] = R[k + 1]
  BY <1>0, <1>2 DEF Restacking
<1> HIDE DEF R
<1>4. CASE k = 0
  BY <1>0, <1>1, <1>3, <1>4 DEF R, DoOwn
<1>5. CASE k \in 1 .. n
  BY <1>0, <1>1, <1>3, <1>5 DEF R, DoOwn
<1>6. CASE k = n + 1
  BY <1>0, <1>1, <1>3, <1>6 DEF R, DoFill
<1>7. CASE k > n + 1
  <2>1. k - n - 1 \in 1 .. n /\ n + 2 + (k - n - 1) = k + 1
    BY <1>0, <1>7
  <2>2. R[k + 1] = DoPresent(windows[k - n - 1])
    BY <2>1, <1>1
  <2>3. QED
    BY <1>0, <1>3, <1>7, <2>2 DEF R, DoPresent
<1>8. QED
  BY <1>0, <1>4, <1>5, <1>6, <1>7

\* The step that is next says where the operation is.
LEMMA PhaseOf ==
  ASSUME Types, Phase
  PROVE  /\ todo = << >> => Quiet
         /\ todo # << >> =>
              /\ todo[1].op = "focus" => ToFocus
              /\ todo[1].op = "restack" => ToRestack
              /\ todo[1].op = "close" => ToClose
              /\ todo[1].op = "refocus" => ToRefocus
              /\ todo[1].op = "drag-to" => ToDrag
              /\ todo[1].op \in {"own", "fill", "present"} => InRestack
              /\ todo[1].op \in {"open", "spawn", "drag", "drop", "help"} => Quiet /\ Settled
              /\ todo[1].op = "free" => ToFree \/ (Quiet /\ Settled)
<1>1. todo \in Seq(Step) /\ (todo # << >> => Head(todo) = todo[1] /\ 1 \in 1 .. Len(todo))
  BY DEF Types
<1>2. ASSUME NEW op PROVE Todo(op) => todo # << >> /\ todo[1].op = op
  BY <1>1 DEF Todo
<1>3. Quiet /\ todo # << >> => todo[1].op \in Back /\ Settled
  BY <1>1 DEF Quiet, BackFrom
<1>4. InRestack => todo # << >> /\ todo[1].op \in {"own", "fill", "present"}
  <2> SUFFICES ASSUME InRestack PROVE todo # << >> /\ todo[1].op \in {"own", "fill", "present"}
    OBVIOUS
  <2>1. PICK k \in 0 .. 2 * Len(windows) + 1 : Restacking(k)
    BY DEF InRestack
  <2>2. QED
    BY <2>1, RestackHead
<1>5. /\ ToFocus => todo # << >> /\ todo[1].op = "focus"
      /\ ToRestack => todo # << >> /\ todo[1].op = "restack"
      /\ ToClose => todo # << >> /\ todo[1].op = "close"
      /\ ToFree => todo # << >> /\ todo[1].op = "free"
      /\ ToRefocus => todo # << >> /\ todo[1].op = "refocus"
      /\ ToDrag => todo # << >> /\ todo[1].op = "drag-to"
  BY <1>2 DEF ToFocus, ToRestack, ToClose, ToFree, ToRefocus, ToDrag
<1>6. QED
  BY <1>3, <1>4, <1>5 DEF Phase, Back

\* Neither windows nor surfaces change, and what is to be freed stays.
LEMMA Beside ==
  ASSUME Ids, Surfaces, Lights, UNCHANGED <<windows, focus, next, canvases, lost, surfaces, lit>>,
         Frees(todo') = Frees(todo), FreesOnce(todo')
  PROVE  Ids' /\ Surfaces' /\ Lights'
<1>1. Ids'
  BY DEF Ids
<1>2. Surfaces'
  BY DEF Surfaces, OnCanvas
<1>3. Lights'
  BY DEF Lights
<1>4. QED
  BY <1>1, <1>2, <1>3

-----------------------------------------------------------------------------
(***************************************************************************)
(* Steps that begin an operation, and those of the windows' own tasks      *)
(***************************************************************************)

\* What presenting a window does to the screen
LEMMA PaintedIs ==
  ASSUME Types, NEW w \in WindowRecord, NEW top, present(w, top)
  PROVE  /\ screen' \in [Pixels -> Int]
         /\ \A p \in Pixels :
              /\ screen'[p] = screen[p] \/ screen'[p] = owner[p]
              /\ p \in Cells(Body(w, top)) /\ w.surf \in surfaces /\ owner[p] = w.surf
                   => screen'[p] = owner[p]
<1>1. w.surf \in Int
  BY DEF WindowRecord
<1>2. screen' = [p \in Pixels |-> IF p \in Painted(w, top) THEN w.surf ELSE screen[p]]
  BY DEF present
<1>3. QED
  BY <1>1, <1>2 DEF Painted, Types

\* All the rows of a window
LEMMA BodyIs ==
  ASSUME NEW w \in WindowRecord
  PROVE  Body(w, 0) = Shape(w)
<1>1. w.y + 0 = w.y /\ w.h - 0 = w.h
  BY DEF WindowRecord
<1>2. QED
  BY <1>1 DEF Body, Shape

\* Presenting a window disturbs nothing.
LEMMA Presenting ==
  ASSUME Inv, UNCHANGED <<windows, focus, pointer, drag, next, task, batch, surfaces, canvases, owner,
                          lit, todo, lost>>,
         rend' \in WindowRecord, screen' \in [Pixels -> Int],
         \A p \in Pixels : screen'[p] = screen[p] \/ screen'[p] = owner[p]
  PROVE  Inv'
<1>1. Types'
  BY DEF Types, Inv
<1>2. Ids' /\ Surfaces' /\ Lights' /\ Opening(todo)' /\ (task = "none" => canvases = {})'
  BY DEF Inv, Ids, Surfaces, Lights, OnCanvas
<1>3. Settled => Settled'
  BY DEF Settled
<1>4. ASSUME NEW k \in 0 .. 2 * Len(windows) + 1, Restacking(k) PROVE Restacking(k)'
  <2>1. /\ (Len(todo) >= 2 * Len(windows) + 2 - k)'
        /\ (\A j \in 1 .. 2 * Len(windows) + 2 - k : todo[j] = restack(windows)[k + j])'
        /\ BackFrom(todo, 2 * Len(windows) + 3 - k)'
    BY <1>4 DEF Restacking
  <2>2. ASSUME NEW p \in Pixels
        PROVE  /\ k \in 1 .. Len(windows)' + 1 => OnTop(windows, k - 1, p, owner[p])'
               /\ k > Len(windows)' => OnTop(windows, Len(windows), p, owner[p])'
               /\ k > Len(windows)' + 1 /\ owner'[p] = Desktop => screen'[p] = owner'[p]
               /\ \A i \in 1 .. k - (Len(windows)' + 2) : owner'[p] = windows'[i].surf => screen'[p] = owner'[p]
    BY <1>4 DEF Restacking
  <2>3. QED
    BY <2>1, <2>2 DEF Restacking
<1>5. InRestack => InRestack'
  BY <1>4 DEF InRestack, FocusOk
<1>6. Phase'
  BY <1>3, <1>5 DEF Inv, Phase, Quiet, ToFocus, ToRestack, ToClose, ToFree, ToRefocus, ToDrag, FocusOk,
                    Live, Todo
<1>7. QED
  BY <1>1, <1>2, <1>6 DEF Inv

\* A window changed in part is one.
LEMMA RecordIs ==
  ASSUME NEW r \in WindowRecord
  PROVE  /\ r.id \in Nat /\ r.surf \in Nat /\ r.x \in Int /\ r.y \in Int /\ r.w \in Int /\ r.h \in Int
         /\ r.frame \in BOOLEAN /\ r.help \in BOOLEAN
         /\ [r EXCEPT !.y = @ + 1, !.h = @ - 1] \in WindowRecord
         /\ \A x, y \in Int : [r EXCEPT !.x = x, !.y = y] \in WindowRecord
         /\ \A b \in BOOLEAN : [r EXCEPT !.help = b] \in WindowRecord
<1>1. /\ r.id \in Nat /\ r.surf \in Nat /\ r.x \in Int /\ r.y \in Int /\ r.w \in Int /\ r.h \in Int
      /\ r.frame \in BOOLEAN /\ r.help \in BOOLEAN
  BY DEF WindowRecord
<1>2. ASSUME NEW b \in Int, NEW c \in Int
      PROVE  [r EXCEPT !.y = b, !.h = c] \in WindowRecord /\ [r EXCEPT !.x = b, !.y = c] \in WindowRecord
  BY DEF WindowRecord
<1>3. \A b \in BOOLEAN : [r EXCEPT !.help = b] \in WindowRecord
  BY DEF WindowRecord
<1>4. r.y + 1 \in Int /\ r.h - 1 \in Int
  BY <1>1
<1>5. [r EXCEPT !.y = r.y + 1, !.h = r.h - 1] \in WindowRecord
  BY <1>2, <1>4
<1>6. QED
  BY <1>1, <1>2, <1>3, <1>5

LEMMA RenderBeginInv ==
  ASSUME Inv, RenderBegin
  PROVE  Inv'
<1>1. PICK i \in DOMAIN windows : rend' = windows[i]
  BY DEF RenderBegin
<1>2. rend' \in WindowRecord
  BY <1>1 DEF Inv, Types
<1>3. screen' = screen /\ screen \in [Pixels -> Int]
  BY DEF RenderBegin, Inv, Types
<1>4. QED
  BY <1>2, <1>3, Presenting DEF RenderBegin

LEMMA RenderDrawInv ==
  ASSUME Inv, RenderDraw
  PROVE  Inv'
<1>1. rend' = rend \/ rend' = Window(rend.id)
  BY DEF RenderDraw
<1>2. rend' \in WindowRecord
  <2>1. rend \in WindowRecord /\ Types /\ Ids
    BY DEF Inv, Types
  <2>2. rend.id \in Nat
    BY <2>1, RecordIs
  <2>3. Window(rend.id) = NoWindow \/ \E k \in 1 .. Len(windows) : Window(rend.id) = windows[k]
    BY <2>1, <2>2, WindowIs
  <2>4. Window(rend.id) \in WindowRecord
    BY <2>1, <2>3, NoWindowIs DEF Types
  <2>5. QED
    BY <1>1, <2>1, <2>4
<1>3. screen' = screen /\ screen \in [Pixels -> Int]
  BY DEF RenderDraw, Inv, Types
<1>4. QED
  BY <1>2, <1>3, Presenting DEF RenderDraw

LEMMA RenderEndInv ==
  ASSUME Inv, RenderEnd
  PROVE  Inv'
<1>1. rend \in WindowRecord /\ Types /\ rend' \in WindowRecord
  BY NoWindowIs DEF RenderEnd, Inv, Types
<1>2. PICK top \in {0, 1} : present(rend, top)
  BY DEF RenderEnd
<1>3. screen' \in [Pixels -> Int] /\ \A p \in Pixels : screen'[p] = screen[p] \/ screen'[p] = owner[p]
  BY <1>1, <1>2, PaintedIs
<1>4. QED
  BY <1>1, <1>3, Presenting DEF RenderEnd

\* An operation begins with steps st.
LEMMA Begins ==
  ASSUME Inv, todo = << >>, NEW st \in Seq(Step), todo' = st,
         UNCHANGED <<windows, focus, drag, next, task, surfaces, canvases, owner, screen, lit, rend, lost>>,
         pointer' \in Int \X Int, batch' \in BOOLEAN,
         \A i \in 1 .. Len(st) : st[i].op # "free",
         Opening(st), BackFrom(st, 2),
         st # << >> => \/ st[1].op \in {"focus", "close", "drag-to", "open"} /\ task # "none"
                       \/ st[1].op = "restack"
  PROVE  Inv'
<1>1. Types'
  BY DEF Types, Inv
<1>2. Frees(todo) = {} /\ Frees(todo') = {} /\ FreesOnce(todo')
  <2>1. Frees(st) = {} /\ FreesOnce(st)
    BY DEF Frees, FreesOnce
  <2>2. Frees(<< >>) = {}
    <3>1. \A i \in 1 .. Len(<< >>) : FALSE
      OBVIOUS
    <3>2. QED
      BY <3>1 DEF Frees
  <2>3. QED
    BY <2>1, <2>2
<1>3. Ids' /\ Surfaces' /\ Lights'
  BY <1>2, Beside DEF Inv
<1>4. Opening(todo)' /\ (task = "none" => canvases = {})'
  BY DEF Inv
<1>5. Quiet
  BY PhaseOf DEF Inv
<1>6. FocusOk' /\ (Settled => Settled') /\ (task # "none" => Settled)
  BY <1>5 DEF Quiet, FocusOk, Settled
<1>7. BackFrom(todo, 2)'
  OBVIOUS
<1>8. Phase'
  <2>1. CASE st = << >>
    <3>1. \A i \in 1 .. Len(<< >>) : FALSE
      OBVIOUS
    <3>2. BackFrom(todo, 1)'
      BY <2>1, <3>1 DEF BackFrom
    <3>3. Quiet'
      BY <1>5, <1>6, <2>1, <3>2 DEF Quiet
    <3>4. QED
      BY <3>3 DEF Phase
  <2>2. CASE st # << >> /\ st[1].op = "restack"
    <3>1. Todo("restack")'
      BY <2>2 DEF Todo
    <3>2. QED
      BY <3>1, <1>6, <1>7 DEF Phase, ToRestack
  <2>3. CASE st # << >> /\ st[1].op = "focus" /\ task # "none"
    <3>1. Todo("focus")'
      BY <2>3 DEF Todo
    <3>2. QED
      BY <3>1, <2>3, <1>6, <1>7 DEF Phase, ToFocus
  <2>4. CASE st # << >> /\ st[1].op = "close" /\ task # "none"
    <3>1. Todo("close")'
      BY <2>4 DEF Todo
    <3>2. QED
      BY <3>1, <2>4, <1>6, <1>7 DEF Phase, ToClose
  <2>5. CASE st # << >> /\ st[1].op = "drag-to" /\ task # "none"
    <3>1. Todo("drag-to")'
      BY <2>5 DEF Todo
    <3>2. QED
      BY <3>1, <2>5, <1>6, <1>7 DEF Phase, ToDrag
  <2>6. CASE st # << >> /\ st[1].op = "open" /\ task # "none"
    <3>1. BackFrom(todo, 1)'
      BY <2>6 DEF BackFrom, Back
    <3>2. QED
      BY <3>1, <2>6, <1>6 DEF Phase, Quiet
  <2>7. QED
    BY <2>1, <2>2, <2>3, <2>4, <2>5, <2>6
<1>9. QED
  BY <1>1, <1>3, <1>4, <1>8 DEF Inv

\* One step, and two
LEMMA StepOne ==
  ASSUME NEW a \in Step, a.op # "free"
  PROVE  LET st == <<a>> IN
         /\ st \in Seq(Step) /\ st[1].op = a.op /\ Opening(st) /\ BackFrom(st, 2)
         /\ \A i \in 1 .. Len(st) : st[i].op # "free"
BY DEF Opening, BackFrom

LEMMA StepTwo ==
  ASSUME NEW a \in Step, NEW b \in Step, a.op \notin {"free", "open"}, b.op \in Back \ {"free"}
  PROVE  LET st == <<a, b>> IN
         /\ st \in Seq(Step) /\ st[1].op = a.op /\ Opening(st) /\ BackFrom(st, 2)
         /\ \A i \in 1 .. Len(st) : st[i].op # "free"
BY DEF Opening, BackFrom, Back

\* A call of the window manager while the run loop waits or handles an event
LEMMA CallOne ==
  ASSUME Inv, NEW a \in Step, a.op \in {"focus", "close", "drag-to", "open"}, Program(<<a>>) \/ Handle(<<a>>)
  PROVE  Inv'
<1> DEFINE st == <<a>>
<1>1. /\ st \in Seq(Step) /\ st[1].op = a.op /\ Opening(st) /\ BackFrom(st, 2) /\ st # << >>
      /\ \A i \in 1 .. Len(st) : st[i].op # "free"
  BY StepOne
<1>2. todo = << >> /\ todo' = st /\ task # "none" /\ pointer' \in Int \X Int /\ batch' \in BOOLEAN
  BY DEF Program, Handle, Inv, Types
<1>3. UNCHANGED <<windows, focus, drag, next, task, surfaces, canvases, owner, screen, lit, rend, lost>>
  BY DEF Program, Handle
<1> HIDE DEF st
<1>4. QED
  BY <1>1, <1>2, <1>3, Begins

LEMMA CallTwo ==
  ASSUME Inv, NEW a \in Step, NEW b \in Step, a.op \in {"focus", "drag-to"}, b.op \in Back \ {"free"},
         Handle(<<a, b>>)
  PROVE  Inv'
<1> DEFINE st == <<a, b>>
<1>1. /\ st \in Seq(Step) /\ st[1].op = a.op /\ Opening(st) /\ BackFrom(st, 2) /\ st # << >>
      /\ \A i \in 1 .. Len(st) : st[i].op # "free"
  BY StepTwo
<1>2. todo = << >> /\ todo' = st /\ task # "none" /\ pointer' \in Int \X Int /\ batch' \in BOOLEAN
  BY DEF Handle, Inv, Types
<1>3. UNCHANGED <<windows, focus, drag, next, task, surfaces, canvases, owner, screen, lit, rend, lost>>
  BY DEF Handle
<1> HIDE DEF st
<1>4. QED
  BY <1>1, <1>2, <1>3, Begins

\* The window under the pointer, and the one that shows the help
LEMMA WindowAtIs ==
  ASSUME Types, NEW p
  PROVE  WindowAt(p) \in WindowRecord
<1> DEFINE I == {i \in 1 .. Len(windows) : p \in Cells(Shape(windows[i]))}
<1>0. SelectLastInSeq(windows, LAMBDA w : p \in Cells(Shape(w))) = IF I # {} THEN Max(I) ELSE 0
  BY DEF SelectLastInSeq
<1>1. CASE I = {}
  BY <1>0, <1>1, NoWindowIs DEF WindowAt
<1>2. CASE I # {}
  <2>1. Max(I) \in I
    <3>1. I \in SUBSET Nat /\ \A i \in I : i <= Len(windows)
      BY DEF Types
    <3> DEFINE J == {j \in Nat : Len(windows) - j \in I}
    <3>2. Len(windows) \in Nat
      BY DEF Types
    <3> HIDE DEF I
    <3>3. J # {} /\ J \in SUBSET Nat
      <4>1. PICK i \in I : TRUE
        BY <1>2
      <4>2. Len(windows) - i \in Nat /\ Len(windows) - (Len(windows) - i) = i
        BY <3>1, <3>2, <4>1
      <4>3. Len(windows) - i \in J
        BY <4>2
      <4>4. QED
        BY <4>3
    <3>4. Min(J) \in J
      <4> HIDE DEF J
      <4>1. QED
        BY <3>3, Least
    <3>5. PICK j \in J : \A l \in J : j <= l
      <4> HIDE DEF J
      <4>1. \E x \in J : \A y \in J : x <= y
        <5>1. PICK x \in J : \A y \in J : ~ (<<y, x>> \in OpToRel(<, Nat))
          BY <3>3, NatLessThanWellFounded, WFMin
        <5>2. \A y \in J : ~(y < x)
          BY <3>3, <5>1 DEF OpToRel
        <5>3. \A y \in J : x <= y
          BY <3>3, <5>2
        <5>4. QED
          BY <5>3
      <4>2. QED
        BY <4>1
    <3>6. Len(windows) - j \in I /\ \A y \in I : Len(windows) - j >= y
      <4>1. \A y \in I : Len(windows) - y \in J
        <5>1. \A y \in I : Len(windows) - y \in Nat /\ Len(windows) - (Len(windows) - y) = y
          BY <3>1, <3>2
        <5>2. QED
          BY <5>1
      <4>2. j \in Nat /\ Len(windows) - j \in I
        BY <3>5
      <4> HIDE DEF J
      <4>3. QED
        BY <4>1, <4>2, <3>1, <3>2, <3>5
    <3>7. QED
      BY <3>6 DEF Max
  <2>2. Max(I) \in 1 .. Len(windows)
    BY <2>1
  <2>3. WindowAt(p) = windows[Max(I)]
    <3>1. Max(I) # 0
      BY <2>2
    <3> HIDE DEF I
    <3>2. QED
      BY <1>0, <1>2, <3>1 DEF WindowAt
  <2> HIDE DEF I
  <2>4. QED
    BY <2>2, <2>3 DEF Types
<1>3. QED
  BY <1>1, <1>2

LEMMA HelpIs ==
  ASSUME Types, SelectInSeq(windows, LAMBDA w : w.help) # 0
  PROVE  SelectInSeq(windows, LAMBDA w : w.help) \in 1 .. Len(windows)
<1> DEFINE I == {i \in 1 .. Len(windows) : windows[i].help}
<1>1. SelectInSeq(windows, LAMBDA w : w.help) = IF I # {} THEN Min(I) ELSE 0
  BY DEF SelectInSeq
<1>2. I # {}
  BY <1>1
<1>3. I \in SUBSET Nat /\ \A i \in I : i \in 1 .. Len(windows)
  OBVIOUS
<1> HIDE DEF I
<1>4. Min(I) \in I
  BY <1>2, <1>3, Least
<1>5. QED
  BY <1>1, <1>2, <1>3, <1>4

\* What the steps are called
LEMMA OpsAre ==
  /\ \A n : DoFocus(n).op = "focus" /\ DoClose(n).op = "close" /\ DoHelp(n).op = "help"
  /\ \A n : DoFree(n).op = "free"
  /\ \A n, p : DoDrag(n, p).op = "drag"
  /\ \A b, p : DoOpen(p, b).op = "open"
  /\ DoDragTo.op = "drag-to" /\ DoDrop.op = "drop" /\ DoSpawn.op = "spawn" /\ DoRestack.op = "restack"
  /\ DoRefocus.op = "refocus"
BY DEF DoFocus, DoClose, DoHelp, DoFree, DoDrag, DoOpen, DoDragTo, DoDrop, DoSpawn, DoRestack, DoRefocus

\* Where a new window goes
LEMMA DefaultAtIs ==
  ASSUME Types
  PROVE  DefaultAt \in Int \X Int
<1>1. next % 10 \in Int /\ Cascade \in Int
  BY WmAssumption DEF Types, WmAssumption
<1> DEFINE x == Cascade * (next % 10)
<1>2. x \in Int
  <2> DEFINE r == next % 10
  <2>1. r \in Int
    BY <1>1
  <2> HIDE DEF r
  <2>2. Cascade * r \in Int
    BY <1>1, <2>1
  <2>3. QED
    BY <2>2 DEF r
<1>3. DefaultAt = <<x, x>>
  BY DEF DefaultAt
<1> HIDE DEF x
<1>4. QED
  BY <1>2, <1>3

LEMMA ProgramsInv ==
  ASSUME Inv,
         \/ Program(<<DoOpen(DefaultAt, FALSE)>>)
         \/ \E i \in DOMAIN windows :
              Program(<<DoClose(windows[i].id)>>) \/ Program(<<DoFocus(windows[i].id)>>)
  PROVE  Inv'
<1>1. Types
  BY DEF Inv
<1>2. CASE Program(<<DoOpen(DefaultAt, FALSE)>>)
  BY <1>1, <1>2, DefaultAtIs, StepsAre, OpsAre, CallOne
<1>3. ASSUME NEW i \in DOMAIN windows,
             Program(<<DoClose(windows[i].id)>>) \/ Program(<<DoFocus(windows[i].id)>>)
      PROVE  Inv'
  <2>1. windows[i] \in WindowRecord
    BY <1>1 DEF Types
  <2>2. windows[i].id \in Nat
    BY <2>1 DEF WindowRecord
  <2>3. QED
    BY <1>3, <2>2, StepsAre, OpsAre, CallOne
<1>4. QED
  BY <1>2, <1>3

LEMMA OnPressInv ==
  ASSUME Inv, on_press
  PROVE  Inv'
<1> DEFINE w == WindowAt(pointer)
           at == <<pointer[1] - w.x, pointer[2] - w.y>>
<1>1. Types /\ pointer \in Int \X Int
  BY DEF Inv, Types
<1>2. w \in WindowRecord
  BY <1>1, WindowAtIs
<1> HIDE DEF w
<1>3. w.id \in Nat /\ at \in Int \X Int
  BY <1>1, <1>2 DEF WindowRecord
<1> HIDE DEF at
<1>4. \/ Handle(<<DoOpen(pointer, FALSE)>>) \/ Handle(<<DoClose(w.id)>>)
      \/ Handle(<<DoFocus(w.id), DoDrag(w.id, at)>>) \/ Handle(<<DoFocus(w.id)>>)
  BY DEF on_press, w, at
<1>5. CASE Handle(<<DoOpen(pointer, FALSE)>>)
  BY <1>1, <1>5, StepsAre, OpsAre, CallOne
<1>6. CASE Handle(<<DoClose(w.id)>>) \/ Handle(<<DoFocus(w.id)>>)
  BY <1>3, <1>6, StepsAre, OpsAre, CallOne
<1>7. CASE Handle(<<DoFocus(w.id), DoDrag(w.id, at)>>)
  <2>1. DoFocus(w.id) \in Step /\ DoDrag(w.id, at) \in Step
    BY <1>3, StepsAre
  <2>2. DoFocus(w.id).op = "focus" /\ DoDrag(w.id, at).op = "drag"
    BY OpsAre
  <2>3. QED
    BY <2>1, <2>2, <1>7, CallTwo DEF Back
<1>8. QED
  BY <1>4, <1>5, <1>6, <1>7

LEMMA OnReleaseInv ==
  ASSUME Inv, OnRelease
  PROVE  Inv'
<1>1. DoDragTo \in Step /\ DoDrop \in Step /\ DoDragTo.op = "drag-to" /\ DoDrop.op = "drop"
  BY StepsAre, OpsAre
<1>2. Handle(<<DoDragTo, DoDrop>>)
  BY DEF OnRelease
<1>3. QED
  BY <1>1, <1>2, CallTwo DEF Back

LEMMA KeysInv ==
  ASSUME Inv, wm_key
  PROVE  Inv'
<1>1. Types /\ focus \in Nat
  BY DEF Inv, Types
<1>2. ASSUME NEW i \in 1 .. Len(windows), Handle(<<DoFocus(windows[i].id)>>)
      PROVE  Inv'
  <2>1. windows[i] \in WindowRecord
    BY <1>1 DEF Types
  <2>2. windows[i].id \in Nat
    BY <2>1 DEF WindowRecord
  <2>3. QED
    BY <1>2, <2>2, StepsAre, OpsAre, CallOne
<1>3. CASE Handle(<<DoOpen(DefaultAt, FALSE)>>)
  BY <1>1, <1>3, DefaultAtIs, StepsAre, OpsAre, CallOne
<1>4. CASE next_window
  <2>1. Len(windows) > 1 /\ Handle(<<DoFocus(Head(windows).id)>>)
    BY <1>4 DEF next_window
  <2>2. Head(windows) = windows[1] /\ 1 \in 1 .. Len(windows)
    BY <2>1, <1>1 DEF Types
  <2>3. QED
    BY <2>1, <2>2, <1>2
<1>5. CASE Handle(<<DoClose(focus)>>)
  BY <1>1, <1>5, StepsAre, OpsAre, CallOne
<1>6. CASE help_bang
  <2> DEFINE i == SelectInSeq(windows, LAMBDA w : w.help)
  <2>1. i # 0 => i \in 1 .. Len(windows)
    BY <1>1, HelpIs
  <2>2. \/ i # 0 /\ Handle(<<DoFocus(windows[i].id)>>)
        \/ Handle(<<DoOpen(<<1, 0>>, TRUE)>>)
    BY <1>6 DEF help_bang
  <2> HIDE DEF i
  <2>3. CASE Handle(<<DoOpen(<<1, 0>>, TRUE)>>)
    <3>1. <<1, 0>> \in Int \X Int
      OBVIOUS
    <3>2. QED
      BY <3>1, <2>3, StepsAre, OpsAre, CallOne
  <2>4. QED
    BY <2>1, <2>2, <2>3, <1>2
<1>7. QED
  BY <1>3, <1>4, <1>5, <1>6 DEF wm_key

LEMMA StartInv ==
  ASSUME Inv, start_bang
  PROVE  Inv'
<1> DEFINE a == DoRestack
           b == DoOpen(DefaultAt, FALSE)
           c == DoSpawn
           st == <<a, b, c>>
<1>1. a \in Step /\ b \in Step /\ c \in Step /\ a.op = "restack" /\ b.op = "open" /\ c.op = "spawn"
  BY DefaultAtIs, StepsAre, OpsAre DEF Inv
<1>2. /\ todo = << >> /\ todo' = st /\ batch' = batch /\ pointer' = <<Width \div 2, Height \div 2>>
      /\ UNCHANGED <<windows, focus, drag, next, task, surfaces, canvases, owner, screen, lit, rend, lost>>
  BY DEF start_bang
<1>3. pointer' \in Int \X Int /\ batch' \in BOOLEAN
  <2>1. Width \div 2 \in Int /\ Height \div 2 \in Int
    BY WmAssumption DEF WmAssumption
  <2>2. Types
    BY DEF Inv
  <2>3. batch \in BOOLEAN
    BY <2>2, Zenon DEF Types
  <2>4. QED
    BY <1>2, <2>1, <2>3
<1> HIDE DEF a, b, c
<1>4. /\ st \in Seq(Step) /\ Len(st) = 3 /\ st[1] = a /\ st[2] = b /\ st[3] = c /\ st # << >>
      /\ \A i \in 1 .. Len(st) : i = 1 \/ i = 2 \/ i = 3
  BY <1>1
<1> HIDE DEF st
<1>5. Opening(st) /\ BackFrom(st, 2) /\ \A i \in 1 .. Len(st) : st[i].op # "free"
  BY <1>1, <1>4 DEF Opening, BackFrom, Back
<1>6. QED
  BY <1>1, <1>2, <1>3, <1>4, <1>5, Begins

LEMMA PointerInv ==
  ASSUME Inv, NEW d \in Motions, pointer_bang(d[1], d[2])
  PROVE  Inv'
<1> DEFINE dx == d[1]
           dy == d[2]
           st == << >>
<1>1. dx \in Int /\ dy \in Int /\ pointer \in Int \X Int /\ Width \in Int /\ Height \in Int
  <2>1. d \in {-1, 0, 1} \X {-1, 0, 1}
    BY DEF Motions
  <2>2. dx \in Int /\ dy \in Int
    BY <2>1
  <2>3. Width \in Int /\ Height \in Int
    BY WmAssumption DEF WmAssumption
  <2>4. Types
    BY DEF Inv
  <2>5. pointer \in Int \X Int
    BY <2>4, Zenon DEF Types
  <2>6. QED
    BY <2>2, <2>3, <2>5
<1> HIDE DEF dx, dy
<1>2. pointer' \in Int \X Int
  <2>1. Clamp(pointer[1] + dx, Width - 1) \in Int /\ Clamp(pointer[2] + dy, Height - 1) \in Int
    <3>1. pointer[1] + dx \in Int /\ Width - 1 \in Int /\ pointer[2] + dy \in Int /\ Height - 1 \in Int
      BY <1>1
    <3>2. QED
      BY <3>1, ClampIs
  <2>2. pointer' = <<Clamp(pointer[1] + dx, Width - 1), Clamp(pointer[2] + dy, Height - 1)>>
    BY DEF pointer_bang, dx, dy
  <2>3. QED
    BY <2>1, <2>2
<1>3. /\ todo = << >> /\ todo' = st /\ batch' \in BOOLEAN
      /\ UNCHANGED <<windows, focus, drag, next, task, surfaces, canvases, owner, screen, lit, rend, lost>>
  BY DEF pointer_bang
<1>4. /\ st \in Seq(Step) /\ Opening(st) /\ BackFrom(st, 2) /\ \A i \in 1 .. Len(st) : st[i].op # "free"
  BY DEF Opening, BackFrom
<1>5. st = << >>
  OBVIOUS
<1> HIDE DEF st
<1>6. QED
  BY <1>2, <1>3, <1>4, <1>5, Begins

LEMMA EndBatchInv ==
  ASSUME Inv, EndBatch
  PROVE  Inv'
<1> DEFINE st == IF drag # NoDrag THEN <<DoDragTo>> ELSE << >>
<1>1. /\ todo = << >> /\ todo' = st /\ batch' \in BOOLEAN /\ pointer' = pointer /\ task # "none"
      /\ UNCHANGED <<windows, focus, drag, next, task, surfaces, canvases, owner, screen, lit, rend, lost>>
  BY DEF EndBatch
<1>2. pointer' \in Int \X Int
  BY <1>1 DEF Inv, Types
<1>3. /\ st \in Seq(Step) /\ Opening(st) /\ BackFrom(st, 2) /\ \A i \in 1 .. Len(st) : st[i].op # "free"
      /\ st # << >> => st[1].op = "drag-to"
  <2>1. CASE drag # NoDrag
    <3>1. DoDragTo \in Step /\ DoDragTo.op = "drag-to" /\ st = <<DoDragTo>>
      BY <2>1, StepsAre, OpsAre
    <3> HIDE DEF st
    <3>2. QED
      BY <3>1, StepOne
  <2>2. CASE ~(drag # NoDrag)
    <3>1. st = << >>
      BY <2>2
    <3> HIDE DEF st
    <3>2. QED
      BY <3>1 DEF Opening, BackFrom
  <2>3. QED
    BY <2>1, <2>2
<1> HIDE DEF st
<1>4. QED
  BY <1>1, <1>2, <1>3, Begins

-----------------------------------------------------------------------------
(***************************************************************************)
(* Windows in another order, and one more or one less                      *)
(***************************************************************************)

\* The windows of a list are windows.
LEMMA WinsAre ==
  ASSUME NEW ws \in Seq(WindowRecord), NEW i \in 1 .. Len(ws)
  PROVE  ws[i] \in WindowRecord /\ ws[i].id \in Nat /\ ws[i].surf \in Nat
<1>1. ws[i] \in WindowRecord
  OBVIOUS
<1>2. QED
  BY <1>1, RecordIs

\* us has windows of ws, none of them twice, and perhaps elsewhere on screen.
Picks(us, ws, f) ==
  /\ \A i \in 1 .. Len(us) :
       f[i] \in 1 .. Len(ws) /\ us[i].id = ws[f[i]].id /\ us[i].surf = ws[f[i]].surf /\ us[i].frame = ws[f[i]].frame
  /\ \A i, j \in 1 .. Len(us) : f[i] = f[j] => i = j

LEMMA PickedSome ==
  ASSUME NEW us \in Seq(WindowRecord), NEW ws \in Seq(WindowRecord), NEW f, Picks(us, ws, f)
  PROVE  /\ Held(us) \subseteq Held(ws) /\ (HeldOnce(ws) => HeldOnce(us))
         /\ \A d : Lit(us, d) \subseteq Lit(ws, d)
<1>1. Held(us) \subseteq Held(ws)
  BY DEF Held, Picks
<1>2. HeldOnce(ws) => HeldOnce(us)
  <2> SUFFICES ASSUME HeldOnce(ws), NEW i \in 1 .. Len(us), NEW j \in 1 .. Len(us), us[i].surf = us[j].surf
               PROVE  i = j
    BY DEF HeldOnce
  <2>1. /\ f[i] \in 1 .. Len(ws) /\ us[i].surf = ws[f[i]].surf
        /\ f[j] \in 1 .. Len(ws) /\ us[j].surf = ws[f[j]].surf
        /\ f[i] = f[j] => i = j
    BY Zenon DEF Picks
  <2>2. f[i] = f[j]
    BY <2>1 DEF HeldOnce
  <2>3. QED
    BY <2>1, <2>2
<1>3. \A d : Lit(us, d) \subseteq Lit(ws, d)
  <2>2. ASSUME NEW d, NEW s, s \in Lit(us, d) PROVE s \in Lit(ws, d)
    <3>1. s \in Nat /\ \E i \in 1 .. Len(us) : us[i].id = d /\ us[i].frame /\ us[i].surf = s
      BY <2>2, Zenon DEF Lit
    <3>2. PICK i \in 1 .. Len(us) : us[i].id = d /\ us[i].frame /\ us[i].surf = s
      BY <3>1
    <3>3. /\ f[i] \in 1 .. Len(ws) /\ us[i].id = ws[f[i]].id
          /\ us[i].surf = ws[f[i]].surf /\ us[i].frame = ws[f[i]].frame
      BY Zenon DEF Picks
    <3>4. ws[f[i]].id = d /\ ws[f[i]].frame /\ ws[f[i]].surf = s
      BY <3>2, <3>3
    <3>5. \E k \in 1 .. Len(ws) : ws[k].id = d /\ ws[k].frame /\ ws[k].surf = s
      <4>1. f[i] \in 1 .. Len(ws)
        BY <3>3
      <4> WITNESS f[i] \in 1 .. Len(ws)
      <4>2. QED
        BY <3>4
    <3>6. QED
      BY <3>1, <3>5, Zenon DEF Lit
  <2>3. QED
    BY <2>2, Zenon
<1>4. QED
  BY <1>1, <1>2, <1>3

\* The same windows
LEMMA PickedAll ==
  ASSUME NEW us \in Seq(WindowRecord), NEW ws \in Seq(WindowRecord), NEW f, Picks(us, ws, f),
         \A k \in 1 .. Len(ws) : \E i \in 1 .. Len(us) : f[i] = k
  PROVE  /\ Held(us) = Held(ws) /\ (HeldOnce(ws) => HeldOnce(us))
         /\ \A d : Lit(us, d) = Lit(ws, d)
<1>1. \A k \in 1 .. Len(ws) : \E i \in 1 .. Len(us) :
        us[i].id = ws[k].id /\ us[i].surf = ws[k].surf /\ us[i].frame = ws[k].frame
  BY DEF Picks
<1>2. Held(ws) \subseteq Held(us)
  <2> SUFFICES ASSUME NEW s \in Nat, NEW k \in 1 .. Len(ws), ws[k].surf = s
               PROVE  \E i \in 1 .. Len(us) : us[i].surf = s
    BY ZenonT(30) DEF Held
  <2>1. QED
    BY <1>1, Zenon
<1>3. ASSUME NEW d, NEW s \in Nat, NEW k \in 1 .. Len(ws), ws[k].id = d, ws[k].frame, ws[k].surf = s
      PROVE  s \in Lit(us, d)
  <2>1. PICK i \in 1 .. Len(us) : us[i].id = ws[k].id /\ us[i].surf = ws[k].surf /\ us[i].frame = ws[k].frame
    BY <1>1
  <2>2. QED
    BY <1>3, <2>1 DEF Lit
<1>4. \A d : Lit(ws, d) \subseteq Lit(us, d)
  BY <1>3 DEF Lit
<1>5. /\ Held(us) \subseteq Held(ws) /\ (HeldOnce(ws) => HeldOnce(us))
      /\ \A d : Lit(us, d) \subseteq Lit(ws, d)
  BY PickedSome
<1>6. Held(us) = Held(ws)
  BY <1>2, <1>5
<1>7. ASSUME NEW d PROVE Lit(us, d) = Lit(ws, d)
  <2>1. Lit(us, d) \subseteq Lit(ws, d) /\ Lit(ws, d) \subseteq Lit(us, d)
    BY <1>4, <1>5
  <2>2. QED
    BY <2>1, Zenon
<1>8. QED
  BY <1>5, <1>6, <1>7

\* All but the k-th
LEMMA PickedBut ==
  ASSUME NEW us \in Seq(WindowRecord), NEW ws \in Seq(WindowRecord), NEW f, Picks(us, ws, f),
         NEW k \in 1 .. Len(ws), HeldOnce(ws),
         \A i \in 1 .. Len(us) : f[i] # k,
         \A l \in 1 .. Len(ws) : l # k => \E i \in 1 .. Len(us) : f[i] = l
  PROVE  /\ Held(us) = Held(ws) \ {ws[k].surf} /\ HeldOnce(us)
         /\ \A d : d # ws[k].id => Lit(us, d) = Lit(ws, d)
<1>1. \A l \in 1 .. Len(ws) : l # k => \E i \in 1 .. Len(us) :
        us[i].id = ws[l].id /\ us[i].surf = ws[l].surf /\ us[i].frame = ws[l].frame
  BY DEF Picks
<1>2. \A i \in 1 .. Len(us) : us[i].surf # ws[k].surf
  <2> SUFFICES ASSUME NEW i \in 1 .. Len(us), us[i].surf = ws[k].surf PROVE FALSE
    OBVIOUS
  <2>1. f[i] \in 1 .. Len(ws) /\ ws[f[i]].surf = ws[k].surf /\ f[i] # k
    BY DEF Picks
  <2>2. QED
    BY <2>1 DEF HeldOnce
<1>3. ASSUME NEW s \in Nat, NEW l \in 1 .. Len(ws), ws[l].surf = s, s # ws[k].surf
      PROVE  s \in Held(us)
  <2>1. PICK i \in 1 .. Len(us) : us[i].surf = ws[l].surf
    BY <1>1, <1>3
  <2>2. QED
    BY <1>3, <2>1 DEF Held
<1>4. \A s : s \in Held(us) => s # ws[k].surf
  BY <1>2 DEF Held
<1>5. ASSUME NEW d, d # ws[k].id PROVE Lit(ws, d) \subseteq Lit(us, d)
  <2>1. ASSUME NEW s \in Nat, NEW l \in 1 .. Len(ws), ws[l].id = d, ws[l].frame, ws[l].surf = s
        PROVE  s \in Lit(us, d)
    <3>1. PICK i \in 1 .. Len(us) : us[i].id = ws[l].id /\ us[i].surf = ws[l].surf /\ us[i].frame = ws[l].frame
      BY <1>1, <1>5, <2>1
    <3>2. QED
      BY <2>1, <3>1 DEF Lit
  <2>2. QED
    BY <2>1 DEF Lit
<1>6. Held(us) \subseteq Held(ws) /\ HeldOnce(us) /\ \A d : Lit(us, d) \subseteq Lit(ws, d)
  BY PickedSome
<1>7. \A s : s \in Held(ws) /\ s # ws[k].surf => s \in Held(us)
  BY <1>3 DEF Held
<1>8. Held(us) = Held(ws) \ {ws[k].surf}
  BY <1>4, <1>6, <1>7
<1>9. ASSUME NEW d, d # ws[k].id PROVE Lit(us, d) = Lit(ws, d)
  <2>1. Lit(us, d) \subseteq Lit(ws, d) /\ Lit(ws, d) \subseteq Lit(us, d)
    BY <1>5, <1>6, <1>9
  <2>2. QED
    BY <2>1, Zenon
<1>10. QED
  BY <1>6, <1>8, <1>9

\* One more, w
LEMMA PickedMore ==
  ASSUME NEW ws \in Seq(WindowRecord), NEW w \in WindowRecord, HeldOnce(ws), w.surf \notin Held(ws)
  PROVE  LET us == Append(ws, w) IN
         /\ us \in Seq(WindowRecord) /\ Len(us) = Len(ws) + 1 /\ us[Len(us)] = w
         /\ \A i \in 1 .. Len(ws) : us[i] = ws[i]
         /\ Held(us) = Held(ws) \cup {w.surf} /\ HeldOnce(us)
         /\ \A d : d # w.id => Lit(us, d) = Lit(ws, d)
<1> DEFINE us == Append(ws, w)
           n == Len(ws)
<1>1. /\ us \in Seq(WindowRecord) /\ Len(us) = n + 1 /\ us[n + 1] = w /\ n \in Nat
      /\ \A i \in 1 .. n : us[i] = ws[i]
  OBVIOUS
<1>2. \A i \in 1 .. n : ws[i] \in WindowRecord /\ ws[i].surf \in Nat
  BY WinsAre
<1>3. w.surf \in Nat
  BY RecordIs
<1> HIDE DEF us, n
<1>4. \A i \in 1 .. n + 1 : i \in 1 .. n \/ i = n + 1
  BY <1>1
<1>5. n + 1 \in 1 .. n + 1 /\ \A i \in 1 .. n : i \in 1 .. n + 1
  BY <1>1
<1>6. \A i \in 1 .. n : ws[i].surf # w.surf
  BY <1>2 DEF Held, n
<1>7. HeldOnce(us)
  BY <1>1, <1>4, <1>6 DEF HeldOnce, n
<1>8. \A s : s \in Held(us) <=> s \in Held(ws) \cup {w.surf}
  BY <1>1, <1>3, <1>4, <1>5 DEF Held, n
<1>9. ASSUME NEW d, d # w.id PROVE Lit(us, d) = Lit(ws, d)
  <2>1. \A s : s \in Lit(us, d) <=> s \in Lit(ws, d)
    BY <1>1, <1>4, <1>5, <1>9 DEF Lit, n
  <2>2. QED
    BY <2>1
<1>10. Held(us) = Held(ws) \cup {w.surf}
  BY <1>8
<1>11. QED
  BY <1>1, <1>7, <1>9, <1>10 DEF us, n

\* The frame that is lit
LEMMA LitIs ==
  ASSUME NEW ws \in Seq(WindowRecord), NEW d
  PROVE  /\ (\A i \in 1 .. Len(ws) : ws[i].id # d) => Lit(ws, d) = {}
         /\ \A k \in 1 .. Len(ws) :
              ws[k].id = d /\ (\A i \in 1 .. Len(ws) : ws[i].id = d => i = k)
                => Lit(ws, d) = IF ws[k].frame THEN {ws[k].surf} ELSE {}
<1>1. ASSUME \A i \in 1 .. Len(ws) : ws[i].id # d PROVE Lit(ws, d) = {}
  BY <1>1 DEF Lit
<1>2. ASSUME NEW k \in 1 .. Len(ws), ws[k].id = d, \A i \in 1 .. Len(ws) : ws[i].id = d => i = k
      PROVE  Lit(ws, d) = IF ws[k].frame THEN {ws[k].surf} ELSE {}
  <2>1. ws[k].surf \in Nat
    BY WinsAre
  <2>2. \A s : s \in Lit(ws, d) <=> ws[k].frame /\ s = ws[k].surf
    BY <1>2, <2>1 DEF Lit
  <2>3. QED
    BY <2>2
<1>3. QED
  BY <1>1, <1>2

\* To free s, then the rest
LEMMA FreeThen ==
  ASSUME NEW td \in Seq(Step), td # << >>, NEW s \in Nat, NEW u,
         u = <<DoFree(s), DoRefocus>> \o Tail(td), td[1].op # "free", s \notin Frees(td),
         FreesOnce(td), Opening(td)
  PROVE  u \in Seq(Step) /\ Frees(u) = Frees(td) \cup {s} /\ FreesOnce(u) /\ Opening(u)
<1> DEFINE st == <<DoFree(s), DoRefocus>>
           m == Len(td)
<1>0. DoFree(s) \in Step /\ DoRefocus \in Step /\ DoFree(s).op = "free" /\ DoRefocus.op = "refocus"
  BY StepsAre, OpsAre
<1>1. st \in Seq(Step) /\ Len(st) = 2 /\ st[1] = DoFree(s) /\ st[2] = DoRefocus
  BY <1>0
<1>2. u = st \o Tail(td)
  OBVIOUS
<1> HIDE DEF st
<1>3. /\ u \in Seq(Step) /\ Len(u) = Len(st) + Len(td) - 1
      /\ \A i \in 1 .. Len(st) : u[i] = st[i]
      /\ \A i \in Len(st) + 1 .. Len(u) : u[i] = td[i - Len(st) + 1]
      /\ Len(td) \in Nat \ {0}
  BY <1>1, <1>2, ThenIs
<1>4. /\ m \in Nat \ {0} /\ Len(u) = m + 1 /\ u[1] = DoFree(s) /\ u[2] = DoRefocus
      /\ \A i \in 3 .. m + 1 : u[i] = td[i - 1]
  BY <1>1, <1>3
<1>5. /\ u[1].op = "free" /\ u[1].win.surf = s /\ u[2].op = "refocus"
  BY <1>0, <1>4, NoWindowIs DEF DoFree, WindowRecord
<1> HIDE DEF m
<1>6. \A i \in 1 .. m + 1 : i = 1 \/ i = 2 \/ (i \in 3 .. m + 1 /\ i - 1 \in 2 .. m /\ i - 1 \in 1 .. m)
  BY <1>4
<1>7. \A i \in 2 .. m : i + 1 \in 3 .. m + 1 /\ i + 1 \in 1 .. m + 1 /\ u[i + 1] = td[i]
  <2> SUFFICES ASSUME NEW i \in 2 .. m PROVE i + 1 \in 3 .. m + 1 /\ i + 1 \in 1 .. m + 1 /\ u[i + 1] = td[i]
    OBVIOUS
  <2>1. i + 1 \in 3 .. m + 1 /\ i + 1 \in 1 .. m + 1 /\ (i + 1) - 1 = i
    BY <1>4
  <2>2. QED
    BY <2>1, <1>4
<1>8. \A i \in 1 .. m : td[i].op = "free" => td[i].win.surf # s
  BY DEF Frees, m
<1>9. FreesOnce(u)
  <2> SUFFICES ASSUME NEW i \in 1 .. m + 1, NEW j \in 1 .. m + 1, u[i].op = "free", u[j].op = "free",
                      u[i].win.surf = u[j].win.surf
               PROVE  i = j
    BY <1>4 DEF FreesOnce
  <2>1. CASE i = 1 \/ j = 1
    BY <2>1, <1>4, <1>5, <1>6, <1>8
  <2>2. CASE i # 1 /\ j # 1
    <3>1. i - 1 \in 1 .. m /\ j - 1 \in 1 .. m /\ u[i] = td[i - 1] /\ u[j] = td[j - 1]
      BY <2>2, <1>4, <1>5, <1>6
    <3>2. i - 1 = j - 1
      BY <3>1 DEF FreesOnce, m
    <3>3. QED
      BY <3>2, <1>4
  <2>3. QED
    BY <2>1, <2>2
<1>10. Opening(u)
  <2> SUFFICES ASSUME NEW i \in 1 .. m + 1, NEW j \in 1 .. m + 1, u[i].op = "open", i < j
               PROVE  u[j].op = "spawn"
    BY <1>4 DEF Opening
  <2>1. i \in 3 .. m + 1 /\ j \in 3 .. m + 1
    BY SMTT(30), <1>4, <1>5, <1>6
  <2>2. i - 1 \in 1 .. m /\ j - 1 \in 1 .. m /\ i - 1 < j - 1 /\ u[i] = td[i - 1] /\ u[j] = td[j - 1]
    BY <2>1, <1>4
  <2>3. QED
    BY <2>2 DEF Opening, m
<1>11. \A x \in Nat : (\E i \in 1 .. m + 1 : u[i].op = "free" /\ u[i].win.surf = x)
                      <=> (\E i \in 1 .. m : td[i].op = "free" /\ td[i].win.surf = x) \/ x = s
  <2> SUFFICES ASSUME NEW x \in Nat
               PROVE  (\E i \in 1 .. m + 1 : u[i].op = "free" /\ u[i].win.surf = x)
                      <=> (\E i \in 1 .. m : td[i].op = "free" /\ td[i].win.surf = x) \/ x = s
    OBVIOUS
  <2>1. ASSUME NEW i \in 1 .. m + 1, u[i].op = "free", u[i].win.surf = x
        PROVE  (\E j \in 1 .. m : td[j].op = "free" /\ td[j].win.surf = x) \/ x = s
    BY <2>1, <1>4, <1>5, <1>6
  <2>2. ASSUME NEW i \in 1 .. m, td[i].op = "free", td[i].win.surf = x
        PROVE  \E j \in 1 .. m + 1 : u[j].op = "free" /\ u[j].win.surf = x
    <3>1. i \in 2 .. m
      BY <2>2, <1>4
    <3>2. QED
      BY <2>2, <3>1, <1>7
  <2>3. 1 \in 1 .. m + 1
    BY <1>4
  <2>4. QED
    BY <2>1, <2>2, <2>3, <1>5
<1>12. \A x : x \in Frees(u) <=> x \in Frees(td) \cup {s}
  <2>1. ASSUME NEW x \in Nat PROVE x \in Frees(u) <=> x \in Frees(td) \/ x = s
    <3>1. Len(u) = m + 1 /\ Len(td) = m
      BY <1>4 DEF m
    <3>2. x \in Frees(u) <=> \E i \in 1 .. Len(u) : u[i].op = "free" /\ u[i].win.surf = x
      BY Zenon DEF Frees
    <3>3. x \in Frees(td) <=> \E i \in 1 .. Len(td) : td[i].op = "free" /\ td[i].win.surf = x
      BY Zenon DEF Frees
    <3>4. (\E i \in 1 .. m + 1 : u[i].op = "free" /\ u[i].win.surf = x)
            <=> (\E i \in 1 .. m : td[i].op = "free" /\ td[i].win.surf = x) \/ x = s
      BY <1>11
    <3>5. QED
      BY <3>1, <3>2, <3>3, <3>4
  <2>2. \A x : x \in Frees(u) \/ x \in Frees(td) => x \in Nat
    BY Zenon DEF Frees
  <2>3. QED
    BY <2>1, <2>2
<1>13. Frees(u) = Frees(td) \cup {s}
  BY <1>12
<1>14. QED
  BY <1>3, <1>9, <1>10, <1>13

-----------------------------------------------------------------------------
(***************************************************************************)
(* The steps of an operation: those that leave the windows alone           *)
(***************************************************************************)

\* A step is done and others, that free and open nothing, take its place.
LEMMA StepDone ==
  ASSUME Inv, NEW op, Todo(op), op # "free", NEW st \in Seq(Step), todo' = st \o Tail(todo),
         \A i \in 1 .. Len(st) : st[i].op \notin {"free", "open"}
  PROVE  /\ todo' \in Seq(Step) /\ Frees(todo') = Frees(todo) /\ FreesOnce(todo') /\ Opening(todo')
<1>1. todo \in Seq(Step) /\ todo # << >> /\ todo[1].op # "free"
  BY HeadIs DEF Inv
<1>2. FreesOnce(todo) /\ Opening(todo)
  BY DEF Inv, Surfaces
<1>3. todo' \in Seq(Step)
  BY <1>1, ThenIs, Zenon
<1>4. /\ todo[1].op # "free" => Frees(todo') = Frees(todo)
      /\ FreesOnce(todo') /\ Opening(todo')
  BY <1>1, <1>2, PlainThen
<1>5. QED
  BY <1>1, <1>3, <1>4

\* The last step of an operation, or of a part of it
LEMMA LastDone ==
  ASSUME Inv, NEW op, Todo(op), todo' = << >> \o Tail(todo)
  PROVE  /\ todo' \in Seq(Step)
         /\ BackFrom(todo, 1) \/ BackFrom(todo, 2) => BackFrom(todo', 1)
         /\ op # "free" => Frees(todo') = Frees(todo)
         /\ op = "free" => Frees(todo') = Frees(todo) \ {Win.surf} /\ Win.surf \in Frees(todo)
         /\ FreesOnce(todo') /\ Opening(todo')
<1> DEFINE st == << >>
<1>1. /\ todo \in Seq(Step) /\ todo # << >> /\ todo[1].op = op /\ Win = todo[1].win /\ Len(todo) \in Nat \ {0}
      /\ Win \in WindowRecord
  BY HeadIs DEF Inv
<1>2. FreesOnce(todo) /\ Opening(todo)
  BY DEF Inv, Surfaces
<1>3. st \in Seq(Step) /\ Len(st) = 0 /\ \A i \in 1 .. Len(st) : st[i].op \notin {"free", "open"}
  OBVIOUS
<1>4. todo' = st \o Tail(todo)
  OBVIOUS
<1> HIDE DEF st
<1>5. todo' \in Seq(Step)
  BY <1>1, <1>3, <1>4, ThenIs
<1>6. /\ todo[1].op # "free" => Frees(todo') = Frees(todo)
      /\ todo[1].op = "free" => Frees(todo') = Frees(todo) \ {todo[1].win.surf}
      /\ FreesOnce(todo') /\ Opening(todo')
  BY <1>1, <1>2, <1>3, <1>4, PlainThen
<1>7. BackFrom(todo, 1) => BackFrom(todo, 2)
  BY <1>1 DEF BackFrom
<1>8. BackFrom(todo, 2) => BackFrom(todo', 2 + Len(st) - 1)
  <2>1. 2 \in Nat /\ 2 >= 2
    OBVIOUS
  <2>2. QED
    BY <2>1, <1>1, <1>3, <1>4, BackThen, Zenon
<1>9. 2 + Len(st) - 1 = 1
  BY <1>3
<1>10. BackFrom(todo, 2) => BackFrom(todo', 1)
  BY <1>8, <1>9
<1>11. op = "free" => Win.surf \in Frees(todo)
  <2>1. 1 \in 1 .. Len(todo)
    BY <1>1
  <2>2. Win.surf \in Nat
    BY <1>1, RecordIs, Zenon
  <2>3. QED
    BY <1>1, <2>1, <2>2 DEF Frees
<1>12. QED
  BY <1>1, <1>5, <1>6, <1>7, <1>10, <1>11

\* A step st in place of the first, and nothing else to do first
LEMMA NextDone ==
  ASSUME Inv, NEW op, Todo(op), op # "free", NEW a \in Step, a.op \notin {"free", "open"}, Then(<<a>>),
         BackFrom(todo, 2)
  PROVE  /\ todo' \in Seq(Step) /\ Frees(todo') = Frees(todo) /\ FreesOnce(todo') /\ Opening(todo')
         /\ BackFrom(todo', 2) /\ todo'[1] = a /\ Todo(a.op)'
<1> DEFINE st == <<a>>
<1>1. st \in Seq(Step) /\ Len(st) = 1 /\ st[1] = a /\ todo' = st \o Tail(todo)
  BY DEF Then
<1>2. \A i \in 1 .. Len(st) : st[i].op \notin {"free", "open"}
  BY <1>1
<1>3. todo \in Seq(Step) /\ todo # << >>
  BY HeadIs DEF Inv
<1> HIDE DEF st
<1>4. /\ todo' \in Seq(Step) /\ Frees(todo') = Frees(todo) /\ FreesOnce(todo') /\ Opening(todo')
  BY <1>1, <1>2, StepDone
<1>5. /\ todo' \in Seq(Step) /\ Len(todo') = Len(st) + Len(todo) - 1
      /\ \A i \in 1 .. Len(st) : todo'[i] = st[i]
      /\ \A i \in Len(st) + 1 .. Len(todo') : todo'[i] = todo[i - Len(st) + 1]
      /\ Len(todo) \in Nat \ {0} /\ Len(st) \in Nat /\ Len(todo') \in Nat
  <2>1. todo \in Seq(Step) /\ todo # << >> /\ st \in Seq(Step) /\ todo' = st \o Tail(todo)
    BY <1>1, <1>3
  <2>2. QED
    BY <2>1, ThenIs
<1>6. todo'[1] = a /\ Len(todo') >= 1
  BY <1>1, <1>5
<1>7. BackFrom(todo', 2 + Len(st) - 1)
  <2>1. 2 \in Nat /\ 2 >= 2
    OBVIOUS
  <2>2. QED
    BY <2>1, <1>1, <1>3, BackThen, Zenon
<1>8. BackFrom(todo', 2)
  BY <1>1, <1>7
<1>9. Todo(a.op)'
  BY <1>4, <1>6 DEF Todo
<1>10. QED
  BY <1>4, <1>6, <1>8, <1>9

LEMMA SetDragInv ==
  ASSUME Inv, SetDrag
  PROVE  Inv'
<1>1. PICK op \in {"drag", "drop"} : Todo(op)
  BY DEF SetDrag
<1>2. /\ UNCHANGED <<windows, focus, pointer, next, task, batch, surfaces, canvases, owner, screen,
                     lit, rend, lost>>
      /\ todo' = << >> \o Tail(todo)
  BY DEF SetDrag, Then
<1>3. /\ todo' \in Seq(Step) /\ Frees(todo') = Frees(todo) /\ FreesOnce(todo') /\ Opening(todo')
      /\ BackFrom(todo, 1) => BackFrom(todo', 1)
  BY <1>1, <1>2, LastDone
<1>4. drag' \in [id : Nat, ox : Int, oy : Int]
  <2>1. Win \in WindowRecord
    BY <1>1, HeadIs DEF Inv
  <2>2. Win.id \in Nat /\ Win.x \in Int /\ Win.y \in Int
    BY <2>1, RecordIs
  <2>3. drag' = [id |-> Win.id, ox |-> Win.x, oy |-> Win.y] \/ drag' = NoDrag
    BY DEF SetDrag
  <2>4. QED
    BY <2>2, <2>3 DEF NoDrag, None
<1>5. Types'
  BY <1>2, <1>3, <1>4 DEF Inv, Types
<1>6. Ids' /\ Surfaces' /\ Lights'
  BY <1>2, <1>3, Beside DEF Inv
<1>7. Quiet /\ Settled
  <2>1. todo # << >> /\ todo[1].op = op
    BY <1>1, HeadIs DEF Inv
  <2>2. QED
    BY <2>1, PhaseOf DEF Inv
<1>8. FocusOk' /\ Settled' /\ BackFrom(todo', 1)
  BY <1>2, <1>3, <1>7 DEF Quiet, FocusOk, Settled
<1>9. Phase'
  BY <1>8 DEF Phase, Quiet
<1>10. QED
  BY <1>2, <1>3, <1>5, <1>6, <1>9 DEF Inv

LEMMA SpawnInv ==
  ASSUME Inv, Spawn
  PROVE  Inv'
<1>1. Todo("spawn") /\ task' = "running"
  BY DEF Spawn
<1>2. /\ UNCHANGED <<windows, focus, pointer, drag, next, batch, surfaces, canvases, owner, screen,
                     lit, rend, lost>>
      /\ todo' = << >> \o Tail(todo)
  BY DEF Spawn, Then
<1>3. /\ todo' \in Seq(Step) /\ Frees(todo') = Frees(todo) /\ FreesOnce(todo') /\ Opening(todo')
      /\ BackFrom(todo, 1) => BackFrom(todo', 1)
  BY <1>1, <1>2, LastDone
<1>4. Types'
  BY <1>1, <1>2, <1>3 DEF Inv, Types
<1>5. Ids' /\ Surfaces' /\ Lights'
  BY <1>2, <1>3, Beside DEF Inv
<1>6. Quiet /\ Settled
  <2>1. todo # << >> /\ todo[1].op = "spawn"
    BY <1>1, HeadIs DEF Inv
  <2>2. QED
    BY <2>1, PhaseOf DEF Inv
<1>7. FocusOk' /\ Settled' /\ BackFrom(todo', 1)
  BY <1>2, <1>3, <1>6 DEF Quiet, FocusOk, Settled
<1>8. Phase'
  BY <1>7 DEF Phase, Quiet
<1>9. QED
  BY <1>1, <1>3, <1>4, <1>5, <1>8 DEF Inv

LEMMA RefocusInv ==
  ASSUME Inv, Refocus
  PROVE  Inv'
<1>1. Todo("refocus") /\ Types /\ Ids /\ windows \in Seq(WindowRecord)
  BY DEF Refocus, Inv, Types
<1>2. UNCHANGED <<windows, focus, pointer, drag, next, task, batch, surfaces, canvases, owner,
                  screen, lit, rend, lost>>
  BY DEF Refocus
<1>3. ToRefocus
  <2>1. todo # << >> /\ todo[1].op = "refocus"
    BY <1>1, HeadIs
  <2>2. QED
    BY <2>1, PhaseOf DEF Inv
<1>4. BackFrom(todo, 2) /\ (FocusOk \/ focus = None)
  BY <1>3 DEF ToRefocus
<1>5. ASSUME NEW a \in Step, a.op \notin {"free", "open"}, Then(<<a>>), Phase'
      PROVE  Inv'
  <2>1. todo' \in Seq(Step) /\ Frees(todo') = Frees(todo) /\ FreesOnce(todo') /\ Opening(todo')
    BY <1>1, <1>4, <1>5, NextDone
  <2>2. Types'
    BY <1>2, <2>1 DEF Inv, Types
  <2>3. Ids' /\ Surfaces' /\ Lights'
    BY <1>2, <2>1, Beside DEF Inv
  <2>4. QED
    BY <1>2, <1>5, <2>1, <2>2, <2>3 DEF Inv
<1>6. CASE windows # << >> /\ focus = None
  <2> DEFINE id == Last(windows).id
  <2>1. Then(<<DoFocus(id)>>)
    BY <1>6 DEF Refocus
  <2>2. Len(windows) \in 1 .. Len(windows) /\ id = windows[Len(windows)].id
    BY <1>1, <1>6 DEF Last
  <2>3. id \in Nat
    BY <1>1, <2>2, WinsAre
  <2> HIDE DEF id
  <2>4. DoFocus(id) \in Step /\ DoFocus(id).op = "focus"
    BY <2>3, StepsAre, OpsAre
  <2>5. BackFrom(todo', 2) /\ todo'[1] = DoFocus(id) /\ Todo("focus")'
    BY <1>1, <1>4, <2>1, <2>4, NextDone
  <2>6. DoFocus(id).win.id = id
    BY <2>3, NoWindowIs DEF DoFocus, WindowRecord
  <2>7. Live'
    BY <1>2, <2>2, <2>5, <2>6 DEF Live
  <2>8. Phase'
    BY <2>5, <2>7 DEF Phase, ToFocus
  <2>9. QED
    BY <1>5, <2>1, <2>4, <2>8
<1>7. CASE ~(windows # << >> /\ focus = None)
  <2>1. Then(<<DoRestack>>)
    BY <1>7 DEF Refocus
  <2>2. DoRestack \in Step /\ DoRestack.op = "restack"
    BY StepsAre, OpsAre
  <2>3. BackFrom(todo', 2) /\ Todo("restack")'
    BY <1>1, <1>4, <2>1, <2>2, NextDone
  <2>4. FocusOk
    <3>1. CASE windows = << >>
      <4>1. Len(windows) = 0
        BY <3>1
      <4>2. focus = None
        BY <1>1, <4>1 DEF Ids
      <4>3. QED
        BY <4>1, <4>2 DEF FocusOk
    <3>2. QED
      BY <3>1, <1>4, <1>7
  <2>5. FocusOk'
    BY <1>2, <2>4 DEF FocusOk
  <2>6. Phase'
    BY <2>3, <2>5 DEF Phase, ToRestack
  <2>7. QED
    BY <1>5, <2>1, <2>2, <2>6
<1>8. QED
  BY <1>6, <1>7

LEMMA RestackInv ==
  ASSUME Inv, restack_bang
  PROVE  Inv'
<1> DEFINE st == restack(windows)
           n == Len(windows)
<1>1. Todo("restack") /\ Types /\ windows \in Seq(WindowRecord) /\ n \in Nat
  BY DEF restack_bang, Inv, Types
<1>2. /\ UNCHANGED <<windows, focus, pointer, drag, next, task, batch, surfaces, canvases, owner,
                     screen, lit, rend, lost>>
      /\ todo' = st \o Tail(todo)
  BY DEF restack_bang, Then
<1>3. todo # << >> /\ todo \in Seq(Step) /\ todo[1].op = "restack"
  BY <1>1, HeadIs
<1>4. ToRestack
  BY <1>3, PhaseOf DEF Inv
<1>5. /\ st \in Seq(Step) /\ Len(st) = 2 * n + 2
      /\ st[1] = DoOwn([NoWindow EXCEPT !.w = Width, !.h = Height])
      /\ \A i \in 1 .. n : st[i + 1] = DoOwn(windows[i])
      /\ st[n + 2] = DoFill
      /\ \A i \in 1 .. n : st[n + 2 + i] = DoPresent(windows[i])
  BY <1>1, RestackIs
<1> HIDE DEF st, n
<1>6. \A i \in 1 .. Len(st) : st[i].op \notin {"free", "open"}
  <2> SUFFICES ASSUME NEW i \in 1 .. 2 * n + 2 PROVE st[i].op \notin {"free", "open"}
    BY <1>5
  <2>1. CASE i = 1
    BY <2>1, <1>5 DEF DoOwn
  <2>2. CASE i \in 2 .. n + 1
    <3>1. i - 1 \in 1 .. n /\ (i - 1) + 1 = i
      BY <2>2, <1>1
    <3>2. st[i] = DoOwn(windows[i - 1])
      BY <3>1, <1>5
    <3>3. QED
      BY <3>2 DEF DoOwn
  <2>3. CASE i = n + 2
    BY <2>3, <1>5 DEF DoFill
  <2>4. CASE i > n + 2
    <3>1. i - n - 2 \in 1 .. n /\ n + 2 + (i - n - 2) = i
      BY <2>4, <1>1
    <3>2. st[i] = DoPresent(windows[i - n - 2])
      BY <3>1, <1>5
    <3>3. QED
      BY <3>2 DEF DoPresent
  <2>5. QED
    BY <1>1, <2>1, <2>2, <2>3, <2>4
<1>7. todo' \in Seq(Step) /\ Frees(todo') = Frees(todo) /\ FreesOnce(todo') /\ Opening(todo')
  BY <1>1, <1>2, <1>5, <1>6, StepDone
<1>8. Types'
  BY <1>2, <1>7 DEF Inv, Types
<1>9. Ids' /\ Surfaces' /\ Lights'
  BY <1>2, <1>7, Beside DEF Inv
<1>10. /\ todo' \in Seq(Step) /\ Len(todo') = Len(st) + Len(todo) - 1
       /\ \A i \in 1 .. Len(st) : todo'[i] = st[i]
       /\ \A i \in Len(st) + 1 .. Len(todo') : todo'[i] = todo[i - Len(st) + 1]
       /\ Len(todo) \in Nat \ {0} /\ Len(st) \in Nat /\ Len(todo') \in Nat
  <2>1. todo \in Seq(Step) /\ todo # << >> /\ st \in Seq(Step) /\ todo' = st \o Tail(todo)
    BY <1>2, <1>3, <1>5
  <2>2. QED
    BY <2>1, ThenIs
<1>11. BackFrom(todo', 2 * n + 3)
  <2>1. 2 \in Nat /\ 2 >= 2
    OBVIOUS
  <2>2. BackFrom(todo, 2)
    BY <1>4 DEF ToRestack
  <2>3. BackFrom(todo', 2 + Len(st) - 1)
    BY <2>1, <2>2, <1>2, <1>3, <1>5, BackThen, Zenon
  <2>4. 2 + Len(st) - 1 = 2 * n + 3
    BY <1>1, <1>5
  <2>5. QED
    BY <2>3, <2>4
<1>12. Len(todo') >= 2 * n + 2 /\ \A j \in 1 .. 2 * n + 2 : todo'[j] = st[j]
  BY <1>1, <1>5, <1>10
<1>13. Restacking(0)'
  <2>1. windows' = windows /\ Len(windows') = n /\ restack(windows') = st
    BY <1>2 DEF n, st
  <2>2. 2 * n + 2 - 0 = 2 * n + 2 /\ 2 * n + 3 - 0 = 2 * n + 3 /\ \A j \in 1 .. 2 * n + 2 : 0 + j = j
    BY <1>1
  <2>3. ~(0 \in 1 .. n + 1) /\ ~(0 > n) /\ ~(0 > n + 1) /\ \A i \in 1 .. 0 - (n + 2) : FALSE
    BY <1>1
  <2>4. /\ Len(todo') >= 2 * Len(windows') + 2 - 0
        /\ \A j \in 1 .. 2 * Len(windows') + 2 - 0 : todo'[j] = restack(windows')[0 + j]
        /\ BackFrom(todo', 2 * Len(windows') + 3 - 0)
    BY <1>11, <1>12, <2>1, <2>2
  <2>5. QED
    BY <2>1, <2>3, <2>4 DEF Restacking
<1>14. FocusOk'
  BY <1>2, <1>4 DEF ToRestack, FocusOk
<1>15. Phase'
  <2>1. 0 \in 0 .. 2 * Len(windows') + 1
    BY <1>1, <1>2 DEF n
  <2>2. QED
    BY <1>13, <1>14, <2>1 DEF Phase, InRestack
<1>16. QED
  BY <1>2, <1>7, <1>8, <1>9, <1>15 DEF Inv

\* What is done after k steps of restack!
Done(k, ow, sc) ==
  \A p \in Pixels :
    /\ k \in 1 .. Len(windows) + 1 => OnTop(windows, k - 1, p, ow[p])
    /\ k > Len(windows) => OnTop(windows, Len(windows), p, ow[p])
    /\ k > Len(windows) + 1 /\ ow[p] = Desktop => sc[p] = ow[p]
    /\ \A i \in 1 .. k - (Len(windows) + 2) : ow[p] = windows[i].surf => sc[p] = ow[p]

\* Every pixel is on the screen.
LEMMA WholeScreen ==
  ASSUME NEW p \in Pixels
  PROVE  p \in Cells(Shape([NoWindow EXCEPT !.w = Width, !.h = Height]))
<1>1. Width \in Nat /\ Height \in Nat
  BY WmAssumption DEF WmAssumption
<1> DEFINE w == [NoWindow EXCEPT !.w = Width, !.h = Height]
<1>2. w.x = 0 /\ w.y = 0 /\ w.w = Width /\ w.h = Height
  BY DEF NoWindow
<1> HIDE DEF w
<1>3. Shape(w) = Rect(0, 0, Width, Height)
  BY <1>2 DEF Shape
<1>4. p \in Cells(Rect(0, 0, Width, Height))
  BY <1>1 DEF Pixels, Area, Cells, Rect
<1>5. QED
  BY <1>3, <1>4 DEF w

\* Windows' surfaces are in use, each by one window, and the desktop's is none.
LEMMA HeldIs ==
  ASSUME Types, Surfaces, NEW i \in 1 .. Len(windows)
  PROVE  /\ windows[i].surf \in Held(windows) /\ windows[i].surf \in surfaces /\ windows[i].surf # Desktop
         /\ windows[i].surf \in Nat
<1>1. windows[i].surf \in Nat
  BY WinsAre DEF Types
<1>2. windows[i].surf \in Held(windows)
  BY <1>1 DEF Held
<1>3. windows[i].surf \in surfaces
  BY <1>2 DEF Surfaces
<1>4. windows[i].surf \in 1 .. GFX_SURFACES - 1 /\ GFX_SURFACES \in Nat
  BY <1>3, WmAssumption DEF Types, WmAssumption
<1>5. QED
  BY <1>1, <1>2, <1>3, <1>4 DEF Desktop

\* The desktop owns the screen.
LEMMA OwnDesktop ==
  ASSUME Types, NEW ow, NEW sc, \A p \in Pixels : ow[p] = Desktop
  PROVE  Done(1, ow, sc)
<1>1. Len(windows) \in Nat
  BY DEF Types
<1>2. \A i \in 1 .. 0 : FALSE
  OBVIOUS
<1>3. \A p \in Pixels : OnTop(windows, 0, p, ow[p])
  BY <1>2 DEF OnTop
<1>4. 1 - 1 = 0 /\ (1 > Len(windows) => Len(windows) = 0) /\ ~(1 > Len(windows) + 1)
      /\ \A i \in 1 .. 1 - (Len(windows) + 2) : FALSE
  BY <1>1
<1>5. QED
  BY <1>3, <1>4 DEF Done

\* The k-th window from the back owns what it covers.
LEMMA OwnWindow ==
  ASSUME Types, NEW k \in 1 .. Len(windows), Done(k, owner, screen), NEW ow,
         \A p \in Pixels : ow[p] = IF p \in Cells(Shape(windows[k])) THEN windows[k].surf ELSE owner[p]
  PROVE  Done(k + 1, ow, screen)
<1> DEFINE n == Len(windows)
<1>1. n \in Nat /\ k \in 1 .. n
  BY DEF Types
<1>2. /\ (k + 1) - 1 = k /\ (k + 1 > n => n = k) /\ ~(k + 1 > n + 1) /\ k \in 1 .. n + 1
      /\ \A i \in 1 .. (k + 1) - (n + 2) : FALSE
  BY <1>1
<1>3. ASSUME NEW p \in Pixels PROVE OnTop(windows, k, p, ow[p])
  <2>1. OnTop(windows, k - 1, p, owner[p])
    BY <1>1, <1>2 DEF Done, n
  <2>2. CASE p \in Cells(Shape(windows[k]))
    <3>1. ow[p] = windows[k].surf /\ k \in 1 .. k /\ \A j \in k + 1 .. k : FALSE
      BY <2>2, <1>1
    <3>2. QED
      BY <2>2, <3>1 DEF OnTop
  <2>3. CASE p \notin Cells(Shape(windows[k]))
    <3>1. ow[p] = owner[p] /\ \A i \in 1 .. k : i \in 1 .. k - 1 \/ i = k
      BY <2>3, <1>1
    <3>2. CASE owner[p] = Desktop /\ \A i \in 1 .. k - 1 : p \notin Cells(Shape(windows[i]))
      BY <2>3, <3>1, <3>2 DEF OnTop
    <3>3. ASSUME NEW i \in 1 .. k - 1, owner[p] = windows[i].surf, p \in Cells(Shape(windows[i])),
                 \A j \in i + 1 .. k - 1 : p \notin Cells(Shape(windows[j]))
          PROVE  OnTop(windows, k, p, ow[p])
      <4>1. i \in 1 .. k /\ \A j \in i + 1 .. k : j \in i + 1 .. k - 1 \/ j = k
        BY <1>1
      <4>2. QED
        BY <2>3, <3>1, <3>3, <4>1 DEF OnTop
    <3>4. QED
      BY <2>1, <3>2, <3>3 DEF OnTop
  <2>4. QED
    BY <2>2, <2>3
<1>4. QED
  BY <1>2, <1>3 DEF Done, n

\* The desktop is filled.
LEMMA FillDesktop ==
  ASSUME Types, NEW sc, Done(Len(windows) + 1, owner, screen),
         \A p \in Pixels : sc[p] = IF owner[p] = Desktop THEN Desktop ELSE screen[p]
  PROVE  Done(Len(windows) + 2, owner, sc)
<1> DEFINE n == Len(windows)
<1>1. n \in Nat
  BY DEF Types
<1>2. /\ ~(n + 2 \in 1 .. n + 1) /\ n + 1 > n /\ \A i \in 1 .. (n + 2) - (n + 2) : FALSE
  BY <1>1
<1>3. \A p \in Pixels : OnTop(windows, n, p, owner[p])
  BY <1>2 DEF Done, n
<1>4. QED
  BY <1>2, <1>3 DEF Done, n

\* The i-th window from the back is presented.
LEMMA PresentWindow ==
  ASSUME Types, Surfaces, NEW k \in Len(windows) + 2 .. 2 * Len(windows) + 1, Done(k, owner, screen),
         present(windows[k - Len(windows) - 1], 0)
  PROVE  Done(k + 1, owner, screen')
<1> DEFINE n == Len(windows)
           l == k - n - 1
           w == windows[l]
           sc == screen'
<1>1. n \in Nat /\ k \in n + 2 .. 2 * n + 1 /\ windows \in Seq(WindowRecord)
  BY DEF Types
<1>2. l \in 1 .. n
  BY <1>1
<1>3. w \in WindowRecord /\ w.surf \in surfaces
  BY <1>1, <1>2, WinsAre, HeldIs
<1>4. \A p \in Pixels :
        /\ sc[p] = screen[p] \/ sc[p] = owner[p]
        /\ p \in Cells(Shape(w)) /\ w.surf \in surfaces /\ owner[p] = w.surf => sc[p] = owner[p]
  BY <1>3, PaintedIs, BodyIs
<1> HIDE DEF sc
<1>5. /\ k > n /\ k > n + 1 /\ ~(k + 1 \in 1 .. n + 1) /\ k + 1 > n + 1
      /\ \A i \in 1 .. (k + 1) - (n + 2) : i \in 1 .. k - (n + 2) \/ i = l
  BY <1>1
<1>6. ASSUME NEW p \in Pixels
      PROVE  /\ OnTop(windows, n, p, owner[p])
             /\ owner[p] = Desktop => sc[p] = owner[p]
             /\ \A i \in 1 .. (k + 1) - (n + 2) : owner[p] = windows[i].surf => sc[p] = owner[p]
  <2>1. /\ OnTop(windows, n, p, owner[p])
        /\ owner[p] = Desktop => screen[p] = owner[p]
        /\ \A i \in 1 .. k - (n + 2) : owner[p] = windows[i].surf => screen[p] = owner[p]
    BY <1>5 DEF Done, n
  <2>2. owner[p] = Desktop => sc[p] = owner[p]
    BY <2>1, <1>4
  <2>3. owner[p] = w.surf => sc[p] = owner[p]
    <3> SUFFICES ASSUME owner[p] = w.surf PROVE sc[p] = owner[p]
      OBVIOUS
    <3>1. owner[p] # Desktop
      BY <1>2, HeldIs DEF n
    <3>2. PICK i \in 1 .. n : owner[p] = windows[i].surf /\ p \in Cells(Shape(windows[i]))
      BY <2>1, <3>1 DEF OnTop
    <3>3. i = l
      BY <3>2, <1>2 DEF Surfaces, HeldOnce, n
    <3>4. QED
      BY <3>2, <3>3, <1>3, <1>4
  <2>4. ASSUME NEW i \in 1 .. (k + 1) - (n + 2), owner[p] = windows[i].surf PROVE sc[p] = owner[p]
    <3>1. CASE i \in 1 .. k - (n + 2)
      BY <2>1, <2>4, <3>1, <1>4
    <3>2. CASE i = l
      BY <2>3, <2>4, <3>2
    <3>3. QED
      BY <3>1, <3>2, <1>5
  <2>5. QED
    BY <2>1, <2>2, <2>4
<1>7. Done(k + 1, owner, sc)
  BY <1>5, <1>6 DEF Done, n
<1>8. QED
  BY <1>7 DEF sc, w, l, n

\* All is done: the screen shows what is on top.
LEMMA AllDone ==
  ASSUME Types, NEW ow, NEW sc, Done(2 * Len(windows) + 2, ow, sc), NEW p \in Pixels
  PROVE  sc[p] = ow[p] /\ OnTop(windows, Len(windows), p, ow[p])
<1> DEFINE n == Len(windows)
<1>1. n \in Nat
  BY DEF Types
<1>2. 2 * n + 2 > n /\ 2 * n + 2 > n + 1 /\ (2 * n + 2) - (n + 2) = n
  BY <1>1
<1>3. /\ OnTop(windows, n, p, ow[p])
      /\ ow[p] = Desktop => sc[p] = ow[p]
      /\ \A i \in 1 .. n : ow[p] = windows[i].surf => sc[p] = ow[p]
  BY <1>2 DEF Done, n
<1>4. sc[p] = ow[p]
  BY <1>3 DEF OnTop
<1>5. QED
  BY <1>3, <1>4

LEMMA GraphicsInv ==
  ASSUME Inv, GraphicsStep
  PROVE  Inv'
<1> DEFINE n == Len(windows)
<1>1. Types /\ Surfaces /\ windows \in Seq(WindowRecord) /\ n \in Nat
  BY DEF Inv, Types
<1>2. /\ UNCHANGED <<windows, focus, pointer, drag, next, task, batch, surfaces, canvases, lit, rend, lost>>
      /\ todo # << >> /\ todo' = << >> \o Tail(todo)
      /\ \/ /\ Todo("own")
            /\ owner' = [p \in Pixels |-> IF p \in Cells(Shape(Win)) THEN Win.surf ELSE owner[p]]
            /\ screen' = screen
         \/ /\ Todo("fill")
            /\ screen' = [p \in Pixels |-> IF owner[p] = Desktop THEN Desktop ELSE screen[p]]
            /\ owner' = owner
         \/ Todo("present") /\ present(Win, 0) /\ owner' = owner
  BY DEF GraphicsStep, Then
<1>3. PICK op \in {"own", "fill", "present"} : Todo(op)
  BY <1>2
<1>4. /\ todo \in Seq(Step) /\ todo[1].op = op /\ Win = todo[1].win /\ Win \in WindowRecord
      /\ Head(todo) = todo[1]
  BY <1>1, <1>3, HeadIs
<1>5. Win.surf \in Nat
  BY <1>4, RecordIs
<1>6. todo' \in Seq(Step) /\ Frees(todo') = Frees(todo) /\ FreesOnce(todo') /\ Opening(todo')
  BY <1>2, <1>3, LastDone
<1>7. owner' \in [Pixels -> Nat] /\ screen' \in [Pixels -> Int]
  <2>1. owner \in [Pixels -> Nat] /\ screen \in [Pixels -> Int] /\ Desktop \in Int
    BY <1>1 DEF Types, Desktop
  <2>2. present(Win, 0) => screen' \in [Pixels -> Int]
    BY <1>1, <1>4, PaintedIs
  <2>3. QED
    BY <1>2, <1>5, <2>1, <2>2
<1>8. Types'
  BY <1>1, <1>2, <1>6, <1>7 DEF Types
<1>9. Ids' /\ Surfaces' /\ Lights'
  BY <1>2, <1>6, Beside DEF Inv
<1>10. FocusOk' /\ InRestack
  <2>1. InRestack
    BY <1>2, <1>4, PhaseOf DEF Inv
  <2>2. QED
    BY <1>2, <2>1 DEF InRestack, FocusOk
<1>11. PICK k \in 0 .. 2 * n + 1 : Restacking(k)
  BY <1>10 DEF InRestack
<1>12. Done(k, owner, screen)
  BY <1>11 DEF Restacking, Done
<1>13. /\ k = 0 => todo[1] = DoOwn([NoWindow EXCEPT !.w = Width, !.h = Height])
       /\ k \in 1 .. n => todo[1] = DoOwn(windows[k])
       /\ k = n + 1 => todo[1] = DoFill
       /\ k > n + 1 => todo[1] = DoPresent(windows[k - n - 1])
  BY <1>1, <1>11, RestackHead
<1>14. ASSUME NEW o, NEW x, Todo(o), Todo(x) PROVE o = x
  BY <1>14 DEF Todo
<1>15. Done(k + 1, owner', screen')
  <2>1. CASE k = 0
    <3> DEFINE w == [NoWindow EXCEPT !.w = Width, !.h = Height]
    <3>1. Todo("own") /\ Win = w
      BY <2>1, <1>2, <1>4, <1>13 DEF DoOwn, Todo
    <3>2. owner' = [p \in Pixels |-> IF p \in Cells(Shape(Win)) THEN Win.surf ELSE owner[p]]
      BY <3>1, <1>2, <1>14
    <3>3. w.surf = Desktop
      BY DEF NoWindow, Desktop
    <3>4. \A p \in Pixels : p \in Cells(Shape(w))
      BY WholeScreen
    <3> HIDE DEF w
    <3>5. \A p \in Pixels : owner'[p] = Desktop
      BY <3>1, <3>2, <3>3, <3>4
    <3>6. Done(1, owner', screen')
      BY <1>1, <3>5, OwnDesktop
    <3>7. QED
      BY <2>1, <3>6
  <2>2. CASE k \in 1 .. n
    <3>1. Todo("own") /\ Win = windows[k]
      BY <2>2, <1>2, <1>4, <1>13 DEF DoOwn, Todo
    <3>2. /\ owner' = [p \in Pixels |-> IF p \in Cells(Shape(Win)) THEN Win.surf ELSE owner[p]]
          /\ screen' = screen
      BY <3>1, <1>2, <1>14
    <3>3. \A p \in Pixels : owner'[p] = IF p \in Cells(Shape(windows[k])) THEN windows[k].surf ELSE owner[p]
      BY <3>1, <3>2
    <3>4. Done(k + 1, owner', screen)
      BY <1>1, <1>12, <2>2, <3>3, OwnWindow
    <3>5. QED
      BY <3>2, <3>4
  <2>3. CASE k = n + 1
    <3>1. Todo("fill")
      BY <2>3, <1>2, <1>4, <1>13 DEF DoFill, Todo
    <3>2. /\ screen' = [p \in Pixels |-> IF owner[p] = Desktop THEN Desktop ELSE screen[p]]
          /\ owner' = owner
      BY <3>1, <1>2, <1>14
    <3>3. \A p \in Pixels : screen'[p] = IF owner[p] = Desktop THEN Desktop ELSE screen[p]
      BY <3>2
    <3>4. Done(n + 2, owner, screen')
      BY <1>1, <1>12, <2>3, <3>3, FillDesktop
    <3>5. (n + 1) + 1 = n + 2
      BY <1>1
    <3>6. QED
      BY <2>3, <3>2, <3>4, <3>5
  <2>4. CASE k > n + 1
    <3>1. Todo("present") /\ Win = windows[k - n - 1]
      BY <2>4, <1>2, <1>4, <1>13 DEF DoPresent, Todo
    <3>2. present(windows[k - n - 1], 0) /\ owner' = owner
      BY <3>1, <1>2, <1>14
    <3>3. k \in n + 2 .. 2 * n + 1
      BY <1>1, <2>4
    <3>4. Done(k + 1, owner, screen')
      BY <1>1, <1>12, <3>2, <3>3, PresentWindow
    <3>5. QED
      BY <3>2, <3>4
  <2>5. QED
    BY <1>1, <2>1, <2>2, <2>3, <2>4
<1>16. /\ Len(todo') = Len(todo) - 1 /\ Len(todo) \in Nat \ {0}
       /\ \A j \in 1 .. Len(todo') : todo'[j] = todo[j + 1]
  BY <1>2, <1>4
<1>17. /\ Len(todo) >= 2 * n + 2 - k
       /\ \A j \in 1 .. 2 * n + 2 - k : todo[j] = restack(windows)[k + j]
       /\ BackFrom(todo, 2 * n + 3 - k)
  BY <1>11 DEF Restacking
<1>18. CASE k < 2 * n + 1
  <2>1. /\ Len(todo') >= 2 * n + 2 - (k + 1)
        /\ BackFrom(todo', 2 * n + 3 - (k + 1))
    <3>1. \A i \in 2 * n + 3 - (k + 1) .. Len(todo') : i \in 1 .. Len(todo') /\ i + 1 \in 2 * n + 3 - k .. Len(todo)
      BY <1>1, <1>16, <1>17, <1>18
    <3>2. BackFrom(todo', 2 * n + 3 - (k + 1))
      BY <3>1, <1>16, <1>17 DEF BackFrom
    <3>3. QED
      BY <3>2, <1>1, <1>16, <1>17
  <2>2. ASSUME NEW j \in 1 .. 2 * n + 2 - (k + 1) PROVE todo'[j] = restack(windows)[(k + 1) + j]
    <3>1. j \in 1 .. Len(todo') /\ j + 1 \in 1 .. 2 * n + 2 - k /\ k + (j + 1) = (k + 1) + j
      BY <1>1, <1>16, <1>17
    <3>2. todo'[j] = todo[j + 1] /\ todo[j + 1] = restack(windows)[k + (j + 1)]
      BY <3>1, <1>16, <1>17
    <3>3. QED
      BY <3>1, <3>2
  <2>3. windows' = windows
    BY <1>2
  <2>4. Restacking(k + 1)'
    BY <1>15, <2>1, <2>2, <2>3 DEF Restacking, Done
  <2>5. k + 1 \in 0 .. 2 * Len(windows') + 1
    BY <1>1, <1>18, <2>3
  <2>6. Phase'
    BY <1>10, <2>4, <2>5 DEF Phase, InRestack
  <2>7. QED
    BY <1>2, <1>6, <1>8, <1>9, <2>6 DEF Inv
<1>19. CASE k = 2 * n + 1
  <2>1. Done(2 * n + 2, owner', screen')
    <3>1. (2 * n + 1) + 1 = 2 * n + 2
      BY <1>1
    <3>2. QED
      BY <3>1, <1>15, <1>19
  <2>2. \A p \in Pixels : screen'[p] = owner'[p] /\ OnTop(windows, Len(windows), p, owner'[p])
    BY <1>1, <2>1, AllDone
  <2>3. Settled'
    BY <1>2, <2>2 DEF Settled
  <2>4. BackFrom(todo', 1)
    <3>1. 2 * n + 3 - k = 2
      BY <1>1, <1>19
    <3>2. BackFrom(todo, 2)
      BY <3>1, <1>17
    <3>3. QED
      BY <3>2, <1>2, <1>3, LastDone
  <2>5. Phase'
    BY <1>10, <2>3, <2>4 DEF Phase, Quiet
  <2>6. QED
    BY <1>2, <1>6, <1>8, <1>9, <2>5 DEF Inv
<1>20. QED
  BY <1>1, <1>18, <1>19

LEMMA FreeInv ==
  ASSUME Inv, surface_free
  PROVE  Inv'
<1> DEFINE s == Win.surf
<1>1. Types /\ Surfaces /\ Lights /\ Todo("free")
  BY DEF Inv, surface_free
<1>2. /\ UNCHANGED <<windows, focus, pointer, drag, next, task, batch, canvases, screen, rend, lost>>
      /\ surfaces' = surfaces \ {s} /\ lit' = lit \ {s}
      /\ owner' = [p \in Pixels |-> IF owner[p] = s THEN Desktop ELSE owner[p]]
      /\ todo' = << >> \o Tail(todo)
  BY DEF surface_free, Then
<1>3. todo # << >> /\ todo \in Seq(Step) /\ todo[1].op = "free" /\ Len(todo) \in Nat \ {0}
  BY <1>1, HeadIs
<1>4. /\ todo' \in Seq(Step) /\ Frees(todo') = Frees(todo) \ {s} /\ s \in Frees(todo)
      /\ FreesOnce(todo') /\ Opening(todo')
      /\ BackFrom(todo, 1) => BackFrom(todo', 1)
  BY <1>1, <1>2, LastDone
<1> HIDE DEF s
<1>5. s \notin Held(windows) /\ s \notin OnCanvas /\ s \notin lost /\ s # Desktop
  <2>1. s \in surfaces
    BY <1>1, <1>4 DEF Surfaces
  <2>2. s \in 1 .. GFX_SURFACES - 1 /\ GFX_SURFACES \in Nat
    BY <2>1, <1>1, WmAssumption DEF Types, WmAssumption
  <2>3. QED
    BY <2>2, <1>1, <1>4 DEF Surfaces, Desktop
<1>6. Types'
  <2>1. owner' \in [Pixels -> Nat]
    BY <1>1, <1>2 DEF Types, Desktop
  <2>2. QED
    BY <1>1, <1>2, <1>4, <2>1 DEF Types
<1>7. Ids'
  BY <1>2 DEF Inv, Ids
<1>8. Surfaces'
  <2>1. OnCanvas' = OnCanvas
    BY <1>2 DEF OnCanvas
  <2>2. surfaces' = Held(windows) \cup OnCanvas \cup Frees(todo') \cup lost
    BY <1>1, <1>2, <1>4, <1>5 DEF Surfaces
  <2>3. QED
    BY <1>1, <1>2, <1>4, <2>1, <2>2 DEF Surfaces
<1>9. Lights'
  <2>1. Lit(windows, focus) \subseteq Held(windows)
    BY DEF Lit, Held
  <2>2. QED
    BY <1>1, <1>2, <1>4, <1>5, <2>1 DEF Lights
<1>10. CASE ToFree
  <2>1. Len(todo) > 1 /\ todo[2].op = "refocus" /\ BackFrom(todo, 3) /\ (FocusOk \/ focus = None)
    BY <1>10 DEF ToFree
  <2>2. /\ Len(todo') = Len(todo) - 1 /\ \A j \in 1 .. Len(todo') : todo'[j] = todo[j + 1]
    BY <1>2, <1>3
  <2>3. Todo("refocus")'
    <3>1. todo'[1] = todo[2] /\ Len(todo') >= 1
      BY <1>3, <2>1, <2>2
    <3>2. todo' # << >> /\ Head(todo') = todo'[1]
      BY <3>1, <1>4
    <3>3. QED
      BY <2>1, <3>1, <3>2 DEF Todo
  <2>4. BackFrom(todo', 2)
    <3>1. \A i \in 2 .. Len(todo') : i \in 1 .. Len(todo') /\ i + 1 \in 3 .. Len(todo)
      BY <1>3, <2>2
    <3>2. QED
      BY <2>1, <2>2, <3>1 DEF BackFrom
  <2>5. FocusOk' \/ focus' = None
    BY <1>2, <2>1 DEF FocusOk
  <2>6. Phase'
    BY <2>3, <2>4, <2>5 DEF Phase, ToRefocus
  <2>7. QED
    BY <1>2, <1>4, <1>6, <1>7, <1>8, <1>9, <2>6 DEF Inv
<1>11. CASE Quiet /\ Settled
  <2>1. ASSUME NEW p \in Pixels PROVE owner'[p] = owner[p]
    <3>1. OnTop(windows, Len(windows), p, owner[p])
      BY <1>11 DEF Settled
    <3>2. owner[p] = Desktop \/ owner[p] \in Held(windows)
      <4>1. \A i \in 1 .. Len(windows) : windows[i].surf \in Held(windows)
        BY <1>1, HeldIs
      <4>2. QED
        BY <3>1, <4>1 DEF OnTop
    <3>3. QED
      BY <1>2, <1>5, <3>2
  <2>2. Settled' /\ FocusOk'
    BY <1>2, <1>11, <2>1 DEF Settled, Quiet, FocusOk
  <2>3. Phase'
    BY <1>4, <1>11, <2>2 DEF Phase, Quiet
  <2>4. QED
    BY <1>2, <1>4, <1>6, <1>7, <1>8, <1>9, <2>3 DEF Inv
<1>12. QED
  BY <1>1, <1>3, <1>10, <1>11, PhaseOf DEF Inv

-----------------------------------------------------------------------------
(***************************************************************************)
(* The steps of an operation: those that change the windows                *)
(***************************************************************************)

\* A list of windows, each of them given
LEMMA ListIs ==
  ASSUME NEW n \in Nat, NEW us, us \in [1 .. n -> WindowRecord]
  PROVE  us \in Seq(WindowRecord) /\ Len(us) = n
OBVIOUS

\* Windows that are the same but for where they are, and what else they say of
\* themselves
LEMMA SameWindows ==
  ASSUME Inv, windows' \in Seq(WindowRecord), Len(windows') = Len(windows),
         \A i \in 1 .. Len(windows) :
           /\ windows'[i].id = windows[i].id /\ windows'[i].surf = windows[i].surf
           /\ windows'[i].frame = windows[i].frame,
         UNCHANGED <<focus, next, canvases, lost, surfaces, lit>>,
         Frees(todo') = Frees(todo), FreesOnce(todo')
  PROVE  Ids' /\ Surfaces' /\ Lights' /\ (FocusOk => FocusOk')
<1> DEFINE f == [i \in 1 .. Len(windows) |-> i]
           us == windows'
<1>1. windows \in Seq(WindowRecord) /\ Len(windows) \in Nat
  BY DEF Inv, Types
<1>2. Ids'
  BY DEF Inv, Ids
<1>3. /\ Picks(us, windows, f)
      /\ \A k \in 1 .. Len(windows) : \E i \in 1 .. Len(us) : f[i] = k
  BY <1>1 DEF Picks
<1> HIDE DEF f
<1>4. /\ Held(us) = Held(windows) /\ (HeldOnce(windows) => HeldOnce(us))
      /\ \A d : Lit(us, d) = Lit(windows, d)
  BY <1>1, <1>3, PickedAll
<1>5. Surfaces'
  BY <1>4 DEF Inv, Surfaces, OnCanvas
<1>6. Lights'
  BY <1>4 DEF Inv, Lights
<1>7. FocusOk => FocusOk'
  BY <1>1 DEF FocusOk
<1>8. QED
  BY <1>2, <1>5, <1>6, <1>7

LEMMA MarkHelpInv ==
  ASSUME Inv, MarkHelp
  PROVE  Inv'
<1> DEFINE n == Len(windows)
<1>1. Types /\ Todo("help") /\ windows \in Seq(WindowRecord) /\ n \in Nat /\ DOMAIN windows = 1 .. n
  BY DEF Inv, Types, MarkHelp
<1>2. /\ UNCHANGED <<focus, pointer, drag, next, task, batch, surfaces, canvases, owner, screen, lit,
                     rend, lost>>
      /\ todo' = << >> \o Tail(todo)
      /\ windows' = [i \in 1 .. n |-> [windows[i] EXCEPT !.help = @ \/ windows[i].id = Win.id]]
  BY <1>1 DEF MarkHelp, Then
<1>3. ASSUME NEW i \in 1 .. n
      PROVE  /\ windows'[i] \in WindowRecord
             /\ windows'[i].id = windows[i].id /\ windows'[i].surf = windows[i].surf
             /\ windows'[i].frame = windows[i].frame /\ Shape(windows'[i]) = Shape(windows[i])
  <2> DEFINE w == windows[i]
             b == w.help \/ w.id = Win.id
  <2>1. w \in WindowRecord /\ b \in BOOLEAN
    <3>1. w \in WindowRecord
      BY <1>1
    <3>2. b \in BOOLEAN
      BY Zenon
    <3>3. QED
      BY <3>1, <3>2
  <2>2. windows'[i] = [w EXCEPT !.help = b]
    BY <1>2
  <2> HIDE DEF b, w
  <2>3. [w EXCEPT !.help = b] \in WindowRecord
    BY <2>1, RecordIs
  <2>4. LET u == [w EXCEPT !.help = b] IN
        u.id = w.id /\ u.surf = w.surf /\ u.frame = w.frame /\ u.x = w.x /\ u.y = w.y /\ u.w = w.w /\ u.h = w.h
    BY <2>1 DEF WindowRecord
  <2>5. QED
    BY <2>2, <2>3, <2>4 DEF w, Shape
<1>4. windows' \in Seq(WindowRecord) /\ Len(windows') = n
  <2>1. windows' \in [1 .. n -> WindowRecord]
    BY <1>2, <1>3, Zenon
  <2> HIDE DEF n
  <2>2. QED
    BY <1>1, <2>1, ListIs
<1>5. /\ todo' \in Seq(Step) /\ Frees(todo') = Frees(todo) /\ FreesOnce(todo') /\ Opening(todo')
      /\ BackFrom(todo, 1) => BackFrom(todo', 1)
  BY <1>1, <1>2, LastDone
<1>6. Types'
  BY <1>1, <1>2, <1>4, <1>5 DEF Types
<1>7. Ids' /\ Surfaces' /\ Lights' /\ (FocusOk => FocusOk')
  BY <1>2, <1>3, <1>4, <1>5, SameWindows
<1>8. Quiet /\ Settled
  <2>1. todo # << >> /\ todo[1].op = "help"
    BY <1>1, HeadIs
  <2>2. QED
    BY <2>1, PhaseOf DEF Inv
<1>9. Settled'
  <2> SUFFICES ASSUME NEW p \in Pixels
               PROVE  screen'[p] = owner'[p] /\ OnTop(windows', Len(windows'), p, owner'[p])
    BY DEF Settled
  <2>1. screen[p] = owner[p] /\ OnTop(windows, n, p, owner[p])
    BY <1>8 DEF Settled
  <2>2. OnTop(windows', n, p, owner[p])
    <3>1. \A i \in 1 .. n : windows'[i].surf = windows[i].surf /\ Shape(windows'[i]) = Shape(windows[i])
      BY <1>3
    <3>2. \A i \in 1 .. n : \A j \in i + 1 .. n : j \in 1 .. n
      BY <1>1
    <3> HIDE DEF n
    <3>3. QED
      BY <2>1, <3>1, <3>2 DEF OnTop
  <2>3. QED
    BY <1>2, <1>4, <2>1, <2>2
<1>10. Phase'
  BY <1>5, <1>7, <1>8, <1>9 DEF Phase, Quiet
<1>11. QED
  BY <1>2, <1>5, <1>6, <1>7, <1>10 DEF Inv

LEMMA DragToInv ==
  ASSUME Inv, drag_to
  PROVE  Inv'
<1> DEFINE n == Len(windows)
<1>1. Types /\ Todo("drag-to") /\ windows \in Seq(WindowRecord) /\ n \in Nat /\ DOMAIN windows = 1 .. n
  BY DEF Inv, Types, drag_to
<1>2. UNCHANGED <<focus, pointer, drag, next, task, batch, surfaces, canvases, owner, screen, lit, rend, lost>>
  BY DEF drag_to
<1>3. ToDrag
  <2>1. todo # << >> /\ todo[1].op = "drag-to"
    BY <1>1, HeadIs
  <2>2. QED
    BY <2>1, PhaseOf DEF Inv
<1>4. BackFrom(todo, 2) /\ Settled /\ FocusOk
  BY <1>3 DEF ToDrag
<1>5. CASE drag = NoDrag
  <2>1. windows' = windows /\ todo' = << >> \o Tail(todo)
    BY <1>5 DEF drag_to, Then
  <2>2. /\ todo' \in Seq(Step) /\ Frees(todo') = Frees(todo) /\ FreesOnce(todo') /\ Opening(todo')
        /\ BackFrom(todo', 1)
    BY <1>1, <1>4, <2>1, LastDone
  <2>3. Types'
    BY <1>1, <1>2, <2>1, <2>2 DEF Types
  <2>4. Ids' /\ Surfaces' /\ Lights'
    BY <1>2, <2>1, <2>2, Beside DEF Inv
  <2>5. Phase'
    BY <1>2, <1>4, <2>1, <2>2 DEF Phase, Quiet, Settled, FocusOk
  <2>6. QED
    BY <1>2, <2>2, <2>3, <2>4, <2>5 DEF Inv
<1>6. CASE drag # NoDrag
  <2> DEFINE x == pointer[1] - drag.ox
             y == pointer[2] - drag.oy
  <2>1. /\ windows' = [i \in 1 .. n |-> IF windows[i].id = drag.id
                                          THEN [windows[i] EXCEPT !.x = x, !.y = y] ELSE windows[i]]
        /\ Then(<<DoRestack>>)
    BY <1>1, <1>6 DEF drag_to, move
  <2>2. x \in Int /\ y \in Int
    BY <1>1 DEF Types
  <2> HIDE DEF x, y
  <2>3. ASSUME NEW i \in 1 .. n
        PROVE  /\ windows'[i] \in WindowRecord
               /\ windows'[i].id = windows[i].id /\ windows'[i].surf = windows[i].surf
               /\ windows'[i].frame = windows[i].frame
    <3> DEFINE w == windows[i]
    <3>1. w \in WindowRecord
      BY <1>1
    <3>2. windows'[i] = [w EXCEPT !.x = x, !.y = y] \/ windows'[i] = w
      BY <2>1
    <3> HIDE DEF w
    <3>3. [w EXCEPT !.x = x, !.y = y] \in WindowRecord
      BY <2>2, <3>1, RecordIs
    <3>4. LET u == [w EXCEPT !.x = x, !.y = y] IN u.id = w.id /\ u.surf = w.surf /\ u.frame = w.frame
      BY <3>1 DEF WindowRecord
    <3>5. QED
      BY <3>1, <3>2, <3>3, <3>4 DEF w
  <2>4. windows' \in Seq(WindowRecord) /\ Len(windows') = n
    <3>1. windows' \in [1 .. n -> WindowRecord]
      BY <2>1, <2>3, Zenon
    <3> HIDE DEF n
    <3>2. QED
      BY <1>1, <3>1, ListIs
  <2>5. DoRestack \in Step /\ DoRestack.op = "restack"
    BY StepsAre, OpsAre
  <2>6. /\ todo' \in Seq(Step) /\ Frees(todo') = Frees(todo) /\ FreesOnce(todo') /\ Opening(todo')
        /\ BackFrom(todo', 2) /\ Todo("restack")'
    BY <1>1, <1>4, <2>1, <2>5, NextDone
  <2>7. Types'
    BY <1>1, <1>2, <2>4, <2>6 DEF Types
  <2>8. Ids' /\ Surfaces' /\ Lights' /\ FocusOk'
    BY <1>2, <1>4, <2>3, <2>4, <2>6, SameWindows
  <2>9. Phase'
    BY <2>6, <2>8 DEF Phase, ToRestack
  <2>10. QED
    BY <1>2, <2>6, <2>7, <2>8, <2>9 DEF Inv
<1>7. QED
  BY <1>5, <1>6

LEMMA CloseInv ==
  ASSUME Inv, close_bang
  PROVE  Inv'
<1> DEFINE n == Len(windows)
           id == Win.id
<1>1. Types /\ Ids /\ Surfaces /\ Lights /\ Todo("close") /\ windows \in Seq(WindowRecord) /\ n \in Nat
  BY SMTT(30) DEF Inv, Types, close_bang
<1>2. UNCHANGED <<pointer, drag, next, task, batch, surfaces, canvases, owner, screen, lit, rend, lost>>
  BY DEF close_bang
<1>3. todo # << >> /\ todo \in Seq(Step) /\ todo[1].op = "close" /\ Win \in WindowRecord /\ Len(todo) \in Nat \ {0}
  BY <1>1, HeadIs
<1>4. id \in Nat
  BY <1>3, RecordIs
<1>5. BackFrom(todo, 2) /\ Settled /\ FocusOk
  <2>1. ToClose
    BY <1>3, PhaseOf DEF Inv
  <2>2. QED
    BY <2>1 DEF ToClose
<1>6. CASE Window(id) = NoWindow
  <2>1. windows' = windows /\ focus' = focus /\ todo' = << >> \o Tail(todo)
    BY <1>6 DEF close_bang, Then
  <2>2. /\ todo' \in Seq(Step) /\ Frees(todo') = Frees(todo) /\ FreesOnce(todo') /\ Opening(todo')
        /\ BackFrom(todo', 1)
    BY <1>1, <1>5, <2>1, LastDone
  <2>3. Types'
    BY <1>1, <1>2, <2>1, <2>2 DEF Types
  <2>4. Ids' /\ Surfaces' /\ Lights'
    BY <1>2, <2>1, <2>2, Beside DEF Inv
  <2>5. Phase'
    BY <1>2, <1>5, <2>1, <2>2 DEF Phase, Quiet, Settled, FocusOk
  <2>6. QED
    BY <1>2, <2>2, <2>3, <2>4, <2>5 DEF Inv
<1>7. ASSUME NEW k \in 1 .. n, windows[k].id = id, Window(id) = windows[k], windows[k] # NoWindow,
             Without(windows, id) = RemoveAt(windows, k)
      PROVE  Inv'
  <2> DEFINE s == windows[k].surf
             us == windows'
             f == [i \in 1 .. n - 1 |-> IF i < k THEN i ELSE i + 1]
  <2>1. /\ windows' = RemoveAt(windows, k)
        /\ focus' = IF focus = id THEN None ELSE focus
        /\ todo' = <<DoFree(s), DoRefocus>> \o Tail(todo)
    BY <1>7 DEF close_bang, Then
  <2>2. /\ us \in Seq(WindowRecord) /\ Len(us) = n - 1
        /\ \A i \in 1 .. n - 1 : us[i] = IF i < k THEN windows[i] ELSE windows[i + 1]
    BY <1>1, <2>1, RemoveIs
  <2>3. /\ Picks(us, windows, f)
        /\ \A i \in 1 .. n - 1 : f[i] # k
        /\ \A l \in 1 .. n : l # k => \E i \in 1 .. n - 1 : f[i] = l
    <3>1. \A i \in 1 .. n - 1 : f[i] \in 1 .. n /\ us[i] = windows[f[i]] /\ f[i] # k
      BY <1>1, <2>2
    <3>2. \A i, j \in 1 .. n - 1 : f[i] = f[j] => i = j
      BY <1>1
    <3>3. ASSUME NEW l \in 1 .. n, l # k PROVE \E i \in 1 .. n - 1 : f[i] = l
      <4>1. CASE l < k
        BY <4>1, <1>1
      <4>2. CASE l > k
        <5>1. l - 1 \in 1 .. n - 1 /\ ~(l - 1 < k) /\ (l - 1) + 1 = l
          BY <4>2, <1>1
        <5>2. f[l - 1] = l
          BY <5>1
        <5>3. QED
          BY <5>1, <5>2
      <4>3. QED
        BY <3>3, <4>1, <4>2, <1>1
    <3> HIDE DEF f
    <3>4. QED
      BY <2>2, <3>1, <3>2, <3>3 DEF Picks
  <2>4. s \in Nat /\ s \in Held(windows)
    BY <1>1, HeldIs
  <2>5. /\ Held(us) = Held(windows) \ {s} /\ HeldOnce(us)
        /\ \A d : d # id => Lit(us, d) = Lit(windows, d)
    <3>1. HeldOnce(windows)
      BY <1>1 DEF Surfaces
    <3> HIDE DEF f
    <3>2. QED
      <4>1. k \in 1 .. Len(windows) /\ Len(us) = n - 1 /\ Len(windows) = n
        BY <1>1, <1>7, <2>2
      <4>2. /\ \A i \in 1 .. Len(us) : f[i] # k
            /\ \A l \in 1 .. Len(windows) : l # k => \E i \in 1 .. Len(us) : f[i] = l
        BY <4>1, <2>3
      <4>3. /\ Held(us) = Held(windows) \ {windows[k].surf} /\ HeldOnce(us)
            /\ \A d : d # windows[k].id => Lit(us, d) = Lit(windows, d)
        BY <1>1, <2>2, <2>3, <3>1, <4>1, <4>2, PickedBut
      <4>4. QED
        BY <4>3, <1>1, <1>7
  <2> HIDE DEF s
  <2>6. s \notin Frees(todo) /\ s \notin OnCanvas /\ s \notin lost
    BY <1>1, <2>4 DEF Surfaces
  <2>7. /\ todo' \in Seq(Step) /\ Frees(todo') = Frees(todo) \cup {s} /\ FreesOnce(todo') /\ Opening(todo')
    <3>1. FreesOnce(todo) /\ Opening(todo) /\ todo[1].op # "free"
      BY <1>3 DEF Inv, Surfaces
    <3>2. todo \in Seq(Step) /\ todo # << >> /\ s \in Nat /\ todo' = <<DoFree(s), DoRefocus>> \o Tail(todo)
      BY <1>3, <2>1, <2>4
    <3>3. QED
      BY <2>6, <3>1, <3>2, FreeThen, ZenonT(60)
  <2>8. focus' \in Nat
    BY <1>1, <2>1 DEF Types, None
  <2>9. Types'
    BY <1>1, <1>2, <2>2, <2>7, <2>8 DEF Types
  <2>10. \A i \in 1 .. n - 1 : \E l \in 1 .. n : l # k /\ us[i] = windows[l]
    <3>1. \A i \in 1 .. n - 1 : i \in 1 .. n /\ i + 1 \in 1 .. n /\ (i < k => i # k) /\ (~(i < k) => i + 1 # k)
      BY <1>1
    <3>2. QED
      BY <2>2, <3>1
  <2>11. \A l \in 1 .. n : l # k => \E i \in 1 .. n - 1 : us[i].id = windows[l].id
    <3> HIDE DEF f
    <3> SUFFICES ASSUME NEW l \in 1 .. n, l # k PROVE \E i \in 1 .. n - 1 : us[i].id = windows[l].id
      OBVIOUS
    <3>1. PICK i \in 1 .. n - 1 : f[i] = l
      BY <2>3
    <3>2. us[i].id = windows[f[i]].id
      BY <2>2, <2>3 DEF Picks
    <3>3. QED
      BY <3>1, <3>2
  <2>12. Ids'
    <3>1. \A i \in 1 .. Len(us) : us[i].id \in 1 .. next - 1
      BY <1>1, <2>2, <2>10 DEF Ids
    <3>2. ASSUME NEW i \in 1 .. n - 1, NEW j \in 1 .. n - 1, us[i].id = us[j].id PROVE i = j
      <4>1. f[i] \in 1 .. n /\ f[j] \in 1 .. n /\ us[i].id = windows[f[i]].id /\ us[j].id = windows[f[j]].id
        BY <2>2, <2>3 DEF Picks
      <4> HIDE DEF f
      <4>2. f[i] = f[j]
        BY <1>1, <3>2, <4>1 DEF Ids
      <4>3. QED
        BY <2>2, <2>3, <4>2 DEF Picks
    <3>3. ASSUME focus' # None PROVE \E i \in 1 .. n - 1 : us[i].id = focus'
      <4>1. focus' = focus /\ focus # id
        BY <2>1, <3>3
      <4>2. PICK l \in 1 .. n : windows[l].id = focus
        BY <1>1, <3>3, <4>1 DEF Ids
      <4>3. l # k
        BY <1>7, <4>1, <4>2
      <4>4. QED
        BY <2>11, <4>1, <4>2, <4>3
    <3>4. QED
      BY <1>2, <2>2, <3>1, <3>2, <3>3 DEF Ids
  <2>13. Surfaces'
    <3>1. OnCanvas' = OnCanvas
      BY <1>2 DEF OnCanvas
    <3>2. surfaces = Held(us) \cup OnCanvas \cup Frees(todo') \cup lost
      BY <1>1, <2>4, <2>5, <2>7 DEF Surfaces
    <3>3. /\ Held(us) \cap OnCanvas = {} /\ Held(us) \cap Frees(todo') = {} /\ OnCanvas \cap Frees(todo') = {}
          /\ lost \cap (Held(us) \cup OnCanvas \cup Frees(todo')) = {}
      BY <1>1, <2>5, <2>6, <2>7 DEF Surfaces
    <3>4. QED
      BY <1>1, <1>2, <2>5, <2>7, <3>1, <3>2, <3>3 DEF Surfaces
  <2>14. Lights'
    <3>1. CASE focus = id
      <4>1. focus' = None
        BY <2>1, <3>1
      <4>2. Lit(us, None) = {}
        <5>1. \A i \in 1 .. Len(us) : us[i].id # None
          <6>1. \A i \in 1 .. n : windows[i].id \in 1 .. next - 1
            BY <1>1 DEF Ids
          <6>2. next \in Nat
            <7>1. next \in Nat \ {0}
              BY <1>1, Zenon DEF Types
            <7>2. QED
              BY <7>1
          <6>3. \A i \in 1 .. n : windows[i].id # 0
            BY <6>1, <6>2
          <6>4. \A i \in 1 .. n - 1 : us[i].id # 0
            <7> HIDE DEF us
            <7>1. \A i \in 1 .. n - 1 : i \in 1 .. n /\ i + 1 \in 1 .. n
              BY <1>1
            <7>2. QED
              BY <2>2, <6>3, <7>1
          <6>5. QED
            BY <2>2, <6>4 DEF None
        <5>2. QED
          BY <2>2, <5>1, LitIs
      <4>3. Lit(windows, focus) \subseteq {s}
        <5>1. \A i \in 1 .. n : windows[i].id = id => i = k
          BY <1>1, <1>7 DEF Ids
        <5>2. Lit(windows, id) = IF windows[k].frame THEN {windows[k].surf} ELSE {}
          BY <1>1, <1>7, <5>1, LitIs
        <5>3. QED
          BY <3>1, <5>2 DEF s
      <4>4. QED
        BY <1>1, <1>2, <2>7, <4>1, <4>2, <4>3 DEF Lights
    <3>2. CASE focus # id
      <4>1. focus' = focus /\ Lit(us, focus) = Lit(windows, focus)
        BY <2>1, <2>5, <3>2
      <4>2. QED
        BY <1>1, <1>2, <2>7, <4>1 DEF Lights
    <3>3. QED
      BY <3>1, <3>2
  <2>15. FocusOk' \/ focus' = None
    <3>1. CASE focus = id
      BY <2>1, <3>1
    <3>2. CASE focus # id
      <4>1. focus = windows[n].id /\ k # n
        BY <1>1, <1>5, <1>7, <3>2 DEF FocusOk
      <4>2. n - 1 >= 1 /\ ~(n - 1 < k) /\ ((n - 1) + 1 = n \/ n - 1 >= k)
        BY <1>1, <4>1
      <4>3. n - 1 \in 1 .. n - 1 /\ ~(n - 1 < k) /\ (n - 1) + 1 = n /\ n - 1 # 0
        BY <1>1, <4>1
      <4>4. us[n - 1] = windows[n]
        BY <2>2, <4>3
      <4>5. QED
        BY <2>1, <2>2, <3>2, <4>1, <4>3, <4>4 DEF FocusOk
    <3>3. QED
      BY <3>1, <3>2
  <2>16. Phase'
    <3> DEFINE st == <<DoFree(s), DoRefocus>>
    <3>1. DoFree(s) \in Step /\ DoRefocus \in Step /\ DoFree(s).op = "free" /\ DoRefocus.op = "refocus"
      BY <2>4, StepsAre, OpsAre
    <3>2. st \in Seq(Step) /\ Len(st) = 2 /\ st[1] = DoFree(s) /\ st[2] = DoRefocus /\ todo' = st \o Tail(todo)
      BY <2>1, <3>1
    <3> HIDE DEF st
    <3>3. /\ todo' \in Seq(Step) /\ Len(todo') = Len(st) + Len(todo) - 1
          /\ \A i \in 1 .. Len(st) : todo'[i] = st[i]
          /\ \A i \in Len(st) + 1 .. Len(todo') : todo'[i] = todo[i - Len(st) + 1]
          /\ Len(todo) \in Nat \ {0} /\ Len(st) \in Nat /\ Len(todo') \in Nat
      <4>1. todo \in Seq(Step) /\ todo # << >> /\ st \in Seq(Step) /\ todo' = st \o Tail(todo)
        BY <1>3, <3>2
      <4>2. QED
        BY <4>1, ThenIs
    <3>4. todo'[1] = DoFree(s) /\ todo'[2] = DoRefocus /\ Len(todo') > 1
      BY <3>2, <3>3
    <3>5. Todo("free")'
      <4>1. todo' # << >> /\ Head(todo') = todo'[1]
        BY <3>3, <3>4
      <4>2. QED
        BY <3>1, <3>4, <4>1 DEF Todo
    <3>6. BackFrom(todo', 3)
      <4>1. 2 \in Nat /\ 2 >= 2
        OBVIOUS
      <4>2. BackFrom(todo', 2 + Len(st) - 1)
        BY <4>1, <1>3, <1>5, <3>2, BackThen, Zenon
      <4>3. QED
        BY <3>2, <4>2
    <3>7. QED
      BY <2>15, <3>1, <3>4, <3>5, <3>6 DEF Phase, ToFree
  <2>17. QED
    BY <1>2, <2>7, <2>9, <2>12, <2>13, <2>14, <2>16 DEF Inv
<1>8. QED
  BY <1>1, <1>4, <1>6, <1>7, WindowIs

LEMMA FocusInv ==
  ASSUME Inv, focus_bang
  PROVE  Inv'
<1> DEFINE n == Len(windows)
           id == Win.id
<1>1. Types /\ Ids /\ Surfaces /\ Lights /\ Todo("focus") /\ windows \in Seq(WindowRecord) /\ n \in Nat
  <2>1. Types /\ Ids /\ Surfaces /\ Lights
    BY DEF Inv
  <2>2. windows \in Seq(WindowRecord)
    BY <2>1, Zenon DEF Types
  <2>3. n \in Nat
    BY <2>2
  <2>4. Todo("focus")
    BY DEF focus_bang
  <2>5. QED
    BY <2>1, <2>2, <2>3, <2>4
<1>2. UNCHANGED <<pointer, drag, next, task, batch, surfaces, canvases, owner, screen, rend, lost>>
  BY DEF focus_bang
<1>3. /\ todo # << >> /\ todo \in Seq(Step) /\ todo[1].op = "focus" /\ Win \in WindowRecord
      /\ Win = todo[1].win
  BY <1>1, HeadIs
<1>4. id \in Nat
  BY <1>3, RecordIs
<1>5. BackFrom(todo, 2) /\ (Live \/ (Settled /\ FocusOk))
  <2>1. ToFocus
    BY <1>3, PhaseOf DEF Inv
  <2>2. QED
    BY <2>1 DEF ToFocus
<1>6. CASE Window(id) = NoWindow /\ \A i \in 1 .. n : windows[i].id # id
  <2>1. windows' = windows /\ focus' = focus /\ lit' = lit /\ todo' = << >> \o Tail(todo)
    BY <1>6 DEF focus_bang, Then
  <2>2. /\ todo' \in Seq(Step) /\ Frees(todo') = Frees(todo) /\ FreesOnce(todo') /\ Opening(todo')
        /\ BackFrom(todo', 1)
    BY <1>1, <1>5, <2>1, LastDone
  <2>3. Types'
    BY <1>1, <1>2, <2>1, <2>2 DEF Types
  <2>4. Ids' /\ Surfaces' /\ Lights'
    BY <1>2, <2>1, <2>2, Beside DEF Inv
  <2>5. Settled /\ FocusOk
    BY <1>3, <1>5, <1>6 DEF Live
  <2>6. Phase'
    BY <1>2, <2>1, <2>2, <2>5 DEF Phase, Quiet, Settled, FocusOk
  <2>7. QED
    BY <1>2, <2>2, <2>3, <2>4, <2>6 DEF Inv
<1>7. ASSUME NEW k \in 1 .. n, windows[k].id = id, Window(id) = windows[k], windows[k] # NoWindow,
             Without(windows, id) = RemoveAt(windows, k)
      PROVE  Inv'
  <2> DEFINE w == windows[k]
             us == windows'
             f == [i \in 1 .. n |-> IF i < k THEN i ELSE IF i < n THEN i + 1 ELSE k]
  <2>1. /\ windows' = Append(RemoveAt(windows, k), w)
        /\ focus' = id /\ lit' = Frames(Window(focus), w) /\ Then(<<DoRestack>>)
    BY <1>7 DEF focus_bang
  <2>2. /\ us \in Seq(WindowRecord) /\ Len(us) = n
        /\ \A i \in 1 .. n : us[i] = IF i < k THEN windows[i] ELSE IF i < n THEN windows[i + 1] ELSE windows[k]
    BY <1>1, <2>1, RaiseIs
  <2>3. /\ Picks(us, windows, f)
        /\ \A l \in 1 .. n : \E i \in 1 .. n : f[i] = l
    <3>1. \A i \in 1 .. n : f[i] \in 1 .. n /\ us[i] = windows[f[i]]
      BY <1>1, <2>2
    <3>2. \A i, j \in 1 .. n : f[i] = f[j] => i = j
      BY <1>1
    <3>3. ASSUME NEW l \in 1 .. n PROVE \E i \in 1 .. n : f[i] = l
      <4>1. CASE l < k
        BY <4>1, <1>1
      <4>2. CASE l > k
        <5>1. l - 1 \in 1 .. n /\ ~(l - 1 < k) /\ (l - 1) + 1 = l /\ l - 1 < n
          BY <4>2, <1>1
        <5>2. f[l - 1] = l
          BY <5>1
        <5>3. QED
          BY <5>1, <5>2
      <4>3. CASE l = k
        <5>1. n \in 1 .. n /\ ~(n < k) /\ ~(n < n)
          BY <1>1
        <5>2. f[n] = k
          BY <5>1
        <5>3. QED
          BY <4>3, <5>1, <5>2
      <4>4. QED
        BY <4>1, <4>2, <4>3, <1>1
    <3> HIDE DEF f
    <3>4. QED
      BY <2>2, <3>1, <3>2, <3>3 DEF Picks
  <2> HIDE DEF f
  <2>4. /\ Held(us) = Held(windows) /\ HeldOnce(us)
        /\ \A d : Lit(us, d) = Lit(windows, d)
    <3>1. HeldOnce(windows)
      BY <1>1 DEF Surfaces
    <3>2. QED
      BY <1>1, <2>2, <2>3, <3>1, PickedAll
  <2>5. BackFrom(todo', 2) /\ Todo("restack")'
        /\ todo' \in Seq(Step) /\ Frees(todo') = Frees(todo) /\ FreesOnce(todo') /\ Opening(todo')
    <3>1. DoRestack \in Step /\ DoRestack.op = "restack"
      BY StepsAre, OpsAre
    <3>2. QED
      BY <1>1, <1>5, <2>1, <3>1, NextDone
  <2>6. w \in WindowRecord /\ w.surf \in Nat
    BY <1>1, WinsAre
  <2>7. Lit(windows, id) = IF w.frame THEN {w.surf} ELSE {}
    <3>1. \A i \in 1 .. n : windows[i].id = id => i = k
      BY <1>1, <1>7 DEF Ids
    <3>2. QED
      BY <1>1, <1>7, <3>1, LitIs
  <2>8. lit' \subseteq Lit(windows, id) \cup Frees(todo) /\ Lit(windows, id) \subseteq lit'
    <3> DEFINE old == Window(focus)
    <3>1. lit' = IF old.id \notin {None, w.id} /\ old.frame
                   THEN IF w.frame THEN (lit \ {old.surf}) \cup {w.surf} ELSE lit \ {old.surf}
                   ELSE IF w.frame THEN lit \cup {w.surf} ELSE lit
      BY <2>1 DEF Frames
    <3>2. Lit(windows, focus) \subseteq lit /\ lit \subseteq Lit(windows, focus) \cup Frees(todo)
      BY <1>1 DEF Lights
    <3>3. \/ Lit(windows, focus) = {}
          \/ focus = id
          \/ old.id \notin {None, w.id} /\ old.frame /\ Lit(windows, focus) = {old.surf}
      <4>1. CASE \A i \in 1 .. n : windows[i].id # focus
        BY <1>1, <4>1, LitIs
      <4>2. ASSUME NEW l \in 1 .. n, windows[l].id = focus, Window(focus) = windows[l]
            PROVE  \/ Lit(windows, focus) = {}
                   \/ focus = id
                   \/ old.id \notin {None, w.id} /\ old.frame /\ Lit(windows, focus) = {old.surf}
        <5>1. \A i \in 1 .. n : windows[i].id = focus => i = l
          BY <1>1, <4>2 DEF Ids
        <5>2. Lit(windows, focus) = IF windows[l].frame THEN {windows[l].surf} ELSE {}
          BY <1>1, <4>2, <5>1, LitIs
        <5>3. focus # None
          BY <1>1, <4>2 DEF Ids, None, Types
        <5>4. QED
          BY <1>7, <4>2, <5>2, <5>3
      <4>3. focus \in Nat
        BY <1>1 DEF Types
      <4>4. QED
        BY <1>1, <4>1, <4>2, <4>3, WindowIs
    <3> HIDE DEF old, w
    <3>4. CASE Lit(windows, focus) = {}
      BY <2>7, <3>1, <3>2, <3>4
    <3>5. CASE focus = id
      <4>1. w.id = id
        BY <1>7 DEF w
      <4>2. old = w
        BY <1>7, <3>5 DEF old, w
      <4>3. lit' = IF w.frame THEN lit \cup {w.surf} ELSE lit
        BY <3>1, <4>2
      <4>4. QED
        BY <2>7, <3>2, <3>5, <4>3
    <3>6. CASE old.id \notin {None, w.id} /\ old.frame /\ Lit(windows, focus) = {old.surf}
      BY <2>7, <3>1, <3>2, <3>6
    <3>7. QED
      BY <3>3, <3>4, <3>5, <3>6
  <2>9. lit' \subseteq Nat
    BY <2>6, <2>7, <2>8 DEF Frees
  <2>10. Types'
    BY <1>1, <1>2, <1>4, <2>1, <2>2, <2>5, <2>9 DEF Types
  <2>11. us[n] = w /\ n \in 1 .. n
    BY <1>1, <2>2
  <2>12. Ids'
    <3>1. ASSUME NEW i \in 1 .. n PROVE us[i].id \in 1 .. next - 1
      <4>1. f[i] \in 1 .. n /\ us[i].id = windows[f[i]].id
        BY <2>2, <2>3 DEF Picks
      <4>2. QED
        BY <1>1, <4>1 DEF Ids
    <3>2. ASSUME NEW i \in 1 .. n, NEW j \in 1 .. n, us[i].id = us[j].id PROVE i = j
      <4>1. f[i] \in 1 .. n /\ f[j] \in 1 .. n /\ us[i].id = windows[f[i]].id /\ us[j].id = windows[f[j]].id
        BY <2>2, <2>3 DEF Picks
      <4>2. f[i] = f[j]
        BY <1>1, <3>2, <4>1 DEF Ids
      <4>3. QED
        BY <2>2, <2>3, <4>2 DEF Picks
    <3>3. us[n].id = focus'
      BY <1>7, <2>1, <2>11
    <3>4. QED
      BY <1>2, <2>2, <2>11, <3>1, <3>2, <3>3 DEF Ids
  <2>13. Surfaces'
    <3>1. OnCanvas' = OnCanvas
      BY <1>2 DEF OnCanvas
    <3>2. QED
      BY <1>1, <1>2, <2>4, <2>5, <3>1 DEF Surfaces
  <2>14. Lights'
    BY <2>1, <2>4, <2>5, <2>8 DEF Lights
  <2>15. FocusOk'
    <3>1. Len(us) # 0 /\ us[Len(us)].id = id
      BY <1>1, <1>7, <2>2, <2>11
    <3>2. QED
      BY <2>1, <3>1 DEF FocusOk
  <2>16. Phase'
    BY <2>5, <2>15 DEF Phase, ToRestack
  <2>17. QED
    BY <1>2, <2>5, <2>10, <2>12, <2>13, <2>14, <2>16 DEF Inv
<1>8. QED
  BY <1>1, <1>4, <1>6, <1>7, WindowIs

\* A new window, w, on a surface that was free
LEMMA Opened ==
  ASSUME Inv, NEW w \in WindowRecord, w.id = next, w.surf \in (1 .. GFX_SURFACES - 1) \ surfaces,
         windows' = Append(windows, w), next' = next + 1, UNCHANGED <<focus, lit, lost>>,
         canvases' \subseteq [id : Nat, surface : Nat],
         \A c, d \in canvases' : c.surface = d.surface => c = d,
         NEW cs \in SUBSET ((1 .. GFX_SURFACES - 1) \ (surfaces \cup {w.surf})),
         {s \in Nat : \E c \in canvases' : c.surface = s} = OnCanvas \cup cs,
         surfaces' = surfaces \cup {w.surf} \cup cs,
         Frees(todo') = Frees(todo), FreesOnce(todo')
  PROVE  /\ windows' \in Seq(WindowRecord) /\ next' \in Nat \ {0} /\ surfaces' \subseteq 1 .. GFX_SURFACES - 1
         /\ Ids' /\ Surfaces' /\ Lights'
         /\ \E i \in 1 .. Len(windows') : windows'[i].id = next
<1> DEFINE n == Len(windows)
           us == windows'
<1>1. /\ Types /\ Ids /\ Surfaces /\ Lights /\ windows \in Seq(WindowRecord) /\ n \in Nat
      /\ next \in Nat \ {0} /\ surfaces \subseteq 1 .. GFX_SURFACES - 1
  <2>1. Types /\ Ids /\ Surfaces /\ Lights
    BY DEF Inv
  <2>2. windows \in Seq(WindowRecord) /\ next \in Nat \ {0} /\ surfaces \subseteq 1 .. GFX_SURFACES - 1
    BY <2>1, Zenon DEF Types
  <2>3. n \in Nat
    BY <2>2
  <2>4. QED
    BY <2>1, <2>2, <2>3
<1>2. w.surf \notin Held(windows) /\ w.surf \in Nat
  <2>1. w.surf \notin Held(windows)
    BY <1>1 DEF Surfaces
  <2>2. QED
    BY <2>1, RecordIs
<1>3. /\ us \in Seq(WindowRecord) /\ Len(us) = n + 1 /\ us[Len(us)] = w
      /\ \A i \in 1 .. n : us[i] = windows[i]
      /\ Held(us) = Held(windows) \cup {w.surf} /\ HeldOnce(us)
      /\ \A d : d # w.id => Lit(us, d) = Lit(windows, d)
  <2>1. HeldOnce(windows)
    BY <1>1 DEF Surfaces
  <2>2. QED
    BY <1>1, <1>2, <2>1, PickedMore
<1>4. /\ \A i \in 1 .. n + 1 : i \in 1 .. n \/ i = n + 1
      /\ \A i \in 1 .. n : i \in 1 .. n + 1
      /\ n + 1 \in 1 .. n + 1
  BY <1>1
<1>5. us[n + 1].id = next /\ \A i \in 1 .. n : us[i].id \in 1 .. next - 1
  BY <1>1, <1>3 DEF Ids
<1>6. Ids'
  <2>1. \A i \in 1 .. n + 1 : us[i].id \in 1 .. (next + 1) - 1
    BY <1>1, <1>4, <1>5
  <2>2. \A i, j \in 1 .. n + 1 : us[i].id = us[j].id => i = j
    <3>1. \A i \in 1 .. n : us[i].id # next
      BY <1>1, <1>5
    <3>2. \A i, j \in 1 .. n : us[i].id = us[j].id => i = j
      BY <1>1, <1>3 DEF Ids
    <3>3. QED
      BY <1>4, <1>5, <3>1, <3>2
  <2>3. focus # None => \E i \in 1 .. n + 1 : us[i].id = focus
    BY <1>1, <1>3, <1>4 DEF Ids
  <2>4. QED
    BY <1>3, <2>1, <2>2, <2>3 DEF Ids
<1>7. focus # w.id
  BY <1>1 DEF Ids, None
<1>8. Lights'
  <2>1. Lit(us, focus) = Lit(windows, focus)
    BY <1>3, <1>7
  <2>2. QED
    BY <1>1, <2>1 DEF Lights
<1>9. Surfaces'
  <2>1. OnCanvas' = OnCanvas \cup cs
    BY DEF OnCanvas
  <2>2. surfaces' = Held(us) \cup OnCanvas' \cup Frees(todo') \cup lost
    BY <1>1, <1>3, <2>1 DEF Surfaces
  <2>3. w.surf \notin surfaces /\ w.surf \notin cs /\ cs \cap surfaces = {}
    OBVIOUS
  <2>4. /\ Held(us) \cap OnCanvas' = {} /\ Held(us) \cap Frees(todo') = {} /\ OnCanvas' \cap Frees(todo') = {}
        /\ lost \cap (Held(us) \cup OnCanvas' \cup Frees(todo')) = {}
    BY <1>1, <1>3, <2>1, <2>3 DEF Surfaces
  <2>5. QED
    BY <1>3, <2>2, <2>4 DEF Surfaces
<1>10. surfaces' \subseteq 1 .. GFX_SURFACES - 1 /\ next' \in Nat \ {0}
  <2>1. {w.surf} \subseteq 1 .. GFX_SURFACES - 1 /\ cs \subseteq 1 .. GFX_SURFACES - 1
    OBVIOUS
  <2>2. next + 1 \in Nat \ {0}
    BY <1>1
  <2>3. QED
    BY <1>1, <2>1, <2>2
<1>11. \E i \in 1 .. Len(us) : us[i].id = next
  BY <1>3, <1>4, <1>5
<1>12. QED
  BY <1>3, <1>6, <1>8, <1>9, <1>10, <1>11

LEMMA OpenInv ==
  ASSUME Inv, open_bang
  PROVE  Inv'
<1>1. /\ Types /\ Surfaces /\ Todo("open") /\ windows \in Seq(WindowRecord) /\ Len(windows) \in Nat
      /\ next \in Nat \ {0} /\ task \in {"none", "running", "dead"}
  BY SMTT(30) DEF Inv, Types, open_bang
<1>2. UNCHANGED <<focus, pointer, drag, batch, canvases, owner, screen, lit, rend, lost>>
  BY DEF open_bang
<1>3. /\ todo # << >> /\ todo \in Seq(Step) /\ todo[1].op = "open" /\ Win \in WindowRecord
      /\ Len(todo) \in Nat \ {0}
  BY <1>1, HeadIs
<1>4. Quiet /\ Settled /\ BackFrom(todo, 1) /\ FocusOk
  <2>1. Quiet /\ Settled
    BY <1>3, PhaseOf DEF Inv
  <2>2. QED
    BY <2>1 DEF Quiet
<1>5. CASE FreeSurfaces = {}
  <2>1. todo' = << >> /\ UNCHANGED <<surfaces, windows, next>> /\ (task' = "dead" \/ task' = task)
    BY <1>5 DEF open_bang, Thrown
  <2>2. Frees(todo) = {} /\ Frees(todo') = {} /\ FreesOnce(todo') /\ Opening(todo') /\ BackFrom(todo', 1)
    <3>1. \A i \in 1 .. Len(<< >>) : FALSE
      OBVIOUS
    <3>2. Frees(<< >>) = {} /\ FreesOnce(<< >>) /\ Opening(<< >>) /\ BackFrom(<< >>, 1)
      BY <3>1 DEF Frees, FreesOnce, Opening, BackFrom
    <3>3. \A i \in 1 .. Len(todo) : i = 1 \/ 1 < i
      BY <1>3
    <3>4. 1 \in 1 .. Len(todo) /\ Opening(todo)
      BY <1>3 DEF Inv
    <3>5. \A i \in 1 .. Len(todo) : todo[i].op # "free"
      BY <1>3, <3>3, <3>4 DEF Opening
    <3>6. Frees(todo) = {}
      BY <3>5 DEF Frees
    <3>7. QED
      BY <2>1, <3>2, <3>6
  <2>3. todo' \in Seq(Step)
    BY <2>1
  <2>4. Types'
    BY <1>1, <1>2, <2>1, <2>3 DEF Types
  <2>5. Ids' /\ Surfaces' /\ Lights'
    BY <1>2, <2>1, <2>2, Beside DEF Inv
  <2>6. Phase'
    BY <1>2, <1>4, <2>1, <2>2 DEF Phase, Quiet, Settled, FocusOk
  <2>7. (task = "none" => canvases = {})'
    BY <1>2, <2>1 DEF Inv
  <2>8. QED
    BY <2>2, <2>4, <2>5, <2>6, <2>7 DEF Inv
<1>6. CASE FreeSurfaces # {}
  <2> DEFINE s == Min(FreeSurfaces)
             x == Clamp(Win.x, Width - WinW)
             y == Clamp(Win.y, Height - WinH)
             w == [NoWindow EXCEPT !.id = next, !.surf = s, !.frame = TRUE, !.w = WinW, !.h = WinH,
                     !.x = x, !.y = y]
             more == IF Win.help THEN <<DoHelp(next)>> ELSE << >>
             st == <<DoFocus(next)>> \o more
  <2>1. /\ surfaces' = surfaces \cup {s} /\ windows' = Append(windows, w) /\ next' = next + 1
        /\ todo' = st \o Tail(todo) /\ task' = task
    BY <1>6 DEF open_bang, Then
  <2>2. s \in (1 .. GFX_SURFACES - 1) \ surfaces /\ s \in Nat
    <3>1. FreeSurfaces \in SUBSET Nat /\ FreeSurfaces = (1 .. GFX_SURFACES - 1) \ surfaces
      BY WmAssumption DEF FreeSurfaces, WmAssumption
    <3>2. s \in FreeSurfaces
      BY <1>6, <3>1, Least
    <3> HIDE DEF s
    <3>3. QED
      BY <3>1, <3>2
  <2>3. x \in Int /\ y \in Int /\ WinW \in Int /\ WinH \in Int
    <3>1. Win.x \in Int /\ Win.y \in Int
      BY <1>3, RecordIs
    <3>2. WinW \in Int /\ WinH \in Int /\ Width - WinW \in Int /\ Height - WinH \in Int
      BY WmAssumption DEF WmAssumption
    <3>3. QED
      BY <3>1, <3>2, ClampIs
  <2> HIDE DEF s, x, y
  <2>4. w \in WindowRecord /\ w.id = next /\ w.surf = s
    BY <1>1, <2>2, <2>3, NoWindowIs DEF WindowRecord
  <2> HIDE DEF w
  <2>5. /\ DoFocus(next) \in Step /\ DoFocus(next).op = "focus" /\ DoFocus(next).win.id = next
        /\ DoHelp(next) \in Step /\ DoHelp(next).op = "help"
    <3>1. DoFocus(next).win.id = next
      BY <1>1, NoWindowIs DEF DoFocus, WindowRecord
    <3>2. QED
      BY <1>1, <3>1, StepsAre, OpsAre
  <2>6. /\ st \in Seq(Step) /\ (Len(st) = 1 \/ Len(st) = 2) /\ st[1] = DoFocus(next)
        /\ Len(st) = 2 => st[2] = DoHelp(next)
    BY <2>5
  <2> HIDE DEF st
  <2>7. \A i \in 1 .. Len(st) : i = 1 \/ (i = 2 /\ Len(st) = 2)
    <3>1. CASE Len(st) = 1
      BY <3>1
    <3>2. CASE Len(st) = 2
      BY <3>2
    <3>3. QED
      BY <2>6, <3>1, <3>2
  <2>8. \A i \in 1 .. Len(st) : st[i].op \notin {"free", "open"}
    BY <2>5, <2>6, <2>7
  <2>9. todo' \in Seq(Step) /\ Frees(todo') = Frees(todo) /\ FreesOnce(todo') /\ Opening(todo')
    BY <1>1, <2>1, <2>6, <2>8, StepDone
  <2>10. /\ todo' \in Seq(Step) /\ Len(todo') = Len(st) + Len(todo) - 1
         /\ \A i \in 1 .. Len(st) : todo'[i] = st[i]
         /\ \A i \in Len(st) + 1 .. Len(todo') : todo'[i] = todo[i - Len(st) + 1]
         /\ Len(todo) \in Nat \ {0} /\ Len(st) \in Nat /\ Len(todo') \in Nat
    <3>1. todo \in Seq(Step) /\ todo # << >> /\ st \in Seq(Step) /\ todo' = st \o Tail(todo)
      BY <1>3, <2>1, <2>6
    <3>2. QED
      BY <3>1, ThenIs
  <2>11. todo'[1] = DoFocus(next) /\ Len(todo') >= 1
    BY <2>6, <2>10
  <2>12. Todo("focus")'
    <3>1. todo' # << >> /\ Head(todo') = todo'[1]
      BY <2>10, <2>11
    <3>2. QED
      BY <2>5, <2>11, <3>1 DEF Todo
  <2>13. BackFrom(todo', 2)
    <3>1. ASSUME NEW i \in 2 .. Len(todo'), i <= Len(st) PROVE todo'[i].op \in Back
      <4>1. i = 2 /\ Len(st) = 2 /\ i \in 1 .. Len(st)
        <5>1. i \in 1 .. Len(st) /\ i # 1
          BY <2>10, <3>1
        <5>2. QED
          BY <2>7, <5>1
      <4>2. todo'[i] = DoHelp(next)
        BY <2>6, <2>10, <4>1
      <4>3. QED
        BY <2>5, <4>2 DEF Back
    <3>2. ASSUME NEW i \in 2 .. Len(todo'), i > Len(st) PROVE todo'[i].op \in Back
      <4>1. i \in Len(st) + 1 .. Len(todo') /\ i - Len(st) + 1 \in 1 .. Len(todo)
        BY <2>10, <3>2
      <4>2. QED
        BY <1>4, <2>10, <4>1 DEF BackFrom
    <3>3. QED
      BY <2>10, <3>1, <3>2 DEF BackFrom
  <2>14. /\ windows' \in Seq(WindowRecord) /\ next' \in Nat \ {0} /\ surfaces' \subseteq 1 .. GFX_SURFACES - 1
         /\ Ids' /\ Surfaces' /\ Lights'
         /\ \E i \in 1 .. Len(windows') : windows'[i].id = next
    <3> DEFINE cs == {}
    <3>1. cs \in SUBSET ((1 .. GFX_SURFACES - 1) \ (surfaces \cup {w.surf}))
      OBVIOUS
    <3>2. {t \in Nat : \E c \in canvases' : c.surface = t} = OnCanvas \cup cs
      BY <1>2 DEF OnCanvas
    <3>3. surfaces' = surfaces \cup {w.surf} \cup cs
      BY <2>1, <2>4
    <3>4. /\ canvases' \subseteq [id : Nat, surface : Nat]
          /\ \A c, d \in canvases' : c.surface = d.surface => c = d
      BY <1>1, <1>2 DEF Types, Surfaces
    <3>5. w.surf \in (1 .. GFX_SURFACES - 1) \ surfaces
      BY <2>2, <2>4
    <3> HIDE DEF cs
    <3>6. QED
      BY <1>2, <2>1, <2>4, <2>9, <3>1, <3>2, <3>3, <3>4, <3>5, Opened
  <2>15. Types'
    BY <1>1, <1>2, <2>1, <2>9, <2>14 DEF Types
  <2>16. Live'
    BY <2>5, <2>11, <2>14 DEF Live
  <2>17. Phase'
    BY <2>12, <2>13, <2>16 DEF Phase, ToFocus
  <2>18. QED
    BY <1>2, <2>1, <2>9, <2>14, <2>15, <2>17 DEF Inv
<1>7. QED
  BY <1>5, <1>6

LEMMA CanvasInv ==
  ASSUME Inv, task # "none", NEW full \in BOOLEAN, canvas_bang(full)
  PROVE  Inv'
<1>1. /\ Types /\ Surfaces /\ windows \in Seq(WindowRecord) /\ Len(windows) \in Nat
      /\ next \in Nat \ {0} /\ surfaces \subseteq 1 .. GFX_SURFACES - 1
      /\ todo = << >> /\ Opening(todo) /\ GFX_SURFACES \in Nat
  <2>1. todo = << >>
    BY DEF canvas_bang
  <2>2. GFX_SURFACES \in Nat
    BY WmAssumption DEF WmAssumption
  <2>3. QED
    BY <2>1, <2>2 DEF Inv, Types
<1>2. UNCHANGED <<focus, pointer, drag, task, batch, owner, screen, lit, rend>>
  BY DEF canvas_bang
<1>3. Quiet /\ Settled
  BY <1>1, PhaseOf DEF Inv, Quiet
<1>4. FreeSurfaces \in SUBSET Nat /\ FreeSurfaces = (1 .. GFX_SURFACES - 1) \ surfaces
  BY <1>1 DEF FreeSurfaces
<1> DEFINE ws == Min(FreeSurfaces)
           us == Min(FreeSurfaces \ {ws})
<1>5. CASE FreeSurfaces = {}
  <2>1. UNCHANGED <<surfaces, windows, next, canvases, todo, lost>>
    BY <1>5 DEF canvas_bang
  <2>2. Types'
    BY <1>1, <1>2, <2>1 DEF Types
  <2>3. Ids' /\ Surfaces' /\ Lights'
    BY <1>1, <1>2, <2>1, Beside DEF Inv, Surfaces
  <2>4. Phase'
    BY <1>2, <1>3, <2>1 DEF Phase, Quiet, Settled, FocusOk
  <2>5. QED
    BY <1>1, <1>2, <2>1, <2>2, <2>3, <2>4 DEF Inv
<1>6. CASE FreeSurfaces # {} /\ FreeSurfaces = {ws}
  <2>1. surfaces' = surfaces \cup {ws} /\ lost' = lost \cup {ws} /\ UNCHANGED <<windows, next, canvases, todo>>
    BY <1>6 DEF canvas_bang
  <2>2. ws \in (1 .. GFX_SURFACES - 1) \ surfaces /\ ws \in Nat
    BY <1>4, <1>6
  <2> HIDE DEF ws
  <2>3. Types'
    <3>1. surfaces' \subseteq 1 .. GFX_SURFACES - 1 /\ lost' \subseteq Nat
      BY <1>1, <2>1, <2>2 DEF Types
    <3>2. QED
      BY <1>1, <1>2, <2>1, <3>1 DEF Types
  <2>4. Ids' /\ Lights'
    BY <1>2, <2>1 DEF Inv, Ids, Lights
  <2>5. Surfaces'
    <3>1. OnCanvas' = OnCanvas
      BY <2>1 DEF OnCanvas
    <3>2. surfaces' = Held(windows) \cup OnCanvas \cup Frees(todo) \cup lost'
      BY <1>1, <2>1 DEF Surfaces
    <3>3. lost' \cap (Held(windows) \cup OnCanvas \cup Frees(todo)) = {}
      BY <1>1, <2>1, <2>2 DEF Surfaces
    <3>4. QED
      BY <1>1, <2>1, <3>1, <3>2, <3>3 DEF Surfaces
  <2>6. Phase'
    BY <1>2, <1>3, <2>1 DEF Phase, Quiet, Settled, FocusOk
  <2>7. QED
    BY <1>1, <1>2, <2>1, <2>3, <2>4, <2>5, <2>6 DEF Inv
<1>7. CASE FreeSurfaces # {} /\ FreeSurfaces # {ws}
  <2> DEFINE wd == IF full THEN Width ELSE WinW
             ht == IF full THEN Height ELSE WinH
             x == IF full THEN 0 ELSE Clamp(DefaultAt[1], Width - wd)
             y == IF full THEN 0 ELSE Clamp(DefaultAt[2], Height - ht)
             w == [id |-> next, surf |-> ws, frame |-> ~full, w |-> wd, h |-> ht,
                   canvas |-> TRUE, help |-> FALSE, x |-> x, y |-> y]
             c0 == [id |-> next, surface |-> us]
  <2>1. /\ surfaces' = surfaces \cup {ws, us} /\ windows' = Append(windows, w)
        /\ canvases' = canvases \cup {c0} /\ next' = next + 1 /\ todo' = <<DoFocus(next)>> /\ lost' = lost
    BY <1>7 DEF canvas_bang
  <2>2. ws \in FreeSurfaces
    BY <1>4, <1>7, Least
  <2>3. us \in FreeSurfaces \ {ws}
    <3>1. FreeSurfaces \ {ws} \in SUBSET Nat /\ FreeSurfaces \ {ws} # {}
      BY <1>4, <1>7, <2>2
    <3>2. QED
      BY <3>1, Least
  <2> HIDE DEF ws, us
  <2>4. /\ ws \in (1 .. GFX_SURFACES - 1) \ surfaces /\ us \in (1 .. GFX_SURFACES - 1) \ (surfaces \cup {ws})
        /\ ws \in Nat /\ us \in Nat
    BY <1>4, <2>2, <2>3
  <2>5. wd \in Int /\ ht \in Int /\ x \in Int /\ y \in Int
    <3>1. Width \in Int /\ Height \in Int /\ WinW \in Int /\ WinH \in Int
      BY WmAssumption DEF WmAssumption
    <3>2. wd \in Int /\ ht \in Int
      BY <3>1
    <3> HIDE DEF wd, ht
    <3>3. DefaultAt[1] \in Int /\ DefaultAt[2] \in Int /\ Width - wd \in Int /\ Height - ht \in Int
      BY <1>1, <3>1, <3>2, DefaultAtIs
    <3>4. Clamp(DefaultAt[1], Width - wd) \in Int /\ Clamp(DefaultAt[2], Height - ht) \in Int
      BY <3>3, ClampIs
    <3>5. QED
      BY <3>2, <3>4
  <2> HIDE DEF wd, ht, x, y
  <2>6. w \in WindowRecord /\ w.id = next /\ w.surf = ws
    BY <1>1, <2>4, <2>5 DEF WindowRecord
  <2> HIDE DEF w
  <2>7. c0 \in [id : Nat, surface : Nat] /\ c0.surface = us
    BY <1>1, <2>4
  <2> HIDE DEF c0
  <2>8. /\ DoFocus(next) \in Step /\ DoFocus(next).op = "focus" /\ DoFocus(next).win.id = next
    <3>1. DoFocus(next).win.id = next
      BY <1>1, NoWindowIs DEF DoFocus, WindowRecord
    <3>2. QED
      BY <1>1, <3>1, StepsAre, OpsAre
  <2> DEFINE st == <<DoFocus(next)>>
  <2>9. /\ st \in Seq(Step) /\ st[1] = DoFocus(next) /\ Opening(st) /\ BackFrom(st, 2) /\ st # << >>
        /\ Head(st) = st[1] /\ \A i \in 1 .. Len(st) : st[i].op # "free"
    <3>1. st \in Seq(Step) /\ st[1] = DoFocus(next) /\ st # << >> /\ Head(st) = st[1]
      BY <2>8
    <3>2. QED
      BY <2>8, <3>1, StepOne
  <2>10. todo' = st
    BY <2>1
  <2> HIDE DEF st
  <2>11. Frees(todo) = {} /\ Frees(todo') = {} /\ FreesOnce(todo')
    <3>1. \A i \in 1 .. Len(<< >>) : FALSE
      OBVIOUS
    <3>2. QED
      BY <1>1, <2>9, <2>10, <3>1 DEF Frees, FreesOnce
  <2>12. canvases' \subseteq [id : Nat, surface : Nat]
    BY <1>1, <2>1, <2>7 DEF Types
  <2>13. us \notin OnCanvas
    BY <1>1, <2>4 DEF Surfaces
  <2>14. \A c, d \in canvases' : c.surface = d.surface => c = d
    <3>1. \A c \in canvases : c.surface # us
      BY <2>4, <2>13 DEF OnCanvas
    <3>2. \A c, d \in canvases : c.surface = d.surface => c = d
      BY <1>1 DEF Surfaces
    <3>3. QED
      BY <2>1, <2>7, <3>1, <3>2
  <2>15. {s \in Nat : \E c \in canvases' : c.surface = s} = OnCanvas \cup {us}
    <3>1. \A s : s \in {t \in Nat : \E c \in canvases' : c.surface = t} <=> s \in OnCanvas \cup {us}
      BY <2>1, <2>4, <2>7 DEF OnCanvas
    <3>2. QED
      BY <3>1
  <2>16. /\ windows' \in Seq(WindowRecord) /\ next' \in Nat \ {0} /\ surfaces' \subseteq 1 .. GFX_SURFACES - 1
         /\ Ids' /\ Surfaces' /\ Lights'
         /\ \E i \in 1 .. Len(windows') : windows'[i].id = next
    <3> DEFINE cs == {us}
    <3>1. cs \in SUBSET ((1 .. GFX_SURFACES - 1) \ (surfaces \cup {w.surf}))
      BY <2>4, <2>6
    <3>2. {s \in Nat : \E c \in canvases' : c.surface = s} = OnCanvas \cup cs
      BY <2>15
    <3>3. surfaces' = surfaces \cup {w.surf} \cup cs
      BY <2>1, <2>6
    <3>4. w.surf \in (1 .. GFX_SURFACES - 1) \ surfaces
      BY <2>4, <2>6
    <3> HIDE DEF cs
    <3>5. QED
      BY <1>2, <2>1, <2>6, <2>11, <2>12, <2>14, <3>1, <3>2, <3>3, <3>4, Opened
  <2>17. Types'
    BY <1>1, <1>2, <2>1, <2>9, <2>10, <2>12, <2>16 DEF Types
  <2>18. Live'
    BY <2>8, <2>9, <2>10, <2>16 DEF Live
  <2>19. Phase'
    BY <2>8, <2>9, <2>10, <2>18 DEF Phase, ToFocus, Todo
  <2>20. QED
    BY <1>2, <2>9, <2>10, <2>16, <2>17, <2>19 DEF Inv
<1>8. QED
  BY <1>5, <1>6, <1>7

LEMMA CloseCanvasInv ==
  ASSUME Inv, NEW c \in canvases, close_canvas(c)
  PROVE  Inv'
<1> DEFINE s == c.surface
           a == DoClose(c.id)
           b == DoFree(s)
<1>1. Types /\ Surfaces /\ Lights /\ todo = << >> /\ task # "none"
  BY DEF Inv, close_canvas
<1>2. /\ UNCHANGED <<windows, focus, pointer, drag, next, task, batch, surfaces, owner, screen, lit, rend, lost>>
      /\ canvases' = canvases \ {c}
      /\ todo' = (IF Window(c.id) # NoWindow THEN <<a>> ELSE << >>) \o <<b>>
  BY DEF close_canvas
<1>3. Quiet /\ Settled
  BY <1>1, PhaseOf DEF Inv, Quiet
<1>4. c.id \in Nat /\ s \in Nat
  BY <1>1 DEF Types
<1>5. /\ a \in Step /\ a.op = "close" /\ b \in Step /\ b.op = "free" /\ b.win.surf = s
  <2>1. b.win.surf = s
    BY <1>4, NoWindowIs DEF DoFree, WindowRecord
  <2> HIDE DEF s
  <2>2. QED
    BY <1>4, <2>1, StepsAre, OpsAre
<1> HIDE DEF a, b
<1>6. /\ todo' \in Seq(Step)
      /\ \/ Len(todo') = 2 /\ todo'[1] = a /\ todo'[2] = b
         \/ Len(todo') = 1 /\ todo'[1] = b
  <2>1. CASE todo' = <<a>> \o <<b>>
    BY <1>5, <2>1
  <2>2. CASE todo' = << >> \o <<b>>
    BY <1>5, <2>2
  <2>3. QED
    BY <1>2, <2>1, <2>2
<1>7. /\ todo' \in Seq(Step) /\ FreesOnce(todo') /\ Opening(todo') /\ Frees(todo') = {s}
  <2>1. CASE Len(todo') = 2 /\ todo'[1] = a /\ todo'[2] = b
    <3>1. /\ todo' \in Seq(Step) /\ Len(todo') = 2 /\ todo'[1] = a /\ todo'[2] = b
          /\ \A i \in 1 .. Len(todo') : i = 1 \/ i = 2
          /\ 2 \in 1 .. Len(todo')
      BY <1>6, <2>1
    <3>2. \A x : x \in Frees(todo') <=> x \in {s}
      BY <1>4, <1>5, <3>1 DEF Frees
    <3>3. Frees(todo') = {s}
      BY <3>2
    <3>4. QED
      BY <1>5, <3>1, <3>3 DEF FreesOnce, Opening
  <2>2. CASE Len(todo') = 1 /\ todo'[1] = b
    <3>1. /\ todo' \in Seq(Step) /\ Len(todo') = 1 /\ todo'[1] = b
          /\ \A i \in 1 .. Len(todo') : i = 1
          /\ 1 \in 1 .. Len(todo')
      BY <1>6, <2>2
    <3>2. \A x : x \in Frees(todo') <=> x \in {s}
      BY <1>4, <1>5, <3>1 DEF Frees
    <3>3. Frees(todo') = {s}
      BY <3>2
    <3>4. QED
      BY <1>5, <3>1, <3>3 DEF FreesOnce, Opening
  <2>3. QED
    BY <1>6, <2>1, <2>2
<1>8. Frees(todo) = {}
  <2>1. \A i \in 1 .. Len(<< >>) : FALSE
    OBVIOUS
  <2>2. QED
    BY <1>1, <2>1 DEF Frees
<1>9. s \in OnCanvas /\ OnCanvas' = OnCanvas \ {s}
  <2>1. \A d \in canvases : d.surface = s => d = c
    BY <1>1 DEF Surfaces
  <2>2. \A x : x \in {t \in Nat : \E d \in canvases' : d.surface = t} <=> x \in OnCanvas \ {s}
    BY <1>2, <2>1 DEF OnCanvas
  <2>3. QED
    BY <1>4, <2>2 DEF OnCanvas
<1> HIDE DEF s
<1>10. Types'
  BY <1>1, <1>2, <1>7 DEF Types
<1>11. Ids'
  BY <1>2 DEF Inv, Ids
<1>12. Lights'
  BY <1>1, <1>2, <1>7, <1>8 DEF Lights
<1>13. Surfaces'
  <2>1. surfaces = Held(windows) \cup OnCanvas' \cup Frees(todo') \cup lost
    BY <1>1, <1>7, <1>8, <1>9 DEF Surfaces
  <2>2. /\ Held(windows) \cap OnCanvas' = {} /\ Held(windows) \cap Frees(todo') = {}
        /\ OnCanvas' \cap Frees(todo') = {}
        /\ lost \cap (Held(windows) \cup OnCanvas' \cup Frees(todo')) = {}
    BY <1>1, <1>7, <1>8, <1>9 DEF Surfaces
  <2>3. \A d, e \in canvases' : d.surface = e.surface => d = e
    BY <1>1, <1>2 DEF Surfaces
  <2>4. QED
    BY <1>1, <1>2, <1>7, <2>1, <2>2, <2>3 DEF Surfaces
<1>14. Settled' /\ FocusOk'
  BY <1>2, <1>3 DEF Settled, Quiet, FocusOk
<1>15. Phase'
  <2>1. CASE Len(todo') = 2 /\ todo'[1] = a /\ todo'[2] = b
    <3>1. todo' # << >> /\ Head(todo') = a /\ Len(todo') = 2 /\ todo'[2] = b
      BY <1>6, <2>1
    <3>2. BackFrom(todo', 2)
      BY <1>5, <3>1 DEF BackFrom, Back
    <3>3. Todo("close")'
      BY <1>5, <3>1 DEF Todo
    <3>4. QED
      BY <1>14, <3>2, <3>3 DEF Phase, ToClose
  <2>2. CASE Len(todo') = 1 /\ todo'[1] = b
    <3>1. BackFrom(todo', 1)
      BY <1>5, <2>2 DEF BackFrom, Back
    <3>2. QED
      BY <1>14, <3>1 DEF Phase, Quiet
  <2>3. QED
    BY <1>6, <2>1, <2>2
<1>16. QED
  BY <1>1, <1>2, <1>7, <1>10, <1>11, <1>12, <1>13, <1>15 DEF Inv

-----------------------------------------------------------------------------
(***************************************************************************)
(* The theorems                                                            *)
(***************************************************************************)

\* The invariant holds initially,
LEMMA Initial ==
  ASSUME Init
  PROVE  Inv
<1>0. \A i \in 1 .. Len(<< >>) : FALSE
  OBVIOUS
<1>1. /\ windows = << >> /\ focus = None /\ pointer = <<0, 0>> /\ drag = NoDrag
      /\ next = 1 /\ task = "none" /\ batch = FALSE
      /\ surfaces = {} /\ canvases = {} /\ lost = {} /\ lit = {}
      /\ owner = [p \in Pixels |-> Desktop] /\ screen = [p \in Pixels |-> Boot]
      /\ todo = << >> /\ rend = NoWindow
  BY DEF Init
<1>2. Types
  <2>1. owner \in [Pixels -> Nat] /\ screen \in [Pixels -> Int]
    BY <1>1 DEF Desktop, Boot
  <2>2. drag \in [id : Nat, ox : Int, oy : Int] /\ focus \in Nat /\ rend \in WindowRecord
    BY <1>1, NoWindowIs DEF NoDrag, None
  <2>3. windows \in Seq(WindowRecord) /\ todo \in Seq(Step) /\ pointer \in Int \X Int
    BY <1>1
  <2>4. next \in Nat \ {0} /\ task \in {"none", "running", "dead"}
    BY <1>1
  <2>5. /\ batch \in BOOLEAN /\ canvases \subseteq [id : Nat, surface : Nat] /\ lost \subseteq Nat
        /\ surfaces \subseteq 1 .. GFX_SURFACES - 1 /\ lit \subseteq Nat
    BY <1>1, Zenon
  <2>6. QED
    BY <2>1, <2>2, <2>3, <2>4, <2>5, Zenon DEF Types
<1>3. Ids
  BY <1>0, <1>1 DEF Ids
<1>4. Held(windows) = {} /\ Frees(todo) = {} /\ OnCanvas = {} /\ Lit(windows, focus) = {}
  BY <1>0, <1>1 DEF Held, Frees, OnCanvas, Lit
<1>5. Surfaces
  BY <1>0, <1>1, <1>4 DEF Surfaces, HeldOnce, FreesOnce
<1>6. Lights
  BY <1>1, <1>4 DEF Lights
<1>7. Opening(todo)
  BY <1>0, <1>1 DEF Opening
<1>8. Quiet
  BY <1>0, <1>1 DEF Quiet, BackFrom, FocusOk
<1>9. QED
  BY <1>1, <1>2, <1>3, <1>5, <1>6, <1>7, <1>8 DEF Inv, Phase

\* is kept when nothing changes,
LEMMA Stutters ==
  ASSUME Inv, UNCHANGED vars
  PROVE  Inv'
<1>1. /\ UNCHANGED <<windows, focus, pointer, drag, next, task, batch, surfaces, canvases, owner, lit, todo, lost>>
      /\ screen' = screen /\ rend' = rend
  BY DEF vars
<1>2. rend' \in WindowRecord /\ screen' \in [Pixels -> Int]
  BY <1>1 DEF Inv, Types
<1>3. QED
  BY <1>1, <1>2, Presenting

\* and by every step.
LEMMA Inductive ==
  ASSUME Inv, Next
  PROVE  Inv'
<1>1. CASE Steps
  BY <1>1, FocusInv, RestackInv, GraphicsInv, CloseInv, FreeInv, RefocusInv, SetDragInv, DragToInv,
     MarkHelpInv, OpenInv, SpawnInv DEF Steps
<1>2. CASE Programs
  <2>1. CASE \E full \in BOOLEAN : task # "none" /\ canvas_bang(full)
    BY <2>1, CanvasInv
  <2>2. CASE \E c \in canvases : close_canvas(c)
    BY <2>2, CloseCanvasInv
  <2>3. CASE /\ ~ \E full \in BOOLEAN : task # "none" /\ canvas_bang(full)
             /\ ~ \E c \in canvases : close_canvas(c)
    <3>1. \/ Program(<<DoOpen(DefaultAt, FALSE)>>)
          \/ \E i \in DOMAIN windows :
               Program(<<DoClose(windows[i].id)>>) \/ Program(<<DoFocus(windows[i].id)>>)
      BY <1>2, <2>3 DEF Programs
    <3>2. QED
      BY <3>1, ProgramsInv
  <2>4. QED
    BY <2>1, <2>2, <2>3
<1>3. CASE \E d \in Motions : pointer_bang(d[1], d[2])
  BY <1>3, PointerInv
<1>4. QED
  BY <1>1, <1>2, <1>3, StartInv, OnPressInv, OnReleaseInv, KeysInv, EndBatchInv, RenderBeginInv,
     RenderDrawInv, RenderEndInv DEF Next

LEMMA Always == Spec => []Inv
<1>1. Init => Inv
  BY Initial
<1>2. Inv /\ [Next]_vars => Inv'
  BY Inductive, Stutters
<1>3. QED
  BY <1>1, <1>2, PTL DEF Spec

\* At rest, the last operation has done all it had to.
LEMMA AtRest ==
  ASSUME Inv, Rest
  PROVE  Settled /\ FocusOk /\ Frees(todo) = {}
<1>1. todo = << >> /\ task # "none"
  BY DEF Rest
<1>2. Quiet
  BY <1>1, PhaseOf DEF Inv
<1>3. \A i \in 1 .. Len(<< >>) : FALSE
  OBVIOUS
<1>4. QED
  BY <1>1, <1>2, <1>3 DEF Quiet, Frees

-----------------------------------------------------------------------------
(***************************************************************************)
(* Where the pixels of a window are                                        *)
(***************************************************************************)

\* Surface s will be presented by what is left of the operation.
Owed(s) == \E j \in 1 .. Len(todo) : \/ todo[j].op = "restack"
                                     \/ todo[j].op = "present" /\ todo[j].win.surf = s

\* The pixels that window w has on the screen are those of its surface that
\* belong there.
Fits(w) == \A p \in Pixels : owner[p] = w.surf /\ p \in Cells(Shape(w)) => from[p] = In(p, w)

Places == \A i \in 1 .. Len(windows) :
            Owed(windows[i].surf) \/ windows[i].surf \in shifted \/ Fits(windows[i])

\* What is owed stays owed until the step that pays it.
LEMMA OwedThen ==
  ASSUME Types, NEW op, Todo(op), NEW st \in Seq(Step), todo' = st \o Tail(todo), NEW s, Owed(s),
         op # "restack", op # "present" \/ Win.surf # s
  PROVE  Owed(s)'
<1>1. todo # << >> /\ todo[1].op = op /\ todo \in Seq(Step) /\ Win = todo[1].win
  BY HeadIs
<1>2. PICK j \in 1 .. Len(todo) : todo[j].op = "restack" \/ (todo[j].op = "present" /\ todo[j].win.surf = s)
  BY DEF Owed
<1>3. j # 1
  BY <1>1, <1>2
<1>4. /\ Len(todo') = Len(st) + Len(todo) - 1
      /\ \A i \in Len(st) + 1 .. Len(todo') : todo'[i] = todo[i - Len(st) + 1]
      /\ Len(todo) \in Nat \ {0} /\ Len(st) \in Nat /\ Len(todo') \in Nat
  BY <1>1, ThenIs
<1> DEFINE i == j - 1 + Len(st)
<1>5. i \in Len(st) + 1 .. Len(todo') /\ i - Len(st) + 1 = j /\ i \in 1 .. Len(todo')
  BY <1>3, <1>4
<1>6. todo'[i] = todo[j]
  BY <1>4, <1>5
<1>7. QED
  BY <1>2, <1>5, <1>6 DEF Owed

LEMMA OwedOn ==
  ASSUME Types, NEW op, Todo(op), op \notin {"restack", "present"}, NEW st \in Seq(Step),
         todo' = st \o Tail(todo)
  PROVE  \A s : Owed(s) => Owed(s)'
BY OwedThen

\* Nothing is owed when only steps of others are left.
LEMMA NotOwed ==
  ASSUME BackFrom(todo, 1), NEW s
  PROVE  ~Owed(s)
<1>1. \A j \in 1 .. Len(todo) : todo[j].op \in Back
  BY DEF BackFrom
<1>2. \A j \in 1 .. Len(todo) : todo[j].op # "restack" /\ todo[j].op # "present"
  BY <1>1 DEF Back
<1>3. QED
  BY <1>2 DEF Owed

\* A restack! to come will present every window.
LEMMA RestackOwed ==
  ASSUME Types, NEW op, Todo(op), Then(<<DoRestack>>)
  PROVE  Places'
<1> DEFINE st == <<DoRestack>>
<1>1. DoRestack \in Step /\ DoRestack.op = "restack"
  BY StepsAre, OpsAre
<1>2. st \in Seq(Step) /\ Len(st) = 1 /\ st[1] = DoRestack /\ todo' = st \o Tail(todo)
  BY <1>1 DEF Then
<1>3. todo # << >> /\ todo \in Seq(Step)
  BY HeadIs
<1> HIDE DEF st
<1>4. /\ Len(todo') = Len(st) + Len(todo) - 1 /\ Len(todo) \in Nat \ {0}
      /\ \A i \in 1 .. Len(st) : todo'[i] = st[i]
  <2>1. todo \in Seq(Step) /\ todo # << >> /\ st \in Seq(Step) /\ todo' = st \o Tail(todo)
    BY <1>2, <1>3
  <2>2. QED
    BY <2>1, ThenIs
<1>5. 1 \in 1 .. Len(todo') /\ todo'[1].op = "restack"
  BY <1>1, <1>2, <1>4
<1>6. \A s : Owed(s)'
  BY <1>5 DEF Owed
<1>7. QED
  BY <1>6 DEF Places

\* Steps that leave the picture alone keep Places if every window was there and
\* where it is before, or has no pixel yet.
LEMMA Kept ==
  ASSUME Places, UNCHANGED <<owner, from, shifted>>,
         \A i \in 1 .. Len(windows') :
           \/ \A p \in Pixels : owner[p] # windows'[i].surf
           \/ \E j \in 1 .. Len(windows) :
                /\ windows'[i].surf = windows[j].surf /\ Shape(windows'[i]) = Shape(windows[j])
                /\ windows'[i].x = windows[j].x /\ windows'[i].y = windows[j].y,
         \A s : Owed(s) => Owed(s)'
  PROVE  Places'
<1>1. ASSUME NEW i \in 1 .. Len(windows'), NEW j \in 1 .. Len(windows),
             windows'[i].surf = windows[j].surf, Shape(windows'[i]) = Shape(windows[j]),
             windows'[i].x = windows[j].x, windows'[i].y = windows[j].y
      PROVE  (Owed(windows[i].surf) \/ windows[i].surf \in shifted \/ Fits(windows[i]))'
  <2>1. Owed(windows[j].surf) \/ windows[j].surf \in shifted \/ Fits(windows[j])
    BY DEF Places
  <2>2. ASSUME Owed(windows[j].surf) PROVE Owed(windows[i].surf)'
    <3>1. PICK s : s = windows[j].surf
      OBVIOUS
    <3>2. Owed(s)'
      BY <2>2, <3>1
    <3>3. QED
      BY <1>1, <3>1, <3>2 DEF Owed
  <2>3. ASSUME Fits(windows[j]) PROVE Fits(windows[i])'
    BY <1>1, <2>3 DEF Fits, In
  <2>4. QED
    BY <1>1, <2>1, <2>2, <2>3
<1>2. ASSUME NEW i \in 1 .. Len(windows'), \A p \in Pixels : owner[p] # windows'[i].surf
      PROVE  Fits(windows[i])'
  BY <1>2 DEF Fits
<1>3. QED
  BY <1>1, <1>2 DEF Places

\* A step that changes neither windows nor picture, and one that begins an
\* operation
LEMMA StepKept ==
  ASSUME Inv, Places, NEW op, Todo(op), op \notin {"restack", "present"}, NEW st \in Seq(Step), Then(st),
         UNCHANGED <<windows, owner, from, shifted>>
  PROVE  Places'
<1>1. todo' = st \o Tail(todo) /\ Types
  BY DEF Then, Inv
<1>2. \A s : Owed(s) => Owed(s)'
  BY <1>1, OwedOn
<1>3. QED
  BY <1>2, Kept

LEMMA CallKept ==
  ASSUME Places, todo = << >>, UNCHANGED <<windows, owner, from, shifted>>
  PROVE  Places'
<1>1. \A j \in 1 .. Len(<< >>) : FALSE
  OBVIOUS
<1>2. \A s : ~Owed(s)
  BY <1>1 DEF Owed
<1>3. QED
  BY <1>2, Kept

\* A surface that was free has no pixel when all is settled.
LEMMA NoPixel ==
  ASSUME Inv, Settled, NEW s \in (1 .. GFX_SURFACES - 1) \ surfaces, NEW p \in Pixels
  PROVE  owner[p] # s
<1>1. OnTop(windows, Len(windows), p, owner[p]) /\ Types /\ Surfaces
  BY DEF Settled, Inv
<1>2. owner[p] = Desktop \/ owner[p] \in surfaces
  BY <1>1, HeldIs DEF OnTop
<1>3. s # Desktop
  BY WmAssumption DEF WmAssumption, Desktop
<1>4. QED
  BY <1>2, <1>3

LEMMA FocusPlaces ==
  ASSUME Inv, Places, focus_bang
  PROVE  Places'
<1>1. Types /\ Todo("focus") /\ UNCHANGED <<owner, from, shifted>>
  BY DEF Inv, focus_bang
<1>2. CASE Window(Win.id) = NoWindow
  <2>1. windows' = windows /\ Then(<< >>) /\ << >> \in Seq(Step)
    BY <1>2 DEF focus_bang
  <2>2. QED
    BY <1>1, <2>1, StepKept
<1>3. CASE Window(Win.id) # NoWindow
  <2>1. Then(<<DoRestack>>)
    BY <1>3 DEF focus_bang
  <2>2. QED
    BY <1>1, <2>1, RestackOwed
<1>4. QED
  BY <1>2, <1>3

LEMMA DragToPlaces ==
  ASSUME Inv, Places, drag_to
  PROVE  Places'
<1>1. Types /\ Todo("drag-to") /\ UNCHANGED <<owner, from, shifted>>
  BY DEF Inv, drag_to
<1>2. CASE drag = NoDrag
  <2>1. windows' = windows /\ Then(<< >>) /\ << >> \in Seq(Step)
    BY <1>2 DEF drag_to
  <2>2. QED
    BY <1>1, <2>1, StepKept
<1>3. CASE drag # NoDrag
  <2>1. Then(<<DoRestack>>)
    BY <1>3 DEF drag_to
  <2>2. QED
    BY <1>1, <2>1, RestackOwed
<1>4. QED
  BY <1>2, <1>3

\* restack! is going to present every window.
LEMMA RestackPlaces ==
  ASSUME Inv, restack_bang
  PROVE  Places'
<1> DEFINE n == Len(windows)
           st == restack(windows)
<1>1. windows' = windows /\ todo' = st \o Tail(todo)
  BY DEF restack_bang, Then
<1>2. Types /\ Todo("restack") /\ windows \in Seq(WindowRecord) /\ n \in Nat
  BY DEF Inv, Types, restack_bang
<1>3. /\ st \in Seq(Step) /\ Len(st) = 2 * n + 2
      /\ \A i \in 1 .. n : st[n + 2 + i] = DoPresent(windows[i])
  BY <1>2, RestackIs
<1>4. todo # << >> /\ todo \in Seq(Step)
  BY <1>2, HeadIs
<1> HIDE DEF st
<1>5. /\ Len(todo') = Len(st) + Len(todo) - 1 /\ Len(todo) \in Nat \ {0}
      /\ \A i \in 1 .. Len(st) : todo'[i] = st[i]
  <2>1. todo \in Seq(Step) /\ todo # << >> /\ st \in Seq(Step) /\ todo' = st \o Tail(todo)
    BY <1>1, <1>3, <1>4
  <2>2. QED
    BY <2>1, ThenIs
<1>6. ASSUME NEW i \in 1 .. n PROVE Owed(windows[i].surf)'
  <2>1. n + 2 + i \in 1 .. Len(todo') /\ n + 2 + i \in 1 .. Len(st)
    BY <1>2, <1>3, <1>5
  <2>2. todo'[n + 2 + i] = DoPresent(windows[i])
    BY <1>3, <1>5, <2>1
  <2>3. todo'[n + 2 + i].op = "present" /\ todo'[n + 2 + i].win.surf = windows'[i].surf
    <3>1. windows' = windows
      BY <1>1
    <3>2. QED
      BY <2>2, <3>1 DEF DoPresent
  <2>4. QED
    BY <2>1, <2>3 DEF Owed
<1>7. QED
  BY <1>1, <1>6 DEF Places

LEMMA GraphicsPlaces ==
  ASSUME Inv, Places, GraphicsStep
  PROVE  Places'
<1> DEFINE n == Len(windows)
<1>1. Types /\ Surfaces /\ windows \in Seq(WindowRecord) /\ n \in Nat /\ windows' = windows
  BY DEF Inv, Types, GraphicsStep
<1>2. /\ todo # << >> /\ todo' = << >> \o Tail(todo) /\ surfaces' = surfaces
      /\ \/ Todo("own") /\ UNCHANGED <<from, shifted>>
         \/ Todo("fill")
         \/ Todo("present") /\ present(Win, 0) /\ owner' = owner /\ shifted' = shifted \ {Win.surf}
  BY DEF GraphicsStep, Then
<1>3. PICK op \in {"own", "fill", "present"} : Todo(op)
  BY <1>2
<1>4. /\ todo \in Seq(Step) /\ todo[1].op = op /\ Win = todo[1].win /\ Head(todo) = todo[1]
  BY <1>1, <1>3, HeadIs
<1>5. InRestack
  BY <1>2, <1>4, PhaseOf DEF Inv
<1>6. PICK k \in 0 .. 2 * n + 1 : Restacking(k)
  BY <1>5 DEF InRestack
<1>7. /\ Len(todo) >= 2 * n + 2 - k
      /\ \A j \in 1 .. 2 * n + 2 - k : todo[j] = restack(windows)[k + j]
  BY <1>6 DEF Restacking
<1>8. \A i \in 1 .. n : restack(windows)[n + 2 + i] = DoPresent(windows[i])
  BY <1>1, RestackIs
<1>9. /\ Len(todo') = Len(todo) - 1 /\ Len(todo) \in Nat \ {0}
      /\ \A j \in 1 .. Len(todo') : todo'[j] = todo[j + 1]
  BY <1>2, <1>4
<1>10. CASE k <= n + 1
  <2>1. ASSUME NEW i \in 1 .. n PROVE Owed(windows[i].surf)'
    <3> DEFINE j == n + 1 + i - k
    <3>1. j \in 1 .. Len(todo') /\ j + 1 \in 1 .. 2 * n + 2 - k /\ k + (j + 1) = n + 2 + i
      BY <1>1, <1>7, <1>9, <1>10
    <3>2. todo'[j] = todo[j + 1] /\ todo[j + 1] = restack(windows)[k + (j + 1)]
      BY <3>1, <1>7, <1>9
    <3> HIDE DEF j
    <3>3. todo'[j] = DoPresent(windows[i])
      BY <1>8, <3>1, <3>2
    <3>4. todo'[j].op = "present" /\ todo'[j].win.surf = windows'[i].surf
      BY <1>1, <3>3 DEF DoPresent
    <3>5. QED
      BY <3>1, <3>4 DEF Owed
  <2>2. QED
    BY <1>1, <2>1 DEF Places
<1>11. CASE k > n + 1
  <2> DEFINE l == k - n - 1
             w == windows[l]
  <2>1. l \in 1 .. n
    BY <1>1, <1>11
  <2>2. todo[1] = DoPresent(w)
    BY <1>1, <1>6, <1>11, RestackHead
  <2>3. Todo("present") /\ Win = w
    BY <1>2, <1>4, <2>2 DEF Todo, DoPresent
  <2>4. \A x : Todo(x) => x = "present"
    BY <2>3 DEF Todo
  <2>5. present(w, 0) /\ owner' = owner /\ shifted' = shifted \ {w.surf}
    BY <1>2, <2>3, <2>4
  <2>6. w \in WindowRecord /\ w.surf \in surfaces
    BY <1>1, <2>1, WinsAre, HeldIs
  <2>7. Body(w, 0) = Shape(w)
    BY <2>6, BodyIs
  <2>8. \A p \in Pixels : from'[p] = IF p \in Cells(Shape(w)) /\ owner[p] = w.surf THEN In(p, w) ELSE from[p]
    BY <2>5, <2>6, <2>7 DEF present, Painted
  <2>9. ASSUME NEW i \in 1 .. n
        PROVE  Owed(windows[i].surf)' \/ windows[i].surf \in shifted' \/ Fits(windows[i])'
    <3>1. CASE i = l
      BY <3>1, <1>1, <2>5, <2>8 DEF Fits, In
    <3>2. CASE i # l
      <4>1. windows[i].surf # w.surf
        BY <3>2, <2>1, <1>1 DEF Surfaces, HeldOnce
      <4>2. Owed(windows[i].surf) => Owed(windows[i].surf)'
        <5>1. << >> \in Seq(Step)
          OBVIOUS
        <5>2. QED
          BY <5>1, <1>1, <1>2, <2>3, <4>1, OwedThen
      <4>3. Fits(windows[i]) => Fits(windows[i])'
        BY <1>1, <2>5, <2>8, <4>1 DEF Fits, In
      <4>4. QED
        BY <4>1, <4>2, <4>3, <2>5 DEF Places
    <3>3. QED
      BY <3>1, <3>2
  <2>10. QED
    BY <1>1, <2>9 DEF Places
<1>12. QED
  BY <1>1, <1>10, <1>11

LEMMA ClosePlaces ==
  ASSUME Inv, Places, close_bang
  PROVE  Places'
<1>1. Types /\ Ids /\ Todo("close") /\ UNCHANGED <<owner, from, shifted>> /\ windows \in Seq(WindowRecord)
  BY DEF Inv, Types, close_bang
<1>2. Win.id \in Nat /\ Len(windows) \in Nat
  <2>1. Win \in WindowRecord
    BY <1>1, HeadIs
  <2>2. Win.id \in Nat
    BY <2>1, RecordIs, Zenon
  <2>3. QED
    BY <1>1, <2>2
<1>3. CASE Window(Win.id) = NoWindow
  <2>1. windows' = windows /\ Then(<< >>) /\ << >> \in Seq(Step)
    BY <1>3 DEF close_bang
  <2>2. QED
    BY <1>1, <2>1, StepKept
<1>4. CASE Window(Win.id) # NoWindow
  <2>1. PICK k \in 1 .. Len(windows) :
          Window(Win.id) = windows[k] /\ Without(windows, Win.id) = RemoveAt(windows, k) /\ windows[k].id = Win.id
    BY <1>1, <1>2, <1>4, WindowIs
  <2> DEFINE st == <<DoFree(windows[k].surf), DoRefocus>>
  <2>2. windows' = RemoveAt(windows, k) /\ todo' = st \o Tail(todo)
    BY <1>4, <2>1 DEF close_bang, Then
  <2>3. st \in Seq(Step)
    <3>1. windows[k].surf \in Nat
      BY <1>1, <2>1, WinsAre
    <3>2. DoFree(windows[k].surf) \in Step /\ DoRefocus \in Step
      BY <3>1, StepsAre
    <3>3. QED
      BY <3>2
  <2> HIDE DEF st
  <2>4. \A s : Owed(s) => Owed(s)'
    BY <1>1, <2>2, <2>3, OwedOn
  <2>5. /\ Len(windows') = Len(windows) - 1
        /\ \A i \in 1 .. Len(windows) - 1 : windows'[i] = IF i < k THEN windows[i] ELSE windows[i + 1]
    BY <1>1, <2>1, <2>2, RemoveIs
  <2>6. \A i \in 1 .. Len(windows') : \E j \in 1 .. Len(windows) : windows'[i] = windows[j]
    <3>1. \A i \in 1 .. Len(windows) - 1 : i \in 1 .. Len(windows) /\ i + 1 \in 1 .. Len(windows)
      BY <1>2
    <3>2. QED
      BY <2>5, <3>1
  <2>7. QED
    BY <1>1, <2>4, <2>6, Kept
<1>5. QED
  BY <1>3, <1>4

\* A surface that is freed is no window's.
LEMMA FreePlaces ==
  ASSUME Inv, Places, surface_free
  PROVE  Places'
<1> DEFINE s == Win.surf
<1>1. Types /\ Surfaces /\ Todo("free") /\ UNCHANGED <<windows, from>>
  BY DEF Inv, surface_free
<1>2. /\ owner' = [p \in Pixels |-> IF owner[p] = s THEN Desktop ELSE owner[p]]
      /\ shifted' = shifted \ {s} /\ todo' = << >> \o Tail(todo)
  BY DEF surface_free, Then
<1>3. s \in Frees(todo)
  BY <1>1, <1>2, LastDone
<1>4. \A t : Owed(t) => Owed(t)'
  <2>1. << >> \in Seq(Step)
    OBVIOUS
  <2>2. QED
    BY <2>1, <1>1, <1>2, OwedOn
<1> HIDE DEF s
<1>5. ASSUME NEW i \in 1 .. Len(windows)
      PROVE  Owed(windows[i].surf)' \/ windows[i].surf \in shifted' \/ Fits(windows[i])'
  <2>1. windows[i].surf # s /\ windows[i].surf # Desktop
    <3>1. windows[i].surf \in Held(windows) /\ windows[i].surf # Desktop
      BY <1>1, HeldIs
    <3>2. QED
      BY <1>1, <1>3, <3>1 DEF Surfaces
  <2>2. Fits(windows[i]) => Fits(windows[i])'
    BY <1>1, <1>2, <2>1 DEF Fits, In
  <2>3. PICK t : t = windows[i].surf
    OBVIOUS
  <2>4. Owed(t) => Owed(windows[i].surf)'
    BY <1>1, <1>4, <2>3 DEF Owed
  <2>5. QED
    BY <1>2, <2>1, <2>2, <2>3, <2>4 DEF Places
<1>6. QED
  BY <1>1, <1>5 DEF Places

LEMMA RefocusPlaces ==
  ASSUME Inv, Places, Refocus
  PROVE  Places'
<1>1. Types /\ Todo("refocus") /\ UNCHANGED <<windows, owner, from, shifted>> /\ windows \in Seq(WindowRecord)
  BY DEF Inv, Types, Refocus
<1>2. CASE windows # << >> /\ focus = None
  <2>1. Then(<<DoFocus(Last(windows).id)>>)
    BY <1>2 DEF Refocus
  <2>2. Last(windows).id \in Nat
    <3>1. Len(windows) \in 1 .. Len(windows)
      BY <1>1, <1>2
    <3>2. QED
      BY <1>1, <3>1, WinsAre DEF Last
  <2>3. <<DoFocus(Last(windows).id)>> \in Seq(Step)
    <3>1. DoFocus(Last(windows).id) \in Step
      BY <2>2, StepsAre
    <3>2. QED
      BY <3>1
  <2>4. QED
    BY <1>1, <2>1, <2>3, StepKept
<1>3. CASE ~(windows # << >> /\ focus = None)
  <2>1. Then(<<DoRestack>>)
    BY <1>3 DEF Refocus
  <2>2. QED
    BY <1>1, <2>1, RestackOwed
<1>4. QED
  BY <1>2, <1>3

LEMMA MarkHelpPlaces ==
  ASSUME Inv, Places, MarkHelp
  PROVE  Places'
<1> DEFINE n == Len(windows)
<1>1. /\ Types /\ Todo("help") /\ UNCHANGED <<owner, from, shifted>> /\ windows \in Seq(WindowRecord)
      /\ DOMAIN windows = 1 .. n /\ todo' = << >> \o Tail(todo) /\ n \in Nat
  BY DEF Inv, Types, MarkHelp, Then
<1>2. windows' = [i \in 1 .. n |-> [windows[i] EXCEPT !.help = @ \/ windows[i].id = Win.id]]
  BY <1>1 DEF MarkHelp
<1>3. Len(windows') = n
  BY <1>1, <1>2
<1>4. ASSUME NEW i \in 1 .. n
      PROVE  /\ windows'[i].surf = windows[i].surf /\ Shape(windows'[i]) = Shape(windows[i])
             /\ windows'[i].x = windows[i].x /\ windows'[i].y = windows[i].y
  <2> DEFINE w == windows[i]
             b == w.help \/ w.id = Win.id
  <2>1. w \in WindowRecord /\ windows'[i] = [w EXCEPT !.help = b]
    BY <1>1, <1>2
  <2> HIDE DEF b, w
  <2>2. LET u == [w EXCEPT !.help = b] IN u.surf = w.surf /\ u.x = w.x /\ u.y = w.y /\ u.w = w.w /\ u.h = w.h
    BY <2>1 DEF WindowRecord
  <2>3. QED
    BY <2>1, <2>2 DEF w, Shape
<1>5. \A s : Owed(s) => Owed(s)'
  <2>1. << >> \in Seq(Step)
    OBVIOUS
  <2>2. QED
    BY <2>1, <1>1, OwedOn
<1>6. QED
  BY <1>1, <1>3, <1>4, <1>5, Kept

\* A new window has no pixel before its first restack!.
LEMMA AppendPlaces ==
  ASSUME Inv, Places, Settled, BackFrom(todo, 1), NEW w, w.surf \in (1 .. GFX_SURFACES - 1) \ surfaces,
         windows' = Append(windows, w), UNCHANGED <<owner, from, shifted>>
  PROVE  Places'
<1>1. Len(windows) \in Nat /\ windows \in Seq(WindowRecord)
  BY DEF Inv, Types
<1>2. /\ Len(windows') = Len(windows) + 1 /\ windows'[Len(windows) + 1] = w
      /\ \A i \in 1 .. Len(windows) : windows'[i] = windows[i]
  BY <1>1
<1>3. \A i \in 1 .. Len(windows') : i \in 1 .. Len(windows) \/ i = Len(windows) + 1
  BY <1>1, <1>2
<1>4. \A p \in Pixels : owner[p] # w.surf
  BY NoPixel
<1>5. \A s : ~Owed(s)
  BY NotOwed
<1>6. QED
  BY <1>2, <1>3, <1>4, <1>5, Kept

LEMMA OpenPlaces ==
  ASSUME Inv, Places, open_bang
  PROVE  Places'
<1>1. Types /\ Todo("open") /\ UNCHANGED <<owner, from, shifted>>
  BY DEF Inv, open_bang
<1>2. Settled /\ BackFrom(todo, 1)
  <2>1. todo # << >> /\ todo[1].op = "open"
    BY <1>1, HeadIs
  <2>2. QED
    BY <2>1, PhaseOf DEF Inv, Quiet
<1>3. CASE FreeSurfaces = {}
  <2>1. windows' = windows /\ \A s : ~Owed(s)
    BY <1>2, <1>3, NotOwed DEF open_bang
  <2>2. QED
    BY <1>1, <2>1, Kept
<1>4. CASE FreeSurfaces # {}
  <2> DEFINE s == Min(FreeSurfaces)
             x == Clamp(Win.x, Width - WinW)
             y == Clamp(Win.y, Height - WinH)
             w == [NoWindow EXCEPT !.id = next, !.surf = s, !.frame = TRUE, !.w = WinW, !.h = WinH,
                     !.x = x, !.y = y]
  <2>1. windows' = Append(windows, w)
    BY <1>4 DEF open_bang
  <2>2. s \in FreeSurfaces
    <3>1. FreeSurfaces \in SUBSET Nat
      BY WmAssumption DEF FreeSurfaces, WmAssumption
    <3>2. QED
      BY <1>4, <3>1, Least
  <2> HIDE DEF s, x, y
  <2>3. w.surf = s
    BY DEF NoWindow
  <2>4. w.surf \in (1 .. GFX_SURFACES - 1) \ surfaces
    BY <2>2, <2>3 DEF FreeSurfaces
  <2> HIDE DEF w
  <2>5. QED
    BY <1>1, <1>2, <2>1, <2>4, AppendPlaces
<1>5. QED
  BY <1>3, <1>4

LEMMA CanvasPlaces ==
  ASSUME Inv, Places, task # "none", NEW full \in BOOLEAN, canvas_bang(full)
  PROVE  Places'
<1>1. todo = << >> /\ UNCHANGED <<owner, from, shifted>> /\ Types
  BY DEF canvas_bang, Inv
<1>2. Settled /\ BackFrom(todo, 1)
  BY <1>1, PhaseOf DEF Inv, Quiet
<1> DEFINE ws == Min(FreeSurfaces)
<1>3. CASE FreeSurfaces = {} \/ FreeSurfaces = {ws}
  <2>1. windows' = windows
    BY <1>3 DEF canvas_bang
  <2>2. QED
    BY <1>1, <2>1, CallKept
<1>4. CASE FreeSurfaces # {} /\ FreeSurfaces # {ws}
  <2>1. ws \in FreeSurfaces
    <3>1. FreeSurfaces \in SUBSET Nat
      BY WmAssumption DEF FreeSurfaces, WmAssumption
    <3>2. QED
      BY <1>4, <3>1, Least
  <2>2. PICK w : windows' = Append(windows, w) /\ w.surf = ws
    BY <1>4 DEF canvas_bang
  <2>3. w.surf \in (1 .. GFX_SURFACES - 1) \ surfaces
    BY <2>1, <2>2 DEF FreeSurfaces
  <2>4. QED
    BY <1>1, <1>2, <2>2, <2>3, AppendPlaces
<1>5. QED
  BY <1>3, <1>4

\* What a renderer presents is in its place, or is known to be elsewhere.
LEMMA RenderEndPlaces ==
  ASSUME Inv, Places, RenderEnd
  PROVE  Places'
<1> DEFINE top == IF rend.canvas /\ rend.frame THEN 1 ELSE 0
<1>1. /\ UNCHANGED <<windows, owner, todo, surfaces>> /\ Types /\ Surfaces /\ rend \in WindowRecord
      /\ present(rend, top)
      /\ shifted' = IF Elsewhere(rend) THEN shifted \cup {rend.surf}
                    ELSE IF InPlace(rend) /\ ~rend.canvas THEN shifted \ {rend.surf} ELSE shifted
  BY DEF RenderEnd, Inv, Types
<1>2. ASSUME NEW i \in 1 .. Len(windows)
      PROVE  Owed(windows[i].surf)' \/ windows[i].surf \in shifted' \/ Fits(windows[i])'
  <2> DEFINE w == windows[i]
  <2>1. Owed(w.surf) => Owed(w.surf)'
    BY <1>1 DEF Owed
  <2>2. i \in DOMAIN windows
    BY <1>1 DEF Types
  <2>3. CASE w.surf # rend.surf
    <3>1. \A p \in Pixels : owner[p] = w.surf => from'[p] = from[p]
      BY <1>1, <2>3 DEF present, Painted
    <3>2. Fits(w) => Fits(w)'
      BY <1>1, <3>1 DEF Fits, In
    <3>3. w.surf \in shifted => w.surf \in shifted'
      BY <1>1, <2>3
    <3>4. QED
      BY <1>1, <2>1, <3>2, <3>3 DEF Places
  <2>4. CASE w.surf = rend.surf /\ <<w.x, w.y>> # <<rend.x, rend.y>>
    BY <1>1, <2>2, <2>4 DEF Elsewhere
  <2>5. CASE w.surf = rend.surf /\ <<w.x, w.y>> = <<rend.x, rend.y>>
    <3>1. \A j \in DOMAIN windows : windows[j].surf = rend.surf => j = i
      BY <1>1, <2>5 DEF Surfaces, HeldOnce, Types
    <3>2. ~Elsewhere(rend)
      BY <2>5, <3>1 DEF Elsewhere
    <3>3. w.x = rend.x /\ w.y = rend.y
      BY <2>5
    <3>4. \A p \in Pixels : from'[p] = In(p, w) \/ from'[p] = from[p]
      BY <1>1, <3>3 DEF present, In
    <3>5. Fits(w) => Fits(w)'
      BY <1>1, <3>4 DEF Fits, In
    <3>6. CASE InPlace(rend) /\ ~rend.canvas
      <4>1. Shape(w) = Shape(rend)
        BY <3>1, <3>6 DEF InPlace
      <4>2. top = 0 /\ Body(rend, 0) = Shape(rend)
        BY <1>1, <3>6, BodyIs
      <4>3. w.surf \in surfaces
        BY <1>1, HeldIs
      <4>4. \A p \in Pixels : owner[p] = w.surf /\ p \in Cells(Shape(w)) => from'[p] = In(p, w)
        BY <1>1, <2>5, <3>3, <4>1, <4>2, <4>3 DEF present, Painted, In
      <4>5. Fits(w)'
        BY <1>1, <4>4 DEF Fits, In
      <4>6. QED
        BY <1>1, <4>5
    <3>7. CASE ~(InPlace(rend) /\ ~rend.canvas)
      <4>1. shifted' = shifted
        BY <1>1, <3>2, <3>7
      <4>2. QED
        BY <1>1, <2>1, <3>5, <4>1 DEF Places
    <3>8. QED
      BY <3>6, <3>7
  <2>6. QED
    BY <2>3, <2>4, <2>5
<1>3. QED
  BY <1>1, <1>2 DEF Places

\* Places holds initially, is kept when nothing changes, and by every step.
LEMMA PlacesInductive ==
  ASSUME Inv, Places, Next
  PROVE  Places'
<1>1. << >> \in Seq(Step)
  OBVIOUS
<1>2. CASE Steps
  <2>1. CASE SetDrag
    <3>1. PICK op \in {"drag", "drop"} : Todo(op)
      BY <2>1 DEF SetDrag
    <3>2. Then(<< >>) /\ UNCHANGED <<windows, owner, from, shifted>>
      BY <2>1 DEF SetDrag
    <3>3. QED
      BY <1>1, <3>1, <3>2, StepKept
  <2>2. CASE Spawn
    <3>1. Todo("spawn") /\ Then(<< >>) /\ UNCHANGED <<windows, owner, from, shifted>>
      BY <2>2 DEF Spawn
    <3>2. QED
      BY <1>1, <3>1, StepKept
  <2>3. QED
    BY <1>2, <2>1, <2>2, FocusPlaces, RestackPlaces, GraphicsPlaces, ClosePlaces, FreePlaces, RefocusPlaces,
       DragToPlaces, MarkHelpPlaces, OpenPlaces DEF Steps
<1>3. CASE Programs
  <2>1. CASE \E full \in BOOLEAN : task # "none" /\ canvas_bang(full)
    BY <2>1, CanvasPlaces
  <2>2. CASE \E c \in canvases : close_canvas(c)
    <3>1. todo = << >> /\ UNCHANGED <<windows, owner, from, shifted>>
      BY <2>2 DEF close_canvas
    <3>2. QED
      BY <3>1, CallKept
  <2>3. CASE \E st : Program(st)
    <3>1. todo = << >> /\ UNCHANGED <<windows, owner, from, shifted>>
      BY <2>3 DEF Program
    <3>2. QED
      BY <3>1, CallKept
  <2>4. QED
    BY <1>3, <2>1, <2>2, <2>3 DEF Programs
<1>4. CASE \E st : Handle(st)
  <2>1. todo = << >> /\ UNCHANGED <<windows, owner, from, shifted>>
    BY <1>4 DEF Handle
  <2>2. QED
    BY <2>1, CallKept
<1>5. CASE on_press \/ OnRelease \/ wm_key
  <2>1. (OnRelease => \E st : Handle(st)) /\ (on_press => \E st : Handle(st))
    BY DEF OnRelease, on_press
  <2>2. wm_key => \E st : Handle(st)
    BY DEF wm_key, next_window, help_bang
  <2>3. QED
    BY <1>4, <1>5, <2>1, <2>2
<1>6. CASE start_bang \/ EndBatch \/ \E d \in Motions : pointer_bang(d[1], d[2])
  <2>1. todo = << >> /\ UNCHANGED <<windows, owner, from, shifted>>
    BY <1>6 DEF start_bang, EndBatch, pointer_bang
  <2>2. QED
    BY <2>1, CallKept
<1>7. CASE RenderBegin \/ RenderDraw
  <2>1. UNCHANGED <<windows, owner, from, shifted, todo>>
    BY <1>7 DEF RenderBegin, RenderDraw
  <2>2. \A s : Owed(s) => Owed(s)'
    BY <2>1 DEF Owed
  <2>3. QED
    BY <2>1, <2>2, Kept
<1>8. QED
  BY <1>2, <1>3, <1>5, <1>6, <1>7, RenderEndPlaces DEF Next

LEMMA AlwaysPlaces == Spec => []Places
<1>1. Init => Places
  <2>1. \A i \in 1 .. Len(<< >>) : FALSE
    OBVIOUS
  <2>2. QED
    BY <2>1 DEF Init, Places
<1>2. Inv /\ Places /\ [Next]_vars => Places'
  <2>1. ASSUME Places, UNCHANGED vars PROVE Places'
    <3>1. UNCHANGED <<windows, owner, from, shifted, todo>>
      BY <2>1 DEF vars
    <3>2. \A s : Owed(s) => Owed(s)'
      BY <3>1 DEF Owed
    <3>3. QED
      BY <2>1, <3>1, <3>2, Kept
  <2>2. QED
    BY <2>1, PlacesInductive
<1>3. QED
  BY <1>1, <1>2, Always, PTL DEF Spec

\* Whenever no operation is under way, each pixel shows, and belongs to, the
\* window on top there, whatever the windows' own tasks presented meanwhile and
\* wherever they believed their window to be, and what it shows of the window is
\* what lies there, unless it was last presented for another place: for any
\* screen, any number of windows and any schedule (restack!, and own! and
\* present! of the core).
THEOREM ShownAsStackedTheorem == Spec => []ShownAsStacked
<1>1. Inv /\ Places => ShownAsStacked
  <2> SUFFICES ASSUME Inv, Places, Rest, NEW p \in Pixels
               PROVE  /\ screen[p] = WindowAt(p).surf /\ owner[p] = WindowAt(p).surf
                      /\ WindowAt(p) # NoWindow /\ WindowAt(p).surf \notin shifted
                           => from[p] = In(p, WindowAt(p))
    BY DEF ShownAsStacked
  <2>1. screen[p] = owner[p] /\ OnTop(windows, Len(windows), p, owner[p])
    BY AtRest DEF Settled
  <2>2. /\ WindowAt(p).surf = owner[p]
        /\ \/ WindowAt(p) = NoWindow
           \/ \E i \in 1 .. Len(windows) : WindowAt(p) = windows[i] /\ p \in Cells(Shape(windows[i]))
    BY <2>1, TopIs DEF Inv
  <2>3. \A s : ~Owed(s)
    <3>1. \A j \in 1 .. Len(<< >>) : FALSE
      OBVIOUS
    <3>2. QED
      BY <3>1 DEF Owed, Rest
  <2>4. ASSUME NEW i \in 1 .. Len(windows), WindowAt(p) = windows[i], p \in Cells(Shape(windows[i])),
               WindowAt(p).surf \notin shifted
        PROVE  from[p] = In(p, WindowAt(p))
    <3>1. Fits(windows[i])
      BY <2>3, <2>4 DEF Places
    <3>2. QED
      BY <2>2, <2>4, <3>1 DEF Fits
  <2>5. QED
    BY <2>1, <2>2, <2>4
<1>2. QED
  BY <1>1, Always, AlwaysPlaces, PTL

\* Whenever no operation is under way, the keyboard goes to the window on top
\* and only its frame, if it has one, is drawn as the one with the focus
\* (focus!, close! and what follows them).
THEOREM FocusOnTopTheorem == Spec => []FocusOnTop
<1>1. Inv => FocusOnTop
  <2> SUFFICES ASSUME Inv, Rest
               PROVE  /\ focus = IF windows = << >> THEN None ELSE Last(windows).id
                      /\ lit = {w.surf : w \in {x \in ToSet(windows) : x.id = focus /\ x.frame}}
    BY DEF FocusOnTop
  <2>1. FocusOk /\ Frees(todo) = {} /\ windows \in Seq(WindowRecord) /\ Lights
    BY AtRest DEF Inv, Types
  <2>2. focus = IF windows = << >> THEN None ELSE Last(windows).id
    BY <2>1 DEF FocusOk, Last
  <2>3. lit = Lit(windows, focus)
    BY <2>1 DEF Lights
  <2>4. \A s : s \in Lit(windows, focus) <=> s \in {w.surf : w \in {x \in ToSet(windows) : x.id = focus /\ x.frame}}
    <3>1. ToSet(windows) = {windows[i] : i \in 1 .. Len(windows)}
      BY <2>1 DEF ToSet
    <3>2. \A i \in 1 .. Len(windows) : windows[i].surf \in Nat
      BY <2>1, WinsAre
    <3>3. QED
      BY <3>1, <3>2 DEF Lit
  <2>5. lit = {w.surf : w \in {x \in ToSet(windows) : x.id = focus /\ x.frame}}
    BY <2>3, <2>4
  <2>6. QED
    BY <2>2, <2>5
<1>2. QED
  BY <1>1, Always, PTL

\* Whenever no operation is under way, no two windows or canvases share a
\* surface and all other surfaces are free, but for those a canvas! that threw
\* kept (open!, close!, canvas!, close-canvas!).
THEOREM OwnSurfaceTheorem == Spec => []OwnSurface
<1>1. Inv => OwnSurface
  <2> SUFFICES ASSUME Inv, Rest PROVE OwnSurface
    BY DEF OwnSurface
  <2> DEFINE held == [i \in 1 .. Len(windows) |-> windows[i].surf]
  <2>1. Frees(todo) = {} /\ windows \in Seq(WindowRecord) /\ Surfaces
    BY AtRest DEF Inv, Types
  <2>2. \A i \in 1 .. Len(windows) : windows[i].surf \in Nat
    BY <2>1, WinsAre
  <2>3. ToSet(held) = Held(windows)
    <3>1. \A s : s \in ToSet(held) <=> s \in Held(windows)
      BY <2>2 DEF ToSet, Held
    <3>2. QED
      BY <3>1
  <2>4. {c.surface : c \in canvases} = OnCanvas
    <3>1. \A c \in canvases : c.surface \in Nat
      BY DEF Inv, Types
    <3>2. \A s : s \in {c.surface : c \in canvases} <=> s \in OnCanvas
      BY <3>1 DEF OnCanvas
    <3>3. QED
      BY <3>2
  <2>5. IsInjective(held)
    BY <2>1 DEF IsInjective, Surfaces, HeldOnce
  <2> HIDE DEF held
  <2>6. /\ \A c, d \in canvases : c.surface = d.surface => c = d
        /\ ToSet(held) \cap {c.surface : c \in canvases} = {}
        /\ surfaces = ToSet(held) \cup {c.surface : c \in canvases} \cup lost
    BY <2>1, <2>3, <2>4 DEF Surfaces
  <2>7. QED
    BY <2>5, <2>6 DEF OwnSurface, held
<1>2. QED
  BY <1>1, Always, PTL
=============================================================================
