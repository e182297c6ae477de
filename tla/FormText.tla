------------------------------ MODULE FormText ------------------------------
(***************************************************************************)
(* Is the text typed so far a whole form?  The REPL asks twice, in two     *)
(* languages: is_form_complete of kernel/repl_uart.c for its own reader,   *)
(* and form-complete? of lib/lineedit.beer in the line editor.  Both scan  *)
(* the text once; here a scan goes character by character through modes.   *)
(*                                                                         *)
(* Of a bracket only its direction matters to either, so one pair stands   *)
(* for all three; "x" is any other visible character and "exit" that word. *)
(* "space" is a space or a tab; no other control character gets in a text. *)
(***************************************************************************)
EXTENDS Integers, Sequences

Newline == "nl"
Visible == {"(", ")", "quote", "semi", "backslash", "comma", "x", "exit"}
Chars == Visible \cup {"space", Newline}

Start == [mode |-> "code", depth |-> 0, content |-> FALSE]

Enter(st, mode) == [st EXCEPT !.mode = mode]
Content(st)     == [st EXCEPT !.content = TRUE]
Bracket(st, ch) == [st EXCEPT !.depth = IF ch = "(" THEN @ + 1 ELSE @ - 1,
                              !.content = @ \/ ch = "("]

\* One character inside a string, after its backslash, or in a comment
Inside(st, ch) ==
  CASE st.mode = "string"  -> Enter(st, CASE ch = "backslash" -> "escape"
                                          [] ch = "quote"     -> "code"
                                          [] OTHER            -> "string")
    [] st.mode = "escape"  -> Enter(st, "string")
    [] st.mode = "char"    -> Enter(st, "code")
    [] st.mode = "comment" -> Enter(st, IF ch = Newline THEN "code" ELSE "comment")

Plainly(st, ch) == IF ch \in Visible THEN Content(st) ELSE st

\* Mutant: the brackets of a comment count.
ScanCommented(st, ch) ==
  IF st.mode # "code" THEN Inside(st, ch)
  ELSE CASE ch = "quote"      -> Enter(Content(st), "string")
         [] ch \in {"(", ")"} -> Bracket(st, ch)
         [] OTHER             -> Plainly(st, ch)

\* The switch of is_form_complete.  A backslash or a comma outside a string is
\* content and no more.
Scan(st, ch) ==
  IF st.mode # "code" THEN Inside(st, ch)
  ELSE CASE ch = "quote"      -> Enter(Content(st), "string")
         [] ch = "semi"       -> Enter(st, "comment")
         [] ch \in {"(", ")"} -> Bracket(st, ch)
         [] OTHER             -> Plainly(st, ch)

\* The cond of form-complete?, where a backslash also hides the next character
\* and a comma is white space.
EditorScan(st, ch) ==
  IF st.mode # "code" THEN Inside(st, ch)
  ELSE CASE ch = "quote"      -> Enter(Content(st), "string")
         [] ch = "backslash"  -> Enter(Content(st), "char")
         [] ch = "semi"       -> Enter(st, "comment")
         [] ch \in {"(", ")"} -> Bracket(st, ch)
         [] ch = "comma"      -> st
         [] OTHER             -> Plainly(st, ch)

After(text) ==
  LET scan[n \in 0 .. Len(text)] == IF n = 0 THEN Start ELSE Scan(scan[n - 1], text[n])
  IN  scan[Len(text)]
EditorAfter(text) ==
  LET scan[n \in 0 .. Len(text)] == IF n = 0 THEN Start ELSE EditorScan(scan[n - 1], text[n])
  IN  scan[Len(text)]

\* What is_form_complete may answer.  The loop that skips a comment stops at the
\* terminating NUL, and the loop around it then steps past: it goes on with
\* whatever the buffer held before, so a text that ends in a comment (a line
\* that filled the buffer) gets either answer.
is_form_complete(text) ==
  IF After(text).mode = "comment"
    THEN BOOLEAN
    ELSE {After(text).content /\ After(text).depth <= 0}

form_complete(text) ==
  /\ EditorAfter(text).content /\ EditorAfter(text).depth <= 0
  /\ EditorAfter(text).mode \notin {"string", "escape"}

\* The texts on which the two agree: whole lines that do not end inside a string
\* and use no character literal, in which a comma, unless in a string or a
\* comment, comes after something that is content to both.
Plain(text) ==
  /\ Len(text) > 0 /\ text[Len(text)] = Newline
  /\ After(text).mode = "code"
  /\ \A i \in DOMAIN text :
       LET before == After(SubSeq(text, 1, i - 1)) IN
       /\ text[i] = "backslash" => before.mode \in {"string", "escape", "comment"}
       /\ text[i] = "comma" => before.mode # "code" \/ before.content
=============================================================================
