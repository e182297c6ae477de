------------------------------ MODULE LineEdit ------------------------------
(***************************************************************************)
(* lib/lineedit.beer on the terminal of term.beer: the editor keeps a line *)
(* and writes text that must make the screen show it.  The terminal is the *)
(* one of Term, with the same put_char, line_feed, move_to and erasing; a  *)
(* control sequence comes as one token.  The editor never looks at the     *)
(* screen, so its next key may as well come when all it wrote is drawn.    *)
(*                                                                         *)
(* Another REPL shares the history and the kill ring (docs/console.md:150) *)
(* and may change them between any two keys.  Whether a text is a whole    *)
(* form (FormText) and what a symbol completes to are left open here.      *)
(***************************************************************************)
EXTENDS Term, FiniteSets

Seqs == INSTANCE SequencesExt

CONSTANTS Prompt, ContinuationPrompt,
          Typed,               \* what a key or a completion may insert: Chars and Space
          FirstHistory,        \* the history to begin with
          OtherLines,          \* what the other REPL reads or kills
          history_max,
          MaxKeys              \* bound: keys, and steps of the other REPL

\* A line of any length
Text == Seq(Chars \cup {Space})

ASSUME LineEditAssumption ==
  /\ Prompt \in Text /\ ContinuationPrompt \in Text
  /\ Typed \subseteq Chars \cup {Space}
  /\ FirstHistory \in Seq(Text) /\ OtherLines \subseteq Text
  /\ history_max \in Nat /\ MaxKeys \in Nat

VARIABLES history, kill_ring,             \* shared by all REPLs
          lines,                          \* read-form's lines so far, as one text
          prompt, buf, pos, crow,         \* the line being edited
          hist, saved_line,               \* hist: the index in history, or Nil
          last_tab,                       \* the last key was Tab
          reader,                         \* "start" of a line, "keys" or "done"
          out,                            \* written and not drawn yet
          keys

\* History: the rows above the prompt as they were, less those scrolled off; what
\* was typed; how a line ended.
VARIABLES earlier, typed, tail

shared == <<history, kill_ring>>
line == <<lines, prompt, buf, pos, hist, saved_line, typed>>
rest == <<drawn_cursor, mode, private, params, sequences, task, saved, cursor>>
editVars == <<grid, at, pen, rest, shared, line, crow, last_tab, reader, out, keys, earlier, tail>>

Old(r) == [c |-> "o", fg |-> r, bg |-> default_bg]   \* output of earlier programs, by row

EditInit ==
  /\ pen = Plain
  /\ cells = [p \in Position |-> Old(p[2])] /\ px = cells
  /\ cx \in 0 .. cols - 1 /\ cy \in 0 .. rows - 1
  /\ wrap \in {FALSE, cx = cols - 1} /\ next_line = FALSE
  /\ saved = None /\ cursor = TRUE /\ drawn_cursor = None
  /\ mode = "ground" /\ private = FALSE /\ params = <<Nil>>
  /\ task = "feeding" /\ sequences = 0
  /\ history = FirstHistory /\ kill_ring = <<>>
  /\ lines = <<>> /\ prompt = Prompt /\ buf = <<>> /\ pos = 0 /\ crow = 0
  /\ hist = Nil /\ saved_line = <<>> /\ last_tab = FALSE
  /\ reader = "start" /\ out = <<>> /\ keys = 0
  /\ earlier = <<>> /\ typed = <<>> /\ tail = <<>>

-----------------------------------------------------------------------------
\* The terminal

Row(y) == [x \in 0 .. cols - 1 |-> cells[<<x, y>>]]
RowsAbove(y) == [i \in 1 .. y |-> Row(i - 1)]

Put(c) == <<"put", c>>
Seven == <<"m", 7>>
Zero == <<"m", 0>>
Up(k) == IF k > 0 THEN <<<<"A", k>>>> ELSE <<>>
Right(k) == IF k > 0 THEN <<<<"C", k>>>> ELSE <<>>
CR == <<"cr", 0>>
CRLF == <<CR, <<"lf", 0>>>>
Texts(cs) == [i \in DOMAIN cs |-> Put(cs[i])]
Mark == <<"mark", 0>>          \* no output: a prompt begins at this row

Draw ==
  /\ out # <<>>
  /\ out' = Tail(out)
  /\ LET do == Head(out)[1]
         k == Head(out)[2]
         scrolls == cy = rows - 1 /\ (do = "lf" \/ (do = "put" /\ wrap))
     IN
     /\ \/ do = "put" /\ put_char(k) /\ UNCHANGED pen
        \/ do = "cr" /\ cx' = 0 /\ wrap' = FALSE /\ next_line' = FALSE
           /\ UNCHANGED <<cy, grid, pen>>
        \/ do = "lf" /\ line_feed /\ wrap' = FALSE /\ next_line' = FALSE
           /\ UNCHANGED <<cx, pen>>
        \/ do = "A" /\ move_to(cx, cy - k) /\ UNCHANGED <<grid, pen>>
        \/ do = "C" /\ move_to(cx + k, cy) /\ UNCHANGED <<grid, pen>>
        \/ do = "H" /\ move_to(0, 0) /\ UNCHANGED <<grid, pen>>
        \/ do = "J" /\ Erase(IF k = 2 THEN Position ELSE Region("J")) /\ UNCHANGED <<at, pen>>
        \/ do = "m" /\ pen' = (IF k = 7 THEN [pen EXCEPT !.inverse = TRUE] ELSE Plain)
           /\ UNCHANGED <<grid, at>>
        \/ do = "mark" /\ UNCHANGED <<grid, at, pen>>
     /\ earlier' = IF do = "mark" THEN RowsAbove(cy)
                   ELSE IF scrolls /\ earlier # <<>> THEN Tail(earlier) ELSE earlier
  /\ UNCHANGED <<rest, shared, line, crow, last_tab, reader, keys, tail>>

-----------------------------------------------------------------------------
\* Rendering

\* match-before: the opener on top of the stack at the closer i (from 1), or 0
match_before(cs, i) ==
  LET stack[j \in 0 .. i - 1] ==
        IF j = 0 THEN <<>>
        ELSE CASE cs[j] = "(" -> <<j>> \o stack[j - 1]
               [] cs[j] = ")" -> IF stack[j - 1] = <<>> THEN <<>> ELSE Tail(stack[j - 1])
               [] OTHER       -> stack[j - 1]
  IN  IF stack[i - 1] = <<>> THEN 0 ELSE Head(stack[i - 1])

Highlighted(cs, p, final) == IF ~final /\ p > 0 THEN IF cs[p] = ")" THEN match_before(cs, p) ELSE 0 ELSE 0

\* Mutant: no CR LF at the right edge.
RenderNoEdge(cs, p, from, final) ==
  LET hl == Highlighted(cs, p, final)
      end == Len(prompt) + Len(cs)
      at_ == Len(prompt) + p
  IN  Up(from) \o <<CR>> \o Texts(prompt)
      \o Texts(SubSeq(cs, 1, hl - 1))
      \o (IF hl = 0 THEN <<>> ELSE <<Seven, Put(cs[hl]), Zero>>)
      \o Texts(SubSeq(cs, hl + 1, Len(cs))) \o <<<<"J", 0>>>>
      \o Up(end \div cols - at_ \div cols) \o <<CR>> \o Right(at_ % cols)

\* What render! writes for the line cs with the cursor at p, which it left from
\* rows below the prompt
Rendered(cs, p, from, final) ==
  LET hl == Highlighted(cs, p, final)
      end == Len(prompt) + Len(cs)
      at_ == Len(prompt) + p
  IN  Up(from) \o <<CR>> \o Texts(prompt)
      \o Texts(SubSeq(cs, 1, hl - 1))
      \o (IF hl = 0 THEN <<>> ELSE <<Seven, Put(cs[hl]), Zero>>)
      \o Texts(SubSeq(cs, hl + 1, Len(cs))) \o <<<<"J", 0>>>>
      \o (IF end > 0 /\ end % cols = 0 THEN CRLF ELSE <<>>)
      \o Up(end \div cols - at_ \div cols) \o <<CR>> \o Right(at_ % cols)

\* Mutant: the row of the end of the line is taken for the cursor's.
RenderEndRow(before, from) ==
  /\ out' = before \o Rendered(buf', pos', from, FALSE)
  /\ crow' = (Len(prompt) + Len(buf')) \div cols

\* render! after some output, the cursor now from rows below the prompt
render(before, from) ==
  /\ out' = before \o Rendered(buf', pos', from, FALSE)
  /\ crow' = (Len(prompt) + pos') \div cols

\* read-line: an empty line after the prompt
read_line ==
  /\ reader = "start" /\ out = <<>>
  /\ reader' = "keys"
  /\ buf' = <<>> /\ pos' = 0 /\ hist' = Nil /\ saved_line' = <<>> /\ last_tab' = FALSE
  /\ typed' = <<>> /\ tail' = <<>>
  /\ render(<<Mark>>, 0)
  /\ UNCHANGED <<grid, at, pen, rest, shared, lines, prompt, keys, earlier>>

-----------------------------------------------------------------------------
\* Editing

Key == reader = "keys" /\ out = <<>> /\ keys < MaxKeys /\ keys' = keys + 1
Shows == UNCHANGED <<grid, at, pen, rest, reader, earlier, tail, lines, prompt>>

\* A key that leaves the history and the shared state alone; typed follows the
\* line while no line of the history is shown.
Edit ==
  /\ typed' = IF hist = Nil THEN buf' ELSE typed
  /\ last_tab' = FALSE
  /\ render(<<>>, crow)
  /\ UNCHANGED <<hist, saved_line, history>>
  /\ Shows

Fits(cs) == Len(Prompt) + Len(cs) < cols * rows /\ Len(ContinuationPrompt) + Len(cs) < cols * rows

insert(cs) ==
  /\ Fits(buf \o cs)     \* bound: lines that fit the screen
  /\ buf' = SubSeq(buf, 1, pos) \o cs \o SubSeq(buf, pos + 1, Len(buf))
  /\ pos' = pos + Len(cs)

\* delete-range, of the characters after from up to and with to
delete_range(from, to) ==
  /\ buf' = SubSeq(buf, 1, from) \o SubSeq(buf, to + 1, Len(buf))
  /\ pos' = from

word_char(c) == c \notin {Space, "(", ")"}

\* word-left and word-right: to the beginning of the word before, to the end of
\* the one after
word_left ==
  LET begins == {p \in 0 .. pos - 1 : word_char(buf[p + 1]) /\ (p > 0 => ~word_char(buf[p]))}
  IN  IF begins = {} THEN 0 ELSE CHOOSE p \in begins : \A q \in begins : q <= p
word_right ==
  LET ends == {p \in pos + 1 .. Len(buf) :
                 word_char(buf[p]) /\ (p < Len(buf) => ~word_char(buf[p + 1]))}
  IN  IF ends = {} THEN Len(buf) ELSE CHOOSE p \in ends : \A q \in ends : q >= p

Moves == {Greatest(0, pos - 1), Least(Len(buf), pos + 1), 0, Len(buf), word_left, word_right}

Type == Key /\ (\E c \in Typed : insert(<<c>>)) /\ Edit /\ UNCHANGED kill_ring
Move == Key /\ buf' = buf /\ pos' \in Moves /\ Edit /\ UNCHANGED kill_ring
Delete ==
  /\ Key
  /\ \/ pos > 0 /\ delete_range(pos - 1, pos)
     \/ pos < Len(buf) /\ delete_range(pos, pos + 1)
  /\ Edit /\ UNCHANGED kill_ring

\* C-k, C-u, C-w and M-d
kill ==
  /\ Key
  /\ \E r \in {<<pos, Len(buf)>>, <<0, pos>>, <<word_left, pos>>, <<pos, word_right>>} :
       /\ kill_ring' = SubSeq(buf, r[1] + 1, r[2])
       /\ delete_range(r[1], r[2])
  /\ Edit

Yank == Key /\ insert(kill_ring) /\ Edit /\ UNCHANGED kill_ring

\* history-move.  The index of the entry to show, Nil for the line being typed
Target_(dir) ==
  IF hist = Nil THEN IF dir < 0 /\ Len(history) > 0 THEN Len(history) - 1 ELSE Nil
  ELSE IF dir < 0 THEN Greatest(0, hist - 1)
  ELSE IF hist + 1 < Len(history) THEN hist + 1 ELSE Nil

\* Mutant: every move saves the line that is shown.
SavedAlways == buf

SavedLine == IF hist = Nil THEN buf ELSE saved_line

history_move ==
  /\ Key
  /\ \E dir \in {-1, 1} :
       LET j == Target_(dir) IN
       /\ hist' = j
       /\ saved_line' = SavedLine
       /\ IF j = Nil /\ hist = Nil THEN UNCHANGED <<buf, pos>>
          ELSE /\ buf' = IF j = Nil THEN SavedLine ELSE history[j + 1]
               /\ pos' = Len(buf')
  /\ last_tab' = FALSE
  /\ render(<<>>, crow)
  /\ UNCHANGED <<shared, typed>> /\ Shows

\* complete: what the candidates have in common is inserted; a second Tab lists
\* them if that is nothing.
complete ==
  /\ Key
  /\ last_tab' = TRUE
  /\ \/ \E cs \in {<<>>} \cup {<<c>> : c \in Typed} :
          /\ cs # <<>> => pos > 0 /\ word_char(buf[pos])
          /\ insert(cs) /\ render(<<>>, crow)
     \/ /\ last_tab /\ pos > 0 /\ word_char(buf[pos])
        /\ UNCHANGED <<buf, pos>>
        /\ render(CRLF \o <<Put("o")>> \o CRLF \o <<Mark>>, 0)
  /\ typed' = IF hist = Nil THEN buf' ELSE typed
  /\ UNCHANGED <<hist, saved_line, shared>> /\ Shows

\* C-l
Clear ==
  /\ Key
  /\ UNCHANGED <<buf, pos>>
  /\ last_tab' = FALSE
  /\ render(<<<<"H", 0>>, <<"J", 2>>, Mark>>, 0)
  /\ UNCHANGED <<hist, saved_line, shared, typed>> /\ Shows

-----------------------------------------------------------------------------
\* The end of a line

\* The text without the spaces around it
trim(text) ==
  LET from == Seqs!SelectInSeq(text, LAMBDA c : c # Space)
      to == Seqs!SelectLastInSeq(text, LAMBDA c : c # Space)
  IN  IF to = 0 THEN <<>> ELSE SubSeq(text, from, to)

\* remember!: the last history_max texts, no two the same in a row; the lines of
\* a form are one text, a space between them.
Remembered(h, text) ==
  IF text = <<>> \/ (h # <<>> /\ text = h[Len(h)]) THEN h
  ELSE IF Len(h) + 1 > history_max THEN Tail(Append(h, text)) ELSE Append(h, text)

\* finish!: the line as it is, without the mark, the tail, and a new line unless
\* the cursor is at the beginning of one
finish(ends) ==
  /\ out' = Rendered(buf, Len(buf), crow, TRUE) \o Texts(ends)
            \o (IF ends = <<>> /\ Len(prompt \o buf) > 0 /\ Len(prompt \o buf) % cols = 0
                  THEN <<>> ELSE CRLF)
  /\ tail' = ends
  /\ reader' = "done"

\* Enter: the lines are a form (or blank), or another line is to follow.
Enter ==
  /\ Key
  /\ finish(<<>>)
  /\ LET text == lines \o buf IN
     \/ /\ Fits(trim(text))    \* bound: lines that fit the screen
        /\ history' = Remembered(history, trim(text))
        /\ lines' = <<>>
     \/ /\ trim(text) # <<>> /\ Fits(text)
        /\ lines' = Append(text, Space)
        /\ UNCHANGED history
  /\ UNCHANGED <<grid, at, pen, rest, kill_ring, prompt, buf, pos, hist, saved_line, typed, crow,
                 last_tab, earlier>>

\* C-c: the whole form is given up.
Cancel ==
  /\ Key
  /\ finish(<<"^", "C">>)
  /\ lines' = <<>>
  /\ UNCHANGED <<grid, at, pen, rest, shared, prompt, buf, pos, hist, saved_line, typed, crow,
                 last_tab, earlier>>

\* read-form goes on with another line, or is called again.
NextLine ==
  /\ reader = "done" /\ out = <<>>
  /\ reader' = "start"
  /\ prompt' = IF lines = <<>> THEN Prompt ELSE ContinuationPrompt
  /\ UNCHANGED <<grid, at, pen, rest, shared, lines, buf, pos, hist, saved_line, typed, crow,
                 last_tab, out, keys, earlier, tail>>

\* The other REPL remembers a line, or kills one.
OtherRepl ==
  /\ keys < MaxKeys /\ keys' = keys + 1
  /\ out = <<>>
  /\ \E text \in OtherLines :
       \/ history' = Remembered(history, text) /\ UNCHANGED kill_ring
       \/ kill_ring' = text /\ UNCHANGED history
  /\ UNCHANGED <<grid, at, pen, rest, line, crow, last_tab, reader, out, earlier, tail>>

EditNext ==
  \/ Draw \/ read_line \/ NextLine \/ OtherRepl
  \/ Type \/ Move \/ Delete \/ kill \/ Yank \/ history_move \/ complete \/ Clear \/ Enter
  \/ Cancel
EditSpec == EditInit /\ [][EditNext]_editVars

-----------------------------------------------------------------------------
\* What the screen is to show, row by row

Looks(c, pn) == [c |-> c, fg |-> pen_fg(pn), bg |-> pen_bg(pn)]

\* The opener that the text between it and the closer before the cursor leaves
\* open, inverted.
Balanced(cs) ==
  LET count(k, c) == Cardinality({i \in 1 .. k : cs[i] = c}) IN
  /\ count(Len(cs), "(") = count(Len(cs), ")")
  /\ \A k \in 0 .. Len(cs) : count(k, "(") >= count(k, ")")
Matching(i) ==
  /\ reader = "keys" /\ pos > i
  /\ buf[pos] = ")" /\ buf[i] = "("
  /\ Balanced(SubSeq(buf, i + 1, pos - 1))

\* The cells of the prompt, the line and what ends it
Shown ==
  LET mark(i) == IF Matching(i) THEN [Plain EXCEPT !.inverse = TRUE] ELSE Plain IN
  [i \in DOMAIN prompt |-> Looks(prompt[i], Plain)]
  \o [i \in DOMAIN buf |-> Looks(buf[i], mark(i))]
  \o [i \in DOMAIN tail |-> Looks(tail[i], Plain)]

\* Where the k-th of those cells is, on a screen with the prompt in row top
CellAt(k, top) == <<(k - 1) % cols, top + (k - 1) \div cols>>

\* The row of the prompt; after the line, the cursor is in the row below it.
Top == IF reader = "keys" THEN cy - crow
       ELSE cy - (Len(Shown) + cols - 1) \div cols

\* The last cell of a prompt and line that end at the right edge
AtEdge(k) == k = Len(prompt) + Len(buf) /\ k % cols = 0

Steady == out = <<>> /\ reader # "start"

\* Everything the line is made of is on the screen, in order from the prompt's
\* row, whatever is still there of it after scrolling, and nothing else below;
\* the cursor stands where the next character would go.  This is the whole of
\* render!: the row arithmetic, the wrap at the right edge, the erasing, and the
\* scrolling they cause.  The one cell that render! gets wrong is left out here:
\* see EdgeShown.
ScreenShowsLine ==
  Steady =>
    /\ \A k \in DOMAIN Shown :
         LET p == CellAt(k, Top) IN p \in Position /\ ~AtEdge(k) => cells[p] = Shown[k]
    /\ \A p \in Position : p[2] >= Top /\ (p[2] - Top) * cols + p[1] >= Len(Shown) =>
                             cells[p].c = Space
    /\ reader = "keys" => /\ <<cx, cy>> = CellAt(Len(prompt) + pos + 1, Top)
                          /\ Top \in 0 .. rows - 1
    /\ reader = "done" => cx = 0
    /\ pen = Plain /\ ~wrap

\* The rows above the prompt are those that were there when the prompt was drawn,
\* scrolled up together with it: going up to the prompt's row (:crow) never goes
\* too far, and never writes over what programs or earlier lines left.
EarlierKept == Steady => RowsAbove(Greatest(0, Top)) = earlier

\* Walking the history: the index is always one of an entry, though another REPL
\* remembers lines meanwhile and the oldest go (else nth throws and the REPL turns
\* the editor off); and whoever comes back finds the line as it was typed.
HistoryWalk ==
  /\ hist # Nil => hist \in 0 .. Len(history) - 1
  /\ hist = Nil => buf = typed
  /\ pos \in 0 .. Len(buf)

\* "text ending exactly at the right edge leaves the cursor waiting to wrap; a CR
\* LF puts it at the start of the next row" (lineedit.beer:109): it is shown all
\* the same.  The code does not keep this: the erasing (CSI J) comes before the
\* CR LF, and term.beer erases from the cursor's cell, which is still that of the
\* last character.
EdgeShown ==
  Steady => \A k \in DOMAIN Shown :
              LET p == CellAt(k, Top) IN p \in Position /\ AtEdge(k) => cells[p] = Shown[k]
=============================================================================
