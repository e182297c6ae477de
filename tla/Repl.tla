-------------------------------- MODULE Repl --------------------------------
(***************************************************************************)
(* The serial REPL, run_repl of kernel/repl_uart.c: it reads a form with   *)
(* the line editor, or with its own reader when the editor is off, failed  *)
(* or is in the middle of a form; parses it, runs what it holds form by    *)
(* form, and recovers when an interrupt key stops one.                     *)
(*                                                                         *)
(* The console is the queue of TypeAhead, which Console implements; here a *)
(* call of console_getc_nonblock is one step, the instant it takes effect. *)
(* The trap handler sets vm_interrupt_requested between any two steps.     *)
(* What the code does from the end of a line to the first form reads       *)
(* nothing that the trap handler writes, and is part of the step that ends *)
(* the line.  The reader, the compiler and the VM are external.            *)
(***************************************************************************)
EXTENDS Boot, FormText

CONSTANTS Key,             \* bytes of the serial line other than Ctrl-C
          Capacity,        \* RING_SIZE
          INPUT_SIZE, ACCUM_SIZE, MAX_UNITS,
          MaxForms,        \* bound: forms in one input
          EditorTexts,     \* what the line editor may return
          TextLength       \* bound: the texts ReadersAgree is about

ASSUME ReplAssumption ==
  /\ INPUT_SIZE \in Nat \ {0, 1} /\ ACCUM_SIZE \in Nat \ {0}
  /\ MAX_UNITS \in Nat /\ MaxForms \in Nat /\ Capacity \in Nat
  /\ Key \subseteq Visible \cup {"space", "cr", "bs"}
  /\ EditorTexts \subseteq Seq(Chars)

VARIABLES queue, condemned,        \* the console, as in TypeAhead
          reading, ctrl_c_interrupts,
          requested,               \* vm_interrupt_requested
          pc,                      \* where run_repl is
          buf, accum,              \* input as far as it is read, and accum
          left,                    \* forms of all_forms still to be run
          n_compiled_units,
          editor,                  \* beer.lineedit/enabled?: "none", "on" or "off"
          lineedit_code,           \* the call of the editor is compiled
          held,                    \* an irq-wait! is on the C stack above run_repl
          struck                   \* history: an interrupt key since the task or line began

consoleVars == <<queue, condemned>>
textVars == <<buf, accum>>
formVars == <<left, n_compiled_units>>
editVars == <<editor, lineedit_code>>
vars == <<bootVars, consoleVars, reading, ctrl_c_interrupts, requested, pc, textVars,
          formVars, editVars, held, struck>>

Init ==
  /\ BootInit
  /\ queue = <<>> /\ condemned = 0
  /\ reading = FALSE /\ ctrl_c_interrupts = TRUE
  /\ requested = FALSE
  /\ pc = "boot"
  /\ buf = <<>> /\ accum = <<>>
  /\ left = 0 /\ n_compiled_units = 0
  /\ editor = "none" /\ lineedit_code = FALSE
  /\ held = FALSE /\ struck = FALSE

\* run_repl, or beeros_main, is at this point and runs.
Runs(at) == pc = at /\ ~held

\* A boot step; lib/lineedit.beer defines enabled? with its first forms, so it
\* may be there even if the rest did not load.  A load that fails, and the run of
\* /etc/init.beer, which may end in any way, may have taken an interrupt request.
Boots ==
  /\ Runs("boot")
  /\ \/ /\ BootStep
        /\ LET s == beeros_main[booted + 1] IN
           /\ editor' \in IF "lineedit" \in loaded' \ loaded THEN {"on"}
                          ELSE IF s = Load("lineedit") THEN {"none", "on"}
                          ELSE {editor}
           /\ requested' \in IF s.do = "run_init" \/ (s.do = "load" /\ s.name \notin loaded')
                               THEN {requested, FALSE} ELSE {requested}
        /\ UNCHANGED pc
     \/ ~Booting /\ pc' = "prompt" /\ UNCHANGED <<bootVars, editor, requested>>
  /\ UNCHANGED <<held, consoleVars, reading, ctrl_c_interrupts, textVars, formVars,
                 lineedit_code, struck>>

-----------------------------------------------------------------------------
\* The trap handler

\* An interrupt key is pressed: Ctrl-\, BREAK, or Ctrl-C outside of reading.
InterruptKey ==
  /\ irq_mode
  /\ condemned' = Len(queue)
  /\ requested' = TRUE
  /\ struck' = TRUE
  /\ UNCHANGED <<bootVars, held, queue, reading, ctrl_c_interrupts, pc, textVars, formVars,
                 editVars>>

\* Any other byte arrives, Ctrl-C as a key among them.
Type ==
  /\ irq_mode
  /\ \E b \in Key \cup {"ctrl-c"} :
       /\ b = "ctrl-c" => reading \/ ~ctrl_c_interrupts
       /\ queue' = IF Len(queue) < Capacity THEN Append(queue, b) ELSE queue
  /\ UNCHANGED <<bootVars, held, condemned, reading, ctrl_c_interrupts, requested, pc, textVars, formVars,
                 editVars, struck>>

-----------------------------------------------------------------------------
\* Reading

\* console_getc_nonblock: discards what was condemned and takes the next byte,
\* or finds nothing.
Remove(n) == queue' = SubSeq(queue, n + 1, Len(queue)) /\ condemned' = 0
Nothing == Len(queue) = condemned /\ Remove(condemned)
Takes(b) ==
  /\ condemned < Len(queue)
  /\ b = queue[condemned + 1]
  /\ Remove(condemned + 1)

\* The top of the loop: the editor at the start of a form, if it is enabled and
\* its call compiles, the built-in reader otherwise.
StartEditor ==
  /\ lineedit_code' = TRUE
  /\ requested' = FALSE /\ struck' = FALSE
  /\ pc' = "edit"
  /\ UNCHANGED editor

UseReader ==
  /\ pc' = "readline"
  /\ struck' = (struck /\ accum # <<>>)
  /\ UNCHANGED <<requested, lineedit_code>>

ReadInput ==
  /\ Runs("prompt")
  /\ reading' = TRUE
  /\ buf' = <<>>
  /\ IF accum = <<>> /\ editor = "on"
       THEN \/ StartEditor
            \/ ~lineedit_code /\ editor' = "off" /\ UseReader
       ELSE UNCHANGED editor /\ UseReader
  /\ UNCHANGED <<bootVars, held, consoleVars, ctrl_c_interrupts, accum, formVars>>

\* Is it (exit), or exit, but for white space at the end?  Nothing at all?
Trimmed(text) ==
  LET ends == {i \in DOMAIN text : text[i] \notin {"space", Newline}}
      last == IF ends = {} THEN 0 ELSE CHOOSE i \in ends : \A j \in ends : j <= i
  IN  SubSeq(text, 1, last)
IsExit(text) == Trimmed(text) \in {<<"exit">>, <<"(", "exit", ")">>}

Restart == pc' = "prompt" /\ left' = 0

FullLate(text) == Len(text) = INPUT_SIZE   \* mutant: no room for the NUL
Full(text) == Len(text) = INPUT_SIZE - 1   \* of input
TooLong(text) == Len(text) >= ACCUM_SIZE   \* for accum

\* Mutant: a parse error keeps the text.
ParseKeeping(text) ==
  \/ accum' = text /\ Restart
  \/ accum' = text /\ pc' = "forms" /\ left' \in 0 .. MaxForms

\* The text is whole: reader_read_all makes forms of it, or fails and all of it
\* is dropped.
Parse(text) ==
  \/ accum' = <<>> /\ Restart
  \/ accum' = text /\ pc' = "forms" /\ left' \in 0 .. MaxForms

\* From console_set_reading(false) to the first form, with n > 0 characters.
Accept(line, whole) ==
  LET text == accum \o line
      exit == accum = <<>> /\ IsExit(line)
      blank == accum = <<>> /\ Trimmed(line) = <<>>
  IN
  /\ reading' = FALSE
  /\ buf' = <<>>
  /\ \/ exit /\ pc' = "halt" /\ UNCHANGED <<accum, left>>
     \/ blank /\ Restart /\ UNCHANGED accum
     \/ ~exit /\ ~blank /\ TooLong(text) /\ Restart /\ accum' = <<>>
     \/ /\ ~exit /\ ~blank /\ ~TooLong(text)
        /\ \/ (whole \/ TRUE \in is_form_complete(text)) /\ Parse(text)
           \/ ~whole /\ FALSE \in is_form_complete(text) /\ Restart /\ accum' = text

\* n = 0: the line is gone.
Dropped ==
  /\ reading' = FALSE
  /\ buf' = <<>> /\ accum' = <<>>
  /\ Restart

-----------------------------------------------------------------------------
\* The line editor's task

\* It takes the keys there are.
EditorKey ==
  /\ pc = "edit"
  /\ \E b \in Key \cup {"ctrl-c"} : Takes(b)
  /\ UNCHANGED <<bootVars, held, reading, ctrl_c_interrupts, requested, pc, textVars, formVars,
                 editVars, struck>>

\* It returns a text; one that does not fit the buffer is an error.
EditorReturns ==
  /\ Runs("edit")
  /\ \E text \in EditorTexts :
       IF Len(text) \in 1 .. INPUT_SIZE - 1 THEN Accept(text, TRUE) ELSE Dropped
  /\ UNCHANGED <<bootVars, held, consoleVars, ctrl_c_interrupts, requested, n_compiled_units,
                 editVars, struck>>

\* It throws, or returns no string: the built-in reader takes over.
EditorFails ==
  /\ Runs("edit")
  /\ editor' = "off"
  /\ UseReader
  /\ UNCHANGED <<bootVars, held, consoleVars, reading, ctrl_c_interrupts, textVars, formVars>>

\* The VM unwinds it: an interrupt key drops the line.
EditorInterrupted ==
  /\ Runs("edit") /\ requested
  /\ requested' = FALSE
  /\ Dropped
  /\ UNCHANGED <<bootVars, held, consoleVars, ctrl_c_interrupts, n_compiled_units, editVars, struck>>

-----------------------------------------------------------------------------
\* uart_readline

\* An interrupt key drops the line, and what was accumulated before it.
TestInterrupt ==
  /\ Runs("readline")
  /\ IF requested
       THEN requested' = FALSE /\ Dropped
       ELSE pc' = "getc" /\ UNCHANGED <<requested, reading, textVars, left>>
  /\ UNCHANGED <<bootVars, held, consoleVars, ctrl_c_interrupts, n_compiled_units, editVars, struck>>

Reads(text) ==
  /\ buf' = text /\ pc' = "readline"
  /\ UNCHANGED <<reading, accum, left>>

\* A character: the line ends at CR, or when the buffer holds no more.
GetChar ==
  /\ Runs("getc")
  /\ \E b \in Key \cup {"ctrl-c"} :
       /\ Takes(b)
       /\ CASE b = "cr"     -> Accept(Append(buf, Newline), FALSE)
            [] b = "bs"     -> Reads(IF buf = <<>> THEN buf ELSE SubSeq(buf, 1, Len(buf) - 1))
            [] b = "ctrl-c" -> Reads(buf)
            [] OTHER        -> IF Full(Append(buf, b))
                                 THEN Accept(Append(buf, b), FALSE)
                                 ELSE Reads(Append(buf, b))
  /\ UNCHANGED <<bootVars, held, ctrl_c_interrupts, requested, n_compiled_units, editVars, struck>>

\* No character: one scheduler tick, in which a task may get into irq-wait!, and
\* round again.
NoChar ==
  /\ Runs("getc")
  /\ Nothing
  /\ pc' = "readline"
  /\ held' \in BOOLEAN
  /\ UNCHANGED <<bootVars, reading, ctrl_c_interrupts, requested, textVars, formVars,
                 editVars, struck>>

-----------------------------------------------------------------------------
\* Compiling and running

FormsDone ==
  /\ Runs("forms") /\ left = 0
  /\ accum' = <<>>
  /\ Restart
  /\ UNCHANGED <<bootVars, held, consoleVars, reading, ctrl_c_interrupts, requested, buf,
                 n_compiled_units, editVars, struck>>

CompileError ==
  /\ Runs("forms") /\ left > 0
  /\ left' = left - 1
  /\ UNCHANGED <<bootVars, held, consoleVars, reading, ctrl_c_interrupts, requested, pc, textVars,
                 n_compiled_units, editVars, struck>>

\* Mutant: a key pressed before the form still counts.
RunFormNoClear ==
  /\ Runs("forms") /\ left > 0
  /\ struck' = FALSE
  /\ pc' = "run"
  /\ UNCHANGED <<bootVars, held, consoleVars, reading, ctrl_c_interrupts, textVars, formVars,
                 editVars, requested>>

\* The form is compiled and its task begins.
RunForm ==
  /\ Runs("forms") /\ left > 0
  /\ requested' = FALSE /\ struck' = FALSE
  /\ pc' = "run"
  /\ UNCHANGED <<bootVars, held, consoleVars, reading, ctrl_c_interrupts, textVars, formVars, editVars>>

\* The form, or /etc/init.beer, reads keys, sets whether Ctrl-C interrupts, or
\* turns the editor on or off.
FormActs ==
  /\ pc = "run" \/ (pc = "boot" /\ booted = Len(beeros_main) - 1)
  /\ \/ /\ \E b \in Key \cup {"ctrl-c"} : Takes(b)
        /\ UNCHANGED <<ctrl_c_interrupts, editor>>
     \/ /\ ctrl_c_interrupts' \in BOOLEAN /\ UNCHANGED <<consoleVars, editor>>
     \/ /\ editor' \in {"on", "off"}
        /\ UNCHANGED <<consoleVars, ctrl_c_interrupts>>
  /\ UNCHANGED <<bootVars, held, reading, requested, pc, textVars, formVars, lineedit_code, struck>>

\* retain_unit: what ran is kept, as functions may point into it; leaked when
\* the table is full.
retain_unit ==
  n_compiled_units' = IF n_compiled_units < MAX_UNITS THEN n_compiled_units + 1
                                                      ELSE n_compiled_units

\* The form's task ends, with a result or an error.
FormReturns ==
  /\ Runs("run")
  /\ left' = left - 1
  /\ retain_unit
  /\ pc' = "forms"
  /\ UNCHANGED <<bootVars, held, consoleVars, reading, ctrl_c_interrupts, requested, textVars,
                 editVars, struck>>

\* Mutant: the form goes on, as if it could catch the interrupt.
FormCatches ==
  /\ Runs("run") /\ requested
  /\ requested' = FALSE
  /\ retain_unit
  /\ UNCHANGED <<bootVars, held, consoleVars, reading, ctrl_c_interrupts, textVars, left, editVars,
                 struck, pc>>

\* The VM unwinds the form, which no catch stops; the rest of the input goes too.
FormInterrupted ==
  /\ Runs("run") /\ requested
  /\ requested' = FALSE
  /\ retain_unit
  /\ pc' = "recover"
  /\ UNCHANGED <<bootVars, held, consoleVars, reading, ctrl_c_interrupts, textVars, left, editVars,
                 struck>>

\* (beer.tty/recover!) has Ctrl-C interrupt again, unless it fails: the library
\* is not there, or another interrupt key stops it.
recover ==
  /\ Runs("recover")
  /\ \/ ctrl_c_interrupts' = TRUE /\ UNCHANGED requested
     \/ /\ "tty" \notin loaded \/ requested
        /\ ctrl_c_interrupts' \in {ctrl_c_interrupts, TRUE} /\ requested' = FALSE
  /\ accum' = <<>>
  /\ Restart
  /\ UNCHANGED <<bootVars, held, consoleVars, reading, buf, n_compiled_units, editVars, struck>>

\* The form, the editor, or a task that runs in the ticks of their frame calls
\* irq-wait!, which runs ticks of its own and looks at no request: until its
\* interrupt comes, nothing returns to run_repl (see Irq).
irq_wait ==
  /\ pc \in {"boot", "edit", "run", "recover"} /\ ~held
  /\ held' = TRUE
  /\ UNCHANGED <<bootVars, consoleVars, reading, ctrl_c_interrupts, requested, pc, textVars,
                 formVars, editVars, struck>>

irq_wait_returns ==
  /\ held /\ held' = FALSE
  /\ UNCHANGED <<bootVars, consoleVars, reading, ctrl_c_interrupts, requested, pc, textVars,
                 formVars, editVars, struck>>

ReplStep ==
  \/ ReadInput
  \/ EditorReturns \/ EditorFails \/ EditorInterrupted
  \/ TestInterrupt \/ GetChar \/ NoChar
  \/ FormsDone \/ CompileError \/ RunForm \/ FormReturns \/ FormInterrupted \/ recover

Next ==
  \/ Boots \/ InterruptKey \/ Type \/ EditorKey \/ FormActs \/ ReplStep
  \/ irq_wait \/ irq_wait_returns

\* The hart runs the loop; the VM delivers an interrupt between two quanta of the
\* task it runs, unless an irq-wait! is in the way, and the boot comes to its end
\* (/etc/init.beer too).  Nothing makes a form, the editor or an irq-wait! return,
\* or the user type.
Fairness ==
  /\ WF_vars(Boots)
  /\ WF_vars(ReadInput)
  /\ WF_vars(TestInterrupt) /\ WF_vars(GetChar \/ NoChar)
  /\ WF_vars(FormsDone \/ CompileError \/ RunForm)
  /\ WF_vars(FormInterrupted \/ EditorInterrupted)
  /\ WF_vars(recover)

Spec == Init /\ [][Next]_vars
FairSpec == Spec /\ Fairness

-----------------------------------------------------------------------------
\* Type invariant of the loop.
TypeOK ==
  /\ reading \in BOOLEAN /\ ctrl_c_interrupts \in BOOLEAN /\ requested \in BOOLEAN
  /\ pc \in {"boot", "prompt", "edit", "readline", "getc", "forms", "run", "recover", "halt"}
  /\ queue \in Seq(Key \cup {"ctrl-c"}) /\ condemned \in Nat
  /\ buf \in Seq(Chars) /\ accum \in Seq(Chars)
  /\ left \in 0 .. MaxForms
  /\ n_compiled_units \in 0 .. MAX_UNITS
  /\ editor \in {"none", "on", "off"} /\ lineedit_code \in BOOLEAN
  /\ held \in BOOLEAN /\ struck \in BOOLEAN

\* Neither buffer is written past its end: uart_readline always has room for one
\* more character and the terminating NUL (a longer line is cut and goes on as
\* the next one), and accum is dropped rather than filled.  The console never
\* holds back more than it has.
RoomForNul ==
  /\ Len(buf) + 1 < INPUT_SIZE
  /\ Len(accum) < ACCUM_SIZE
  /\ condemned <= Len(queue) /\ Len(queue) <= Capacity

\* "keys pressed before the form don't stop it" (repl_uart.c:375): a request that
\* the VM would deliver to a form or to the line editor comes from a key pressed
\* while that form or line was under way, not from one pressed at boot, at the
\* prompt, during an earlier form, or while the form before it was printed.
StopsOnlyItsForm == pc \in {"edit", "run"} /\ requested => struck

\* A text that was whole is run or dropped, and never met again: on every way
\* back to the prompt - parse errors, an overflow, an interrupt, the end of the
\* forms - what is still accumulated is the beginning of a form, and nothing is
\* left to run.  The editor is not asked for a line in the middle of a form.
NoFormLeftOver ==
  /\ pc \in {"prompt", "readline", "getc"} =>
       left = 0 /\ (accum # <<>> => FALSE \in is_form_complete(accum))
  /\ pc = "edit" => accum = <<>>

Texts == {Append(t, Newline) : t \in UNION {[1 .. n -> Chars \ {"exit"}] : n \in 0 .. TextLength}}

\* The built-in reader and the line editor, which replace each other in the
\* middle of a session, agree on what a whole form is.  (A fact of the two
\* functions: one state is enough to look at it.)
ReadersAgree ==
  booted > 0 \/ \A text \in Texts : Plain(text) => is_form_complete(text) = {form_complete(text)}

\* "A running program owns the console; the user needs a way back that the
\* program can't block" (docs/packages.md:120): whoever keeps pressing an
\* interrupt key gets to the prompt again and again, though one press can be lost
\* when the form it was meant for ends by itself, and though the boot, the editor
\* and recover! may fail.  "Not covered: a task stuck inside a C native that never
\* returns" (line 141), which irq-wait! is, also that of a spawned task: from some
\* time on there is none.
WayBack ==
  []<><<InterruptKey>>_vars /\ <>[]~held => []<>(reading \/ pc = "halt")

\* "At the prompt Ctrl-\ drops the line being edited" (docs/console.md:54): no
\* line of the built-in reader is run after an interrupt key was pressed in the
\* middle of it.  The code does not keep this: the key may come after the test of
\* uart_readline, together with the CR that the call after the test returns.
InterruptDropsLine == [][pc = "getc" /\ pc' = "forms" => ~struck]_vars
=============================================================================
