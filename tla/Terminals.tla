----------------------------- MODULE Terminals -----------------------------
(***************************************************************************)
(* How text reaches the terminals: the capture streams of kernel/console.c *)
(* and the input side of rootfs/lib/beer/term.beer.  Each terminal has a   *)
(* renderer, which drains its queue and its capture slots, and a program   *)
(* (its REPL) that prints into the slot with-term got for it.  The tasks   *)
(* the program spawns inherit *out* and outlive it.  Tasks are preempted   *)
(* between any two of these steps; natives and swap! are atomic.           *)
(*                                                                         *)
(* A writer prints one long text, byte by byte.  Its characters have two   *)
(* bytes, the odd ones lead; a CR put before an LF is a byte like another. *)
(* Text is what the emulator, Term, is fed; it may end a control sequence  *)
(* with a parameter that feed cannot read.                                 *)
(***************************************************************************)
EXTENDS Integers, Sequences, FiniteSets, Functions

CONSTANTS Terms,
          Tasks, ParentOf,        \* tasks the programs may spawn; each one's terminal
          CAPTURES, CAPTURE_MAX,
          Malformed,              \* items that may end such a control sequence
          MaxBytes,               \* bound: bytes each writer prints
          MaxWrites               \* bound: calls of write! for each terminal

Writers == Terms \cup Tasks

ASSUME TerminalsAssumption ==
  /\ CAPTURES \in Nat \ {0} /\ CAPTURE_MAX \in Nat \ {0}
  /\ ParentOf \in [Tasks -> Terms] /\ Tasks \cap Terms = {}
  /\ MaxBytes \in [Writers -> Nat] /\ MaxWrites \in [Terms -> Nat]
  /\ "queue" \notin Writers

VARIABLES captures,               \* slot -> used, buf
          queue, slots, closing,  \* the atom (:in @t) of each terminal
          renderer,               \* pc, and q, left and outs of pending-text
          program,                \* pc, the slot of its stream, and doomed:
                                  \* interrupt! was called for it
          spawned                 \* the tasks that run

\* History: bytes each writer printed; calls of write!; what each terminal has
\* been fed; bytes dropped at a full buffer, with a released slot or by a stream
\* that failed; and second bytes behind whose first another writer's byte came.
VARIABLES said, written, drawn, dropped, torn

in == <<queue, slots, closing>>
history == <<said, written, drawn, dropped, torn>>
vars == <<captures, in, renderer, program, spawned, history>>

Slot == 0 .. CAPTURES - 1
NoSlot == -1
Byte(t, k) == [by |-> t, k |-> k]
Text(t, k) == [by |-> "queue", k |-> k]      \* the k-th text given to write!
Items == [by : Writers \cup {"queue"}, k : Nat]

\* The terminal whose stream w prints to
Home(w) == IF w \in Tasks THEN ParentOf[w] ELSE w

Idle == [pc |-> "idle", q |-> << >>, left |-> << >>, outs |-> << >>]

Init ==
  /\ captures = [i \in Slot |-> [used |-> FALSE, buf |-> << >>]]
  /\ queue = [t \in Terms |-> << >>] /\ slots = [t \in Terms |-> << >>]
  /\ closing = [t \in Terms |-> FALSE]
  /\ renderer = [t \in Terms |-> [Idle EXCEPT !.pc = "none"]]
  /\ program = [t \in Terms |-> [pc |-> "none", slot |-> NoSlot, doomed |-> FALSE]]
  /\ spawned = {} /\ said = [w \in Writers |-> 0]
  /\ written = [t \in Terms |-> 0] /\ drawn = [t \in Terms |-> << >>]
  /\ dropped = {} /\ torn = {}

\* start!, and the task of the REPL
start(t) ==
  /\ renderer[t].pc = "none"
  /\ renderer' = [renderer EXCEPT ![t].pc = "idle"]
  /\ program' = [program EXCEPT ![t].pc = "start"]
  /\ UNCHANGED <<captures, in, spawned, history>>

write(t) ==
  /\ written[t] < MaxWrites[t]
  /\ written' = [written EXCEPT ![t] = @ + 1]
  /\ queue' = [queue EXCEPT ![t] = Append(@, Text(t, written[t] + 1))]
  /\ UNCHANGED <<captures, slots, closing, renderer, program, spawned, said, drawn, dropped, torn>>

-----------------------------------------------------------------------------
\* with-term and the REPL in it.  An interrupt is delivered between two steps.

At(t, pc) == program[t].pc = pc
Goto(t, pc) == program' = [program EXCEPT ![t].pc = pc]

\* Mutant: a slot in use is given again.
AllSlots == Slot

FreeSlots == {i \in Slot : ~captures[i].used}
capture_stream(t) ==
  /\ At(t, "start")
  /\ \/ /\ FreeSlots = {} /\ Goto(t, "gone")
        /\ UNCHANGED captures
     \/ \E i \in FreeSlots :
          /\ \A j \in FreeSlots : i <= j
          /\ captures' = [captures EXCEPT ![i] = [used |-> TRUE, buf |-> << >>]]
          /\ program' = [program EXCEPT ![t].pc = "attach", ![t].slot = i]
  /\ UNCHANGED <<in, renderer, spawned, history>>

attach_output(t) ==
  /\ At(t, "attach") /\ Goto(t, "loop")
  /\ slots' = [slots EXCEPT ![t] = Append(@, program[t].slot)]
  /\ UNCHANGED <<captures, queue, closing, renderer, spawned, history>>

\* The loop of repl: a form inside its try, or out of with-term
repl(t) ==
  /\ \/ At(t, "loop") /\ ~closing[t] /\ Goto(t, "form")
     \/ At(t, "loop") /\ closing[t] /\ Goto(t, "release")
     \/ At(t, "form") /\ Goto(t, "loop")
  /\ UNCHANGED <<captures, in, renderer, spawned, history>>

capture_put(buf, b) == IF Len(buf) >= CAPTURE_MAX THEN buf ELSE Append(buf, b)

\* A form spawns a task, which has the program's bindings.
spawn(w) ==
  /\ At(ParentOf[w], "form") /\ w \notin spawned
  /\ spawned' = spawned \cup {w}
  /\ UNCHANGED <<captures, in, renderer, program, history>>

Leads(b) == b.by # "queue" /\ b.k % 2 = 1

\* The second byte of a character that w's next byte comes in between
Torn(buf, w) ==
  {Byte(b.by, b.k + 1) : b \in {x \in Range(buf) : buf[Len(buf)] = x /\ Leads(x) /\ x.by # w}}

\* Any stream whose slot is used, whoever has it now
console_capture_write(w) ==
  LET i == program[Home(w)].slot
      b == Byte(w, said[w] + 1)
      fits == captures[i].used /\ Len(captures[i].buf) < CAPTURE_MAX
  IN
  /\ w \in spawned \/ (w \in Terms /\ At(w, "form"))
  /\ said[w] < MaxBytes[w]
  /\ said' = [said EXCEPT ![w] = @ + 1]
  /\ captures' = IF captures[i].used THEN [captures EXCEPT ![i].buf = capture_put(@, b)] ELSE captures
  /\ torn' = IF fits THEN torn \cup Torn(captures[i].buf, w) ELSE torn
  /\ dropped' = IF fits THEN dropped ELSE dropped \cup {b}
  /\ UNCHANGED <<in, renderer, program, spawned, written, drawn>>

\* The finally of with-term
release_output(t) ==
  LET i == program[t].slot IN
  /\ At(t, "release")
  /\ captures' = [captures EXCEPT ![i] = [used |-> FALSE, buf |-> << >>]]
  /\ dropped' = dropped \cup Range(captures[i].buf)
  /\ Goto(t, "gone")
  /\ UNCHANGED <<in, renderer, spawned, said, written, drawn, torn>>

\* Ctrl-\ for the REPL, once with-term has set it up
interrupt_key(t) ==
  /\ program[t].pc \in {"loop", "form"}
  /\ program' = [program EXCEPT ![t].doomed = TRUE]
  /\ UNCHANGED <<captures, in, renderer, spawned, history>>

close(t) ==
  /\ renderer[t].pc # "none" /\ ~closing[t]
  /\ closing' = [closing EXCEPT ![t] = TRUE]
  /\ program' = [program EXCEPT ![t].doomed = TRUE]
  /\ UNCHANGED <<captures, queue, slots, renderer, spawned, history>>

\* The interrupt reaches the program: caught around a form, else it unwinds
\* to the finally of with-term, or past it if its try is not entered yet.
Unwind(t) ==
  /\ program[t].doomed /\ program[t].pc # "release"
  /\ program' = [program EXCEPT ![t].doomed = FALSE, ![t].pc =
       CASE @ = "form" -> "loop" [] @ = "loop" -> "release" [] OTHER -> "gone"]
  /\ UNCHANGED <<captures, in, renderer, spawned, history>>

-----------------------------------------------------------------------------
\* The renderer's loop

\* Mutant: the slots are drained only together with the queue.
RenderQueued(t) ==
  /\ renderer[t].pc = "idle"
  /\ renderer' = [renderer EXCEPT ![t] =
       IF closing[t] THEN [Idle EXCEPT !.pc = "gone"]
       ELSE [pc |-> "taking", q |-> queue[t], outs |-> << >>,
             left |-> IF queue[t] = << >> THEN << >> ELSE slots[t]]]
  /\ UNCHANGED <<captures, in, program, spawned, history>>

\* pending-text reads the queue and which slots there are.
RenderBegin(t) ==
  /\ renderer[t].pc = "idle"
  /\ renderer' = [renderer EXCEPT ![t] =
       IF closing[t] THEN [Idle EXCEPT !.pc = "gone"]
       ELSE [pc |-> "taking", q |-> queue[t], left |-> slots[t], outs |-> << >>]]
  /\ UNCHANGED <<captures, in, program, spawned, history>>

\* Mutant: a character is taken as far as it has come.
NoTail(buf) == 0

\* Bytes of an incomplete character at the end of buf
utf8_tail(buf) == IF buf # << >> /\ Leads(buf[Len(buf)]) THEN 1 ELSE 0

take_output(t) ==
  LET i == Head(renderer[t].left)
      buf == captures[i].buf
      keep == utf8_tail(buf)
  IN
  /\ renderer[t].pc = "taking" /\ renderer[t].left # << >>
  /\ captures' = [captures EXCEPT ![i].buf = SubSeq(buf, Len(buf) - keep + 1, Len(buf))]
  /\ renderer' = [renderer EXCEPT ![t].left = Tail(@),
                                  ![t].outs = @ \o SubSeq(buf, 1, Len(buf) - keep)]
  /\ UNCHANGED <<in, program, spawned, history>>

\* Mutant: the queue is emptied.
QueueEmptied(t) == << >>

\* drop (count q): what write! added meanwhile stays.
QueueAfter(t) == SubSeq(queue[t], Len(renderer[t].q) + 1, Len(queue[t]))

PendingText(t) ==
  /\ renderer[t].pc = "taking" /\ renderer[t].left = << >>
  /\ queue' = IF renderer[t].q = << >> THEN queue ELSE [queue EXCEPT ![t] = QueueAfter(t)]
  /\ renderer' = [renderer EXCEPT ![t] =
       IF renderer[t].outs \o renderer[t].q = << >> THEN Idle ELSE [@ EXCEPT !.pc = "drawing"]]
  /\ UNCHANGED <<captures, slots, closing, program, spawned, history>>

\* feed and the present of the window
Draw(t) ==
  /\ renderer[t].pc = "drawing"
  /\ drawn' = [drawn EXCEPT ![t] = @ \o renderer[t].outs \o renderer[t].q]
  /\ renderer' = [renderer EXCEPT ![t] = Idle]
  /\ UNCHANGED <<captures, in, program, spawned, said, written, dropped, torn>>

\* feed throws, in parse-params: the task of the renderer ends, with the text
\* in its hands.  Whether it does depends on the text around the item.
Throw(t) ==
  /\ renderer[t].pc = "drawing"
  /\ \E x \in Range(renderer[t].outs \o renderer[t].q) : x \in Malformed
  /\ renderer' = [renderer EXCEPT ![t].pc = "failed"]
  /\ UNCHANGED <<captures, in, program, spawned, history>>

render(t) == RenderBegin(t) \/ take_output(t) \/ PendingText(t) \/ Draw(t) \/ Throw(t)

Next ==
  \/ \E t \in Terms :
       \/ start(t) \/ write(t)
       \/ capture_stream(t) \/ attach_output(t) \/ repl(t) \/ release_output(t)
       \/ interrupt_key(t) \/ close(t) \/ Unwind(t)
       \/ render(t)
  \/ \E w \in Tasks : spawn(w)
  \/ \E w \in Writers : console_capture_write(w)

Spec == Init /\ [][Next]_vars

\* The scheduler serves every task that can run.
FairSpec == Spec /\ \A t \in Terms : WF_vars(render(t))

-----------------------------------------------------------------------------
\* Every item that is on its way to terminal t, in the order it will be fed
Fed(t) == drawn[t] \o renderer[t].outs \o renderer[t].q

Gone(t) == program[t].pc = "gone"

\* The terminals have had the same slot, and one of their programs is gone.
PassedOn(t, u) == program[t].slot = program[u].slot /\ (Gone(t) \/ Gone(u))

\* What a terminal shows comes from write!, from its program and from the tasks
\* that spawned; and from others only where a slot went from one program to the
\* next: another program's output once its own is gone (its renderer still drains
\* the slot), another one's tasks' once either is gone (they still print to it).
OwnOutput ==
  \A t \in Terms : \A i \in DOMAIN Fed(t) :
    LET w == Fed(t)[i].by IN
    \/ w = "queue" \/ Home(w) = t
    \/ PassedOn(t, Home(w)) /\ (w \in Terms => Gone(t))

\* Of each writer, and of the texts given to write!, a terminal is fed what
\* it gets in order, nothing twice; and characters whole, unless a full buffer
\* dropped the rest of one or another writer came between its bytes.
FedInOrder ==
  \A t \in Terms :
    /\ \A i, j \in DOMAIN Fed(t) : i < j /\ Fed(t)[i].by = Fed(t)[j].by => Fed(t)[i].k < Fed(t)[j].k
    /\ \A i \in DOMAIN drawn[t] :
         LET b == drawn[t][i] IN
         Leads(b) =>
           \/ Byte(b.by, b.k + 1) \in dropped \cup torn
           \/ i < Len(drawn[t]) /\ drawn[t][i + 1] = Byte(b.by, b.k + 1)

\* Nothing gets lost between the tasks: a byte that was printed waits in the
\* writer's slot, is in some renderer's hands or drawn, or was dropped because
\* the buffer was full or the slot released; a text given to write! waits or is
\* fed to its terminal.  (A renderer that failed keeps in its hands what it has.)
Accounted ==
  /\ \A w \in Writers : \A k \in 1 .. said[w] :
       \/ Byte(w, k) \in dropped
       \/ Byte(w, k) \in Range(captures[program[Home(w)].slot].buf)
       \/ \E u \in Terms : Byte(w, k) \in Range(Fed(u))
  /\ \A t \in Terms : \A k \in 1 .. written[t] : Text(t, k) \in Range(queue[t] \o Fed(t))

\* All texts given to write! and all whole characters printed by the program and
\* its tasks are drawn on t, but for what a full buffer or a released slot
\* dropped, and what another renderer took out of a slot that was passed on.
CaughtUp(t) ==
  /\ \A k \in 1 .. written[t] : Text(t, k) \in Range(drawn[t])
  /\ \A w \in Writers : Home(w) = t => \A k \in 1 .. said[w] : k % 2 = 0 =>
       \/ Byte(w, k) \in dropped \cup Range(drawn[t])
       \/ \E u \in Terms \ {t} : PassedOn(t, u) /\ Byte(w, k) \in Range(Fed(u))

\* Whenever text is given to an open terminal, its renderer catches up with it,
\* whatever the program, the interrupts and the other terminals do, unless it is
\* given a control sequence that feed cannot read.
EventuallyDrawn ==
  \A t \in Terms : []<>(\/ renderer[t].pc = "none" \/ closing[t] \/ CaughtUp(t)
                        \/ \E x \in Range(Fed(t)) : x \in Malformed)

\* What with-term's comment and docs/console.md say of the program and of the
\* tasks it spawns: what they print lands on their terminal.  The code does not
\* keep it for a slot that is released and taken again.
LandsHere ==
  \A t \in Terms : \A i \in DOMAIN Fed(t) :
    Fed(t)[i].by = "queue" \/ Home(Fed(t)[i].by) = t

\* No text given to an open terminal makes its renderer end.  The code does not
\* keep it for a parameter that read-string cannot read.
RendererLives == \A t \in Terms : renderer[t].pc # "failed"
=============================================================================
