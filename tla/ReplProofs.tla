----------------------------- MODULE ReplProofs -----------------------------
(***************************************************************************)
(* Proofs about the serial REPL, for buffers of every size, every boot and *)
(* whatever the line editor returns: the buffers are never overrun, a form *)
(* is stopped only by a key pressed while it runs, no text is run twice, a *)
(* step of the boot fails only for a cause, and the two readers agree on   *)
(* when a text of whole lines is a form, if it has no character literal    *)
(* and no comma before its first content.                                  *)
(***************************************************************************)
EXTENDS Repl, SequenceTheorems, WellFoundedInduction, TLAPS

Byte == Key \cup {"ctrl-c"}

\* What the safety properties rest on besides the types: the loop runs a form
\* only while one is left, and comes from the boot, to the editor and out of it
\* with nothing accumulated.
PlaceOK ==
  /\ pc = "run" => left > 0
  /\ pc \in {"boot", "edit"} => accum = <<>> /\ left = 0

LEMMA Sizes ==
  /\ INPUT_SIZE \in Nat /\ INPUT_SIZE >= 2
  /\ ACCUM_SIZE \in Nat /\ ACCUM_SIZE >= 1
  /\ MAX_UNITS \in Nat /\ MaxForms \in Nat /\ Capacity \in Nat
BY ReplAssumption

LEMMA Typed ==
  ASSUME NEW b \in Byte, b \notin {"cr", "bs", "ctrl-c"}
  PROVE  b \in Chars
BY ReplAssumption DEF Byte, Chars

-----------------------------------------------------------------------------
\* The console's queue

QueueOK == queue \in Seq(Byte) /\ condemned \in Nat /\ condemned <= Len(queue) /\ Len(queue) <= Capacity

\* Taking bytes keeps the queue in order; a byte that is taken was typed.
LEMMA RemoveKeeps ==
  ASSUME QueueOK, NEW k \in 0 .. Len(queue), Remove(k)
  PROVE  QueueOK'
<1>1. SubSeq(queue, k + 1, Len(queue)) \in Seq(Byte)
  BY SubSeqProperties DEF QueueOK
<1>2. Len(SubSeq(queue, k + 1, Len(queue))) = Len(queue) - k
  BY SubSeqProperties, SMT DEF QueueOK
<1> QED BY <1>1, <1>2, Sizes, LenProperties DEF QueueOK, Remove

LEMMA TakesKeeps ==
  ASSUME QueueOK, NEW b, Takes(b)
  PROVE  QueueOK' /\ b \in Byte
<1>1. condemned + 1 \in 0 .. Len(queue) /\ condemned + 1 \in 1 .. Len(queue)
  BY LenProperties DEF QueueOK, Takes
<1>2. b \in Byte BY <1>1, ElementOfSeq DEF QueueOK, Takes
<1>3. Remove(condemned + 1) BY DEF Takes
<1> QED BY <1>1, <1>2, <1>3, RemoveKeeps

LEMMA NothingKeeps ==
  ASSUME QueueOK, Nothing
  PROVE  QueueOK'
<1>1. condemned \in 0 .. Len(queue) BY LenProperties DEF QueueOK
<1> QED BY <1>1, RemoveKeeps DEF Nothing

-----------------------------------------------------------------------------
\* Text

TextOK ==
  /\ buf \in Seq(Chars) /\ accum \in Seq(Chars)
  /\ Len(buf) + 1 < INPUT_SIZE /\ Len(accum) < ACCUM_SIZE
  /\ left \in 0 .. MaxForms

\* A text that the loop goes back to the prompt with is the beginning of a form.
Unfinished == left = 0 /\ (accum # <<>> => FALSE \in is_form_complete(accum))

LEMMA EmptyText == <<>> \in Seq(Chars) /\ Len(<<>>) = 0 /\ 0 \in 0 .. MaxForms
BY Sizes

LEMMA NewText ==
  ASSUME buf' = <<>>, accum' \in Seq(Chars), Len(accum') < ACCUM_SIZE, left' \in 0 .. MaxForms
  PROVE  TextOK'
BY EmptyText, Sizes DEF TextOK

LEMMA NoText ==
  ASSUME buf' = <<>>, accum' = <<>>, Restart
  PROVE  TextOK' /\ Unfinished' /\ pc' = "prompt"
<1>1. Len(accum') < ACCUM_SIZE BY EmptyText, Sizes
<1>2. TextOK' BY <1>1, EmptyText, NewText DEF Restart
<1>3. Unfinished' BY Zenon DEF Restart, Unfinished
<1> QED BY <1>2, <1>3 DEF Restart

\* Where a line leads: out of the loop, to its forms, or back to the prompt with
\* what it begins.
LEMMA AcceptKeeps ==
  ASSUME TextOK, Unfinished, NEW line \in Seq(Chars), NEW whole \in BOOLEAN, Accept(line, whole)
  PROVE  /\ reading' = FALSE /\ TextOK' /\ pc' \in {"halt", "forms", "prompt"}
         /\ pc' = "prompt" => Unfinished'
<1> DEFINE text == accum \o line
           blank == accum = <<>> /\ Trimmed(line) = <<>>
<1>1. text \in Seq(Chars) /\ Len(text) \in Nat
  BY ConcatProperties, LenProperties DEF TextOK
<1>2. reading' = FALSE /\ buf' = <<>> BY Zenon DEF Accept
<1>3. \/ pc' = "halt" /\ UNCHANGED <<accum, left>>
      \/ blank /\ Restart /\ UNCHANGED accum
      \/ Restart /\ accum' = <<>>
      \/ ~TooLong(text) /\ Parse(text)
      \/ ~TooLong(text) /\ FALSE \in is_form_complete(text) /\ Restart /\ accum' = text
  BY Zenon DEF Accept
<1> HIDE DEF text
<1>4. CASE pc' = "halt" /\ UNCHANGED <<accum, left>>
  <2>1. TextOK' BY <1>2, <1>4, NewText DEF TextOK
  <2> QED BY <1>2, <1>4, <2>1
<1>5. CASE Restart /\ accum' = <<>>
  BY <1>2, <1>5, NoText, Zenon
<1>6. CASE blank /\ Restart /\ UNCHANGED accum
  BY <1>5, <1>6
<1>7. CASE ~TooLong(text) /\ Parse(text)
  <2>1. Len(text) < ACCUM_SIZE BY <1>1, <1>7, Sizes DEF TooLong
  <2>2. CASE accum' = text /\ pc' = "forms" /\ left' \in 0 .. MaxForms
    <3>1. TextOK' BY <1>1, <1>2, <2>1, <2>2, NewText
    <3> QED BY <1>2, <2>2, <3>1
  <2> QED BY <1>5, <1>7, <2>2 DEF Parse
<1>8. CASE ~TooLong(text) /\ FALSE \in is_form_complete(text) /\ Restart /\ accum' = text
  <2>1. Len(text) < ACCUM_SIZE BY <1>1, <1>8, Sizes DEF TooLong
  <2>2. TextOK' BY <1>1, <1>2, <1>8, <2>1, EmptyText, NewText DEF Restart
  <2>3. Unfinished' BY <1>8, Zenon DEF Restart, Unfinished
  <2> QED BY <1>2, <1>8, <2>2, <2>3 DEF Restart
<1> QED BY <1>3, <1>4, <1>5, <1>6, <1>7, <1>8

LEMMA DroppedKeeps ==
  ASSUME TextOK, Dropped
  PROVE  reading' = FALSE /\ TextOK' /\ pc' = "prompt" /\ Unfinished'
BY NoText, Zenon DEF Dropped

-----------------------------------------------------------------------------
\* The invariant, split as the actions change it

Flags ==
  /\ reading \in BOOLEAN /\ ctrl_c_interrupts \in BOOLEAN /\ requested \in BOOLEAN
  /\ n_compiled_units \in 0 .. MAX_UNITS
  /\ editor \in {"none", "on", "off"} /\ lineedit_code \in BOOLEAN /\ struck \in BOOLEAN

Place ==
  /\ pc \in {"boot", "prompt", "edit", "readline", "getc", "forms", "run", "recover", "halt"}
  /\ pc \in {"prompt", "readline", "getc"} => Unfinished
  /\ PlaceOK

\* The inductive invariant
IInv == Flags /\ QueueOK /\ TextOK /\ Place /\ StopsOnlyItsForm

LEMMA InvariantGives == IInv => (held \in BOOLEAN => TypeOK) /\ RoomForNul /\ NoFormLeftOver
<1> SUFFICES ASSUME IInv PROVE (held \in BOOLEAN => TypeOK) /\ RoomForNul /\ NoFormLeftOver OBVIOUS
<1>1. held \in BOOLEAN => TypeOK BY DEF IInv, Flags, QueueOK, TextOK, Place, TypeOK, Byte
<1>2. RoomForNul BY DEF IInv, QueueOK, TextOK, RoomForNul
<1>3. NoFormLeftOver BY DEF IInv, Place, PlaceOK, Unfinished, NoFormLeftOver
<1> QED BY <1>1, <1>2, <1>3

\* The loop begins in the invariant.
LEMMA Initially == Init => IInv
<1> SUFFICES ASSUME Init PROVE IInv OBVIOUS
<1>1. Flags
  <2>1. 0 \in 0 .. MAX_UNITS BY Sizes
  <2> QED BY <2>1, Zenon DEF Init, Flags
<1>2. QueueOK BY Sizes DEF Init, QueueOK
<1>3. TextOK BY EmptyText, Sizes DEF Init, TextOK
<1>4. Place
  <2>1. pc = "boot" /\ accum = <<>> /\ left = 0 BY DEF Init
  <2> QED BY <2>1 DEF Place, PlaceOK
<1>5. StopsOnlyItsForm BY DEF Init, StopsOnlyItsForm
<1> QED BY <1>1, <1>2, <1>3, <1>4, <1>5 DEF IInv

-----------------------------------------------------------------------------
\* One lemma per action

LEMMA BootsKeeps == IInv /\ Boots => IInv'
<1> SUFFICES ASSUME IInv, Boots PROVE IInv' OBVIOUS
<1>0. Flags /\ QueueOK /\ TextOK /\ Place /\ StopsOnlyItsForm BY DEF IInv
<1>1. pc = "boot" /\ pc' \in {"boot", "prompt"} BY DEF Runs, Boots
<1>2. UNCHANGED <<queue, condemned, reading, ctrl_c_interrupts, buf, accum, left,
                  n_compiled_units, lineedit_code, struck>>
  BY DEF Runs, Boots, consoleVars, textVars, formVars
<1>3. editor' \in {"none", "on", "off"} /\ requested' \in BOOLEAN
  BY <1>0, Zenon DEF Runs, Boots, Flags
<1>4. Flags' BY <1>0, <1>2, <1>3, Zenon DEF Flags
<1>5. QueueOK' /\ TextOK' BY <1>0, <1>2 DEF QueueOK, TextOK
<1>6. Place' BY <1>0, <1>1, <1>2 DEF Place, PlaceOK, Unfinished
<1>7. StopsOnlyItsForm' BY <1>1 DEF StopsOnlyItsForm
<1> QED BY <1>4, <1>5, <1>6, <1>7 DEF IInv

LEMMA InterruptKeyKeeps == IInv /\ InterruptKey => IInv'
<1> SUFFICES ASSUME IInv, InterruptKey PROVE IInv' OBVIOUS
<1>0. Flags /\ QueueOK /\ TextOK /\ Place /\ StopsOnlyItsForm BY DEF IInv
<1>1. UNCHANGED <<queue, reading, ctrl_c_interrupts, pc, buf, accum, left,
                  n_compiled_units, editor, lineedit_code>>
  BY DEF InterruptKey, textVars, formVars, editVars
<1>2. condemned' = Len(queue) /\ requested' = TRUE /\ struck' = TRUE BY DEF InterruptKey
<1>3. Flags' BY <1>0, <1>1, <1>2, Zenon DEF Flags
<1>4. QueueOK' BY <1>0, <1>1, <1>2, LenProperties DEF QueueOK
<1>5. TextOK' /\ Place' BY <1>0, <1>1 DEF TextOK, Place, PlaceOK, Unfinished
<1>6. StopsOnlyItsForm' BY <1>2 DEF StopsOnlyItsForm
<1> QED BY <1>3, <1>4, <1>5, <1>6 DEF IInv

LEMMA TypeKeeps == IInv /\ Type => IInv'
<1> SUFFICES ASSUME IInv, Type PROVE IInv' OBVIOUS
<1>0. Flags /\ QueueOK /\ TextOK /\ Place /\ StopsOnlyItsForm BY DEF IInv
<1>1. UNCHANGED <<condemned, reading, ctrl_c_interrupts, requested, pc, buf, accum, left,
                  n_compiled_units, editor, lineedit_code, struck>>
  BY DEF Type, textVars, formVars, editVars
<1>2. PICK b \in Byte : queue' = IF Len(queue) < Capacity THEN Append(queue, b) ELSE queue
  BY DEF Type, Byte
<1>3. QueueOK'
  <2>1. CASE Len(queue) < Capacity
    <3>1. queue' \in Seq(Byte) /\ Len(queue') = Len(queue) + 1
      BY <1>0, <1>2, <2>1, AppendProperties DEF QueueOK
    <3> QED BY <1>0, <1>1, <2>1, <3>1, Sizes, LenProperties DEF QueueOK
  <2>2. CASE ~(Len(queue) < Capacity) BY <1>0, <1>1, <1>2, <2>2 DEF QueueOK
  <2> QED BY <2>1, <2>2
<1>4. Flags' BY <1>0, <1>1 DEF Flags
<1>5. TextOK' /\ Place' BY <1>0, <1>1 DEF TextOK, Place, PlaceOK, Unfinished
<1>6. StopsOnlyItsForm' BY <1>0, <1>1 DEF StopsOnlyItsForm
<1> QED BY <1>3, <1>4, <1>5, <1>6 DEF IInv

LEMMA ReadInputKeeps == IInv /\ ReadInput => IInv'
<1> SUFFICES ASSUME IInv, ReadInput PROVE IInv' OBVIOUS
<1>0. Flags /\ QueueOK /\ TextOK /\ Place /\ StopsOnlyItsForm BY DEF IInv
<1>1. /\ pc = "prompt" /\ reading' = TRUE /\ buf' = <<>>
      /\ UNCHANGED <<queue, condemned, ctrl_c_interrupts, accum, left, n_compiled_units>>
  BY DEF Runs, ReadInput, consoleVars, formVars
<1>2. \/ accum = <<>> /\ StartEditor
      \/ editor' \in {editor, "off"} /\ UseReader
  BY DEF Runs, ReadInput
<1>3. QueueOK' BY <1>0, <1>1 DEF QueueOK
<1>4. TextOK' BY <1>0, <1>1, NewText DEF TextOK
<1>5. Unfinished /\ Unfinished' BY <1>0, <1>1, Zenon DEF Place, Unfinished
<1>6. CASE accum = <<>> /\ StartEditor
  <2>1. Flags' BY <1>0, <1>1, <1>6, Zenon DEF Flags, StartEditor
  <2>2. Place' BY <1>1, <1>5, <1>6 DEF Place, PlaceOK, Unfinished, StartEditor
  <2>3. StopsOnlyItsForm' BY <1>6 DEF StopsOnlyItsForm, StartEditor
  <2> QED BY <1>3, <1>4, <2>1, <2>2, <2>3 DEF IInv
<1>7. CASE editor' \in {editor, "off"} /\ UseReader
  <2>1. struck' \in BOOLEAN BY <1>7, Zenon DEF UseReader
  <2>2. Flags' BY <1>0, <1>1, <1>7, <2>1, Zenon DEF Flags, UseReader
  <2>3. Place' BY <1>5, <1>7 DEF Place, PlaceOK, UseReader
  <2>4. StopsOnlyItsForm' BY <1>7 DEF StopsOnlyItsForm, UseReader
  <2> QED BY <1>3, <1>4, <2>2, <2>3, <2>4 DEF IInv
<1> QED BY <1>2, <1>6, <1>7

\* EditorKey and FormActs: the loop stays where it is.
LEMMA TaskActs ==
  ASSUME IInv, QueueOK', ctrl_c_interrupts' \in BOOLEAN, editor' \in {"none", "on", "off"},
         UNCHANGED <<reading, requested, pc, buf, accum, left, n_compiled_units, lineedit_code,
                     struck>>
  PROVE  IInv'
<1>1. Flags' BY Zenon DEF IInv, Flags
<1>2. TextOK' BY DEF IInv, TextOK
<1>3. Place' BY DEF IInv, Place, PlaceOK, Unfinished
<1>4. StopsOnlyItsForm' BY DEF IInv, StopsOnlyItsForm
<1> QED BY <1>1, <1>2, <1>3, <1>4 DEF IInv

LEMMA EditorKeyKeeps == IInv /\ EditorKey => IInv'
<1> SUFFICES ASSUME IInv, EditorKey PROVE IInv' OBVIOUS
<1>1. QueueOK' BY TakesKeeps DEF IInv, EditorKey
<1>2. UNCHANGED <<reading, ctrl_c_interrupts, requested, pc, buf, accum, left, n_compiled_units,
                  editor, lineedit_code, struck>>
  BY DEF EditorKey, textVars, formVars, editVars
<1>3. ctrl_c_interrupts' \in BOOLEAN /\ editor' \in {"none", "on", "off"}
  BY <1>2, Zenon DEF IInv, Flags
<1> QED BY <1>1, <1>2, <1>3, TaskActs

LEMMA FormActsKeeps == IInv /\ FormActs => IInv'
<1> SUFFICES ASSUME IInv, FormActs PROVE IInv' OBVIOUS
<1>1. UNCHANGED <<reading, requested, pc, buf, accum, left, n_compiled_units, lineedit_code, struck>>
  BY DEF FormActs, textVars, formVars
<1>2. QueueOK'
  <2>1. CASE \E b \in Key \cup {"ctrl-c"} : Takes(b) BY <2>1, TakesKeeps DEF IInv
  <2>2. CASE UNCHANGED consoleVars BY <2>2 DEF IInv, QueueOK, consoleVars
  <2> QED BY <2>1, <2>2, Zenon DEF FormActs
<1>3. ctrl_c_interrupts' \in BOOLEAN /\ editor' \in {"none", "on", "off"}
  BY Zenon DEF FormActs, IInv, Flags
<1> QED BY <1>1, <1>2, <1>3, TaskActs

\* A line has been read or dropped.
LEMMA LineEnds ==
  ASSUME IInv, QueueOK', reading' = FALSE, TextOK', pc' \in {"halt", "forms", "prompt"},
         pc' = "prompt" => Unfinished', requested' \in BOOLEAN,
         UNCHANGED <<ctrl_c_interrupts, n_compiled_units, editor, lineedit_code, struck>>
  PROVE  IInv'
<1>1. Flags' BY Zenon DEF IInv, Flags
<1>2. Place' BY DEF Place, PlaceOK
<1>3. StopsOnlyItsForm' BY DEF StopsOnlyItsForm
<1> QED BY <1>1, <1>2, <1>3 DEF IInv

LEMMA EditorReturnsKeeps == IInv /\ EditorReturns => IInv'
<1> SUFFICES ASSUME IInv, EditorReturns PROVE IInv' OBVIOUS
<1>1. /\ pc = "edit" /\ QueueOK' /\ requested' \in BOOLEAN
      /\ UNCHANGED <<ctrl_c_interrupts, n_compiled_units, editor, lineedit_code, struck>>
  BY DEF Runs, EditorReturns, IInv, Flags, QueueOK, consoleVars, editVars
<1>2. Unfinished BY <1>1, Zenon DEF IInv, Place, PlaceOK, Unfinished
<1>3. PICK text \in EditorTexts : Accept(text, TRUE) \/ Dropped BY DEF Runs, EditorReturns
<1>4. text \in Seq(Chars) BY ReplAssumption
<1>5. CASE Accept(text, TRUE)
  <2>1. /\ reading' = FALSE /\ TextOK' /\ pc' \in {"halt", "forms", "prompt"}
        /\ pc' = "prompt" => Unfinished'
    BY <1>2, <1>4, <1>5, AcceptKeeps, Zenon DEF IInv
  <2> QED BY <1>1, <2>1, LineEnds, Zenon
<1>6. CASE Dropped
  <2>1. reading' = FALSE /\ TextOK' /\ pc' = "prompt" /\ Unfinished'
    BY <1>6, DroppedKeeps, Zenon DEF IInv
  <2> QED BY <1>1, <2>1, LineEnds, Zenon
<1> QED BY <1>3, <1>5, <1>6

LEMMA EditorFailsKeeps == IInv /\ EditorFails => IInv'
<1> SUFFICES ASSUME IInv, EditorFails PROVE IInv' OBVIOUS
<1>1. /\ pc = "edit" /\ pc' = "readline" /\ editor' = "off"
      /\ UNCHANGED <<queue, condemned, reading, ctrl_c_interrupts, requested, buf, accum, left,
                     n_compiled_units, lineedit_code>>
  BY DEF Runs, EditorFails, UseReader, consoleVars, textVars, formVars
<1>2. struck' \in BOOLEAN BY Zenon DEF Runs, EditorFails, UseReader
<1>3. Flags' BY <1>1, <1>2, Zenon DEF IInv, Flags
<1>4. QueueOK' /\ TextOK' BY <1>1 DEF IInv, QueueOK, TextOK
<1>5. Place' BY <1>1 DEF IInv, Place, PlaceOK, Unfinished
<1>6. StopsOnlyItsForm' BY <1>1 DEF StopsOnlyItsForm
<1> QED BY <1>3, <1>4, <1>5, <1>6 DEF IInv

LEMMA EditorInterruptedKeeps == IInv /\ EditorInterrupted => IInv'
<1> SUFFICES ASSUME IInv, EditorInterrupted PROVE IInv' OBVIOUS
<1>1. /\ Dropped /\ QueueOK' /\ requested' \in BOOLEAN
      /\ UNCHANGED <<ctrl_c_interrupts, n_compiled_units, editor, lineedit_code, struck>>
  BY DEF Runs, EditorInterrupted, IInv, QueueOK, consoleVars, editVars
<1>2. reading' = FALSE /\ TextOK' /\ pc' = "prompt" /\ Unfinished'
  BY <1>1, DroppedKeeps, Zenon DEF IInv
<1> QED BY <1>1, <1>2, LineEnds, Zenon

\* uart_readline goes on.
LEMMA LineGoesOn ==
  ASSUME IInv, pc \in {"readline", "getc"}, pc' \in {"readline", "getc"}, QueueOK', TextOK',
         UNCHANGED <<reading, ctrl_c_interrupts, requested, accum, left, n_compiled_units, editor,
                     lineedit_code, struck>>
  PROVE  IInv'
<1>1. Flags' BY DEF IInv, Flags
<1>2. Unfinished' BY Zenon DEF IInv, Place, Unfinished
<1>3. Place' BY <1>2 DEF Place, PlaceOK
<1>4. StopsOnlyItsForm' BY DEF StopsOnlyItsForm
<1> QED BY <1>1, <1>3, <1>4 DEF IInv

LEMMA TestInterruptKeeps == IInv /\ TestInterrupt => IInv'
<1> SUFFICES ASSUME IInv, TestInterrupt PROVE IInv' OBVIOUS
<1>1. /\ pc = "readline" /\ QueueOK'
      /\ UNCHANGED <<ctrl_c_interrupts, n_compiled_units, editor, lineedit_code, struck>>
  BY DEF Runs, TestInterrupt, IInv, QueueOK, consoleVars, editVars
<1>2. CASE requested
  <2>1. Dropped /\ requested' \in BOOLEAN BY <1>2, Zenon DEF Runs, TestInterrupt
  <2>2. reading' = FALSE /\ TextOK' /\ pc' = "prompt" /\ Unfinished'
    BY <2>1, DroppedKeeps, Zenon DEF IInv
  <2> QED BY <1>1, <2>1, <2>2, LineEnds, Zenon
<1>3. CASE ~requested
  <2>1. pc' = "getc" /\ UNCHANGED <<requested, reading, buf, accum, left>>
    BY <1>3, Zenon DEF Runs, TestInterrupt, textVars
  <2>2. TextOK' BY <2>1 DEF IInv, TextOK
  <2> QED BY <1>1, <2>1, <2>2, LineGoesOn
<1> QED BY <1>2, <1>3

LEMMA NoCharKeeps == IInv /\ NoChar => IInv'
<1> SUFFICES ASSUME IInv, NoChar PROVE IInv' OBVIOUS
<1>1. QueueOK' BY NothingKeeps DEF IInv, NoChar
<1>2. /\ pc = "getc" /\ pc' = "readline"
      /\ UNCHANGED <<reading, ctrl_c_interrupts, requested, buf, accum, left, n_compiled_units,
                     editor, lineedit_code, struck>>
  BY DEF Runs, NoChar, textVars, formVars, editVars
<1>3. TextOK' BY <1>2 DEF IInv, TextOK
<1> QED BY <1>1, <1>2, <1>3, LineGoesOn

LEMMA GetCharKeeps == IInv /\ GetChar => IInv'
<1> SUFFICES ASSUME IInv, GetChar PROVE IInv' OBVIOUS
<1>1. /\ pc = "getc" /\ requested' \in BOOLEAN
      /\ UNCHANGED <<ctrl_c_interrupts, requested, n_compiled_units, editor, lineedit_code, struck>>
  BY DEF Runs, GetChar, IInv, Flags, editVars
<1>2. Unfinished /\ TextOK BY <1>1, Zenon DEF IInv, Place
<1>3. PICK b \in Byte :
        /\ Takes(b)
        /\ \/ b = "cr" /\ Accept(Append(buf, Newline), FALSE)
           \/ Reads(buf)
           \/ b = "bs" /\ buf # <<>> /\ Reads(SubSeq(buf, 1, Len(buf) - 1))
           \/ /\ b \notin {"cr", "bs", "ctrl-c"}
              /\ \/ Accept(Append(buf, b), FALSE)
                 \/ ~Full(Append(buf, b)) /\ Reads(Append(buf, b))
  BY DEF Runs, GetChar, Byte
<1>4. QueueOK' BY <1>3, TakesKeeps DEF IInv
<1>5. ASSUME NEW line \in Seq(Chars), Accept(line, FALSE) PROVE IInv'
  <2>1. /\ reading' = FALSE /\ TextOK' /\ pc' \in {"halt", "forms", "prompt"}
        /\ pc' = "prompt" => Unfinished'
    BY <1>2, <1>5, AcceptKeeps, Zenon
  <2> QED BY <1>1, <1>4, <2>1, LineEnds, Zenon
<1>6. ASSUME NEW line \in Seq(Chars), Len(line) + 1 < INPUT_SIZE, Reads(line) PROVE IInv'
  <2>1. TextOK' BY <1>2, <1>6 DEF TextOK, Reads
  <2>2. pc' = "readline" /\ UNCHANGED <<reading, accum, left>> BY <1>6 DEF Reads
  <2> QED BY <1>1, <1>4, <2>1, <2>2, LineGoesOn
<1>7. CASE b = "cr" /\ Accept(Append(buf, Newline), FALSE)
  <2>1. Append(buf, Newline) \in Seq(Chars) BY <1>2, AppendProperties DEF TextOK, Chars
  <2> QED BY <1>5, <1>7, <2>1
<1>8. CASE Reads(buf) BY <1>2, <1>6, <1>8 DEF TextOK
<1>9. CASE b = "bs" /\ buf # <<>> /\ Reads(SubSeq(buf, 1, Len(buf) - 1))
  <2>1. buf \in Seq(Chars) /\ Len(buf) \in Nat /\ Len(buf) + 1 < INPUT_SIZE
    BY <1>2, LenProperties DEF TextOK
  <2>2. Len(buf) >= 1 BY <1>9, <2>1, EmptySeq
  <2>3. SubSeq(buf, 1, Len(buf) - 1) \in Seq(Chars)
    BY <2>1, <2>2, SubSeqProperties
  <2>4. Len(SubSeq(buf, 1, Len(buf) - 1)) = Len(buf) - 1
    BY <2>1, <2>2, SubSeqProperties, SMT
  <2>5. Len(SubSeq(buf, 1, Len(buf) - 1)) + 1 < INPUT_SIZE BY <2>1, <2>4, Sizes
  <2> QED BY <1>6, <1>9, <2>3, <2>5
<1>10. CASE /\ b \notin {"cr", "bs", "ctrl-c"}
            /\ \/ Accept(Append(buf, b), FALSE)
               \/ ~Full(Append(buf, b)) /\ Reads(Append(buf, b))
  <2>1. /\ Append(buf, b) \in Seq(Chars)
        /\ Len(Append(buf, b)) = Len(buf) + 1 /\ Len(buf) \in Nat
    BY <1>2, <1>10, Typed, AppendProperties, LenProperties DEF TextOK
  <2>2. ~Full(Append(buf, b)) => Len(Append(buf, b)) + 1 < INPUT_SIZE
    BY <1>2, <2>1, Sizes DEF TextOK, Full
  <2> QED BY <1>5, <1>6, <1>10, <2>1, <2>2
<1> QED BY <1>3, <1>7, <1>8, <1>9, <1>10

-----------------------------------------------------------------------------
\* Compiling and running

LEMMA FormsDoneKeeps == IInv /\ FormsDone => IInv'
<1> SUFFICES ASSUME IInv, FormsDone PROVE IInv' OBVIOUS
<1>1. /\ accum' = <<>> /\ Restart
      /\ UNCHANGED <<queue, condemned, reading, ctrl_c_interrupts, requested, buf,
                     n_compiled_units, editor, lineedit_code, struck>>
  BY DEF Runs, FormsDone, consoleVars, editVars
<1>2. Flags' /\ QueueOK' BY <1>1 DEF IInv, Flags, QueueOK
<1>3. TextOK' BY <1>1, EmptyText, Sizes DEF IInv, TextOK, Restart
<1>4. Unfinished' /\ pc' = "prompt" BY <1>1, Zenon DEF Unfinished, Restart
<1>5. Place' /\ StopsOnlyItsForm' BY <1>4 DEF Place, PlaceOK, StopsOnlyItsForm
<1> QED BY <1>2, <1>3, <1>5 DEF IInv

LEMMA CompileErrorKeeps == IInv /\ CompileError => IInv'
<1> SUFFICES ASSUME IInv, CompileError PROVE IInv' OBVIOUS
<1>1. /\ pc = "forms" /\ left > 0 /\ left' = left - 1
      /\ UNCHANGED <<queue, condemned, reading, ctrl_c_interrupts, requested, pc, buf, accum,
                     n_compiled_units, editor, lineedit_code, struck>>
  BY DEF Runs, CompileError, consoleVars, textVars, editVars
<1>2. Flags' /\ QueueOK' BY <1>1 DEF IInv, Flags, QueueOK
<1>3. TextOK' BY <1>1, Sizes DEF IInv, TextOK
<1>4. Place' /\ StopsOnlyItsForm' BY <1>1 DEF Place, PlaceOK, StopsOnlyItsForm
<1> QED BY <1>2, <1>3, <1>4 DEF IInv

LEMMA RunFormKeeps == IInv /\ RunForm => IInv'
<1> SUFFICES ASSUME IInv, RunForm PROVE IInv' OBVIOUS
<1>1. /\ left > 0 /\ pc' = "run" /\ requested' = FALSE /\ struck' = FALSE
      /\ UNCHANGED <<queue, condemned, reading, ctrl_c_interrupts, buf, accum, left,
                     n_compiled_units, editor, lineedit_code>>
  BY DEF Runs, RunForm, consoleVars, textVars, formVars, editVars
<1>2. Flags' BY <1>1, Zenon DEF IInv, Flags
<1>3. QueueOK' /\ TextOK' BY <1>1 DEF IInv, QueueOK, TextOK
<1>4. Place' BY <1>1 DEF Place, PlaceOK
<1>5. StopsOnlyItsForm' BY <1>1 DEF StopsOnlyItsForm
<1> QED BY <1>2, <1>3, <1>4, <1>5 DEF IInv

LEMMA RetainKeeps ==
  ASSUME n_compiled_units \in 0 .. MAX_UNITS, retain_unit
  PROVE  n_compiled_units' \in 0 .. MAX_UNITS
BY Sizes DEF retain_unit

LEMMA FormReturnsKeeps == IInv /\ FormReturns => IInv'
<1> SUFFICES ASSUME IInv, FormReturns PROVE IInv' OBVIOUS
<1>1. /\ pc = "run" /\ pc' = "forms" /\ left' = left - 1 /\ retain_unit
      /\ UNCHANGED <<queue, condemned, reading, ctrl_c_interrupts, requested, buf, accum,
                     editor, lineedit_code, struck>>
  BY DEF Runs, FormReturns, consoleVars, textVars, editVars
<1>2. n_compiled_units' \in 0 .. MAX_UNITS BY <1>1, RetainKeeps DEF IInv, Flags
<1>3. Flags' BY <1>1, <1>2, Zenon DEF IInv, Flags
<1>4. QueueOK' BY <1>1 DEF IInv, QueueOK
<1>5. TextOK' BY <1>1, Sizes DEF IInv, TextOK, Place, PlaceOK
<1>6. Place' /\ StopsOnlyItsForm' BY <1>1 DEF Place, PlaceOK, StopsOnlyItsForm
<1> QED BY <1>3, <1>4, <1>5, <1>6 DEF IInv

LEMMA FormInterruptedKeeps == IInv /\ FormInterrupted => IInv'
<1> SUFFICES ASSUME IInv, FormInterrupted PROVE IInv' OBVIOUS
<1>1. /\ pc' = "recover" /\ requested' = FALSE /\ retain_unit
      /\ UNCHANGED <<queue, condemned, reading, ctrl_c_interrupts, buf, accum, left, editor,
                     lineedit_code, struck>>
  BY DEF Runs, FormInterrupted, consoleVars, textVars, editVars
<1>2. n_compiled_units' \in 0 .. MAX_UNITS BY <1>1, RetainKeeps DEF IInv, Flags
<1>3. Flags' BY <1>1, <1>2, Zenon DEF IInv, Flags
<1>4. QueueOK' /\ TextOK' BY <1>1 DEF IInv, QueueOK, TextOK
<1>5. Place' /\ StopsOnlyItsForm' BY <1>1 DEF Place, PlaceOK, StopsOnlyItsForm
<1> QED BY <1>3, <1>4, <1>5 DEF IInv

LEMMA RecoverKeeps == IInv /\ recover => IInv'
<1> SUFFICES ASSUME IInv, recover PROVE IInv' OBVIOUS
<1>1. /\ accum' = <<>> /\ Restart
      /\ UNCHANGED <<queue, condemned, reading, buf, n_compiled_units, editor, lineedit_code,
                     struck>>
  BY DEF Runs, recover, consoleVars, editVars
<1>2. ctrl_c_interrupts' \in BOOLEAN /\ requested' \in BOOLEAN
  BY Zenon DEF Runs, recover, IInv, Flags
<1>3. Flags' BY <1>1, <1>2, Zenon DEF IInv, Flags
<1>4. QueueOK' BY <1>1 DEF IInv, QueueOK
<1>5. TextOK' BY <1>1, EmptyText, Sizes DEF IInv, TextOK, Restart
<1>6. Unfinished' /\ pc' = "prompt" BY <1>1, Zenon DEF Unfinished, Restart
<1>7. Place' /\ StopsOnlyItsForm' BY <1>6 DEF Place, PlaceOK, StopsOnlyItsForm
<1> QED BY <1>3, <1>4, <1>5, <1>7 DEF IInv

-----------------------------------------------------------------------------
\* Theorems

LEMMA StepKeeps == IInv /\ [Next]_vars => IInv'
<1> SUFFICES ASSUME IInv, [Next]_vars PROVE IInv' OBVIOUS
<1>1. CASE ReplStep
  BY <1>1, ReadInputKeeps, EditorReturnsKeeps, EditorFailsKeeps, EditorInterruptedKeeps,
     TestInterruptKeeps, GetCharKeeps, NoCharKeeps, FormsDoneKeeps, CompileErrorKeeps,
     RunFormKeeps, FormReturnsKeeps, FormInterruptedKeeps, RecoverKeeps
  DEF ReplStep
<1>2. CASE UNCHANGED vars
  <2>1. UNCHANGED <<queue, condemned, reading, ctrl_c_interrupts, requested, pc, buf, accum, left,
                    n_compiled_units, editor, lineedit_code, struck>>
    BY <1>2 DEF vars, consoleVars, textVars, formVars, editVars
  <2>2. QueueOK' BY <2>1 DEF IInv, QueueOK
  <2>3. ctrl_c_interrupts' \in BOOLEAN /\ editor' \in {"none", "on", "off"}
    BY <2>1, Zenon DEF IInv, Flags
  <2> QED BY <2>1, <2>2, <2>3, TaskActs
<1>3. CASE irq_wait \/ irq_wait_returns
  <2>1. UNCHANGED <<queue, condemned, reading, ctrl_c_interrupts, requested, pc, buf, accum, left,
                    n_compiled_units, editor, lineedit_code, struck>>
    BY <1>3 DEF irq_wait, irq_wait_returns, consoleVars, textVars, formVars, editVars
  <2>2. QueueOK' BY <2>1 DEF IInv, QueueOK
  <2>3. ctrl_c_interrupts' \in BOOLEAN /\ editor' \in {"none", "on", "off"}
    BY <2>1, Zenon DEF IInv, Flags
  <2> QED BY <2>1, <2>2, <2>3, TaskActs
<1> QED BY <1>1, <1>2, <1>3, BootsKeeps, InterruptKeyKeeps, TypeKeeps, EditorKeyKeeps, FormActsKeeps
        DEF Next

HeldOK == held \in BOOLEAN

LEMMA HeldKeeps == HeldOK /\ [Next]_vars => HeldOK'
<1> SUFFICES ASSUME HeldOK, [Next]_vars PROVE HeldOK' OBVIOUS
<1>1. held' \in BOOLEAN \/ held' = held
  BY Zenon
  DEF Next, vars, Boots, InterruptKey, Type, EditorKey, FormActs, ReplStep, ReadInput,
      EditorReturns, EditorFails, EditorInterrupted, TestInterrupt, GetChar, NoChar, FormsDone,
      CompileError, RunForm, FormReturns, FormInterrupted, recover, irq_wait, irq_wait_returns
<1> QED BY <1>1 DEF HeldOK

\* The inductive invariant of run_repl holds always.
THEOREM Invariance == Spec => []IInv
<1>1. Init => IInv BY Initially
<1>2. IInv /\ [Next]_vars => IInv' BY StepKeeps
<1> QED BY <1>1, <1>2, PTL DEF Spec

\* Every state of run_repl, its buffers and its flags is of its type.
THEOREM TypeCorrect == Spec => []TypeOK
<1>1. IInv /\ HeldOK => TypeOK BY InvariantGives DEF HeldOK
<1>2. Init => HeldOK BY DEF Init, HeldOK
<1>3. HeldOK /\ [Next]_vars => HeldOK' BY HeldKeeps
<1>4. Spec => []HeldOK BY <1>2, <1>3, PTL DEF Spec
<1> QED BY <1>1, <1>4, Invariance, PTL

\* uart_readline and the accumulation of run_repl never write past the end of
\* their buffers, whatever the sizes of these and whatever is typed.
THEOREM RoomForNulTheorem == Spec => []RoomForNul
<1>1. IInv => RoomForNul BY InvariantGives
<1> QED BY <1>1, Invariance, PTL

\* No form and no line of the editor is stopped by an interrupt key that was
\* pressed before it began, wherever the key fell.
THEOREM StopsOnlyItsFormTheorem == Spec => []StopsOnlyItsForm
<1>1. IInv => StopsOnlyItsForm BY DEF IInv
<1> QED BY <1>1, Invariance, PTL

\* On every way back to the prompt nothing is left to run, and what is
\* accumulated is the beginning of a form that is_form_complete refused.
THEOREM NoFormLeftOverTheorem == Spec => []NoFormLeftOver
<1>1. IInv => NoFormLeftOver BY InvariantGives
<1> QED BY <1>1, Invariance, PTL

-----------------------------------------------------------------------------
\* The boot

LEMMA Appended ==
  ASSUME NEW S, NEW s \in Seq(S), NEW t \in Seq(S)
  PROVE  /\ s \o t \in Seq(S) /\ Len(s \o t) = Len(s) + Len(t)
         /\ \A i \in 1 .. Len(s) : (s \o t)[i] = s[i]
         /\ \A i \in 1 .. Len(t) : (s \o t)[Len(s) + i] = t[i]
<1>1. /\ s \o t \in Seq(S) /\ Len(s \o t) = Len(s) + Len(t)
      /\ \A i \in 1 .. Len(s) + Len(t) :
           (s \o t)[i] = IF i <= Len(s) THEN s[i] ELSE t[i - Len(s)]
  BY Zenon, ConcatProperties
<1>2. Len(s) \in Nat /\ Len(t) \in Nat
  OBVIOUS
<1>3. \A i \in 1 .. Len(s) : (s \o t)[i] = s[i]
  BY <1>1, <1>2
<1>4. ASSUME NEW i \in 1 .. Len(t) PROVE (s \o t)[Len(s) + i] = t[i]
  <2>1. Len(s) + i \in 1 .. Len(s) + Len(t) /\ ~(Len(s) + i <= Len(s)) /\ Len(s) + i - Len(s) = i
    BY <1>2
  <2> QED BY <1>1, <2>1
<1> QED BY Zenon, <1>1, <1>3, <1>4

\* The steps of the boot, one by one
LEMMA BootOrder ==
  /\ Len(beeros_main) = 22
  /\ beeros_main[1] = Load("core") /\ beeros_main[2] = Load("reload")
  /\ beeros_main[3] = Natives("mem-natives") /\ beeros_main[4] = Load("mem")
  /\ beeros_main[5] = Natives("tty-natives") /\ beeros_main[6] = Step("console_init", "tty")
  /\ beeros_main[7] = Natives("blk-natives") /\ beeros_main[8] = Load("blk")
  /\ beeros_main[9] = Load("virtio") /\ beeros_main[10] = Load("virtio-blk")
  /\ beeros_main[11] = Load("ext2") /\ beeros_main[12] = Load("fs")
  /\ beeros_main[13] = Load("ustar") /\ beeros_main[14] = Load("pkg")
  /\ beeros_main[15] = Load("input") /\ beeros_main[16] = Load("virtio-input")
  /\ beeros_main[17] = Load("tty") /\ beeros_main[18] = Load("lineedit")
  /\ beeros_main[19] = Step("gfx_init_ramfb", "gfx") /\ beeros_main[20] = Natives("gfx-natives")
  /\ beeros_main[21] = Load("gfx") /\ beeros_main[22] = Step("run_init", "fs")
<1> DEFINE N == {"core", "reload", "mem-natives", "mem", "tty-natives", "tty", "blk-natives", "blk",
                 "virtio", "virtio-blk", "ext2", "fs", "ustar", "pkg", "input", "virtio-input",
                 "lineedit", "gfx", "gfx-natives"}
           D == {"load", "natives", "console_init", "gfx_init_ramfb", "run_init"}
           S == [do : D, name : N]
           a == <<Load("core"), Load("reload"), Natives("mem-natives"), Load("mem"),
                  Natives("tty-natives"), Step("console_init", "tty"), Natives("blk-natives"),
                  Load("blk")>>
           b == beer_load_libraries
           c == <<Step("gfx_init_ramfb", "gfx"), Natives("gfx-natives"), Load("gfx"),
                  Step("run_init", "fs")>>
<1>0. /\ \A x \in N : Load(x) \in S /\ Natives(x) \in S
      /\ Step("console_init", "tty") \in S /\ Step("gfx_init_ramfb", "gfx") \in S
      /\ Step("run_init", "fs") \in S
  BY DEF Load, Natives, Step
<1>1. a \in Seq(S) /\ Len(a) = 8
  <2> HIDE DEF S
  <2>1. /\ Load("core") \in S /\ Load("reload") \in S /\ Natives("mem-natives") \in S
        /\ Load("mem") \in S /\ Natives("tty-natives") \in S /\ Step("console_init", "tty") \in S
        /\ Natives("blk-natives") \in S /\ Load("blk") \in S
    BY <1>0
  <2> HIDE DEF N, D
  <2> QED BY <2>1
<1>2. b \in Seq(S) /\ Len(b) = 10
  <2> HIDE DEF S
  <2>1. /\ Load("virtio") \in S /\ Load("virtio-blk") \in S /\ Load("ext2") \in S
        /\ Load("fs") \in S /\ Load("ustar") \in S /\ Load("pkg") \in S /\ Load("input") \in S
        /\ Load("virtio-input") \in S /\ Load("tty") \in S /\ Load("lineedit") \in S
    BY <1>0
  <2> HIDE DEF N, D
  <2> QED BY <2>1 DEF beer_load_libraries
<1>3. c \in Seq(S) /\ Len(c) = 4
  <2> HIDE DEF S
  <2>1. /\ Natives("gfx-natives") \in S /\ Load("gfx") \in S
    BY <1>0
  <2> HIDE DEF N, D
  <2> QED BY <1>0, <2>1
<1>4. beeros_main = (a \o b) \o c
  BY Zenon DEF beeros_main
<1> HIDE DEF a, b, c, S, N, D
<1>5. /\ a \o b \in Seq(S) /\ Len(a \o b) = 8 + 10
      /\ \A i \in 1 .. 8 : (a \o b)[i] = a[i]
      /\ \A i \in 1 .. 10 : (a \o b)[8 + i] = b[i]
  <2>0. a \in Seq(S) /\ b \in Seq(S)
    BY <1>1, <1>2
  <2>1. /\ a \o b \in Seq(S) /\ Len(a \o b) = Len(a) + Len(b)
        /\ \A i \in 1 .. Len(a) : (a \o b)[i] = a[i]
        /\ \A i \in 1 .. Len(b) : (a \o b)[Len(a) + i] = b[i]
    BY <2>0, Appended
  <2> QED BY <1>1, <1>2, <2>1
<1>6. PICK ab : ab = a \o b
  OBVIOUS
<1>7. /\ ab \in Seq(S) /\ Len(ab) = 18
      /\ \A i \in 1 .. 8 : ab[i] = a[i]
      /\ \A i \in 1 .. 10 : ab[8 + i] = b[i]
  <2>1. Len(ab) = 8 + 10
    BY Zenon, <1>5, <1>6
  <2>2. Len(ab) = 18
    BY <2>1
  <2> QED BY Zenon, <2>2, <1>5, <1>6
<1>8. beeros_main = ab \o c
  BY Zenon, <1>4, <1>6
<1>9. /\ Len(ab \o c) = 18 + 4
      /\ \A i \in 1 .. 18 : (ab \o c)[i] = ab[i]
      /\ \A i \in 1 .. 4 : (ab \o c)[18 + i] = c[i]
  <2>0. ab \in Seq(S) /\ c \in Seq(S)
    BY <1>3, <1>7
  <2>1. /\ Len(ab \o c) = Len(ab) + Len(c)
        /\ \A i \in 1 .. Len(ab) : (ab \o c)[i] = ab[i]
        /\ \A i \in 1 .. Len(c) : (ab \o c)[Len(ab) + i] = c[i]
    BY <2>0, Appended
  <2> QED BY <1>3, <1>7, <2>1
<1>10. /\ Len(beeros_main) = 18 + 4
       /\ \A i \in 1 .. 18 : beeros_main[i] = ab[i]
       /\ \A i \in 1 .. 4 : beeros_main[18 + i] = c[i]
  <2> SUFFICES ASSUME NEW all, all = ab \o c
               PROVE  /\ Len(all) = 18 + 4
                      /\ \A i \in 1 .. 18 : all[i] = ab[i]
                      /\ \A i \in 1 .. 4 : all[18 + i] = c[i]
    BY <1>8
  <2> QED BY <1>9
<1>11. /\ Len(beeros_main) = 22
       /\ \A i \in 1 .. 8 : beeros_main[i] = a[i]
       /\ \A i \in 1 .. 10 : beeros_main[8 + i] = b[i]
       /\ \A i \in 1 .. 4 : beeros_main[18 + i] = c[i]
  BY <1>7, <1>10
<1>12. \A i \in 1 .. 8 : beeros_main[i] = a[i]
  BY <1>11
<1>13. /\ beeros_main[9] = b[1] /\ beeros_main[10] = b[2] /\ beeros_main[11] = b[3]
      /\ beeros_main[12] = b[4] /\ beeros_main[13] = b[5] /\ beeros_main[14] = b[6]
      /\ beeros_main[15] = b[7] /\ beeros_main[16] = b[8] /\ beeros_main[17] = b[9]
      /\ beeros_main[18] = b[10]
  BY <1>11
<1>14. /\ beeros_main[19] = c[1] /\ beeros_main[20] = c[2] /\ beeros_main[21] = c[3]
       /\ beeros_main[22] = c[4]
  BY <1>11
<1> QED BY <1>11, <1>12, <1>13, <1>14 DEF a, b, c, beer_load_libraries

\* What the k-th step of the boot makes available to the later ones
Brings(k) == IF beeros_main[k].do \in {"load", "natives"} THEN {beeros_main[k].name} ELSE {}

\* No step makes available what a library before it, or it itself, uses.
LEMMA UsesComeFirst ==
  ASSUME NEW k \in 1 .. 22, NEW j \in k .. 22, beeros_main[k].do = "load"
  PROVE  Brings(j) \cap Uses(beeros_main[k].name) = {}
<1>1. CASE k \in {1, 2, 4, 9, 13, 21}
  BY <1>1, BootOrder DEF Brings, Uses, Load, Natives, Step
<1>2. CASE k \in {8, 11, 15, 18}
  BY <1>2, BootOrder DEF Brings, Uses, Load, Natives, Step
<1>3. CASE k \in {10, 12, 14}
  BY <1>3, BootOrder DEF Brings, Uses, Load, Natives, Step
<1>4. CASE k \in {16, 17}
  BY <1>4, BootOrder DEF Brings, Uses, Load, Natives, Step
<1>5. CASE k \in {3, 5, 6, 7, 19, 20, 22}
  BY <1>5, BootOrder DEF Natives, Step
<1> QED BY <1>1, <1>2, <1>3, <1>4, <1>5

\* Every library whose turn has been is there, or there is a cause that it is not.
BootInv ==
  /\ booted \in 0 .. 22
  /\ \A k \in 1 .. booted : beeros_main[k].do = "load" =>
       LET lib == beeros_main[k].name IN lib \in loaded \/ lib \in MayFail \/ Missing(lib) # {}

LEMMA BootStepKeeps == BootInv /\ BootStep => BootInv'
<1> SUFFICES ASSUME BootInv, BootStep PROVE BootInv' OBVIOUS
<1>1. booted' = booted + 1 /\ booted \in 0 .. 22 /\ booted' \in 0 .. 22 /\ booted + 1 \in 1 .. 22
  BY BootOrder DEF BootInv, BootStep, Booting
<1>2. PICK j \in 1 .. 22 : j = booted + 1
  BY <1>1
<1>3. loaded \subseteq loaded' /\ loaded' \cup natives' \subseteq loaded \cup natives \cup Brings(j)
  BY <1>2 DEF BootStep, beer_load_lib, Brings
<1>4. ASSUME NEW k \in 1 .. booted', beeros_main[k].do = "load"
      PROVE  LET lib == beeros_main[k].name
             IN  (lib \in loaded \/ lib \in MayFail \/ Missing(lib) # {})'
  <2> DEFINE lib == beeros_main[k].name
  <2>1. k \in 1 .. 22 /\ j \in k .. 22
    BY <1>1, <1>2
  <2>2. Brings(j) \cap Uses(lib) = {}
    BY <2>1, <1>4, UsesComeFirst
  <2>3. Missing(lib) # {} => (Uses(lib) \ (loaded' \cup natives')) # {}
    BY <1>3, <2>2 DEF Missing
  <2>4. lib \in loaded' \/ lib \in MayFail \/ Missing(lib) # {}
    <3>1. CASE k \in 1 .. booted
      BY <3>1, <1>3, <1>4 DEF BootInv
    <3>2. CASE k = j
      BY <3>2, <1>2, <1>4 DEF BootStep, beer_load_lib
    <3> QED BY <3>1, <3>2, <1>1, <1>2
  <2> QED BY <2>3, <2>4 DEF Missing
<1> QED BY <1>1, <1>4 DEF BootInv

\* Only a step of the boot writes what BootInv is about.
LEMMA BootInvariant == BootInv /\ [Next]_vars => BootInv'
<1> SUFFICES ASSUME BootInv, [Next]_vars PROVE BootInv' OBVIOUS
<1>1. CASE BootStep
  BY <1>1, BootStepKeeps
<1>2. CASE UNCHANGED bootVars
  BY <1>2 DEF BootInv, bootVars, Missing
<1>3. BootStep \/ UNCHANGED bootVars
  BY DEF Next, vars, Boots, InterruptKey, Type, EditorKey, FormActs, ReplStep, ReadInput,
         EditorReturns, EditorFails, EditorInterrupted, TestInterrupt, GetChar, NoChar, FormsDone,
         CompileError, RunForm, FormReturns, FormInterrupted, recover,
         irq_wait, irq_wait_returns
<1> QED BY <1>1, <1>2, <1>3

LEMMA BootGives == BootInv => FailureHasCause
<1> SUFFICES ASSUME BootInv, ~Booting, NEW lib \in Libraries \ loaded
             PROVE  lib \in MayFail \/ Missing(lib) # {}
  BY DEF FailureHasCause
<1>1. booted = 22
  BY BootOrder DEF BootInv, Booting
<1>2. DOMAIN beeros_main = 1 .. 22
  BY BootOrder DEF BootInv
<1>3. PICK k \in 1 .. 22 : beeros_main[k].do = "load" /\ lib = beeros_main[k].name
  BY <1>2 DEF Libraries
<1> QED BY <1>1, <1>3 DEF BootInv

\* However the loads end that may fail, and whatever the device tree offers, a
\* library that is not there after the boot failed by itself or misses one that
\* its top-level forms use.
THEOREM FailureHasCauseTheorem == Spec => []FailureHasCause
<1>1. Init => BootInv
  BY DEF Init, BootInit, BootInv
<1> QED BY <1>1, BootInvariant, BootGives, PTL DEF Spec

-----------------------------------------------------------------------------
\* The two readers

\* Induction, without an operator as a parameter: a set of numbers that holds 0
\* and the successor of each of its members holds them all.
LEMMA Induction ==
  ASSUME NEW T, 0 \in T, \A n \in Nat : n \in T => n + 1 \in T
  PROVE  \A n \in Nat : n \in T
<1> DEFINE U == Nat \ T
<1> SUFFICES ASSUME U # {} PROVE FALSE
  OBVIOUS
<1>1. IsWellFoundedOn(OpToRel(<, Nat), Nat)
  BY NatLessThanWellFounded
<1>2. PICK x \in U : \A y \in U : ~ (<<y, x>> \in OpToRel(<, Nat))
  <2>1. U \subseteq Nat OBVIOUS
  <2> HIDE DEF U
  <2> QED BY <1>1, <2>1, WFMin
<1>3. \A y \in U : ~(y < x)
  BY <1>2 DEF OpToRel
<1>4. x \in Nat /\ x # 0
  OBVIOUS
<1>5. x - 1 \in Nat /\ x - 1 < x /\ (x - 1) + 1 = x
  BY <1>4
<1> QED BY <1>3, <1>5

\* f holds the states of a scan of the first m characters.
IsScan(f, text, m) == f = [n \in 0 .. m |-> IF n = 0 THEN Start ELSE Scan(f[n - 1], text[n])]

LEMMA ScanExists ==
  ASSUME NEW text
  PROVE  \A m \in Nat : \E f : IsScan(f, text, m)
<1> DEFINE T == {m \in Nat : \E f : IsScan(f, text, m)}
<1>1. 0 \in T
  <2> DEFINE f == [n \in 0 .. 0 |-> Start]
  <2>1. f = [n \in 0 .. 0 |-> IF n = 0 THEN Start ELSE Scan(f[n - 1], text[n])]
    OBVIOUS
  <2> QED BY <2>1 DEF IsScan
<1>2. ASSUME NEW m \in Nat, m \in T PROVE m + 1 \in T
  <2>1. PICK f : IsScan(f, text, m)
    BY <1>2
  <2> DEFINE g == [n \in 0 .. m + 1 |-> IF n = m + 1 THEN Scan(f[m], text[m + 1]) ELSE f[n]]
  <2>2. ASSUME NEW n \in 0 .. m + 1
        PROVE  g[n] = IF n = 0 THEN Start ELSE Scan(g[n - 1], text[n])
    BY <2>1 DEF IsScan
  <2>3. IsScan(g, text, m + 1)
    BY <2>2 DEF IsScan
  <2> QED BY <2>3
<1>3. \A m \in Nat : m \in T
  <2> HIDE DEF T
  <2> QED BY <1>1, <1>2, Induction
<1> QED BY <1>3

\* The states of a scan, one by one
LEMMA ScanStates ==
  ASSUME NEW text, NEW m \in Nat, NEW f, IsScan(f, text, m)
  PROVE  f[0] = Start /\ \A n \in 1 .. m : f[n] = Scan(f[n - 1], text[n])
BY DEF IsScan

\* A scan of one text is a scan of another as far as they agree.
LEMMA SameScan ==
  ASSUME NEW text, NEW other, NEW m \in Nat, NEW k \in 0 .. m, NEW f, NEW g,
         IsScan(f, text, m), IsScan(g, other, k), \A i \in 1 .. k : other[i] = text[i]
  PROVE  g[k] = f[k]
<1> DEFINE T == {n \in Nat : n <= k => g[n] = f[n]}
<1>1. 0 \in T
  BY ScanStates
<1>2. ASSUME NEW n \in Nat, n \in T PROVE n + 1 \in T
  <2> SUFFICES ASSUME n + 1 <= k PROVE g[n + 1] = f[n + 1]
    OBVIOUS
  <2>1. g[n] = f[n] /\ n + 1 \in 1 .. k /\ n + 1 \in 1 .. m /\ n + 1 - 1 = n
    BY <1>2
  <2>2. g[n + 1] = Scan(g[n + 1 - 1], other[n + 1])
    BY <2>1, ScanStates
  <2>3. f[n + 1] = Scan(f[n + 1 - 1], text[n + 1])
    BY <2>1, ScanStates
  <2> QED BY <2>1, <2>2, <2>3
<1>3. \A n \in Nat : n \in T
  <2> HIDE DEF T
  <2> QED BY <1>1, <1>2, Induction
<1> QED BY <1>3

LEMMA AfterIs ==
  ASSUME NEW text, Len(text) \in Nat
  PROVE  \E f : IsScan(f, text, Len(text)) /\ After(text) = f[Len(text)]
<1> DEFINE f == CHOOSE f : f = [n \in 0 .. Len(text) |-> IF n = 0 THEN Start ELSE Scan(f[n - 1], text[n])]
<1>1. f = [n \in 0 .. Len(text) |-> IF n = 0 THEN Start ELSE Scan(f[n - 1], text[n])]
  BY ScanExists DEF IsScan
<1>2. After(text) = f[Len(text)]
  BY Zenon DEF After
<1> QED BY <1>1, <1>2 DEF IsScan

\* The state after a part of the text is a state of its scan.
LEMMA AfterPrefix ==
  ASSUME NEW text \in Seq(Chars), NEW f, IsScan(f, text, Len(text)), NEW i \in 1 .. Len(text)
  PROVE  After(SubSeq(text, 1, i - 1)) = f[i - 1]
<1>1. Len(text) \in Nat
  OBVIOUS
<1> DEFINE p == SubSeq(text, 1, i - 1)
           k == i - 1
<1>2. 1 \in 1 .. Len(text) + 1 /\ k \in 0 .. Len(text) /\ k - 1 + 1 = k /\ k \in Nat
  BY <1>1
<1>3. Len(p) = k /\ \A j \in 1 .. k : p[j] = text[j]
  BY <1>2, SubSeqProperties
<1> HIDE DEF p, k
<1>4. PICK g : IsScan(g, p, k) /\ After(p) = g[k]
  BY <1>2, <1>3, AfterIs
<1>5. g[k] = f[k]
  BY <1>1, <1>2, <1>3, <1>4, SameScan
<1> QED BY <1>4, <1>5 DEF p, k

\* The editor's scan of a text on which every step of the two scans is the same
LEMMA EditorAfterIs ==
  ASSUME NEW text, Len(text) \in Nat, NEW f, IsScan(f, text, Len(text)),
         \A n \in 1 .. Len(text) : Scan(f[n - 1], text[n]) = EditorScan(f[n - 1], text[n])
  PROVE  EditorAfter(text) = f[Len(text)]
<1> DEFINE m == Len(text)
           IsEditors(g) == g = [n \in 0 .. m |-> IF n = 0 THEN Start ELSE EditorScan(g[n - 1], text[n])]
           e == CHOOSE g : IsEditors(g)
<1>1. f = [n \in 0 .. m |-> IF n = 0 THEN Start ELSE EditorScan(f[n - 1], text[n])]
  <2>1. f = [n \in 0 .. m |-> IF n = 0 THEN Start ELSE Scan(f[n - 1], text[n])]
    BY Zenon DEF IsScan
  <2>2. ASSUME NEW n \in 0 .. m
        PROVE  (IF n = 0 THEN Start ELSE Scan(f[n - 1], text[n]))
                 = (IF n = 0 THEN Start ELSE EditorScan(f[n - 1], text[n]))
    <3>1. n = 0 \/ n \in 1 .. m
      OBVIOUS
    <3>2. QED
      BY <3>1, Zenon
  <2>3. [n \in 0 .. m |-> IF n = 0 THEN Start ELSE Scan(f[n - 1], text[n])]
          = [n \in 0 .. m |-> IF n = 0 THEN Start ELSE EditorScan(f[n - 1], text[n])]
    BY <2>2, Zenon
  <2>4. QED
    BY <2>1, <2>3, Zenon
<1>2. IsEditors(e)
  BY <1>1
<1>3. EditorAfter(text) = e[m]
  BY Zenon DEF EditorAfter
<1> HIDE DEF e
<1> DEFINE T == {n \in Nat : n <= m => e[n] = f[n]}
<1>4. 0 \in T
  BY <1>1, <1>2
<1>5. ASSUME NEW n \in Nat, n \in T PROVE n + 1 \in T
  <2> SUFFICES ASSUME n + 1 <= m PROVE e[n + 1] = f[n + 1]
    OBVIOUS
  <2>1. e[n] = f[n] /\ n + 1 \in 0 .. m /\ n + 1 # 0 /\ n + 1 - 1 = n
    BY <1>5
  <2>2. e[n + 1] = EditorScan(e[n], text[n + 1])
    BY <2>1, <1>2
  <2>3. f[n + 1] = EditorScan(f[n], text[n + 1])
    <3>1. n + 1 \in 1 .. Len(text)
      BY <2>1
    <3>2. f[n + 1] = Scan(f[n + 1 - 1], text[n + 1])
      BY <3>1, ScanStates
    <3> QED BY <2>1, <3>1, <3>2
  <2> QED BY <2>1, <2>2, <2>3
<1>6. \A n \in Nat : n \in T
  <2> HIDE DEF T
  <2> QED BY <1>4, <1>5, Induction
<1> QED BY <1>3, <1>6

ScanState == [mode : {"code", "string", "escape", "char", "comment"}, depth : Int, content : BOOLEAN]

LEMMA ScanTyped ==
  ASSUME NEW st \in ScanState, NEW ch \in Chars
  PROVE  Scan(st, ch) \in ScanState
<1>1. ASSUME NEW s \in ScanState, NEW m \in {"code", "string", "escape", "char", "comment"}
      PROVE  Enter(s, m) \in ScanState
  BY DEF ScanState, Enter
<1>2. Content(st) \in ScanState
  BY DEF ScanState, Content
<1>3. CASE st.mode = "code"
  <2>1. Bracket(st, ch) \in ScanState
    <3> DEFINE d == IF ch = "(" THEN st.depth + 1 ELSE st.depth - 1
               c == st.content \/ ch = "("
    <3>1. d \in Int /\ c \in BOOLEAN
      BY DEF ScanState
    <3>2. Bracket(st, ch) = [st EXCEPT !.depth = d, !.content = c]
      BY DEF Bracket, ScanState
    <3> HIDE DEF d, c
    <3> QED BY <3>1, <3>2 DEF ScanState
  <2>2. Plainly(st, ch) \in ScanState
    BY <1>2 DEF Plainly
  <2>3. Enter(Content(st), "string") \in ScanState /\ Enter(st, "comment") \in ScanState
    BY <1>1, <1>2
  <2> QED BY <1>3, <2>1, <2>2, <2>3 DEF Scan
<1>4. CASE st.mode # "code"
  <2>1. st.mode \in {"string", "escape", "char", "comment"}
    BY <1>4 DEF ScanState
  <2>2. \E m \in {"code", "string", "escape", "char", "comment"} : Inside(st, ch) = Enter(st, m)
    BY <2>1 DEF Inside
  <2> QED BY <1>1, <1>4, <2>2 DEF Scan
<1> QED BY <1>3, <1>4

LEMMA StatesTyped ==
  ASSUME NEW text \in Seq(Chars), NEW f, IsScan(f, text, Len(text))
  PROVE  \A n \in 0 .. Len(text) : f[n] \in ScanState
<1>1. Len(text) \in Nat
  OBVIOUS
<1> DEFINE T == {n \in Nat : n <= Len(text) => f[n] \in ScanState}
<1>2. 0 \in T
  <2>1. f[0] = Start
    BY <1>1, ScanStates
  <2>2. Start \in ScanState
    BY DEF Start, ScanState
  <2> QED BY <2>1, <2>2
<1>3. ASSUME NEW n \in Nat, n \in T PROVE n + 1 \in T
  <2> SUFFICES ASSUME n + 1 <= Len(text) PROVE f[n + 1] \in ScanState
    OBVIOUS
  <2>1. f[n] \in ScanState /\ n + 1 \in 1 .. Len(text) /\ n + 1 - 1 = n
    BY <1>1, <1>3
  <2>2. f[n + 1] = Scan(f[n + 1 - 1], text[n + 1])
    BY <1>1, <2>1, ScanStates
  <2>3. text[n + 1] \in Chars
    BY <2>1, ElementOfSeq
  <2> QED BY <2>1, <2>2, <2>3, ScanTyped
<1>4. \A n \in Nat : n \in T
  <2> HIDE DEF T
  <2> QED BY <1>2, <1>3, Induction
<1> QED BY <1>4

\* On whole lines without character literals and with no comma before the first
\* content, of whatever length, the two functions give the same answer, and
\* is_form_complete only one.
THEOREM SameAnswer ==
  ASSUME NEW text \in Seq(Chars), Plain(text)
  PROVE  is_form_complete(text) = {form_complete(text)}
<1>1. Len(text) \in Nat
  OBVIOUS
<1>2. PICK f : IsScan(f, text, Len(text)) /\ After(text) = f[Len(text)]
  BY <1>1, AfterIs
<1>3. ASSUME NEW n \in 1 .. Len(text)
      PROVE  Scan(f[n - 1], text[n]) = EditorScan(f[n - 1], text[n])
  <2>1. CASE text[n] = "backslash"
    <3>1. After(SubSeq(text, 1, n - 1)).mode \in {"string", "escape", "comment"}
      BY <2>1 DEF Plain
    <3>2. f[n - 1].mode # "code"
      BY <3>1, <1>2, AfterPrefix
    <3> QED BY <3>2, Zenon DEF Scan, EditorScan
  <2>2. CASE text[n] = "comma"
    <3> DEFINE st == f[n - 1]
    <3>1. After(SubSeq(text, 1, n - 1)) = st
      BY <1>2, AfterPrefix
    <3>2. st.mode # "code" \/ st.content
      BY <2>2, <3>1 DEF Plain
    <3>3. st \in ScanState
      <4>1. n - 1 \in 0 .. Len(text)
        BY <1>1
      <4> QED BY <4>1, <1>2, StatesTyped
    <3>4. CASE st.mode # "code"
      BY <3>4, Zenon DEF Scan, EditorScan
    <3>5. CASE st.mode = "code" /\ st.content
      <4>1. Content(st) = st
        BY <3>3, <3>5 DEF Content, ScanState
      <4>2. Scan(st, text[n]) = Content(st)
        BY <2>2, <3>5 DEF Scan, Plainly, Visible
      <4>3. EditorScan(st, text[n]) = st
        BY <2>2, <3>5 DEF EditorScan
      <4> QED BY <4>1, <4>2, <4>3
    <3> QED BY <3>2, <3>4, <3>5
  <2>3. CASE text[n] \notin {"backslash", "comma"}
    BY <2>3 DEF Scan, EditorScan
  <2> QED BY <2>1, <2>2, <2>3
<1>4. EditorAfter(text) = f[Len(text)]
  BY <1>1, <1>2, <1>3, EditorAfterIs
<1>5. After(text).mode = "code" /\ EditorAfter(text) = After(text)
  BY <1>2, <1>4 DEF Plain
<1> HIDE DEF Plain
<1> QED BY <1>5 DEF is_form_complete, form_complete

\* The built-in reader and the line editor agree on what a whole form is, for
\* texts of every length.
THEOREM ReadersAgreeTheorem == Spec => []ReadersAgree
<1>1. ASSUME NEW text \in Texts PROVE text \in Seq(Chars)
  <2>1. PICK n \in 0 .. TextLength :
          \E t \in [1 .. n -> Chars \ {"exit"}] : text = Append(t, Newline)
    BY DEF Texts
  <2>2. PICK t \in [1 .. n -> Chars \ {"exit"}] : text = Append(t, Newline)
    BY <2>1
  <2>3. t \in Seq(Chars) /\ Newline \in Chars
    <3>1. n \in Nat /\ t \in [1 .. n -> Chars]
      OBVIOUS
    <3> QED BY <3>1, SeqDef DEF Chars
  <2> QED BY <2>2, <2>3, AppendProperties
<1>2. ReadersAgree
  BY <1>1, SameAnswer DEF ReadersAgree
<1> QED BY <1>2, PTL
=============================================================================
