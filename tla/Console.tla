------------------------------- MODULE Console -------------------------------
(***************************************************************************)
(* kernel/console.c: the serial receive ring.  The trap handler fills it   *)
(* (console_rx) and a reader empties it (console_getc_nonblock) with no    *)
(* lock: the handler runs to completion on the same hart, between any two  *)
(* volatile accesses of the reader.  So console_rx is one step here and    *)
(* console_getc_nonblock is one step per volatile access, pc naming the    *)
(* access that comes next.                                                 *)
(*                                                                         *)
(* ring_head and ring_tail are uint32_t counters that wrap; Modulus stands *)
(* for 2^32 and RingSize for RING_SIZE.                                    *)
(***************************************************************************)
EXTENDS Naturals, Sequences

CONSTANTS Byte,          \* the data bytes of the model, CtrlC and Nul among them
          Nul,           \* the byte 0, which static storage starts with
          CtrlC,         \* CTRL_C
          None,          \* no byte
          RingSize,      \* RING_SIZE
          Modulus,       \* 2^32
          RxIrq          \* what uart_rx_irq_enable() returns on this platform

\* 2^32 is a multiple of RING_SIZE, and the ring is far smaller than half of
\* it, which is what the signed comparison of console_getc_nonblock needs.
ASSUME ConsoleAssumption ==
  /\ RingSize \in Nat \ {0}
  /\ Modulus \in Nat
  /\ 2 * RingSize < Modulus
  /\ Modulus % RingSize = 0
  /\ CtrlC \in Byte /\ Nul \in Byte
  /\ None \notin Byte
  /\ RxIrq \in BOOLEAN

VARIABLES ring, ring_head, ring_tail, drop_before, drop,
          irq_mode, reading, ctrl_c_interrupts,
          interrupt_requested,   \* vm_interrupt_requested
          pc, t, c               \* the reader: next access, its local t, *c

\* History, for the properties only: what TypeAhead counts.
VARIABLES condemned, must, fresh, result

ringVars == <<ring, ring_head, ring_tail, drop_before, drop>>
modeVars == <<irq_mode, reading, ctrl_c_interrupts>>
readVars == <<pc, t, c>>
history  == <<condemned, must, fresh, result>>
vars == <<ringVars, modeVars, interrupt_requested, readVars, history>>

\* a - b and a + 1 on uint32_t
Minus(a, b) == IF a >= b THEN a - b ELSE a - b + Modulus
Succ(a) == IF a + 1 = Modulus THEN 0 ELSE a + 1

\* (int32_t)x > 0 for a uint32_t x
SignedPositive(x) == 0 < x /\ 2 * x < Modulus

Slot(i) == i % RingSize

Init ==
  /\ ring = [i \in 0 .. RingSize - 1 |-> Nul]
  /\ ring_head = 0 /\ ring_tail = 0
  /\ drop_before = 0 /\ drop = FALSE
  /\ irq_mode = FALSE /\ reading = FALSE /\ ctrl_c_interrupts = TRUE
  /\ interrupt_requested = FALSE
  /\ pc = "idle" /\ t = 0 /\ c = None
  /\ condemned = 0 /\ must = 0 /\ fresh = 0 /\ result = None

-----------------------------------------------------------------------------
\* The trap handler

\* BREAK, Ctrl-\ (both unconditionally) or Ctrl-C, when it interrupts: the
\* bytes typed ahead are left for the reader to drop.
InterruptKey ==
  /\ irq_mode
  /\ drop_before' = ring_head
  /\ drop' = TRUE
  /\ interrupt_requested' = TRUE
  /\ condemned' = Minus(ring_head, ring_tail)
  /\ UNCHANGED <<ring, ring_head, ring_tail, modeVars, readVars,
                 must, fresh, result>>

CtrlCInterrupts == ctrl_c_interrupts /\ ~reading

\* Mutant: the full test lets one byte too many in.
StoreByteLate(b) ==
  /\ irq_mode
  /\ ~(b = CtrlC /\ CtrlCInterrupts)
  /\ IF Minus(ring_head, ring_tail) > RingSize
       THEN UNCHANGED <<ring, ring_head, fresh>>
       ELSE /\ ring' = [ring EXCEPT ![Slot(ring_head)] = b]
            /\ ring_head' = Succ(ring_head)
            /\ fresh' = IF pc = "idle" THEN fresh ELSE fresh + 1
  /\ UNCHANGED <<ring_tail, drop_before, drop, modeVars, interrupt_requested,
                 readVars, condemned, must, result>>

\* Any other byte: stored, or dropped when the ring is full.
StoreByte(b) ==
  /\ irq_mode
  /\ ~(b = CtrlC /\ CtrlCInterrupts)
  /\ IF Minus(ring_head, ring_tail) >= RingSize
       THEN UNCHANGED <<ring, ring_head, fresh>>
       ELSE /\ ring' = [ring EXCEPT ![Slot(ring_head)] = b]
            /\ ring_head' = Succ(ring_head)
            /\ fresh' = IF pc = "idle" THEN fresh ELSE fresh + 1
  /\ UNCHANGED <<ring_tail, drop_before, drop, modeVars, interrupt_requested,
                 readVars, condemned, must, result>>

console_rx == InterruptKey \/ \E b \in Byte : StoreByte(b)

-----------------------------------------------------------------------------
\* The reader, one step per volatile access

\* Without receive interrupts the UART is polled and the ring is not used.
GetcPolled ==
  /\ pc = "idle" /\ ~irq_mode
  /\ c' \in Byte \cup {None}
  /\ UNCHANGED <<ringVars, modeVars, interrupt_requested, pc, t, history>>

\* t = ring_tail
GetcBegin ==
  /\ pc = "idle" /\ irq_mode
  /\ t' = ring_tail
  /\ pc' = "test"
  /\ must' = condemned /\ fresh' = 0
  /\ UNCHANGED <<ringVars, modeVars, interrupt_requested, c, condemned, result>>

\* if (drop)
TestDrop ==
  /\ pc = "test"
  /\ pc' = IF drop THEN "clear" ELSE "compare"
  /\ UNCHANGED <<ringVars, modeVars, interrupt_requested, t, c, history>>

\* Mutant: the new tail is not taken over, drop = false came first.
ClearDropOnly ==
  /\ pc = "clear"
  /\ drop' = FALSE
  /\ pc' = "compare"
  /\ UNCHANGED <<ring, ring_head, ring_tail, drop_before, modeVars,
                 interrupt_requested, t, c, history>>

\* drop = false
ClearDrop ==
  /\ pc = "clear"
  /\ drop' = FALSE
  /\ pc' = "skip"
  /\ UNCHANGED <<ring, ring_head, ring_tail, drop_before, modeVars,
                 interrupt_requested, t, c, history>>

\* d = drop_before; if ((int32_t)(d - t) > 0) t = d
SkipTypedAhead ==
  /\ pc = "skip"
  /\ t' = IF SignedPositive(Minus(drop_before, t)) THEN drop_before ELSE t
  /\ pc' = "compare"
  /\ UNCHANGED <<ringVars, modeVars, interrupt_requested, c, history>>

\* if (t == ring_head)
CompareHead ==
  /\ pc = "compare"
  /\ pc' = IF t = ring_head THEN "nothing" ELSE "take"
  /\ UNCHANGED <<ringVars, modeVars, interrupt_requested, t, c, history>>

\* ring_tail moves to i, past n bytes; the call is over.
Retire(i) ==
  LET n == Minus(i, ring_tail) IN
  /\ ring_tail' = i
  /\ condemned' = IF condemned > n THEN condemned - n ELSE 0
  /\ must' = 0 /\ fresh' = 0
  /\ pc' = "idle"

\* ring_tail = t; return 0
ReturnNothing ==
  /\ pc = "nothing"
  /\ Retire(t)
  /\ result' = None
  /\ UNCHANGED <<ring, ring_head, drop_before, drop, modeVars,
                 interrupt_requested, t, c>>

\* Mutant: the slot after the one t names.
TakeNextByte ==
  /\ pc = "take"
  /\ c' = ring[Slot(t + 1)]
  /\ pc' = "advance"
  /\ UNCHANGED <<ringVars, modeVars, interrupt_requested, t, history>>

\* *c = ring[t & (RING_SIZE - 1)]
TakeByte ==
  /\ pc = "take"
  /\ c' = ring[Slot(t)]
  /\ pc' = "advance"
  /\ UNCHANGED <<ringVars, modeVars, interrupt_requested, t, history>>

\* ring_tail = t + 1; return 1
AdvanceTail ==
  /\ pc = "advance"
  /\ Retire(Succ(t))
  /\ result' = c
  /\ UNCHANGED <<ring, ring_head, drop_before, drop, modeVars,
                 interrupt_requested, t, c>>

console_getc_nonblock ==
  \/ GetcPolled
  \/ GetcBegin \/ TestDrop \/ ClearDrop \/ SkipTypedAhead
  \/ CompareHead \/ ReturnNothing \/ TakeByte \/ AdvanceTail

-----------------------------------------------------------------------------
\* The rest of the kernel's use of the console, by the thread that reads:
\* none of it runs inside a call of console_getc_nonblock.

console_init ==
  /\ pc = "idle" /\ ~irq_mode /\ RxIrq
  /\ irq_mode' = TRUE
  /\ UNCHANGED <<ringVars, reading, ctrl_c_interrupts, interrupt_requested,
                 readVars, history>>

\* run_repl brackets every read with console_set_reading(true) and (false).
console_set_reading ==
  /\ pc = "idle"
  /\ reading' = ~reading
  /\ UNCHANGED <<ringVars, irq_mode, ctrl_c_interrupts, interrupt_requested,
                 readVars, history>>

native_ctrl_c_set ==
  /\ pc = "idle"
  /\ ctrl_c_interrupts' \in BOOLEAN
  /\ UNCHANGED <<ringVars, irq_mode, reading, interrupt_requested, readVars,
                 history>>

\* The REPL or the VM takes the request (repl_uart.c clears it in three places).
TakeInterrupt ==
  /\ pc = "idle" /\ interrupt_requested
  /\ interrupt_requested' = FALSE
  /\ UNCHANGED <<ringVars, modeVars, readVars, history>>

Next ==
  \/ console_rx \/ console_getc_nonblock
  \/ console_init \/ console_set_reading \/ native_ctrl_c_set
  \/ TakeInterrupt

Spec == Init /\ [][Next]_vars

-----------------------------------------------------------------------------
PCs == {"idle", "test", "clear", "skip", "compare", "nothing", "take", "advance"}

\* Type invariant of the ring, its counters and the reader's locals.
TypeOK ==
  /\ ring \in [0 .. RingSize - 1 -> Byte]
  /\ ring_head \in 0 .. Modulus - 1
  /\ ring_tail \in 0 .. Modulus - 1
  /\ drop_before \in 0 .. Modulus - 1
  /\ t \in 0 .. Modulus - 1
  /\ drop \in BOOLEAN
  /\ irq_mode \in BOOLEAN /\ reading \in BOOLEAN
  /\ ctrl_c_interrupts \in BOOLEAN /\ interrupt_requested \in BOOLEAN
  /\ pc \in PCs
  /\ c \in Byte \cup {None} /\ result \in Byte \cup {None}
  /\ condemned \in Nat /\ must \in Nat /\ fresh \in Nat

Waiting == Minus(ring_head, ring_tail)   \* bytes in the ring
Skipped == Minus(t, ring_tail)           \* of them, those this call passes over

\* The slot console_rx writes is never one of the slots that hold a byte
\* not yet read, nor the one the reader is about to read: the head stays
\* within RING_SIZE of the tail across the wrap of both counters, and the
\* reader's local t stays between them whatever the trap handler does.
NoOverrun ==
  /\ Waiting <= RingSize
  /\ pc # "idle" => Skipped <= Waiting
  /\ pc \in {"take", "advance"} => Skipped < Waiting

\* "Either one also drops the bytes typed ahead" (console.c:8): a call never
\* delivers a byte that was already condemned when the call began.
TypedAheadDropped ==
  pc \in {"take", "advance"} => Skipped >= must

\* "never back over bytes already read" (console.c:66), nor forward over bytes
\* received after the interrupt key: a call passes over condemned bytes only.
OnlyTypedAheadDropped ==
  pc # "idle" => Skipped <= condemned

\* An interrupt key drops the bytes typed ahead of it, every one of them and
\* nothing else, whichever step of a call the trap handler interrupts.
DropsTypedAhead == TypedAheadDropped /\ OnlyTypedAheadDropped

\* The ring is the queue of TypeAhead.
Abstract == INSTANCE TypeAhead WITH
  Capacity <- RingSize,
  queue    <- [i \in 1 .. Waiting |-> ring[Slot((ring_tail + i - 1) % Modulus)]],
  busy     <- pc # "idle"

\* The interrupt-driven console delivers what TypeAhead allows, in order,
\* whatever the trap handler interrupts.
ImplementsTypeAhead == Abstract!Spec

=============================================================================
