----------------------------- MODULE TrapProofs -----------------------------
(***************************************************************************)
(* Proofs about what the trap handler shares with the code it interrupts:  *)
(* the console ring (Console), for every ring size and counter width, and  *)
(* after it irq_pending (Irq), for any interrupts and listener tasks.      *)
(*                                                                         *)
(* The console's safety properties are not inductive: they need to know    *)
(* what drop and drop_before say about the bytes that interrupt keys       *)
(* condemned, at every point the trap handler can interrupt the reader.    *)
(***************************************************************************)
EXTENDS Console, Irq, SequenceTheorems, Integers, TLAPS

\* drop_before is where the condemned bytes end.
Exact == Minus(drop_before, ring_tail) = condemned

\* While drop is set, drop_before is exact; or, when the call that was under
\* way at the interrupt key then read the byte received next, one behind.
Linked ==
  \/ Exact
  \/ condemned = 0 /\ ring_tail = Succ(drop_before)

\* The reader's local t is inside the ring once it is loaded.
Window ==
  /\ Waiting <= RingSize
  /\ condemned <= Waiting
  /\ must <= condemned
  /\ pc # "idle" => Skipped <= condemned
  /\ pc \in {"take", "advance"} => Skipped < Waiting
  /\ pc = "nothing" => Skipped <= Waiting

\* What each program point knows about the bytes to drop.
Pending ==
  /\ drop => Linked
  /\ pc \in {"idle", "test"} /\ ~drop => condemned = 0
  /\ pc \in {"test", "clear", "skip"} => t = ring_tail
  /\ pc = "clear" => drop
  /\ pc = "skip" => Linked
  /\ pc \in {"skip", "compare", "nothing", "take", "advance"} /\ drop => Exact
  /\ pc \in {"compare", "nothing", "take", "advance"} =>
       /\ must <= Skipped
       /\ ~drop => Skipped = condemned

IInv == TypeOK /\ Window /\ Pending

-----------------------------------------------------------------------------
\* The part of ConsoleAssumption that is arithmetic on the sizes.
LEMMA Sizes ==
  /\ RingSize \in Nat /\ RingSize > 0
  /\ Modulus \in Nat /\ 2 * RingSize < Modulus
BY ConsoleAssumption DEF ConsoleAssumption

\* Facts about uint32_t arithmetic and the index mask.

\* The difference of two counters is a counter.
LEMMA MinusType ==
  ASSUME NEW x \in 0 .. Modulus - 1, NEW y \in 0 .. Modulus - 1
  PROVE  Minus(x, y) \in 0 .. Modulus - 1 /\ Minus(x, y) \in Nat
BY Sizes DEF Minus

\* The successor of a counter is a counter.
LEMMA SuccType ==
  ASSUME NEW x \in 0 .. Modulus - 1
  PROVE  Succ(x) \in 0 .. Modulus - 1
BY Sizes DEF Succ

\* The index mask yields a slot of the ring.
LEMMA SlotType ==
  ASSUME NEW x \in Nat
  PROVE  Slot(x) \in 0 .. RingSize - 1
BY Sizes DEF Slot

-----------------------------------------------------------------------------
\* The type invariant holds of every reachable state, for every ring size.
THEOREM TypeCorrect == Spec => []TypeOK
<1> USE DEF TypeOK, PCs
<1>1. Init => TypeOK
  <2> SUFFICES ASSUME Init PROVE TypeOK
    OBVIOUS
  <2>1. ring \in [0 .. RingSize - 1 -> Byte] /\ Nul \in Byte
    BY ConsoleAssumption DEF Init, ConsoleAssumption
  <2>2. 0 \in 0 .. Modulus - 1 /\ 0 \in Nat
    BY Sizes
  <2>3. QED
    BY <2>1, <2>2, Zenon DEF Init
<1>2. TypeOK /\ [Next]_vars => TypeOK'
  <2> SUFFICES ASSUME TypeOK, [Next]_vars PROVE TypeOK'
    OBVIOUS
  <2> USE DEF ringVars, modeVars, readVars, history
  <2>1. CASE InterruptKey
    BY <2>1, MinusType DEF InterruptKey
  <2>2. CASE GetcPolled
    BY <2>2 DEF GetcPolled
  <2>3. CASE GetcBegin
    BY <2>3 DEF GetcBegin
  <2>4. CASE TestDrop
    BY <2>4 DEF TestDrop
  <2>5. CASE ClearDrop
    BY <2>5 DEF ClearDrop
  <2>6. CASE SkipTypedAhead
    BY <2>6 DEF SkipTypedAhead
  <2>7. CASE CompareHead
    BY <2>7 DEF CompareHead
  <2>8. CASE ReturnNothing
    <3>0. Minus(t, ring_tail) \in Nat
      BY MinusType, Zenon
    <3>1. condemned' \in Nat
      BY <2>8, <3>0 DEF ReturnNothing, Retire
    <3>2. QED
      BY <2>8, <3>1 DEF ReturnNothing, Retire
  <2>9. CASE TakeByte
    BY <2>9, SlotType DEF TakeByte
  <2>10. CASE AdvanceTail
    <3>0. Minus(Succ(t), ring_tail) \in Nat
      BY MinusType, SuccType, Zenon
    <3>1. condemned' \in Nat
      BY <2>10, <3>0 DEF AdvanceTail, Retire
    <3>2. ring_tail' \in 0 .. Modulus - 1
      BY <2>10, SuccType DEF AdvanceTail, Retire
    <3>3. QED
      BY <2>10, <3>1, <3>2 DEF AdvanceTail, Retire
  <2>11. CASE console_init
    BY <2>11 DEF console_init
  <2>12. CASE console_set_reading
    BY <2>12 DEF console_set_reading
  <2>13. CASE native_ctrl_c_set
    BY <2>13 DEF native_ctrl_c_set
  <2>14. CASE TakeInterrupt
    BY <2>14 DEF TakeInterrupt
  <2>15. ASSUME NEW b \in Byte, StoreByte(b) PROVE TypeOK'
    <3>1. ring_head' \in 0 .. Modulus - 1
      BY <2>15, SuccType DEF StoreByte
    <3>2. ring' \in [0 .. RingSize - 1 -> Byte]
      BY <2>15 DEF StoreByte
    <3>3. fresh' \in Nat
      BY <2>15 DEF StoreByte
    <3>4. QED
      BY <2>15, <3>1, <3>2, <3>3 DEF StoreByte
  <2>16. CASE UNCHANGED vars
    BY <2>16 DEF vars
  <2>17. QED
    BY <2>1, <2>2, <2>3, <2>4, <2>5, <2>6, <2>7, <2>8, <2>9, <2>10, <2>11, <2>12, <2>13, <2>14, <2>15, <2>16
       DEF Next, console_rx, console_getc_nonblock
<1>3. QED
  BY <1>1, <1>2, PTL DEF Spec

-----------------------------------------------------------------------------
\* The numeric part of TypeOK, all that the steps below need of it.
Counters ==
  /\ ring_head \in 0 .. Modulus - 1 /\ ring_tail \in 0 .. Modulus - 1
  /\ drop_before \in 0 .. Modulus - 1 /\ t \in 0 .. Modulus - 1
  /\ condemned \in Nat /\ must \in Nat

\* Every step keeps the reader's t inside the ring and the bookkeeping of
\* condemned bytes linked to drop and drop_before.
LEMMA IInvStep == TypeOK /\ TypeOK' /\ Window /\ Pending /\ [Next]_vars
                    => Window' /\ Pending'
<1> SUFFICES ASSUME Counters, Counters', pc \in PCs, Window, Pending, [Next]_vars
             PROVE  Window' /\ Pending'
  BY DEF TypeOK, Counters
<1> USE Sizes DEF Counters, PCs, Linked, Exact, Waiting, Skipped, ringVars, modeVars,
                  readVars, history
<1>1. CASE InterruptKey
  <2>1. Window'
    BY <1>1 DEF InterruptKey, Window, Pending, Minus, Succ
  <2>2. Pending'
    BY <1>1 DEF InterruptKey, Window, Pending, Minus, Succ
  <2>3. QED
    BY <2>1, <2>2
<1>2. CASE GetcPolled
  <2>1. Window'
    BY <1>2 DEF GetcPolled, Window, Pending
  <2>2. Pending'
    BY <1>2 DEF GetcPolled, Window, Pending
  <2>3. QED
    BY <2>1, <2>2
<1>3. CASE GetcBegin
  <2>1. Window'
    BY <1>3 DEF GetcBegin, Window, Pending, Minus, Succ
  <2>2. Pending'
    BY <1>3 DEF GetcBegin, Window, Pending, Minus, Succ
  <2>3. QED
    BY <2>1, <2>2
<1>4. CASE TestDrop
  <2>1. Window'
    BY <1>4 DEF TestDrop, Window
  <2>2. Pending'
    BY <1>4 DEF TestDrop, Window, Pending, Minus
  <2>3. QED
    BY <2>1, <2>2
<1>5. CASE ClearDrop
  <2>1. Window'
    BY <1>5 DEF ClearDrop, Window, Pending
  <2>2. Pending'
    BY <1>5 DEF ClearDrop, Window, Pending
  <2>3. QED
    BY <2>1, <2>2
<1>6. CASE SkipTypedAhead
  <2>1. Window'
    BY <1>6 DEF SkipTypedAhead, Window, Pending, Minus, Succ, SignedPositive
  <2>2. Pending'
    BY <1>6 DEF SkipTypedAhead, Window, Pending, Minus, Succ, SignedPositive
  <2>3. QED
    BY <2>1, <2>2
<1>7. CASE CompareHead
  <2>1. Window'
    BY <1>7 DEF CompareHead, Window, Pending, Minus
  <2>2. Pending'
    BY <1>7 DEF CompareHead, Window, Pending, Minus
  <2>3. QED
    BY <2>1, <2>2
<1>8. CASE ReturnNothing
  <2>1. Window'
    BY <1>8 DEF ReturnNothing, Window, Pending, Retire, Minus, Succ
  <2>2. Pending'
    BY <1>8 DEF ReturnNothing, Window, Pending, Retire, Minus, Succ
  <2>3. QED
    BY <2>1, <2>2
<1>9. CASE TakeByte
  <2>1. Window'
    BY <1>9 DEF TakeByte, Window, Pending
  <2>2. Pending'
    BY <1>9 DEF TakeByte, Window, Pending
  <2>3. QED
    BY <2>1, <2>2
<1>10. CASE AdvanceTail
  <2>1. Window'
    BY <1>10 DEF AdvanceTail, Window, Pending, Retire, Minus, Succ
  <2>2. Pending'
    <3>1. /\ pc = "advance" /\ pc' = "idle" /\ UNCHANGED <<drop, drop_before>>
          /\ ring_tail' = Succ(t)
      BY <1>10 DEF AdvanceTail, Retire
    <3>2. Skipped < Waiting /\ Skipped <= condemned /\ condemned <= Waiting /\ Waiting <= RingSize
      BY <3>1 DEF Window
    <3>3. condemned' = IF condemned > Skipped + 1 THEN condemned - (Skipped + 1) ELSE 0
      BY <1>10, <3>1, <3>2 DEF AdvanceTail, Retire, Minus, Succ
    <3>4. CASE ~drop
      BY <3>1, <3>2, <3>3, <3>4 DEF Pending, Minus
    <3>5. CASE drop
      <4>1. Exact
        BY <3>1, <3>5 DEF Pending
      <4>2. CASE condemned = Skipped
        BY <4>1, <4>2, <3>1, <3>2, <3>3, <3>5 DEF Pending, Minus, Succ
      <4>3. CASE condemned > Skipped
        BY <4>1, <4>3, <3>1, <3>2, <3>3, <3>5 DEF Pending, Minus, Succ
      <4>4. QED
        BY <4>2, <4>3, <3>2 DEF Minus
    <3>6. QED
      BY <3>4, <3>5
  <2>3. QED
    BY <2>1, <2>2
<1>11. CASE console_init
  <2>1. Window'
    BY <1>11 DEF console_init, Window, Pending
  <2>2. Pending'
    BY <1>11 DEF console_init, Window, Pending
  <2>3. QED
    BY <2>1, <2>2
<1>12. CASE console_set_reading
  <2>1. Window'
    BY <1>12 DEF console_set_reading, Window, Pending
  <2>2. Pending'
    BY <1>12 DEF console_set_reading, Window, Pending
  <2>3. QED
    BY <2>1, <2>2
<1>13. CASE native_ctrl_c_set
  <2>1. Window'
    BY <1>13 DEF native_ctrl_c_set, Window, Pending
  <2>2. Pending'
    BY <1>13 DEF native_ctrl_c_set, Window, Pending
  <2>3. QED
    BY <2>1, <2>2
<1>14. CASE TakeInterrupt
  <2>1. Window'
    BY <1>14 DEF TakeInterrupt, Window, Pending
  <2>2. Pending'
    BY <1>14 DEF TakeInterrupt, Window, Pending
  <2>3. QED
    BY <2>1, <2>2
<1>15. ASSUME NEW b \in Byte, StoreByte(b) PROVE Window' /\ Pending'
  <2>1. Window'
    <3>1. CASE Waiting >= RingSize
      BY <1>15, <3>1 DEF StoreByte, Window
    <3>2. CASE ~(Waiting >= RingSize)
      <4>0. ring_head' = Succ(ring_head) /\ ring_tail' = ring_tail
        BY <1>15, <3>2 DEF StoreByte
      <4>1. Waiting' = Waiting + 1
        BY <4>0, <3>2 DEF Minus, Succ
      <4>2. UNCHANGED <<ring_tail, t, pc, condemned, must, drop>>
        BY <1>15 DEF StoreByte
      <4>3. Waiting \in Nat /\ Skipped \in Nat
        BY DEF Minus
      <4>4. QED
        BY <3>2, <4>1, <4>2, <4>3 DEF Window
    <3>3. QED
      BY <3>1, <3>2
  <2>2. Pending'
    BY <1>15 DEF StoreByte, Pending
  <2>3. QED
    BY <2>1, <2>2
<1>16. CASE UNCHANGED vars
  BY <1>16 DEF vars, Window, Pending
<1>17. QED
  BY <1>1, <1>2, <1>3, <1>4, <1>5, <1>6, <1>7, <1>8, <1>9, <1>10, <1>11, <1>12, <1>13, <1>14, <1>15, <1>16
     DEF Next, console_rx, console_getc_nonblock

\* The inductive invariant holds of every reachable state.
THEOREM Invariance == Spec => []IInv
<1>1. Init => Window /\ Pending
  BY Sizes DEF Init, Window, Pending, Linked, Exact, Waiting,
              Skipped, Minus
<1>2. TypeOK /\ TypeOK' /\ Window /\ Pending /\ [Next]_vars => Window' /\ Pending'
  BY IInvStep
<1>3. QED
  BY <1>1, <1>2, TypeCorrect, PTL DEF Spec, IInv

\* For every ring size and every counter width, console_rx never overwrites a
\* byte that is still to be read, and the reader never leaves the ring.
THEOREM NoOverrunTheorem == Spec => []NoOverrun
<1>1. IInv => NoOverrun
  BY Sizes DEF IInv, TypeOK, PCs, Window, NoOverrun, Waiting, Skipped, Minus
<1>2. QED
  BY <1>1, Invariance, PTL

\* For every ring size and every counter width, a call delivers no byte that an
\* interrupt key condemned before it began, and passes over no other byte.
THEOREM DropsTypedAheadTheorem == Spec => []DropsTypedAhead
<1>1. IInv => TypedAheadDropped
  BY Sizes DEF IInv, TypeOK, Pending, TypedAheadDropped
<1>2. IInv => OnlyTypedAheadDropped
  BY DEF IInv, Window, OnlyTypedAheadDropped
<1>3. IInv => DropsTypedAhead
  BY <1>1, <1>2 DEF DropsTypedAhead
<1>4. QED
  BY <1>3, Invariance, PTL
-----------------------------------------------------------------------------
(***************************************************************************)
(* The console implements TypeAhead: the ring, read from ring_tail up to   *)
(* ring_head across the wrap of both counters, is the queue.               *)
(***************************************************************************)

\* What remains after division.
LEMMA DivMod ==
  ASSUME NEW N \in Nat \ {0}, NEW x \in Int
  PROVE  x % N \in 0 .. N - 1 /\ x \div N \in Int /\ x = N * (x \div N) + (x % N)
OBVIOUS

\* Two remainders that differ by a multiple of the divisor are equal.
LEMMA SameRemainder ==
  ASSUME NEW N \in Nat \ {0}, NEW k \in Int, NEW b \in 0 .. N - 1, NEW d \in 0 .. N - 1,
         N * k + b = d
  PROVE  k = 0 /\ b = d
<1>1. CASE k >= 1
  <2>1. N * k >= N
    BY <1>1
  <2>2. QED
    BY <2>1
<1>2. CASE k <= -1
  <2>1. N * k <= -N
    BY <1>2
  <2>2. QED
    BY <2>1
<1>3. QED
  BY <1>1, <1>2

\* A remainder is determined by the quotient.
LEMMA RemainderIs ==
  ASSUME NEW N \in Nat \ {0}, NEW k \in Int, NEW r \in 0 .. N - 1
  PROVE  (N * k + r) % N = r
<1> DEFINE x == N * k + r
<1>1. x \in Int
  OBVIOUS
<1>2. x % N \in 0 .. N - 1 /\ x \div N \in Int /\ x = N * (x \div N) + (x % N)
  BY <1>1, DivMod
<1>3. N * (k - (x \div N)) + r = x % N /\ k - (x \div N) \in Int
  BY <1>2
<1>4. r = x % N
  <2> DEFINE m == k - (x \div N)
             d == x % N
  <2>1. N * m + r = d /\ m \in Int /\ d \in 0 .. N - 1
    BY <1>2, <1>3
  <2> HIDE DEF m, d
  <2>2. r = d
    BY <2>1, SameRemainder
  <2>3. QED
    BY <2>2 DEF d
<1>5. QED
  BY <1>4 DEF x

\* The counter n places after x
Plus(x, n) == IF x + n < Modulus THEN x + n ELSE x + n - Modulus

\* Adding to a counter modulo its range is adding with at most one wrap.
LEMMA PlusIs ==
  ASSUME NEW x \in 0 .. Modulus - 1, NEW n \in 0 .. Modulus - 1
  PROVE  /\ (x + n) % Modulus = Plus(x, n)
         /\ Plus(x, n) \in 0 .. Modulus - 1
         /\ Minus(Plus(x, n), x) = n
<1> USE Sizes
<1>1. CASE x + n < Modulus
  <2>1. (Modulus * 0 + (x + n)) % Modulus = x + n
    BY <1>1, RemainderIs
  <2>2. QED
    BY <1>1, <2>1 DEF Plus, Minus
<1>2. CASE ~(x + n < Modulus)
  <2>1. (Modulus * 1 + (x + n - Modulus)) % Modulus = x + n - Modulus
    <3> DEFINE r == x + n - Modulus
    <3>1. r \in 0 .. Modulus - 1
      BY <1>2
    <3> HIDE DEF r
    <3>2. (Modulus * 1 + r) % Modulus = r
      BY <3>1, RemainderIs
    <3>3. QED
      BY <3>2 DEF r
  <2>2. Modulus * 1 + (x + n - Modulus) = x + n
    OBVIOUS
  <2>3. QED
    BY <1>2, <2>1, <2>2 DEF Plus, Minus
<1>3. QED
  BY <1>1, <1>2

\* Because Modulus is a multiple of RingSize, the slot does not notice the wrap.
LEMMA SlotWraps ==
  ASSUME NEW x \in Nat
  PROVE  Slot(x + Modulus) = Slot(x)
<1> USE Sizes
<1>1. Modulus = RingSize * (Modulus \div RingSize) /\ Modulus \div RingSize \in Int
  BY DivMod, ConsoleAssumption DEF ConsoleAssumption
<1>2. x % RingSize \in 0 .. RingSize - 1 /\ x \div RingSize \in Int
        /\ x = RingSize * (x \div RingSize) + (x % RingSize)
  BY DivMod
<1> DEFINE m == Modulus \div RingSize
           k == x \div RingSize
           r == x % RingSize
<1>3. x + Modulus = RingSize * (k + m) + r
  BY <1>1, <1>2
<1> HIDE DEF m, k, r
<1>4. k + m \in Int /\ r \in 0 .. RingSize - 1
  BY <1>1, <1>2 DEF m, k, r
<1>5. (RingSize * (k + m) + r) % RingSize = r
  BY <1>4, RemainderIs
<1>6. QED
  BY <1>3, <1>5 DEF Slot, r

\* Two counters less than RingSize apart use different slots.
LEMMA SlotsApart ==
  ASSUME NEW x \in 0 .. Modulus - 1, NEW n \in 1 .. RingSize - 1
  PROVE  Slot(Plus(x, n)) # Slot(x)
<1> USE Sizes
<1>1. Slot(x + n) # Slot(x)
  <2> DEFINE a == x \div RingSize
             b == x % RingSize
             e == (x + n) \div RingSize
             f == (x + n) % RingSize
  <2>1. x = RingSize * a + b /\ a \in Int /\ b \in 0 .. RingSize - 1
    BY DivMod
  <2>2. x + n = RingSize * e + f /\ e \in Int /\ f \in 0 .. RingSize - 1
    BY DivMod
  <2> HIDE DEF a, b, e, f
  <2>3. SUFFICES ASSUME f = b PROVE FALSE
    BY DEF Slot, b, f
  <2>4. RingSize * (e - a) + 0 = n
    BY <2>1, <2>2, <2>3
  <2>5. 0 = n
    BY <2>1, <2>2, <2>4, SameRemainder
  <2>6. QED
    BY <2>5
<1>2. CASE x + n < Modulus
  BY <1>1, <1>2 DEF Plus
<1>3. CASE ~(x + n < Modulus)
  <2>1. Slot((x + n - Modulus) + Modulus) = Slot(x + n - Modulus)
    BY <1>3, SlotWraps
  <2>2. (x + n - Modulus) + Modulus = x + n
    OBVIOUS
  <2>3. QED
    BY <1>1, <1>3, <2>1, <2>2 DEF Plus
<1>4. QED
  BY <1>2, <1>3

-----------------------------------------------------------------------------
\* The w bytes of ring r from counter x on, oldest first
Bytes(r, x, w) == [i \in 1 .. w |-> r[Slot((x + i - 1) % Modulus)]]
Queue == Bytes(ring, ring_tail, Waiting)

\* Where the i-th byte is
LEMMA BytesAre ==
  ASSUME NEW r \in [0 .. RingSize - 1 -> Byte], NEW x \in 0 .. Modulus - 1,
         NEW w \in 0 .. RingSize
  PROVE  /\ Bytes(r, x, w) \in Seq(Byte) /\ Len(Bytes(r, x, w)) = w
         /\ \A i \in 1 .. w : Bytes(r, x, w)[i] = r[Slot(Plus(x, i - 1))]
<1> USE Sizes
<1>1. ASSUME NEW i \in 1 .. w
      PROVE  (x + i - 1) % Modulus = Plus(x, i - 1) /\ Plus(x, i - 1) \in Nat
  <2> DEFINE n == i - 1
  <2>1. n \in 0 .. Modulus - 1 /\ x + i - 1 = x + n
    OBVIOUS
  <2> HIDE DEF n
  <2>2. (x + n) % Modulus = Plus(x, n) /\ Plus(x, n) \in 0 .. Modulus - 1
    BY <2>1, PlusIs
  <2>3. QED
    BY <2>1, <2>2 DEF n
<1>2. ASSUME NEW i \in 1 .. w PROVE r[Slot(Plus(x, i - 1))] \in Byte
  BY <1>1, SlotType
<1>3. Bytes(r, x, w) \in [1 .. w -> Byte]
  BY <1>1, <1>2 DEF Bytes
<1>4. Bytes(r, x, w) \in Seq(Byte) /\ Len(Bytes(r, x, w)) = w
  BY <1>3
<1>5. ASSUME NEW i \in 1 .. w PROVE Bytes(r, x, w)[i] = r[Slot(Plus(x, i - 1))]
  BY <1>1 DEF Bytes
<1>6. QED
  BY <1>4, <1>5

\* A byte stored at ring_head is the last of the queue, and disturbs no other.
LEMMA QueueStores ==
  ASSUME TypeOK, TypeOK', Waiting < RingSize, NEW b \in Byte,
         ring' = [ring EXCEPT ![Slot(ring_head)] = b],
         ring_head' = Succ(ring_head), ring_tail' = ring_tail
  PROVE  Waiting' = Waiting + 1 /\ Queue' = Append(Queue, b)
<1> USE Sizes
<1>1. Waiting' = Waiting + 1 /\ Waiting \in Nat
  BY MinusType DEF TypeOK, Waiting, Minus, Succ
<1>2. /\ Queue \in Seq(Byte) /\ Len(Queue) = Waiting
      /\ \A i \in 1 .. Waiting : Queue[i] = ring[Slot(Plus(ring_tail, i - 1))]
  <2>1. /\ ring \in [0 .. RingSize - 1 -> Byte] /\ ring_tail \in 0 .. Modulus - 1
        /\ Waiting \in 0 .. RingSize
    BY <1>1 DEF TypeOK
  <2>2. QED
    BY <2>1, BytesAre DEF Queue
<1>3. /\ Queue' \in Seq(Byte) /\ Len(Queue') = Waiting'
      /\ \A i \in 1 .. Waiting' : Queue'[i] = ring'[Slot(Plus(ring_tail', i - 1))]
  <2>1. /\ ring' \in [0 .. RingSize - 1 -> Byte] /\ ring_tail' \in 0 .. Modulus - 1
        /\ Waiting' \in 0 .. RingSize
    BY <1>1 DEF TypeOK
  <2>2. QED
    BY <2>1, BytesAre DEF Queue
<1>4. ring_tail \in 0 .. Modulus - 1 /\ ring_head \in 0 .. Modulus - 1
        /\ ring \in [0 .. RingSize - 1 -> Byte] /\ Slot(ring_head) \in 0 .. RingSize - 1
  BY SlotType DEF TypeOK
<1>5. ring_head = Plus(ring_tail, Waiting)
  BY <1>4 DEF Waiting, Plus, Minus
<1>6. Queue'[Waiting + 1] = b
  <2>1. Queue'[Waiting + 1] = ring'[Slot(Plus(ring_tail', Waiting + 1 - 1))]
    BY <1>1, <1>3
  <2>2. Waiting + 1 - 1 = Waiting
    BY <1>1
  <2>3. QED
    BY <2>1, <2>2, <1>4, <1>5
<1>7. ASSUME NEW i \in 1 .. Waiting PROVE Queue'[i] = Queue[i]
  <2> DEFINE x == Plus(ring_tail, i - 1)
             n == Waiting - (i - 1)
  <2>1. i - 1 \in 0 .. Modulus - 1 /\ n \in 1 .. Waiting /\ i \in 1 .. Waiting'
    BY <1>1, <1>7
  <2>2. x \in 0 .. Modulus - 1
    BY <2>1, <1>4, PlusIs
  <2>3. Plus(x, n) = ring_head
    BY <2>1, <1>4, <1>5, <1>1 DEF Plus
  <2>4. Slot(x) # Slot(ring_head)
    <3> HIDE DEF x, n
    <3>1. n \in 1 .. RingSize - 1
      BY <2>1, <1>1 DEF n
    <3>2. Slot(Plus(x, n)) # Slot(x)
      BY <3>1, <2>2, SlotsApart
    <3>3. QED
      BY <3>2, <2>3
  <2>5. Slot(x) \in 0 .. RingSize - 1
    BY <2>2, SlotType
  <2>6. ring'[Slot(x)] = ring[Slot(x)]
    BY <2>4, <2>5, <1>4
  <2>7. QED
    BY <2>6, <2>1, <1>2, <1>3
<1>8. QED
  <2> DEFINE A == Queue
             B == Queue'
             w == Waiting
  <2>0. w \in Nat /\ A \in Seq(Byte) /\ B \in Seq(Byte) /\ Len(A) = w /\ Len(B) = w + 1
          /\ B[w + 1] = b /\ (\A i \in 1 .. w : B[i] = A[i])
    BY <1>1, <1>2, <1>3, <1>6, <1>7
  <2> HIDE DEF A, B, w
  <2>1. B = Append(A, b)
    BY <2>0
  <2>2. QED
    BY <2>1, <1>1 DEF A, B

\* Moving ring_tail n places on removes the first n bytes.
LEMMA QueueRetires ==
  ASSUME TypeOK, TypeOK', Waiting <= RingSize, NEW n \in 0 .. Waiting,
         ring_tail' = Plus(ring_tail, n), UNCHANGED <<ring, ring_head>>
  PROVE  Waiting' = Waiting - n /\ Queue' = SubSeq(Queue, n + 1, Len(Queue))
<1> USE Sizes
<1>1. Waiting' = Waiting - n /\ Waiting \in Nat
  BY MinusType DEF TypeOK, Waiting, Minus, Plus
<1>2. /\ Queue \in Seq(Byte) /\ Len(Queue) = Waiting
      /\ \A i \in 1 .. Waiting : Queue[i] = ring[Slot(Plus(ring_tail, i - 1))]
  <2>1. /\ ring \in [0 .. RingSize - 1 -> Byte] /\ ring_tail \in 0 .. Modulus - 1
        /\ Waiting \in 0 .. RingSize
    BY <1>1 DEF TypeOK
  <2>2. QED
    BY <2>1, BytesAre DEF Queue
<1>3. /\ Queue' \in Seq(Byte) /\ Len(Queue') = Waiting'
      /\ \A i \in 1 .. Waiting' : Queue'[i] = ring'[Slot(Plus(ring_tail', i - 1))]
  <2>1. /\ ring' \in [0 .. RingSize - 1 -> Byte] /\ ring_tail' \in 0 .. Modulus - 1
        /\ Waiting' \in 0 .. RingSize
    BY <1>1 DEF TypeOK
  <2>2. QED
    BY <2>1, BytesAre DEF Queue
<1>4. ring_tail \in 0 .. Modulus - 1
  BY DEF TypeOK
<1>5. ASSUME NEW i \in 1 .. Waiting' PROVE Queue'[i] = Queue[n + i]
  <2>1. Plus(ring_tail', i - 1) = Plus(ring_tail, (n + i) - 1)
    BY <1>1, <1>4, <1>5 DEF Plus
  <2>2. n + i \in 1 .. Waiting
    BY <1>1, <1>5
  <2>3. QED
    BY <2>1, <2>2, <1>2, <1>3, <1>5
<1>6. QED
  <2> DEFINE A == Queue
             B == Queue'
             w == Waiting
  <2>0. w \in Nat /\ A \in Seq(Byte) /\ B \in Seq(Byte) /\ Len(A) = w /\ Len(B) = w - n
          /\ (\A i \in 1 .. w - n : B[i] = A[n + i])
    BY <1>1, <1>2, <1>3, <1>5
  <2> HIDE DEF A, B, w
  <2>1. B = SubSeq(A, n + 1, Len(A))
    BY <2>0
  <2>2. QED
    BY <2>1, <1>1 DEF A, B

\* What the reader has in hand: the byte that t names, which console_rx cannot
\* have overwritten; or the news that there was none when it looked.
Carried ==
  /\ pc = "advance" => c = ring[Slot(t)]
  /\ pc = "nothing" => Waiting - Skipped <= fresh

\* Every step keeps Carried.
LEMMA CarriedStep == IInv /\ IInv' /\ Carried /\ [Next]_vars => Carried'
<1> SUFFICES ASSUME IInv, IInv', Carried, [Next]_vars PROVE Carried'
  OBVIOUS
<1> USE Sizes
<1> USE DEF ringVars, modeVars, readVars, history
<1>0. /\ ring_head \in 0 .. Modulus - 1 /\ ring_tail \in 0 .. Modulus - 1
      /\ t \in 0 .. Modulus - 1 /\ fresh \in Nat /\ ring \in [0 .. RingSize - 1 -> Byte]
      /\ Waiting \in Nat /\ Skipped \in Nat
  BY MinusType DEF IInv, TypeOK, Waiting, Skipped
<1>1. ASSUME NEW b \in Byte, StoreByte(b) PROVE Carried'
  <2>1. UNCHANGED <<pc, t, c, ring_tail>>
    BY <1>1 DEF StoreByte
  <2>2. CASE Waiting >= RingSize
    BY <1>1, <2>1, <2>2 DEF StoreByte, Waiting, Skipped, Carried
  <2>3. CASE ~(Waiting >= RingSize)
    <3>1. /\ ring' = [ring EXCEPT ![Slot(ring_head)] = b] /\ ring_head' = Succ(ring_head)
          /\ pc # "idle" => fresh' = fresh + 1
      BY <1>1, <2>3 DEF StoreByte, Waiting
    <3>2. Waiting' = Waiting + 1 /\ Skipped' = Skipped
      BY <2>1, <2>3, <3>1, <1>0 DEF Waiting, Skipped, Minus, Succ
    <3>3. ASSUME pc = "advance" PROVE ring'[Slot(t)] = ring[Slot(t)]
      <4> DEFINE n == Waiting - Skipped
      <4>1. Skipped < Waiting
        BY <3>3 DEF IInv, Window
      <4>2. n \in 1 .. RingSize - 1
        BY <4>1, <2>3, <1>0
      <4>3. ring_head = Plus(t, n)
        BY <4>1, <1>0 DEF Waiting, Skipped, Minus, Plus
      <4> HIDE DEF n
      <4>4. Slot(Plus(t, n)) # Slot(t)
        BY <4>2, <1>0, SlotsApart
      <4>5. Slot(t) \in 0 .. RingSize - 1
        BY <1>0, SlotType
      <4>6. QED
        BY <4>3, <4>4, <4>5, <3>1, <1>0
    <3>4. QED
      BY <2>1, <3>1, <3>2, <3>3, <1>0 DEF Carried
  <2>4. QED
    BY <2>2, <2>3
<1>2. CASE CompareHead
  <2>1. t = ring_head => Waiting = Skipped
    BY DEF Waiting, Skipped
  <2>2. QED
    BY <1>2, <2>1, <1>0 DEF CompareHead, Carried, Waiting, Skipped
<1>3. CASE TakeByte
  BY <1>3 DEF TakeByte, Carried
<1>4. CASE pc' \notin {"advance", "nothing"}
  BY <1>4 DEF Carried
<1>5. CASE pc' = pc /\ UNCHANGED <<ring, ring_head, ring_tail, t, c, fresh>>
  BY <1>5 DEF Carried, Waiting, Skipped
<1>6. CASE InterruptKey
  BY <1>6, <1>5 DEF InterruptKey
<1>7. CASE GetcPolled \/ GetcBegin \/ TestDrop \/ ClearDrop \/ SkipTypedAhead \/ ReturnNothing
             \/ AdvanceTail
  BY <1>7, <1>4
     DEF GetcPolled, GetcBegin, TestDrop, ClearDrop, SkipTypedAhead, ReturnNothing, AdvanceTail, Retire
<1>8. CASE console_init \/ console_set_reading \/ native_ctrl_c_set \/ TakeInterrupt
  BY <1>8, <1>4 DEF console_init, console_set_reading, native_ctrl_c_set, TakeInterrupt
<1>9. CASE UNCHANGED vars
  BY <1>9, <1>5 DEF vars
<1>10. QED
  BY <1>1, <1>2, <1>3, <1>6, <1>7, <1>8, <1>9 DEF Next, console_rx, console_getc_nonblock

\* A call that retires n bytes removes them from the queue of TypeAhead.
LEMMA RetireRemoves ==
  ASSUME IInv, TypeOK', NEW n \in 0 .. Waiting, n <= RingSize, Retire(Plus(ring_tail, n)),
         UNCHANGED <<ring, ring_head>>
  PROVE  Abstract!Remove(n)
<1> USE Sizes
<1>1. TypeOK /\ Waiting <= RingSize /\ ring_tail \in 0 .. Modulus - 1 /\ n \in 0 .. Modulus - 1
  BY DEF IInv, TypeOK, Window
<1>2. Minus(Plus(ring_tail, n), ring_tail) = n
  BY <1>1, PlusIs
<1>3. ring_tail' = Plus(ring_tail, n)
  BY DEF Retire
<1>4. Queue' = SubSeq(Queue, n + 1, Len(Queue))
  BY <1>1, <1>3, QueueRetires
<1>5. /\ condemned' = IF condemned > n THEN condemned - n ELSE 0
      /\ must' = 0 /\ fresh' = 0 /\ pc' = "idle"
  BY <1>2 DEF Retire
<1>6. QED
  BY <1>4, <1>5 DEF Abstract!Remove, Queue, Bytes

\* Every step of the console is a step of TypeAhead or none.
LEMMA StepImplements ==
  IInv /\ IInv' /\ Carried /\ [Next]_vars => [Abstract!Next]_(Abstract!vars)
<1> SUFFICES ASSUME IInv, IInv', Carried, [Next]_vars PROVE [Abstract!Next]_(Abstract!vars)
  OBVIOUS
<1> USE Sizes
<1> USE DEF ringVars, modeVars, readVars, history
<1>0. /\ TypeOK /\ TypeOK' /\ Waiting <= RingSize /\ Waiting \in 0 .. RingSize /\ Skipped \in Nat
      /\ Queue \in Seq(Byte) /\ Len(Queue) = Waiting
      /\ \A i \in 1 .. Waiting : Queue[i] = ring[Slot(Plus(ring_tail, i - 1))]
  <2>1. TypeOK /\ TypeOK' /\ Waiting <= RingSize
    BY DEF IInv, Window
  <2>2. /\ ring \in [0 .. RingSize - 1 -> Byte] /\ ring_tail \in 0 .. Modulus - 1
        /\ ring_head \in 0 .. Modulus - 1 /\ t \in 0 .. Modulus - 1
    BY <2>1 DEF TypeOK
  <2>3. Waiting \in 0 .. RingSize /\ Skipped \in Nat
    BY <2>1, <2>2 DEF Waiting, Skipped, Minus
  <2>4. /\ Queue \in Seq(Byte) /\ Len(Queue) = Waiting
        /\ \A i \in 1 .. Waiting : Queue[i] = ring[Slot(Plus(ring_tail, i - 1))]
    BY <2>2, <2>3, BytesAre DEF Queue
  <2>5. QED
    BY <2>1, <2>3, <2>4
<1>1. ASSUME UNCHANGED <<ring, ring_head, ring_tail, condemned, must, fresh, result>>,
             (pc = "idle") = (pc' = "idle")
      PROVE  UNCHANGED Abstract!vars
  <2>1. Waiting' = Waiting
    BY <1>1 DEF Waiting
  <2>2. QED
    BY <1>1, <2>1 DEF Abstract!vars
<1>2. ASSUME NEW b \in Byte, StoreByte(b) PROVE Abstract!Receive
  <2>1. UNCHANGED <<condemned, must, result, pc, ring_tail>>
    BY <1>2 DEF StoreByte
  <2>2. CASE Waiting >= RingSize
    <3>1. UNCHANGED <<ring, ring_head, fresh>>
      BY <1>2, <2>2 DEF StoreByte, Waiting
    <3>2. Queue' = Queue /\ Len(Queue) = RingSize
      BY <3>1, <2>1, <2>2, <1>0 DEF Queue, Waiting
    <3>3. QED
      BY <2>1, <3>1, <3>2 DEF Abstract!Receive, Queue, Bytes
  <2>3. CASE ~(Waiting >= RingSize)
    <3>1. /\ ring' = [ring EXCEPT ![Slot(ring_head)] = b] /\ ring_head' = Succ(ring_head)
          /\ fresh' = IF pc = "idle" THEN fresh ELSE fresh + 1
      BY <1>2, <2>3 DEF StoreByte, Waiting
    <3>2. Queue' = Append(Queue, b) /\ Len(Queue) < RingSize
      <4>1. Waiting < RingSize /\ ring_tail' = ring_tail
        BY <2>1, <2>3, <1>0
      <4>2. Queue' = Append(Queue, b)
        BY <4>1, <3>1, <1>0, QueueStores
      <4>3. QED
        BY <4>1, <4>2, <1>0
    <3>3. fresh' = IF pc # "idle" THEN fresh + 1 ELSE fresh
      BY <3>1
    <3>4. QED
      BY <2>1, <3>2, <3>3 DEF Abstract!Receive, Queue, Bytes
  <2>4. QED
    BY <2>2, <2>3
<1>3. CASE InterruptKey
  <2>1. condemned' = Len(Queue) /\ Queue' = Queue /\ UNCHANGED <<pc, must, fresh, result>>
    BY <1>3, <1>0 DEF InterruptKey, Queue, Waiting
  <2>2. Abstract!InterruptKey
    BY <2>1 DEF Abstract!InterruptKey, Queue, Bytes
  <2>3. QED
    BY <2>2 DEF Abstract!Next
<1>4. CASE GetcBegin
  <2>1. Queue' = Queue /\ pc = "idle" /\ pc' # "idle" /\ must' = condemned /\ fresh' = 0
          /\ UNCHANGED <<condemned, result>>
    BY <1>4 DEF GetcBegin, Queue, Waiting
  <2>2. Abstract!Begin
    BY <2>1 DEF Abstract!Begin, Queue, Bytes
  <2>3. QED
    BY <2>2 DEF Abstract!Next
<1>5. CASE AdvanceTail
  <2>1. pc = "advance" /\ Retire(Succ(t)) /\ result' = c /\ UNCHANGED <<ring, ring_head>>
    BY <1>5 DEF AdvanceTail
  <2>2. Skipped \in must .. condemned /\ Skipped < Waiting /\ must \in Nat /\ condemned \in Nat
    BY <2>1, <1>0 DEF IInv, TypeOK, Window, Pending
  <2>3. Succ(t) = Plus(ring_tail, Skipped + 1) /\ t = Plus(ring_tail, Skipped)
    BY <2>2, <1>0 DEF TypeOK, Skipped, Succ, Plus, Minus
  <2>4. Abstract!Remove(Skipped + 1)
    <3>1. Skipped + 1 \in 0 .. Waiting /\ Skipped + 1 <= RingSize
      BY <2>2, <1>0
    <3>2. QED
      BY <3>1, <2>1, <2>3, <1>0, RetireRemoves
  <2>5. result' = Queue[Skipped + 1]
    <3>1. Queue[Skipped + 1] = ring[Slot(Plus(ring_tail, Skipped))]
      BY <2>2, <1>0
    <3>2. QED
      BY <3>1, <2>1, <2>3 DEF Carried
  <2>6. Skipped < Len(Queue)
    BY <2>2, <1>0
  <2>7. Abstract!Deliver
    BY <2>1, <2>2, <2>4, <2>5, <2>6 DEF Abstract!Deliver, Queue, Bytes
  <2>8. QED
    BY <2>7 DEF Abstract!Next
<1>6. CASE ReturnNothing
  <2>1. pc = "nothing" /\ Retire(t) /\ result' = None /\ UNCHANGED <<ring, ring_head>>
    BY <1>6 DEF ReturnNothing
  <2>2. Skipped \in must .. condemned /\ Skipped <= Waiting /\ must \in Nat /\ condemned \in Nat
    BY <2>1, <1>0 DEF IInv, TypeOK, Window, Pending
  <2>3. t = Plus(ring_tail, Skipped)
    BY <2>2, <1>0 DEF TypeOK, Skipped, Plus, Minus
  <2>4. Abstract!Remove(Skipped)
    BY <2>1, <2>2, <2>3, <1>0, RetireRemoves
  <2>5. Len(Queue) - Skipped <= fresh
    BY <2>1, <1>0 DEF Carried
  <2>6. Abstract!Nothing
    BY <2>1, <2>2, <2>4, <2>5 DEF Abstract!Nothing, Queue, Bytes
  <2>7. QED
    BY <2>6 DEF Abstract!Next
<1>7. CASE GetcPolled \/ TestDrop \/ ClearDrop \/ SkipTypedAhead \/ CompareHead \/ TakeByte
  BY <1>7, <1>1 DEF GetcPolled, TestDrop, ClearDrop, SkipTypedAhead, CompareHead, TakeByte
<1>8. CASE console_init \/ console_set_reading \/ native_ctrl_c_set \/ TakeInterrupt
  BY <1>8, <1>1 DEF console_init, console_set_reading, native_ctrl_c_set, TakeInterrupt
<1>9. CASE UNCHANGED vars
  BY <1>9, <1>1 DEF vars
<1>10. QED
  BY <1>2, <1>3, <1>4, <1>5, <1>6, <1>7, <1>8, <1>9
     DEF Next, console_rx, console_getc_nonblock, Abstract!Next

\* For every ring size and every counter width, the lock-free ring delivers
\* what the bounded queue of TypeAhead allows: in order, nothing lost but what
\* finds it full, nothing dropped but what an interrupt key condemned.
THEOREM ImplementsTypeAheadTheorem == Spec => ImplementsTypeAhead
<1>1. Init => Carried
  BY DEF Init, Carried
<1>2. Init => Abstract!Init
  <2> SUFFICES ASSUME Init PROVE Abstract!Init
    OBVIOUS
  <2>1. Waiting = 0
    BY Sizes DEF Init, Waiting, Minus
  <2>2. QED
    BY <2>1 DEF Init, Abstract!Init
<1>3. IInv /\ IInv' /\ Carried /\ [Next]_vars => Carried'
  BY CarriedStep
<1>4. IInv /\ IInv' /\ Carried /\ [Next]_vars => [Abstract!Next]_(Abstract!vars)
  BY StepImplements
<1>5. QED
  BY <1>1, <1>2, <1>3, <1>4, Invariance, PTL DEF Spec, ImplementsTypeAhead, Abstract!Spec

-----------------------------------------------------------------------------
(***************************************************************************)
(* Device interrupts.  For any set of interrupts and of listener tasks,    *)
(* however deep their frames nest: irq-wait! returns only for an interrupt *)
(* that fired.                                                             *)
(***************************************************************************)
Bits == {n \in Sources : n < MaxIrqs}
Frame ==
  {RunFrame} \cup [kind : {"wait"}, task : Listener, at : {"poll", "load", "store"},
                   loaded : SUBSET Bits]

Types ==
  /\ raised \subseteq Sources /\ enabled \subseteq Sources
  /\ irq_pending \subseteq Bits
  /\ stack \in Seq(Frame)
  /\ listener \in [Listener -> {"unborn", "call", "waiting", "dispatch"}]

\* Frames below the top one run scheduler ticks: none of them is half-way
\* through irq_pending &= ~(1 << n).
OnlyTopStores ==
  \A i \in 1 .. Len(stack) - 1 : stack[i].kind = "wait" => stack[i].at = "poll"

\* What is about to be stored has fired since it was last waited for, and is
\* not what this wait has waited for.
StoresFired ==
  \A i \in 1 .. Len(stack) : stack[i].kind = "wait" /\ stack[i].at = "store" =>
    stack[i].loaded \subseteq fired \ {IrqOf[stack[i].task]}

\* The inductive invariant
DevInv == Types /\ irq_pending \subseteq fired /\ OnlyTopStores /\ StoresFired

-----------------------------------------------------------------------------
\* The stack with another frame on top, with its top taken away, and with one more
LEMMA StackOps ==
  ASSUME Types
  PROVE  /\ Len(stack) \in Nat /\ DOMAIN stack = 1 .. Len(stack)
         /\ stack = <<>> <=> Len(stack) = 0
         /\ \A i \in 1 .. Len(stack) : stack[i] \in Frame
         /\ stack # <<>> => Len(stack) \in 1 .. Len(stack) /\ Top = stack[Len(stack)] /\ Top \in Frame
<1>1. stack \in Seq(Frame)
  BY DEF Types
<1>2. Len(stack) \in Nat /\ DOMAIN stack = 1 .. Len(stack) /\ stack \in [1 .. Len(stack) -> Frame]
  BY <1>1, LenProperties
<1>3. stack = <<>> <=> Len(stack) = 0
  BY <1>1, EmptySeq
<1>4. QED
  BY <1>2, <1>3 DEF Top

LEMMA SetTopIs ==
  ASSUME Types, stack # <<>>, NEW f \in Frame, stack' = SetTop(f)
  PROVE  /\ stack' \in Seq(Frame) /\ Len(stack') = Len(stack) /\ DOMAIN stack' = DOMAIN stack
         /\ stack'[Len(stack)] = f /\ \A i \in 1 .. Len(stack) - 1 : stack'[i] = stack[i]
<1>1. /\ stack \in Seq(Frame) /\ Len(stack) \in Nat /\ DOMAIN stack = 1 .. Len(stack)
      /\ Len(stack) \in 1 .. Len(stack)
  BY StackOps DEF Types
<1>2. stack' = [stack EXCEPT ![Len(stack)] = f]
  BY DEF SetTop
<1>3. /\ stack' \in Seq(Frame) /\ Len(stack') = Len(stack)
      /\ \A j \in 1 .. Len(stack) : stack'[j] = IF j = Len(stack) THEN f ELSE stack[j]
  BY <1>1, <1>2, ExceptSeq
<1>4. stack'[Len(stack)] = f
  BY <1>1, <1>3
<1>5. ASSUME NEW i \in 1 .. Len(stack) - 1
      PROVE  stack'[i] = stack[i]
  <2>1. i \in 1 .. Len(stack) /\ i # Len(stack)
    <3>1. Len(stack) \in Nat
      BY <1>1
    <3>2. QED
      BY <3>1
  <2>2. QED
    BY <1>3, <2>1
<1>6. QED
  BY <1>1, <1>2, <1>3, <1>4, <1>5

LEMMA PopIs ==
  ASSUME Types, stack # <<>>, stack' = Pop
  PROVE  /\ stack' \in Seq(Frame) /\ Len(stack') = Len(stack) - 1
         /\ DOMAIN stack' = 1 .. Len(stack) - 1
         /\ \A i \in 1 .. Len(stack) - 1 : stack'[i] = stack[i]
<1>1. /\ Len(stack) \in Nat \ {0}
      /\ \A i \in 1 .. Len(stack) - 1 : stack[i] \in Frame
  BY StackOps
<1>2. stack' = SubSeq(stack, 1, Len(stack) - 1)
  BY DEF Pop
<1> DEFINE k == Len(stack) - 1
<1>3. k \in Nat
  BY <1>1
<1>4. /\ SubSeq(stack, 1, k) \in Seq(Frame) /\ Len(SubSeq(stack, 1, k)) = k
      /\ \A i \in 1 .. k : SubSeq(stack, 1, k)[i] = stack[i]
  <2> HIDE DEF k
  <2>1. \A i \in 1 .. k : stack[i] \in Frame
    BY <1>1, <1>3 DEF k
  <2>2. QED
    BY <1>3, <2>1, SubSeqProperties
<1>5. Len(stack') = k /\ stack' \in Seq(Frame)
  BY <1>2, <1>3, <1>4
<1>6. DOMAIN stack' = 1 .. k
  BY <1>5, LenProperties
<1>7. QED
  BY <1>1, <1>2, <1>3, <1>4, <1>5, <1>6

LEMMA PushIs ==
  ASSUME Types, NEW f \in Frame, stack' = Append(stack, f)
  PROVE  /\ stack' \in Seq(Frame) /\ Len(stack') = Len(stack) + 1
         /\ DOMAIN stack' = 1 .. Len(stack) + 1
         /\ \A i \in 1 .. Len(stack) : stack'[i] = stack[i]
         /\ stack'[Len(stack) + 1] = f
<1>1. stack \in Seq(Frame)
  BY DEF Types
<1>2. QED
  BY <1>1, AppendProperties, LenProperties

\* A frame of irq-wait! on top, and the task it belongs to
LEMMA WaitTop ==
  ASSUME Types, NEW at, WaitingAt(at)
  PROVE  /\ stack # <<>> /\ Top.task \in Listener /\ Top.at = at /\ Top.kind = "wait"
         /\ Top.loaded \subseteq Bits
         /\ IrqOf[Top.task] \in Bits
<1>1. Top \in Frame /\ Top.kind = "wait" /\ stack # <<>> /\ Top.at = at
  BY StackOps DEF WaitingAt
<1>2. Top # RunFrame
  BY <1>1 DEF RunFrame
<1>3. QED
  BY <1>1, <1>2, IrqAssumption DEF Frame, Types, IrqAssumption, Bits

LEMMA WaitFrameIs ==
  ASSUME NEW l \in Listener, NEW at \in {"poll", "load", "store"}, NEW S \in SUBSET Bits
  PROVE  /\ WaitFrame(l, at, S) \in Frame
         /\ WaitFrame(l, at, S).kind = "wait" /\ WaitFrame(l, at, S).task = l
         /\ WaitFrame(l, at, S).at = at /\ WaitFrame(l, at, S).loaded = S
BY DEF WaitFrame, Frame

\* A step that leaves the stack, the listeners and irq_pending alone, and takes
\* nothing out of fired
LEMMA Beside ==
  ASSUME DevInv, UNCHANGED <<stack, listener>>, irq_pending' \subseteq Bits \cap fired',
         fired \subseteq fired', raised' \subseteq Sources, enabled' \subseteq Sources
  PROVE  DevInv'
<1>1. Types'
  BY DEF DevInv, Types
<1>2. OnlyTopStores' /\ StoresFired'
  BY DEF DevInv, OnlyTopStores, StoresFired
<1>4. QED
  BY <1>1, <1>2 DEF DevInv
-----------------------------------------------------------------------------
\* The steps of the frame on top

LEMMA KeepsPollSet ==
  ASSUME DevInv, PollSet
  PROVE  DevInv'
<1> DEFINE f == WaitFrame(Top.task, "load", {})
           l == Top.task
<1>1. Types /\ stack # <<>> /\ l \in Listener /\ stack' = SetTop(f) /\ Top.kind = "wait"
  BY WaitTop DEF DevInv, PollSet
<1>2. f \in Frame /\ f.kind = "wait" /\ f.task = l /\ f.at = "load"
  BY <1>1, WaitFrameIs
<1> HIDE DEF f
<1>3. /\ Len(stack) \in Nat \ {0} /\ DOMAIN stack = 1 .. Len(stack) /\ Top = stack[Len(stack)]
      /\ stack' \in Seq(Frame) /\ Len(stack') = Len(stack) /\ DOMAIN stack' = DOMAIN stack
      /\ stack'[Len(stack)] = f /\ \A i \in 1 .. Len(stack) - 1 : stack'[i] = stack[i]
  BY <1>1, <1>2, StackOps, SetTopIs
<1>4. Types'
  BY <1>1, <1>3 DEF Types, PollSet, plic
<1>5. OnlyTopStores' /\ StoresFired' /\ irq_pending' \subseteq fired'
  BY <1>2, <1>3 DEF DevInv, OnlyTopStores, StoresFired, PollSet
<1>8. QED
  BY <1>4, <1>5 DEF DevInv

LEMMA KeepsLoadPending ==
  ASSUME DevInv, LoadPending
  PROVE  DevInv'
<1> DEFINE l == Top.task
           S == irq_pending \ {IrqOf[Top.task]}
           f == WaitFrame(Top.task, "store", S)
<1>1. Types /\ stack # <<>> /\ l \in Listener /\ stack' = SetTop(f) /\ Top.kind = "wait"
  BY WaitTop DEF DevInv, LoadPending
<1>2. S \in SUBSET Bits
  BY <1>1 DEF Types
<1>3. f \in Frame /\ f.kind = "wait" /\ f.task = l /\ f.at = "store" /\ f.loaded = S
  BY <1>1, <1>2, WaitFrameIs
<1> HIDE DEF f
<1>4. /\ Len(stack) \in Nat \ {0} /\ DOMAIN stack = 1 .. Len(stack) /\ Top = stack[Len(stack)]
      /\ stack' \in Seq(Frame) /\ Len(stack') = Len(stack) /\ DOMAIN stack' = DOMAIN stack
      /\ stack'[Len(stack)] = f /\ \A i \in 1 .. Len(stack) - 1 : stack'[i] = stack[i]
  BY <1>1, <1>3, StackOps, SetTopIs
<1>5. Types'
  BY <1>1, <1>4 DEF Types, LoadPending, plic
<1>6. OnlyTopStores' /\ StoresFired' /\ irq_pending' \subseteq fired'
  <2>1. fired' = fired /\ irq_pending' = irq_pending /\ irq_pending \subseteq fired
    BY DEF DevInv, LoadPending
  <2>2. OnlyTopStores'
    BY <1>4 DEF DevInv, OnlyTopStores
  <2>3. f.loaded \subseteq fired \ {IrqOf[f.task]}
    BY <1>3, <2>1
  <2>4. ASSUME NEW i \in 1 .. Len(stack'), stack'[i].kind = "wait", stack'[i].at = "store"
        PROVE  stack'[i].loaded \subseteq fired' \ {IrqOf[stack'[i].task]}
    <3>1. CASE i = Len(stack)
      BY <1>4, <2>1, <2>3, <3>1
    <3>2. CASE i # Len(stack)
      <4>0. Len(stack) \in Nat /\ Len(stack') = Len(stack)
        BY <1>4
      <4>1. i \in 1 .. Len(stack) - 1 /\ i \in 1 .. Len(stack)
        BY <4>0, <3>2
      <4>2. stack'[i] = stack[i]
        BY <1>4, <4>1
      <4>3. stack[i].loaded \subseteq fired \ {IrqOf[stack[i].task]}
        BY <2>4, <4>1, <4>2 DEF DevInv, StoresFired
      <4>4. QED
        BY <2>1, <4>2, <4>3
    <3>3. QED
      BY <3>1, <3>2
  <2>5. QED
    BY <2>1, <2>2, <2>4 DEF StoresFired
<1>9. QED
  BY <1>5, <1>6 DEF DevInv

LEMMA KeepsStorePending ==
  ASSUME DevInv, StorePending
  PROVE  DevInv'
<1> DEFINE N == Len(stack)
<1>0. PICK l \in Listener : l = Top.task
  BY WaitTop DEF DevInv, StorePending
<1>1. /\ Types /\ stack # <<>> /\ l \in Listener /\ stack' = Pop /\ Top.kind = "wait"
      /\ Top.at = "store" /\ Top.loaded \subseteq Bits /\ IrqOf[l] \in Bits
  BY <1>0, WaitTop DEF DevInv, StorePending
<1>2. /\ N \in Nat \ {0} /\ DOMAIN stack = 1 .. N /\ Top = stack[N]
      /\ stack' \in Seq(Frame) /\ Len(stack') = N - 1 /\ DOMAIN stack' = 1 .. N - 1
      /\ \A i \in 1 .. N - 1 : stack'[i] = stack[i]
  BY <1>1, StackOps, PopIs
<1>3. Top.loaded \subseteq fired \ {IrqOf[l]}
  BY <1>0, <1>1, <1>2 DEF DevInv, StoresFired
<1>4. listener' = [listener EXCEPT ![l] = "dispatch"] /\ irq_pending' = Top.loaded
      /\ fired' = fired \ {IrqOf[l]}
  BY <1>0 DEF StorePending
<1>5. Types'
  BY <1>1, <1>2, <1>4 DEF Types, StorePending, plic
<1>6. irq_pending' \subseteq fired'
  BY <1>3, <1>4
<1>7. OnlyTopStores' /\ StoresFired'
  <2>1. \A i \in 1 .. N - 1 : stack'[i].kind = "wait" => stack'[i].at = "poll"
    BY <1>2 DEF DevInv, OnlyTopStores
  <2>2. QED
    BY <1>2, <2>1 DEF OnlyTopStores, StoresFired
<1>11. QED
  BY <1>5, <1>6, <1>7 DEF DevInv

LEMMA KeepsFormReturns ==
  ASSUME DevInv, FormReturns
  PROVE  DevInv'
<1> DEFINE N == Len(stack)
<1>1. Types /\ stack # <<>> /\ stack' = Pop /\ Top.kind = "run"
  BY DEF DevInv, FormReturns
<1>2. /\ N \in Nat \ {0} /\ DOMAIN stack = 1 .. N /\ Top = stack[N]
      /\ stack' \in Seq(Frame) /\ Len(stack') = N - 1 /\ DOMAIN stack' = 1 .. N - 1
      /\ \A i \in 1 .. N - 1 : stack'[i] = stack[i]
  BY <1>1, StackOps, PopIs
<1>3. Types'
  BY <1>1, <1>2 DEF Types, FormReturns, plic
<1>4. OnlyTopStores' /\ StoresFired' /\ irq_pending' \subseteq fired'
  BY <1>2 DEF DevInv, OnlyTopStores, StoresFired, FormReturns
<1>7. QED
  BY <1>3, <1>4 DEF DevInv

-----------------------------------------------------------------------------
\* A new frame

LEMMA KeepsRunForm ==
  ASSUME DevInv, RunForm
  PROVE  DevInv'
<1>1. Types /\ Len(stack) = 0 /\ DOMAIN stack = {} /\ stack' = <<RunFrame>>
  BY StackOps DEF DevInv, RunForm
<1>2. RunFrame \in Frame /\ RunFrame.kind = "run"
  BY DEF Frame, RunFrame
<1>3. /\ stack' \in Seq(Frame) /\ Len(stack') = 1 /\ DOMAIN stack' = {1}
      /\ stack'[1] = RunFrame
  BY <1>1, <1>2
<1>4. Types'
  BY <1>1, <1>3 DEF Types, RunForm, plic
<1>5. OnlyTopStores' /\ StoresFired' /\ irq_pending' \subseteq fired'
  BY <1>2, <1>3 DEF DevInv, OnlyTopStores, StoresFired, RunForm
<1>8. QED
  BY <1>4, <1>5 DEF DevInv

LEMMA KeepsCallWait ==
  ASSUME DevInv, NEW l \in Listener, CallWait(l)
  PROVE  DevInv'
<1> DEFINE N == Len(stack)
           f == WaitFrame(l, "poll", {})
<1>1. f \in Frame /\ f.kind = "wait" /\ f.task = l /\ f.at = "poll"
  BY WaitFrameIs
<1>2. Types /\ stack' = Append(stack, f) /\ listener[l] = "call"
      /\ listener' = [listener EXCEPT ![l] = "waiting"]
  BY DEF DevInv, CallWait
<1> HIDE DEF f
<1>3. /\ N \in Nat /\ DOMAIN stack = 1 .. N
      /\ \A i \in 1 .. N : stack[i] \in Frame
      /\ stack' \in Seq(Frame) /\ Len(stack') = N + 1 /\ DOMAIN stack' = 1 .. N + 1
      /\ \A i \in 1 .. N : stack'[i] = stack[i]
      /\ stack'[N + 1] = f
  BY <1>1, <1>2, StackOps, PushIs
<1>4. Types'
  BY <1>2, <1>3 DEF Types, CallWait, plic
<1>5. \A i \in 1 .. N : stack[i].kind = "wait" => stack[i].at = "poll"
  <2>1. CASE N = 0
    BY <2>1
  <2>2. CASE N > 0
    <3>1. stack # <<>> /\ Top = stack[N] /\ Top \in Frame
      BY <1>2, <1>3, <2>2, StackOps
    <3>2. Top.kind = "wait" => Top.at = "poll"
      BY <3>1 DEF CallWait, Ticks, WaitingAt
    <3>3. \A i \in 1 .. N - 1 : stack[i].kind = "wait" => stack[i].at = "poll"
      BY DEF DevInv, OnlyTopStores
    <3>4. QED
      BY <1>3, <3>1, <3>2, <3>3
  <2>3. QED
    BY <1>3, <2>1, <2>2
<1>6. OnlyTopStores' /\ StoresFired' /\ irq_pending' \subseteq fired'
  BY <1>1, <1>3, <1>5 DEF DevInv, OnlyTopStores, StoresFired, CallWait
<1>9. QED
  BY <1>4, <1>6 DEF DevInv

-----------------------------------------------------------------------------
\* Tasks that leave the stack alone

LEMMA KeepsListener ==
  ASSUME DevInv, NEW l \in Listener, listener[l] # "waiting", NEW to \in {"call", "dispatch"},
         listener' = [listener EXCEPT ![l] = to],
         UNCHANGED <<raised, enabled, irq_pending, stack, fired>>
  PROVE  DevInv'
<1>1. Types'
  BY DEF DevInv, Types
<1>2. OnlyTopStores' /\ StoresFired' /\ irq_pending' \subseteq fired'
  BY DEF DevInv, OnlyTopStores, StoresFired
<1>4. \A m \in Listener : listener'[m] = "waiting" <=> listener[m] = "waiting"
  BY DEF DevInv, Types
<1>6. QED
  BY <1>1, <1>2 DEF DevInv

LEMMA KeepsDevices ==
  ASSUME DevInv, mem_trap_handler \/ \E n \in Sources : Raise(n)
  PROVE  DevInv'
<1>1. CASE mem_trap_handler
  <2>1. PICK n \in raised :
          /\ raised' = raised \ {n}
          /\ IF n < MaxIrqs
               THEN /\ irq_pending' = irq_pending \cup {n}
                    /\ fired' = fired \cup {n}
               ELSE UNCHANGED <<irq_pending, fired>>
          /\ UNCHANGED <<enabled, stack, listener>>
    BY <1>1 DEF mem_trap_handler, tasks
  <2>2. n \in Sources /\ (n < MaxIrqs => n \in Bits)
    BY DEF DevInv, Types, Bits
  <2>3. QED
    BY <2>1, <2>2, Beside DEF DevInv, Types
<1>2. CASE \E n \in Sources : Raise(n)
  BY <1>2, Beside DEF Raise, tasks, DevInv, Types
<1>3. QED
  BY <1>1, <1>2

\* The invariant is inductive.
LEMMA DevInductive == DevInv /\ [IrqNext]_irqVars => DevInv'
<1> SUFFICES ASSUME DevInv, [IrqNext]_irqVars PROVE DevInv'
  OBVIOUS
<1>1. CASE (\E n \in Sources : Raise(n)) \/ mem_trap_handler
  BY <1>1, KeepsDevices
<1>2. CASE PollSet \/ LoadPending \/ StorePending \/ FormReturns
  BY <1>2, KeepsPollSet, KeepsLoadPending, KeepsStorePending, KeepsFormReturns
<1>3. CASE RunForm
  BY <1>3, KeepsRunForm
<1>4. CASE native_mem_irq_register
  BY <1>4, Beside DEF native_mem_irq_register, plic, tasks, DevInv, Types
<1>5. CASE native_mem_irq_enable
  BY <1>5, Beside DEF native_mem_irq_enable, tasks, DevInv, Types
<1>6. CASE Spawn
  <2>1. PICK l \in Listener : listener[l] = "unborn" /\ listener' = [listener EXCEPT ![l] = "call"]
    BY <1>6 DEF Spawn
  <2>2. QED
    BY <1>6, <2>1, KeepsListener DEF Spawn, plic
<1>7. CASE FormEnds
  BY <1>7, Beside DEF FormEnds, plic, DevInv, Types
<1>8. CASE \E l \in Listener : Quantum(l)
  <2>1. PICK l \in Listener : CallWait(l) \/ Dispatch(l)
    BY <1>8 DEF Quantum
  <2>2. CASE CallWait(l)
    BY <2>2, KeepsCallWait
  <2>3. CASE Dispatch(l)
    BY <2>3, KeepsListener DEF Dispatch, plic
  <2>4. QED
    BY <2>1, <2>2, <2>3
<1>9. CASE UNCHANGED irqVars
  BY <1>9, Beside DEF irqVars, plic, tasks, DevInv, Types
<1>10. QED
  BY <1>1, <1>2, <1>3, <1>4, <1>5, <1>6, <1>7, <1>8, <1>9 DEF IrqNext

\* It holds initially,
LEMMA DevInitial == IrqInit => DevInv
<1> SUFFICES ASSUME IrqInit PROVE DevInv
  OBVIOUS
<1>1. Types /\ Len(stack) = 0 /\ DOMAIN stack = {}
  BY DEF IrqInit, Types
<1>3. QED
  BY <1>1 DEF IrqInit, DevInv, OnlyTopStores, StoresFired

-----------------------------------------------------------------------------
\* and implies the property.
LEMMA DevImplies == DevInv => NoSpuriousWake
<1> SUFFICES ASSUME DevInv PROVE NoSpuriousWake
  OBVIOUS
<1>1. NoSpuriousWake
  <2>1. irq_pending \subseteq 0 .. MaxIrqs - 1
    BY IrqAssumption DEF DevInv, Types, IrqAssumption, Bits
  <2>2. Storing => Top.loaded \subseteq fired
    BY WaitTop, StackOps DEF Storing, DevInv, StoresFired
  <2>3. QED
    BY <2>1, <2>2 DEF NoSpuriousWake, DevInv
<1>2. QED
  BY <1>1

LEMMA DevAlways == IrqSpec => []DevInv
<1>1. IrqInit => DevInv
  BY DevInitial
<1>2. DevInv /\ [IrqNext]_irqVars => DevInv'
  BY DevInductive
<1>3. QED
  BY <1>1, <1>2, PTL DEF IrqSpec

\* irq-wait! (mem_natives.c) returns only for an interrupt that fired, however
\* many waits are nested and wherever a trap comes between the load and the
\* store of irq_pending &= ~(1 << n).
THEOREM NoSpuriousWakeTheorem == IrqSpec => []NoSpuriousWake
<1>1. IrqSpec => []DevInv
  BY DevAlways
<1>2. DevInv => NoSpuriousWake
  BY DevImplies
<1>3. QED
  BY <1>1, <1>2, PTL
=============================================================================
