------------------------------ MODULE TypeAhead ------------------------------
(***************************************************************************)
(* What kernel/console.c promises its reader, without the ring: a bounded  *)
(* queue of received bytes.                                                *)
(*                                                                         *)
(*   - bytes are delivered in the order received; one that finds the queue *)
(*     full is lost, and nothing else is;                                  *)
(*   - an interrupt key condemns the bytes typed ahead of it.  A call of   *)
(*     console_getc_nonblock discards at least what was condemned when it  *)
(*     began and never a byte that no interrupt key followed;              *)
(*   - a call finds nothing only if all that was queued when it began was  *)
(*     condemned.                                                          *)
(***************************************************************************)
EXTENDS Naturals, Sequences

CONSTANTS Byte,       \* what the serial line can deliver as data
          None,       \* "no byte": console_getc_nonblock returned 0
          Capacity    \* how many bytes may be waiting

VARIABLES queue,      \* bytes received and not yet delivered or discarded
          condemned,  \* how many of its first bytes an interrupt key followed
          busy,       \* a call of console_getc_nonblock is under way
          must,       \* how many bytes were condemned when it began
          fresh,      \* how many bytes arrived since it began
          result      \* what the last call that ended returned

vars == <<queue, condemned, busy, must, fresh, result>>

Init ==
  /\ queue = <<>> /\ condemned = 0
  /\ busy = FALSE /\ must = 0 /\ fresh = 0
  /\ result = None

\* A byte is received: queued if there is room, lost if not.
Receive ==
  /\ \/ /\ Len(queue) < Capacity
        /\ \E b \in Byte : queue' = Append(queue, b)
        /\ fresh' = IF busy THEN fresh + 1 ELSE fresh
     \/ /\ Len(queue) = Capacity
        /\ UNCHANGED <<queue, fresh>>
  /\ UNCHANGED <<condemned, busy, must, result>>

\* An interrupt key condemns everything typed before it.
InterruptKey ==
  /\ condemned' = Len(queue)
  /\ UNCHANGED <<queue, busy, must, fresh, result>>

Begin ==
  /\ ~busy
  /\ busy' = TRUE /\ must' = condemned /\ fresh' = 0
  /\ UNCHANGED <<queue, condemned, result>>

\* Remove the first n bytes, which count against the condemned ones.
Remove(n) ==
  /\ queue' = SubSeq(queue, n + 1, Len(queue))
  /\ condemned' = IF condemned > n THEN condemned - n ELSE 0
  /\ busy' = FALSE /\ must' = 0 /\ fresh' = 0

\* The call discards k condemned bytes and delivers the next.
Deliver ==
  /\ busy
  /\ \E k \in must .. condemned :
       /\ k < Len(queue)
       /\ result' = queue[k + 1]
       /\ Remove(k + 1)

\* The call discards k condemned bytes and finds nothing: what is left
\* arrived while it ran.
Nothing ==
  /\ busy
  /\ \E k \in must .. condemned :
       /\ Len(queue) - k <= fresh
       /\ result' = None
       /\ Remove(k)

Next == Receive \/ InterruptKey \/ Begin \/ Deliver \/ Nothing

Spec == Init /\ [][Next]_vars
=============================================================================
