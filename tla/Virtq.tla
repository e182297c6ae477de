------------------------------- MODULE Virtq -------------------------------
(***************************************************************************)
(* The split virtqueues of lib/virtio.beer, which its drivers share.  A    *)
(* queue is a record: both rings with their indices, how far the driver    *)
(* has seen the used ring, how far the device has taken the available one, *)
(* and the buffer of each descriptor.  The device looks at an index before *)
(* the entries it covers, and so does the driver, so entries and index are *)
(* written together here.                                                  *)
(***************************************************************************)
EXTENDS Integers, Sequences

CONSTANTS qsize,
          Wrap                  \* 2^16: the indices are u16

ASSUME VirtqAssumption ==
  qsize \in Nat \ {0} /\ Wrap \in Nat /\ qsize < Wrap /\ Wrap % qsize = 0

Desc == 0 .. qsize - 1
Inc(i) == (i + 1) % Wrap
Minus(i, j) == (i - j) % Wrap

\* Where index i is in a ring
Entry(i) == i % qsize

setup_queue(empty) ==
  [avail |-> 0, ring |-> [i \in Desc |-> 0], used |-> 0, id |-> [i \in Desc |-> 0],
   seen |-> 0, took |-> 0, buf |-> [i \in Desc |-> empty]]

\* Mutant: the index counts calls, not heads.
PublishOnce(q, heads) ==
  [q EXCEPT !.avail = Inc(@),
            !.ring = [e \in Desc |->
              IF \E k \in DOMAIN heads : Entry((q.avail + k - 1) % Wrap) = e
                THEN heads[CHOOSE k \in DOMAIN heads : Entry((q.avail + k - 1) % Wrap) = e]
                ELSE @[e]]]

\* heads are offered to the device.
publish(q, heads) ==
  [q EXCEPT !.avail = (@ + Len(heads)) % Wrap,
            !.ring = [e \in Desc |->
              IF \E k \in DOMAIN heads : Entry((q.avail + k - 1) % Wrap) = e
                THEN heads[CHOOSE k \in DOMAIN heads : Entry((q.avail + k - 1) % Wrap) = e]
                ELSE @[e]]]

SomeUsed(q) == q.used # q.seen

\* take-used! moves on, then reads the entry it moved past.
take_used(q) == [q EXCEPT !.seen = Inc(@)]
TakenId(q) == q.id[Entry((q.seen - 1) % Wrap)]

\* The device (external): it fills the next buffer it was offered.
Starved(q) == q.took = q.avail
Completed(q, data) ==
  LET i == q.ring[Entry(q.took)]
  IN  [q EXCEPT !.took = Inc(@), !.buf[i] = data, !.id[Entry(q.used)] = i, !.used = Inc(@)]

\* Descriptors the device may still use, and those it has used and the driver
\* has not taken, in order
Offered(q) == [k \in 1 .. Minus(q.avail, q.took) |-> q.ring[Entry((q.took + k - 1) % Wrap)]]
Untaken(q) == [k \in 1 .. Minus(q.used, q.seen) |-> q.id[Entry((q.seen + k - 1) % Wrap)]]
=============================================================================
