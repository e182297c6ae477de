------------------------------ MODULE BlockDev ------------------------------
(***************************************************************************)
(* What docs/block-device.md promises of a block device: one request at a  *)
(* time, and "an op either completes fully or throws".  A request that     *)
(* returns ok took effect, once, between its call and its return; one that *)
(* throws may have taken effect on any of its sectors or on none.  Nothing *)
(* is promised once a request has timed out, or after a second probe.      *)
(***************************************************************************)
EXTENDS Naturals

CONSTANTS Sectors,   \* size of the device
          Val        \* what a sector can hold

VARIABLES disk,      \* contents of the device, by sector
          buf,       \* the caller's buffer, by sector of the request
          req,       \* the request under way
          phase      \* "idle", "pending", "ok", "error" or "lost"

vars == <<disk, buf, req, phase>>

Lba == 0 .. Sectors - 1
MaxN == Sectors                       \* no request is larger than the device
Buffers == [0 .. MaxN - 1 -> Val]

\* Reads and writes of n sectors from lba, and cache flushes.
InRange(lba, n) == n > 0 /\ lba <= Sectors /\ n <= Sectors - lba
Requests == [type : {"read", "write"}, lba : 0 .. Sectors, n : 0 .. Sectors]
NoRequest == [type |-> "flush", lba |-> 0, n |-> 0]

Covers(r, s) == r.lba <= s /\ s < r.lba + r.n

\* disk after r wrote from b; b after r read from disk d
Written(r, d, b) ==
  [s \in Lba |-> IF r.type = "write" /\ Covers(r, s) THEN b[s - r.lba] ELSE d[s]]
Filled(r, d, b) ==
  [i \in 0 .. MaxN - 1 |->
     IF r.type = "read" /\ i < r.n THEN d[r.lba + i] ELSE b[i]]

Init ==
  /\ \E v \in Val : disk = [s \in Lba |-> v] /\ buf = [i \in 0 .. MaxN - 1 |-> v]
  /\ req = NoRequest
  /\ phase = "idle"

\* The caller fills its buffer and issues a request.
Invoke ==
  /\ phase = "idle"
  /\ buf' \in Buffers
  /\ req' \in {r \in Requests : InRange(r.lba, r.n)} \cup {NoRequest}
  /\ phase' = "pending"
  /\ UNCHANGED disk

Execute ==
  /\ phase = "pending"
  /\ disk' = Written(req, disk, buf)
  /\ buf' = Filled(req, disk, buf)
  /\ phase' = "ok"
  /\ UNCHANGED req

\* The device fails the request, having done part of it.
Fail ==
  /\ phase = "pending"
  /\ \A s \in Lba : disk'[s] \in {disk[s], Written(req, disk, buf)[s]}
  /\ DOMAIN disk' = Lba
  /\ phase' = "error"
  /\ UNCHANGED <<buf, req>>

Return ==
  /\ phase \in {"ok", "error"}
  /\ phase' = "idle"
  /\ UNCHANGED <<disk, buf, req>>

GiveUp ==
  /\ phase \in {"idle", "pending"}
  /\ phase' = "lost"
  /\ UNCHANGED <<disk, buf, req>>

Lost == phase = "lost" /\ phase' = "lost"

Next == Invoke \/ Execute \/ Fail \/ Return \/ GiveUp \/ Lost

Spec == Init /\ [][Next]_vars
=============================================================================
