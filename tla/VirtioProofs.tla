--------------------------- MODULE VirtioProofs ----------------------------
(***************************************************************************)
(* Proofs about the virtio drivers.                                        *)
(*                                                                         *)
(* The C block driver, for every device size, queue size and index width:  *)
(* the rings stay in step, and until a request times out or the driver is  *)
(* attached again the driver and the device are BlockDev.                  *)
(*                                                                         *)
(* The queues of the input devices (Input, on the queues of Virtq), for    *)
(* any queue size and index width, any devices, events and generations:    *)
(* each buffer is in one place, with the device, in the used ring or with  *)
(* the polling task.  What is offered, used and in hand, one after the     *)
(* other, is a line of qsize descriptors; the device and the task only     *)
(* move one from one place of the line to another.                         *)
(***************************************************************************)
EXTENDS VirtioBlk, Input, SequenceTheorems, TLAPS

-----------------------------------------------------------------------------
\* The block driver


Valid == {r \in B!Requests : B!InRange(r.lba, r.n)} \cup {B!NoRequest}

\* Chain 0 and the request the device works on are ones the driver let through.
RequestsValid == req \in Valid /\ job.req \in Valid

\* Nothing is published before a probe succeeded.
Unattached ==
  /\ probes = 0 => ~attached
  /\ probes <= 1 /\ ~attached =>
       /\ avail_idx = 0 /\ used_idx = 0 /\ used_seen = 0
       /\ dev_avail = 0 /\ dev_used = 0
       /\ ~job.busy /\ pc = "idle" /\ timeouts = 0
  /\ probes = 0 => timeouts = 0

\* The device's own count is the one it publishes.
OwnCount == probes <= 1 => dev_used = used_idx

\* Until something times out the device works on the request in chain 0.
JobIsRequest == probes <= 1 /\ timeouts = 0 /\ job.busy => job.req = req

IInv == TypeOK /\ RequestsValid /\ Unattached /\ OwnCount /\ JobIsRequest /\ RingsInStep

-----------------------------------------------------------------------------
\* The part of VirtioAssumption that is arithmetic.
LEMMA Constants ==
  /\ Sectors \in Nat /\ Sectors > 0
  /\ IdxMod \in Nat /\ IdxMod > 1 /\ MaxTimeouts \in Nat /\ MaxTimeouts + 1 < IdxMod
BY VirtioAssumption DEF VirtioAssumption

\* Indices stay indices.
LEMMA SuccType ==
  ASSUME NEW i \in 0 .. IdxMod - 1
  PROVE  Succ(i) \in 0 .. IdxMod - 1
BY Constants DEF Succ

\* A valid request writes sectors of the device from sectors of the buffer.
LEMMA WrittenType ==
  ASSUME NEW r \in Valid, NEW d \in [B!Lba -> Val], NEW b \in B!Buffers
  PROVE  B!Written(r, d, b) \in [B!Lba -> Val]
<1> SUFFICES ASSUME NEW s \in B!Lba
             PROVE  (IF r.type = "write" /\ B!Covers(r, s) THEN b[s - r.lba] ELSE d[s]) \in Val
  BY DEF B!Written
<1>1. CASE r.type = "write" /\ B!Covers(r, s)
  <2>1. r.lba \in Nat
    BY Constants DEF Valid, B!Requests, B!NoRequest
  <2>2. s - r.lba \in 0 .. B!MaxN - 1
    BY <1>1, <2>1, Constants DEF B!Covers, B!Lba, B!MaxN
  <2>3. QED
    BY <1>1, <2>2 DEF B!Buffers
<1>2. CASE ~(r.type = "write" /\ B!Covers(r, s))
  BY <1>2
<1>3. QED
  BY <1>1, <1>2

\* A valid request fills the buffer from sectors of the device.
LEMMA FilledType ==
  ASSUME NEW r \in Valid, NEW d \in [B!Lba -> Val], NEW b \in B!Buffers
  PROVE  B!Filled(r, d, b) \in B!Buffers
<1> SUFFICES ASSUME NEW i \in 0 .. B!MaxN - 1
             PROVE  (IF r.type = "read" /\ i < r.n THEN d[r.lba + i] ELSE b[i]) \in Val
  BY DEF B!Filled, B!Buffers
<1>1. CASE r.type = "read" /\ i < r.n
  <2>1. r.lba \in Nat /\ r.n \in Nat /\ r.n <= Sectors - r.lba
    BY <1>1, Constants DEF Valid, B!Requests, B!NoRequest, B!InRange
  <2>2. r.lba + i \in B!Lba
    BY <1>1, <2>1, Constants DEF B!Lba, B!MaxN
  <2>3. QED
    BY <1>1, <2>2
<1>2. CASE ~(r.type = "read" /\ i < r.n)
  BY <1>2 DEF B!Buffers
<1>3. QED
  BY <1>1, <1>2

-----------------------------------------------------------------------------
\* Every action preserves every part of the invariant.

LEMMA Initially == Init => IInv
<1> SUFFICES ASSUME Init PROVE IInv
  OBVIOUS
<1>1. PICK v \in Val : disk = [s \in B!Lba |-> v] /\ buf = [i \in 0 .. B!MaxN - 1 |-> v]
  BY DEF Init
<1>2. disk \in [B!Lba -> Val] /\ buf \in B!Buffers
  BY <1>1 DEF B!Buffers
<1>3. job = NoJob /\ req = B!NoRequest /\ ~job.busy /\ job.req = B!NoRequest
  BY DEF Init, NoJob
<1>4. TypeOK
  <2>1. DataTyped
    BY <1>2, <1>3 DEF Init, DataTyped
  <2>2. FlagsTyped /\ WordsTyped
    BY Zenon DEF Init, FlagsTyped, WordsTyped
  <2>3. NumbersTyped
    BY Constants DEF Init, NumbersTyped
  <2>4. QED
    BY <2>1, <2>2, <2>3 DEF TypeOK
<1>5. RequestsValid
  BY <1>3 DEF RequestsValid, Valid
<1>6. Unattached /\ OwnCount /\ JobIsRequest
  BY <1>3 DEF Init, Unattached, OwnCount, JobIsRequest
<1>7. RingsInStep
  BY <1>3 DEF Init, RingsInStep, Ahead
<1>8. QED
  BY <1>4, <1>5, <1>6, <1>7 DEF IInv

\* A probe: before the first one nothing was published; after a second one
\* only types and requests are claimed.
LEMMA ProbeStep == IInv /\ virtio_blk_probe => IInv'
<1> SUFFICES ASSUME IInv, virtio_blk_probe PROVE IInv'
  OBVIOUS
<1>1. job' = NoJob /\ ~job'.busy /\ job'.req = B!NoRequest
  BY DEF virtio_blk_probe, NoJob
<1>2. TypeOK'
  <2>1. DataTyped'
    BY <1>1 DEF IInv, TypeOK, DataTyped, virtio_blk_probe
  <2>2. FlagsTyped'
    <3>1. attached' \in BOOLEAN /\ notified' \in BOOLEAN /\ executed' \in BOOLEAN
      BY Zenon DEF IInv, TypeOK, FlagsTyped, virtio_blk_probe
    <3>2. read_only' \in BOOLEAN /\ can_flush' \in BOOLEAN
      <4>1. CASE attached'
        <5>1. read_only' = ("read-only" \in offered) /\ can_flush' = ("flush" \in offered)
          BY <4>1, Zenon DEF virtio_blk_probe
        <5>2. ("read-only" \in offered) \in BOOLEAN /\ ("flush" \in offered) \in BOOLEAN
          OBVIOUS
        <5>3. QED
          BY <5>1, <5>2, Zenon
      <4>2. CASE ~attached'
        BY <4>2, Zenon DEF IInv, TypeOK, FlagsTyped, virtio_blk_probe
      <4>3. QED
        BY <4>1, <4>2
    <3>3. QED
      BY <3>1, <3>2 DEF FlagsTyped
  <2>3. WordsTyped'
    BY DEF IInv, TypeOK, WordsTyped, virtio_blk_probe
  <2>4. NumbersTyped'
    BY Constants DEF IInv, TypeOK, NumbersTyped, virtio_blk_probe
  <2>5. QED
    BY <2>1, <2>2, <2>3, <2>4 DEF TypeOK
<1>3. RequestsValid'
  BY <1>1 DEF IInv, RequestsValid, virtio_blk_probe, Valid
<1>4. probes' = probes + 1 /\ probes \in Nat
  BY DEF IInv, TypeOK, NumbersTyped, virtio_blk_probe
<1>5. CASE probes = 0
  <2>1. /\ avail_idx' = 0 /\ used_idx' = 0 /\ used_seen' = 0 /\ dev_avail' = 0 /\ dev_used' = 0
        /\ pc' = "idle" /\ timeouts' = 0
    BY <1>5 DEF IInv, Unattached, virtio_blk_probe
  <2>2. Unattached' /\ OwnCount' /\ JobIsRequest'
    BY <1>1, <1>4, <2>1 DEF Unattached, OwnCount, JobIsRequest
  <2>3. RingsInStep'
    BY <1>1, <2>1 DEF RingsInStep, Ahead
  <2>4. QED
    BY <1>2, <1>3, <2>2, <2>3 DEF IInv
<1>6. CASE probes # 0
  <2>1. ~(probes' <= 1) /\ probes' # 0
    BY <1>4, <1>6
  <2>2. Unattached' /\ OwnCount' /\ JobIsRequest' /\ RingsInStep'
    BY <2>1 DEF Unattached, OwnCount, JobIsRequest, RingsInStep
  <2>3. QED
    BY <1>2, <1>3, <2>2 DEF IInv
<1>7. QED
  BY <1>5, <1>6

\* A call that is refused touches nothing but the result.
LEMMA RefuseStep ==
  ASSUME IInv, NEW why \in {"no-device", "out-of-range", "read-only", "unsupported", "bad-args"},
         Refuse(why)
  PROVE  IInv'
<1>1. TypeOK'
  <2>1. DataTyped'
    BY DEF IInv, TypeOK, DataTyped, Refuse, device
  <2>2. FlagsTyped'
    BY Zenon DEF IInv, TypeOK, FlagsTyped, Refuse, device, history
  <2>3. WordsTyped'
    BY DEF IInv, TypeOK, WordsTyped, Refuse
  <2>4. NumbersTyped'
    BY DEF IInv, TypeOK, NumbersTyped, Refuse, device, history
  <2>5. QED
    BY <2>1, <2>2, <2>3, <2>4 DEF TypeOK
<1>2. RequestsValid' /\ Unattached' /\ OwnCount' /\ JobIsRequest' /\ RingsInStep'
  BY DEF IInv, RequestsValid, Unattached, OwnCount, JobIsRequest, RingsInStep, Ahead,
         Refuse, device, history
<1>3. QED
  BY <1>1, <1>2 DEF IInv

\* Until a timeout, an idle driver has a device with nothing to do: all the
\* indices agree.
LEMMA IdleAgrees ==
  ASSUME IInv, pc = "idle", probes <= 1, timeouts = 0
  PROVE  /\ avail_idx = used_seen /\ used_idx = used_seen /\ dev_avail = used_seen
         /\ ~job.busy
<1>1. /\ avail_idx \in 0 .. IdxMod - 1 /\ used_idx \in 0 .. IdxMod - 1
      /\ used_seen \in 0 .. IdxMod - 1 /\ dev_avail \in 0 .. IdxMod - 1
  BY DEF IInv, TypeOK, NumbersTyped
<1>2. /\ Ahead(avail_idx, used_seen) = 0
      /\ Ahead(dev_avail, used_idx) = (IF job.busy THEN 1 ELSE 0)
      /\ Ahead(dev_avail, used_seen) <= Ahead(avail_idx, used_seen)
      /\ Ahead(used_idx, used_seen) <= Ahead(dev_avail, used_seen)
  BY DEF IInv, RingsInStep
<1>3. avail_idx = used_seen /\ used_idx = used_seen /\ dev_avail = used_seen
  BY <1>1, <1>2, Constants DEF Ahead
<1>4. Ahead(dev_avail, used_idx) = 0
  BY <1>1, <1>3, Constants DEF Ahead
<1>5. QED
  BY <1>2, <1>3, <1>4

\* Submit(r) publishes one more request: the driver is one further ahead of
\* what it has seen, and with timeouts so bounded never by a full turn.
LEMMA SubmitStep ==
  ASSUME IInv, NEW r \in Valid, Submit(r), buf' \in B!Buffers, attached, pc = "idle"
  PROVE  IInv'
<1>1. job'.req = job.req /\ job'.busy = job.busy
  BY DEF IInv, TypeOK, DataTyped, Submit, NoJob
<1>2. TypeOK'
  <2>1. job' \in {NoJob} \cup [busy : {TRUE}, req : B!Requests \cup {B!NoRequest}, current : BOOLEAN]
    <3>1. job' = [job EXCEPT !.current = FALSE]
      BY DEF Submit
    <3>2. CASE job = NoJob
      BY <3>1, <3>2 DEF NoJob
    <3>3. CASE job \in [busy : {TRUE}, req : B!Requests \cup {B!NoRequest}, current : BOOLEAN]
      BY <3>1, <3>3
    <3>4. QED
      BY <3>2, <3>3 DEF IInv, TypeOK, DataTyped
  <2>2. DataTyped'
    BY <2>1 DEF IInv, TypeOK, DataTyped, Submit, Valid
  <2>3. FlagsTyped'
    BY Zenon DEF IInv, TypeOK, FlagsTyped, Submit
  <2>4. WordsTyped'
    BY DEF IInv, TypeOK, WordsTyped, Submit
  <2>5. NumbersTyped'
    BY SuccType DEF IInv, TypeOK, NumbersTyped, Submit
  <2>6. QED
    BY <2>2, <2>3, <2>4, <2>5 DEF TypeOK
<1>3. RequestsValid'
  BY <1>1 DEF IInv, RequestsValid, Submit
<1>4. Unattached' /\ OwnCount'
  BY DEF IInv, Unattached, OwnCount, Submit
<1>5. JobIsRequest'
  BY <1>1, IdleAgrees DEF JobIsRequest, Submit
<1>6. RingsInStep'
  <2> SUFFICES ASSUME probes' <= 1 PROVE RingsInStep'
    BY DEF RingsInStep
  <2>1. /\ avail_idx \in 0 .. IdxMod - 1 /\ used_idx \in 0 .. IdxMod - 1
        /\ used_seen \in 0 .. IdxMod - 1 /\ dev_avail \in 0 .. IdxMod - 1
        /\ timeouts \in 0 .. MaxTimeouts
    BY DEF IInv, TypeOK, NumbersTyped
  <2>2. /\ Ahead(avail_idx, used_seen) = timeouts
        /\ Ahead(dev_avail, used_idx) = (IF job.busy THEN 1 ELSE 0)
        /\ Ahead(dev_avail, used_seen) <= Ahead(avail_idx, used_seen)
        /\ Ahead(used_idx, used_seen) <= Ahead(dev_avail, used_seen)
    BY <2>1 DEF IInv, RingsInStep, Submit
  <2>3. Ahead(Succ(avail_idx), used_seen) = timeouts + 1
    BY <2>1, <2>2, Constants DEF Ahead, Succ
  <2>4. /\ avail_idx' = Succ(avail_idx) /\ used_idx' = used_idx /\ used_seen' = used_seen
        /\ dev_avail' = dev_avail /\ timeouts' = timeouts /\ pc' = "spin"
    BY DEF Submit
  <2>5. Ahead(dev_avail, used_seen) <= timeouts + 1
    BY <2>1, <2>2, Constants DEF Ahead
  <2>6. QED
    BY <1>1, <2>2, <2>3, <2>4, <2>5 DEF RingsInStep, Ahead
<1>7. QED
  BY <1>2, <1>3, <1>4, <1>5, <1>6 DEF IInv

LEMMA RwStep ==
  ASSUME IInv, NEW r \in B!Requests, rw(r)
  PROVE  IInv'
<1>0. CASE Refuse("bad-args")
  BY <1>0, RefuseStep
<1>1. RwRefusal(r) \in {"no-device", "out-of-range", "read-only", "none"}
  BY DEF RwRefusal
<1>2. CASE RwRefusal(r) # "none" /\ Refuse(RwRefusal(r))
  BY <1>1, <1>2, RefuseStep
<1>3. CASE RwRefusal(r) = "none" /\ buf' \in B!Buffers /\ Submit(r)
  <2>1. attached /\ B!InRange(r.lba, r.n)
    BY <1>3 DEF RwRefusal
  <2>2. r \in Valid
    BY <2>1 DEF Valid
  <2>3. QED
    BY <1>3, <2>1, <2>2, SubmitStep DEF rw, virtio_blk_rw
<1>4. QED
  BY <1>0, <1>2, <1>3 DEF rw, virtio_blk_rw

LEMMA FlushStep == IInv /\ virtio_blk_flush => IInv'
<1> SUFFICES ASSUME IInv, virtio_blk_flush PROVE IInv'
  OBVIOUS
<1>1. CASE Refuse("no-device") \/ Refuse("unsupported")
  BY <1>1, RefuseStep
<1>2. CASE attached /\ can_flush /\ Submit(B!NoRequest) /\ UNCHANGED buf
  <2>1. B!NoRequest \in Valid /\ buf' \in B!Buffers
    BY <1>2 DEF Valid, IInv, TypeOK, DataTyped
  <2>2. QED
    BY <1>2, <2>1, SubmitStep DEF virtio_blk_flush
<1>3. QED
  BY <1>1, <1>2 DEF virtio_blk_flush

\* Facts about the rings every action of the device and the end of the spin
\* start from.
LEMMA Rings ==
  ASSUME IInv
  PROVE  /\ avail_idx \in 0 .. IdxMod - 1 /\ used_idx \in 0 .. IdxMod - 1
         /\ used_seen \in 0 .. IdxMod - 1 /\ dev_avail \in 0 .. IdxMod - 1
         /\ dev_used \in 0 .. IdxMod - 1
         /\ timeouts \in 0 .. MaxTimeouts /\ probes \in Nat /\ done \in Nat
BY DEF IInv, TypeOK, NumbersTyped

\* The driver takes one answer: everything is one less ahead of used_seen.
LEMMA SeeUsedStep == IInv /\ SeeUsed => IInv'
<1> SUFFICES ASSUME IInv, SeeUsed PROVE IInv'
  OBVIOUS
<1>1. TypeOK'
  <2>1. DataTyped'
    BY DEF IInv, TypeOK, DataTyped, SeeUsed, device
  <2>2. FlagsTyped'
    BY Zenon DEF IInv, TypeOK, FlagsTyped, SeeUsed, device
  <2>3. WordsTyped'
    BY DEF IInv, TypeOK, WordsTyped, SeeUsed
  <2>4. NumbersTyped'
    BY SuccType DEF IInv, TypeOK, NumbersTyped, SeeUsed, device
  <2>5. QED
    BY <2>1, <2>2, <2>3, <2>4 DEF TypeOK
<1>2. RequestsValid' /\ OwnCount' /\ JobIsRequest'
  BY DEF IInv, RequestsValid, OwnCount, JobIsRequest, SeeUsed, device
<1>3. Unattached'
  BY DEF IInv, Unattached, SeeUsed, device
<1>4. RingsInStep'
  <2> SUFFICES ASSUME probes <= 1 PROVE RingsInStep'
    BY DEF RingsInStep, SeeUsed
  <2>1. /\ Ahead(avail_idx, used_seen) = timeouts + 1
        /\ Ahead(dev_avail, used_idx) = (IF job.busy THEN 1 ELSE 0)
        /\ Ahead(dev_avail, used_seen) <= Ahead(avail_idx, used_seen)
        /\ Ahead(used_idx, used_seen) <= Ahead(dev_avail, used_seen)
    BY DEF IInv, RingsInStep, SeeUsed
  <2>2. used_idx # used_seen
    BY DEF SeeUsed
  <2>3. /\ Ahead(avail_idx, Succ(used_seen)) = timeouts
        /\ Ahead(dev_avail, Succ(used_seen)) <= Ahead(avail_idx, Succ(used_seen))
        /\ Ahead(used_idx, Succ(used_seen)) <= Ahead(dev_avail, Succ(used_seen))
    BY <2>1, <2>2, Rings, Constants DEF Ahead, Succ
  <2>4. /\ avail_idx' = avail_idx /\ used_idx' = used_idx /\ used_seen' = Succ(used_seen)
        /\ dev_avail' = dev_avail /\ timeouts' = timeouts /\ pc' = "idle" /\ job' = job
    BY DEF SeeUsed, device
  <2>5. QED
    BY <2>1, <2>3, <2>4, Rings DEF RingsInStep, Ahead
<1>5. QED
  BY <1>1, <1>2, <1>3, <1>4 DEF IInv

\* The driver gives up: it stays behind by one more.
LEMMA TimeoutStep == IInv /\ Timeout => IInv'
<1> SUFFICES ASSUME IInv, Timeout PROVE IInv'
  OBVIOUS
<1>1. TypeOK'
  <2>1. DataTyped'
    BY DEF IInv, TypeOK, DataTyped, Timeout, device
  <2>2. FlagsTyped'
    BY Zenon DEF IInv, TypeOK, FlagsTyped, Timeout, device
  <2>3. WordsTyped'
    BY DEF IInv, TypeOK, WordsTyped, Timeout
  <2>4. NumbersTyped'
    BY Constants DEF IInv, TypeOK, NumbersTyped, Timeout, device
  <2>5. QED
    BY <2>1, <2>2, <2>3, <2>4 DEF TypeOK
<1>2. RequestsValid' /\ OwnCount'
  BY DEF IInv, RequestsValid, OwnCount, Timeout, device
<1>3. JobIsRequest'
  BY Rings, Constants DEF JobIsRequest, Timeout
<1>4. Unattached'
  BY Rings DEF IInv, Unattached, Timeout, device
<1>5. RingsInStep'
  <2>1. /\ avail_idx' = avail_idx /\ used_idx' = used_idx /\ used_seen' = used_seen
        /\ dev_avail' = dev_avail /\ timeouts' = timeouts + 1 /\ pc' = "idle" /\ job' = job
        /\ probes' = probes /\ pc = "spin"
    BY DEF Timeout, device
  <2>2. timeouts' + 0 = timeouts + 1
    BY <2>1, Rings, Constants
  <2>3. QED
    BY <2>1, <2>2, Rings, Constants DEF IInv, RingsInStep, Ahead
<1>6. QED
  BY <1>1, <1>2, <1>3, <1>4, <1>5 DEF IInv

\* The device takes a request only if one is published that it has not taken.
LEMMA FetchStep == IInv /\ Fetch => IInv'
<1> SUFFICES ASSUME IInv, Fetch PROVE IInv'
  OBVIOUS
<1>1. job' = Job(req) /\ job'.busy /\ job'.req = req
  BY DEF Fetch, Job
<1>2. TypeOK'
  <2>1. DataTyped'
    BY <1>1 DEF IInv, TypeOK, DataTyped, Fetch, driver, Job
  <2>2. FlagsTyped'
    BY Zenon DEF IInv, TypeOK, FlagsTyped, Fetch, driver, history
  <2>3. WordsTyped'
    BY DEF IInv, TypeOK, WordsTyped, Fetch, driver
  <2>4. NumbersTyped'
    BY SuccType DEF IInv, TypeOK, NumbersTyped, Fetch, driver, history
  <2>5. QED
    BY <2>1, <2>2, <2>3, <2>4 DEF TypeOK
<1>3. RequestsValid' /\ OwnCount' /\ JobIsRequest'
  BY <1>1 DEF IInv, RequestsValid, OwnCount, JobIsRequest, Fetch, driver, history
<1>4. Unattached'
  BY DEF IInv, Unattached, Fetch, driver, history
<1>5. RingsInStep'
  <2> SUFFICES ASSUME probes <= 1 PROVE RingsInStep'
    BY DEF RingsInStep, Fetch, history
  <2>1. /\ Ahead(avail_idx, used_seen) = timeouts + (IF pc = "spin" THEN 1 ELSE 0)
        /\ Ahead(dev_avail, used_idx) = 0
        /\ Ahead(dev_avail, used_seen) <= Ahead(avail_idx, used_seen)
        /\ Ahead(used_idx, used_seen) <= Ahead(dev_avail, used_seen)
    BY DEF IInv, RingsInStep, Fetch
  <2>2. avail_idx # dev_avail
    BY Rings, VirtioAssumption DEF VirtioAssumption, Fetch, Ahead
  <2>3. /\ Ahead(Succ(dev_avail), used_idx) = 1
        /\ Ahead(Succ(dev_avail), used_seen) <= Ahead(avail_idx, used_seen)
        /\ Ahead(used_idx, used_seen) <= Ahead(Succ(dev_avail), used_seen)
    BY <2>1, <2>2, Rings, Constants DEF Ahead, Succ
  <2>4. /\ avail_idx' = avail_idx /\ used_idx' = used_idx /\ used_seen' = used_seen
        /\ dev_avail' = Succ(dev_avail) /\ timeouts' = timeouts /\ pc' = pc
    BY DEF Fetch, driver, history
  <2>5. QED
    BY <1>1, <2>1, <2>3, <2>4, Rings DEF RingsInStep, Ahead
<1>6. QED
  BY <1>2, <1>3, <1>4, <1>5 DEF IInv

\* The device answers the request it took: what it has answered moves up to
\* what it has taken.
LEMMA CompleteStep ==
  ASSUME IInv, NEW s \in {"ok", "failed", "unsupported"}, Complete(s), job.busy,
         disk' \in [B!Lba -> Val], buf' \in B!Buffers, executed' \in BOOLEAN
  PROVE  IInv'
<1>1. job' = NoJob /\ ~job'.busy /\ job'.req = B!NoRequest
  BY DEF Complete, NoJob
<1>2. TypeOK'
  <2>1. DataTyped'
    BY <1>1 DEF IInv, TypeOK, DataTyped, Complete
  <2>2. FlagsTyped'
    BY Zenon DEF IInv, TypeOK, FlagsTyped, Complete
  <2>3. WordsTyped'
    BY DEF IInv, TypeOK, WordsTyped, Complete
  <2>4. NumbersTyped'
    BY SuccType DEF IInv, TypeOK, NumbersTyped, Complete
  <2>5. QED
    BY <2>1, <2>2, <2>3, <2>4 DEF TypeOK
<1>3. RequestsValid' /\ OwnCount' /\ JobIsRequest'
  BY <1>1 DEF IInv, RequestsValid, OwnCount, JobIsRequest, Complete, Valid
<1>4. Unattached'
  BY <1>1 DEF IInv, Unattached, Complete
<1>5. RingsInStep'
  <2> SUFFICES ASSUME probes <= 1 PROVE RingsInStep'
    BY DEF RingsInStep, Complete
  <2>1. /\ Ahead(avail_idx, used_seen) = timeouts + (IF pc = "spin" THEN 1 ELSE 0)
        /\ Ahead(dev_avail, used_idx) = 1
        /\ Ahead(dev_avail, used_seen) <= Ahead(avail_idx, used_seen)
        /\ Ahead(used_idx, used_seen) <= Ahead(dev_avail, used_seen)
    BY DEF IInv, RingsInStep
  <2>2. /\ Ahead(dev_avail, Succ(used_idx)) = 0
        /\ Ahead(Succ(used_idx), used_seen) <= Ahead(dev_avail, used_seen)
    BY <2>1, Rings, Constants DEF Ahead, Succ
  <2>3. /\ avail_idx' = avail_idx /\ used_idx' = Succ(used_idx) /\ used_seen' = used_seen
        /\ dev_avail' = dev_avail /\ timeouts' = timeouts /\ pc' = pc
    BY DEF Complete, IInv, OwnCount
  <2>4. QED
    BY <1>1, <2>1, <2>2, <2>3, Rings DEF RingsInStep, Ahead
<1>6. QED
  BY <1>2, <1>3, <1>4, <1>5 DEF IInv

\* What the device writes to the medium and to the buffer.
LEMMA JobData ==
  ASSUME IInv
  PROVE  /\ B!Written(job.req, disk, buf) \in [B!Lba -> Val]
         /\ B!Filled(job.req, disk, buf) \in B!Buffers
BY WrittenType, FilledType DEF IInv, TypeOK, DataTyped, RequestsValid

LEMMA CompleteOkStep == IInv /\ CompleteOk => IInv'
<1> SUFFICES ASSUME IInv, CompleteOk PROVE IInv'
  OBVIOUS
<1>1. disk' \in [B!Lba -> Val] /\ buf' \in B!Buffers
  BY JobData DEF CompleteOk
<1>2. executed' \in BOOLEAN
  <2>1. (executed \/ job.current) \in BOOLEAN
    OBVIOUS
  <2>2. executed' = (executed \/ job.current)
    BY Zenon DEF CompleteOk
  <2>3. QED
    BY <2>1, <2>2, Zenon
<1>3. Complete("ok") /\ job.busy
  BY DEF CompleteOk
<1>4. QED
  BY <1>1, <1>2, <1>3, CompleteStep

LEMMA CompleteFailedStep == IInv /\ CompleteFailed => IInv'
<1> SUFFICES ASSUME IInv, CompleteFailed PROVE IInv'
  OBVIOUS
<1>1. PICK S \in SUBSET B!Lba :
        disk' = [s \in B!Lba |-> IF s \in S THEN B!Written(job.req, disk, buf)[s] ELSE disk[s]]
  BY DEF CompleteFailed
<1>2. disk' \in [B!Lba -> Val] /\ buf' \in B!Buffers
  BY <1>1, JobData DEF CompleteFailed, IInv, TypeOK, DataTyped
<1>3. PICK s \in {"failed", "unsupported"} : Complete(s)
  BY DEF CompleteFailed
<1>4. executed' \in BOOLEAN /\ job.busy
  BY Zenon DEF CompleteFailed, IInv, TypeOK, FlagsTyped
<1>5. QED
  BY <1>2, <1>3, <1>4, CompleteStep

-----------------------------------------------------------------------------
LEMMA StutterStep == IInv /\ UNCHANGED vars => IInv'
<1> SUFFICES ASSUME IInv, UNCHANGED vars PROVE IInv'
  OBVIOUS
<1>1. TypeOK'
  <2>1. DataTyped' /\ WordsTyped' /\ NumbersTyped'
    BY DEF IInv, TypeOK, DataTyped, WordsTyped, NumbersTyped, vars, driver, device, history
  <2>2. FlagsTyped'
    BY Zenon DEF IInv, TypeOK, FlagsTyped, vars, driver, device, history
  <2>3. QED
    BY <2>1, <2>2 DEF TypeOK
<1>2. RequestsValid' /\ Unattached' /\ OwnCount' /\ JobIsRequest' /\ RingsInStep'
  BY DEF IInv, RequestsValid, Unattached, OwnCount, JobIsRequest, RingsInStep, Ahead,
         vars, driver, device, history
<1>3. QED
  BY <1>1, <1>2 DEF IInv

\* The invariant behind the theorems below: types, requests in range, an
\* untouched ring before the first probe, and the rings in step.
THEOREM Invariance == Spec => []IInv
<1>1. IInv /\ [Next]_vars => IInv'
  BY ProbeStep, RwStep, FlushStep, SeeUsedStep, TimeoutStep, FetchStep, CompleteOkStep,
     CompleteFailedStep, StutterStep DEF Next
<1>2. QED
  BY Initially, <1>1, PTL DEF Spec

\* kernel/virtio_blk.c: every index, flag and request stays in its type.
THEOREM TypeCorrect == Spec => []TypeOK
<1>1. IInv => TypeOK
  BY DEF IInv
<1>2. QED
  BY Invariance, <1>1, PTL

\* kernel/virtio_blk.c, submit: with 16-bit indices or any others, and any
\* number of timeouts below a full turn of them, the driver is behind the device
\* by exactly the requests that timed out, and no answer is invented or taken
\* twice.
THEOREM RingsInStepTheorem == Spec => []RingsInStep
<1>1. IInv => RingsInStep
  BY DEF IInv
<1>2. QED
  BY Invariance, <1>1, PTL

-----------------------------------------------------------------------------
\* The driver and the device implement BlockDev.

\* While nothing timed out and the driver was attached at most once.
Live == timeouts = 0 /\ probes <= 1

\* The operators of the two instances of BlockDev agree.
LEMMA SameOperators ==
  /\ Abstract!Lba = B!Lba /\ Abstract!Buffers = B!Buffers
  /\ {r \in Abstract!Requests : Abstract!InRange(r.lba, r.n)} \cup {Abstract!NoRequest} = Valid
  /\ \A r, d, b : Abstract!Written(r, d, b) = B!Written(r, d, b)
  /\ \A r, d, b : Abstract!Filled(r, d, b) = B!Filled(r, d, b)
BY DEF Abstract!Lba, B!Lba, Abstract!Buffers, B!Buffers, Abstract!MaxN, B!MaxN, Valid,
       Abstract!Requests, B!Requests, Abstract!InRange, B!InRange, Abstract!NoRequest,
       B!NoRequest, Abstract!Written, B!Written, Abstract!Filled, B!Filled,
       Abstract!Covers, B!Covers

LEMMA LivePhase ==
  ASSUME IInv, Live
  PROVE  /\ pc = "idle" => Phase = "idle"
         /\ pc = "spin" => Phase = IF used_idx = used_seen THEN "pending"
                                   ELSE IF status = "ok" THEN "ok" ELSE "error"
BY Rings DEF Live, Phase

\* A request the device works on is the one the driver waits for.
LEMMA BusyMeansPending ==
  ASSUME IInv, Live, job.busy
  PROVE  pc = "spin" /\ used_idx = used_seen /\ job.req = req /\ Succ(used_idx) # used_seen
<1>1. pc = "spin"
  BY IdleAgrees DEF IInv, TypeOK, WordsTyped, Live
<1>2. /\ Ahead(avail_idx, used_seen) = 1
      /\ Ahead(dev_avail, used_idx) = 1
      /\ Ahead(dev_avail, used_seen) <= Ahead(avail_idx, used_seen)
      /\ Ahead(used_idx, used_seen) <= Ahead(dev_avail, used_seen)
  BY <1>1 DEF IInv, RingsInStep, Live
<1>3. used_idx = used_seen
  BY <1>2, Rings, Constants DEF Ahead
<1>4. Succ(used_idx) # used_seen
  BY <1>3, Rings, Constants DEF Succ
<1>5. job.req = req
  BY DEF IInv, JobIsRequest, Live
<1>6. QED
  BY <1>1, <1>3, <1>4, <1>5

LEMMA InitImplements == Init => Abstract!Init
<1> SUFFICES ASSUME Init PROVE Abstract!Init
  OBVIOUS
<1>1. Phase = "idle"
  BY DEF Init, Phase
<1>2. \E v \in Val : disk = [s \in Abstract!Lba |-> v]
                    /\ buf = [i \in 0 .. Abstract!MaxN - 1 |-> v]
  BY DEF Init, Abstract!Lba, B!Lba, Abstract!MaxN, B!MaxN
<1>3. req = Abstract!NoRequest
  BY DEF Init, Abstract!NoRequest, B!NoRequest
<1>4. QED
  BY <1>1, <1>2, <1>3 DEF Abstract!Init

\* Once something timed out or the driver was attached again, anything goes.
LEMMA LostImplements ==
  ASSUME IInv, [Next]_vars, ~Live
  PROVE  Abstract!Lost
<1>1. timeouts \in Nat /\ probes \in Nat
  BY Rings, Constants
<1>2. timeouts' \in {timeouts, timeouts + 1} /\ probes' \in {probes, probes + 1}
  BY DEF Next, virtio_blk_probe, rw, virtio_blk_rw, virtio_blk_flush, Submit, Refuse, SeeUsed,
         Timeout, Fetch, Complete, CompleteOk, CompleteFailed, vars, driver, device, history
<1>3. Phase = "lost" /\ Phase' = "lost"
  BY <1>1, <1>2 DEF Phase, Live
<1>4. QED
  BY <1>3 DEF Abstract!Lost

LEMMA ProbeImplements ==
  ASSUME IInv, IInv', Live, virtio_blk_probe
  PROVE  Abstract!GiveUp \/ UNCHANGED Abstract!vars
<1>1. Phase = "idle" /\ UNCHANGED <<disk, buf, req, timeouts, pc>> /\ probes' = probes + 1
  BY LivePhase DEF virtio_blk_probe
<1>2. CASE probes = 0
  <2>1. Phase' = "idle"
    BY <1>1, <1>2 DEF Phase, Live, virtio_blk_probe
  <2>2. QED
    BY <1>1, <2>1 DEF Abstract!vars
<1>3. CASE probes # 0
  <2>1. Phase' = "lost"
    BY <1>1, <1>3, Rings DEF Phase
  <2>2. QED
    BY <1>1, <2>1 DEF Abstract!GiveUp
<1>4. QED
  BY <1>2, <1>3

LEMMA RefuseImplements ==
  ASSUME IInv, Live, pc = "idle", NEW why, Refuse(why)
  PROVE  UNCHANGED Abstract!vars
<1>1. Phase = "idle" /\ Phase' = "idle"
  BY LivePhase DEF Phase, Refuse, Live, history
<1>2. QED
  BY <1>1 DEF Abstract!vars, Refuse

LEMMA SubmitImplements ==
  ASSUME IInv, Live, pc = "idle", NEW r \in Valid, Submit(r), buf' \in B!Buffers
  PROVE  Abstract!Invoke
<1>1. used_idx = used_seen
  BY IdleAgrees DEF Live
<1>2. Phase = "idle" /\ Phase' = "pending"
  BY <1>1, LivePhase, Rings DEF Phase, Submit, Live
<1>3. req' \in {x \in Abstract!Requests : Abstract!InRange(x.lba, x.n)} \cup {Abstract!NoRequest}
  BY SameOperators DEF Submit
<1>4. buf' \in Abstract!Buffers /\ UNCHANGED disk
  BY SameOperators DEF Submit
<1>5. QED
  BY <1>2, <1>3, <1>4 DEF Abstract!Invoke

LEMMA SeeUsedImplements ==
  ASSUME IInv, Live, SeeUsed
  PROVE  Abstract!Return
<1>1. Phase \in {"ok", "error"}
  BY LivePhase DEF SeeUsed
<1>2. Phase' = "idle"
  BY Rings DEF Phase, SeeUsed, Live
<1>3. QED
  BY <1>1, <1>2 DEF Abstract!Return, SeeUsed

LEMMA TimeoutImplements ==
  ASSUME IInv, Live, Timeout
  PROVE  Abstract!GiveUp
<1>1. Phase = "pending"
  BY LivePhase DEF Timeout
<1>2. Phase' = "lost"
  BY Rings, Constants DEF Phase, Timeout
<1>3. QED
  BY <1>1, <1>2 DEF Abstract!GiveUp, Timeout

LEMMA FetchImplements ==
  ASSUME IInv, Live, Fetch
  PROVE  UNCHANGED Abstract!vars
<1>1. Phase' = Phase
  BY DEF Phase, Fetch, driver, history
<1>2. QED
  BY <1>1 DEF Abstract!vars, Fetch, driver

LEMMA CompletePhase ==
  ASSUME IInv, Live, job.busy, NEW s, Complete(s)
  PROVE  Phase = "pending" /\ Phase' = IF s = "ok" THEN "ok" ELSE "error"
<1>1. Phase = "pending"
  BY BusyMeansPending, LivePhase
<1>2. used_idx' # used_seen'
  BY BusyMeansPending DEF Complete, IInv, OwnCount, Live
<1>3. QED
  BY <1>1, <1>2, BusyMeansPending, Rings DEF Phase, Complete, Live

LEMMA CompleteOkImplements ==
  ASSUME IInv, Live, CompleteOk
  PROVE  Abstract!Execute
<1>1. Phase = "pending" /\ Phase' = "ok"
  BY CompletePhase DEF CompleteOk
<1>2. /\ disk' = Abstract!Written(req, disk, buf)
      /\ buf' = Abstract!Filled(req, disk, buf)
  BY SameOperators, BusyMeansPending, Zenon DEF CompleteOk
<1>3. req' = req
  BY DEF CompleteOk, Complete
<1>4. QED
  BY <1>1, <1>2, <1>3 DEF Abstract!Execute

LEMMA CompleteFailedImplements ==
  ASSUME IInv, Live, CompleteFailed
  PROVE  Abstract!Fail
<1>1. PICK s \in {"failed", "unsupported"} : Complete(s)
  BY DEF CompleteFailed
<1>2. Phase = "pending" /\ Phase' = "error"
  BY <1>1, CompletePhase DEF CompleteFailed
<1>3. PICK S \in SUBSET B!Lba :
        disk' = [x \in B!Lba |-> IF x \in S THEN B!Written(job.req, disk, buf)[x] ELSE disk[x]]
  BY DEF CompleteFailed
<1>4. job.req = req
  BY BusyMeansPending DEF CompleteFailed
<1>5. DOMAIN disk' = Abstract!Lba
  BY <1>3, SameOperators
<1>6. \A x \in Abstract!Lba : disk'[x] \in {disk[x], Abstract!Written(req, disk, buf)[x]}
  <2>1. Abstract!Written(req, disk, buf) = B!Written(job.req, disk, buf)
    BY <1>4, SameOperators, Zenon
  <2>2. Abstract!Lba = B!Lba
    BY SameOperators
  <2>3. QED
    BY <1>3, <2>1, <2>2
<1>7. UNCHANGED <<buf, req>>
  BY <1>1 DEF CompleteFailed, Complete
<1>8. QED
  BY <1>2, <1>5, <1>6, <1>7 DEF Abstract!Fail

LEMMA StepImplements ==
  ASSUME IInv, IInv', [Next]_vars
  PROVE  [Abstract!Next]_(Abstract!vars)
<1>1. CASE ~Live
  BY <1>1, LostImplements DEF Abstract!Next
<1>2. CASE Live
  <2>1. CASE virtio_blk_probe
    BY <1>2, <2>1, ProbeImplements DEF Abstract!Next
  <2>2. CASE \E r \in B!Requests : rw(r)
    <3>1. PICK r \in B!Requests : rw(r)
      BY <2>2
    <3>2. CASE Refuse("bad-args") \/ Refuse(RwRefusal(r))
      BY <1>2, <3>1, <3>2, RefuseImplements DEF rw, virtio_blk_rw
    <3>3. CASE RwRefusal(r) = "none" /\ buf' \in B!Buffers /\ Submit(r)
      <4>1. r \in Valid
        BY <3>3 DEF RwRefusal, Valid
      <4>2. QED
        BY <1>2, <3>1, <3>3, <4>1, SubmitImplements DEF rw, virtio_blk_rw, Abstract!Next
    <3>4. QED
      BY <3>1, <3>2, <3>3 DEF rw, virtio_blk_rw
  <2>3. CASE virtio_blk_flush
    <3>1. CASE Refuse("no-device") \/ Refuse("unsupported")
      BY <1>2, <2>3, <3>1, RefuseImplements DEF virtio_blk_flush
    <3>2. CASE Submit(B!NoRequest) /\ UNCHANGED buf
      <4>1. B!NoRequest \in Valid /\ buf' \in B!Buffers
        BY <3>2 DEF Valid, IInv, TypeOK, DataTyped
      <4>2. QED
        BY <1>2, <2>3, <3>2, <4>1, SubmitImplements DEF virtio_blk_flush, Abstract!Next
    <3>3. QED
      BY <2>3, <3>1, <3>2 DEF virtio_blk_flush
  <2>4. CASE SeeUsed
    BY <1>2, <2>4, SeeUsedImplements DEF Abstract!Next
  <2>5. CASE Timeout
    BY <1>2, <2>5, TimeoutImplements DEF Abstract!Next
  <2>6. CASE Fetch
    BY <1>2, <2>6, FetchImplements
  <2>7. CASE CompleteOk
    BY <1>2, <2>7, CompleteOkImplements DEF Abstract!Next
  <2>8. CASE CompleteFailed
    BY <1>2, <2>8, CompleteFailedImplements DEF Abstract!Next
  <2>9. CASE UNCHANGED vars
    BY <2>9 DEF vars, driver, device, history, Abstract!vars, Phase
  <2>10. QED
    BY <2>1, <2>2, <2>3, <2>4, <2>5, <2>6, <2>7, <2>8, <2>9 DEF Next
<1>3. QED
  BY <1>1, <1>2

\* docs/block-device.md, "an op either completes fully or throws": for every
\* device, until a request times out or the driver is attached again, each
\* request takes effect at most once and between its call and its return, and
\* fully if virtio_blk_rw or virtio_blk_flush reported success.
THEOREM Refinement == Spec => ImplementsBlockDev
<1>1. IInv /\ IInv' /\ [Next]_vars => [Abstract!Next]_(Abstract!vars)
  BY StepImplements
<1>2. QED
  BY Invariance, InitImplements, <1>1, PTL DEF Spec, ImplementsBlockDev, Abstract!Spec

-----------------------------------------------------------------------------
\* The queues of the input devices

Index == 0 .. Wrap - 1
Event == {NoEvent} \cup UNION {Raw[d] : d \in Dev}
VirtQueue ==
  [avail : Index, ring : [Desc -> Desc], used : Index, id : [Desc -> Desc],
   seen : Index, took : Index, buf : [Desc -> Event]]

OfferedTo(u) == Minus(u.avail, u.took)
UsedOf(u) == Minus(u.used, u.seen)

\* The descriptors of queue u, offered, used and, as h says, in hand
Line(u, h) ==
  [i \in 1 .. qsize |->
     IF i <= OfferedTo(u) THEN u.ring[(u.took + i - 1) % qsize]
     ELSE IF i <= OfferedTo(u) + UsedOf(u) THEN u.id[(u.seen + i - OfferedTo(u) - 1) % qsize]
     ELSE h[i - OfferedTo(u) - UsedOf(u)]]

\* A line has each descriptor once.
Each(f) ==
  /\ f \in [1 .. qsize -> Desc]
  /\ \A i, j \in 1 .. qsize : f[i] = f[j] => i = j
  /\ \A d \in Desc : \E i \in 1 .. qsize : f[i] = d

Whole(u, h) ==
  /\ h \in Seq(Desc) /\ OfferedTo(u) + UsedOf(u) + Len(h) = qsize
  /\ Each(Line(u, h))

-----------------------------------------------------------------------------
\* Indices that wrap, of rings whose size divides the range of the index

LEMMA QueueSizes ==
  /\ qsize \in Nat \ {0} /\ Wrap \in Nat \ {0} /\ qsize < Wrap /\ Wrap % qsize = 0
BY VirtqAssumption DEF VirtqAssumption

LEMMA DivMod ==
  ASSUME NEW N \in Nat \ {0}, NEW x \in Int
  PROVE  x % N \in 0 .. N - 1 /\ x \div N \in Int /\ x = N * (x \div N) + (x % N)
OBVIOUS

LEMMA SameRemainder ==
  ASSUME NEW N \in Nat \ {0}, NEW k \in Int, NEW b \in 0 .. N - 1, NEW d \in 0 .. N - 1,
         N * k + b = d
  PROVE  k = 0 /\ b = d
<1>1. CASE k >= 1
  <2>1. N * k >= N
    BY <1>1
  <2>2. QED
    BY <2>1
<1>2. CASE k <= -1
  <2>1. N * k <= -N
    BY <1>2
  <2>2. QED
    BY <2>1
<1>3. QED
  BY <1>1, <1>2

\* A multiple of the divisor makes no difference.
LEMMA MultipleGone ==
  ASSUME NEW N \in Nat \ {0}, NEW k \in Int, NEW y \in Int
  PROVE  (N * k + y) % N = y % N
<1> DEFINE x == N * k + y
           a == x \div N
           b == y \div N
           r == x % N
           s == y % N
<1>1. x \in Int
  OBVIOUS
<1>2. r \in 0 .. N - 1 /\ a \in Int /\ x = N * a + r
  BY <1>1, DivMod
<1>3. s \in 0 .. N - 1 /\ b \in Int /\ y = N * b + s
  BY DivMod
<1>4. x = N * k + y
  OBVIOUS
<1> HIDE DEF x, a, b, r, s
<1>5. N * (k + b - a) + s = r /\ k + b - a \in Int
  BY <1>2, <1>3, <1>4
<1>6. s = r
  BY <1>2, <1>3, <1>5, SameRemainder
<1>7. QED
  BY <1>6 DEF r, s, x

LEMMA Small ==
  ASSUME NEW N \in Nat \ {0}, NEW r \in 0 .. N - 1
  PROVE  r % N = r
OBVIOUS

LEMMA ModThenPlus ==
  ASSUME NEW N \in Nat \ {0}, NEW a \in Int, NEW b \in Int
  PROVE  ((a % N) + b) % N = (a + b) % N /\ (b - (a % N)) % N = (b - a) % N
<1> DEFINE k == a \div N
           r == a % N
<1>1. r \in Int /\ k \in Int /\ a = N * k + r
  BY DivMod
<1> HIDE DEF k, r
<1>2. (N * k + (r + b)) % N = (r + b) % N /\ N * k + (r + b) = a + b
  <2>1. r + b \in Int
    BY <1>1
  <2>2. (N * k + (r + b)) % N = (r + b) % N
    BY <1>1, <2>1, MultipleGone
  <2>3. QED
    BY <1>1, <2>2
<1>3. (N * (- k) + (b - r)) % N = (b - r) % N /\ N * (- k) + (b - r) = b - a
  <2>1. b - r \in Int /\ - k \in Int
    BY <1>1
  <2>2. (N * (- k) + (b - r)) % N = (b - r) % N
    BY <1>1, <2>1, MultipleGone
  <2>3. QED
    BY <1>1, <2>2
<1>4. QED
  BY <1>2, <1>3 DEF r

\* Where an index that has wrapped is in a ring
LEMMA EntryOfWrapped ==
  ASSUME NEW y \in Int, NEW b \in Int
  PROVE  ((y % Wrap) + b) % qsize = (y + b) % qsize
<1> DEFINE m == Wrap \div qsize
           k == y \div Wrap
           r == y % Wrap
<1>1. Wrap = qsize * m /\ m \in Int
  <2>1. Wrap = qsize * m + (Wrap % qsize) /\ m \in Int /\ Wrap % qsize = 0
    BY QueueSizes, DivMod
  <2>2. QED
    BY <2>1, QueueSizes
<1>2. y = Wrap * k + r /\ k \in Int /\ r \in Int
  BY QueueSizes, DivMod
<1> HIDE DEF m, k, r
<1>3. m * k \in Int /\ y + b = qsize * (m * k) + (r + b) /\ r + b \in Int
  BY <1>1, <1>2, QueueSizes
<1> DEFINE p == m * k
           c == r + b
<1>4. p \in Int /\ c \in Int /\ y + b = qsize * p + c
  BY <1>3
<1> HIDE DEF p, c
<1>5. (qsize * p + c) % qsize = c % qsize
  BY <1>4, QueueSizes, MultipleGone
<1>6. QED
  BY <1>4, <1>5 DEF c, r

LEMMA EntryIs ==
  ASSUME NEW y \in Int
  PROVE  Entry(y % Wrap) = y % qsize /\ y % qsize \in Desc
<1>1. ((y % Wrap) + 0) % qsize = (y + 0) % qsize
  BY EntryOfWrapped
<1>2. y % Wrap \in Int
  BY QueueSizes, DivMod
<1>3. y % qsize \in 0 .. qsize - 1
  BY QueueSizes, DivMod
<1>4. QED
  BY <1>1, <1>2, <1>3 DEF Entry, Desc

\* Two indices less than a round apart have different places.
LEMMA EntriesApart ==
  ASSUME NEW x \in Int, NEW y \in Int, x < y, y < x + qsize
  PROVE  x % qsize # y % qsize
<1> DEFINE a == x \div qsize
           b == x % qsize
           c == y \div qsize
           d == y % qsize
<1>1. x = qsize * a + b /\ a \in Int /\ b \in 0 .. qsize - 1
  BY QueueSizes, DivMod
<1>2. y = qsize * c + d /\ c \in Int /\ d \in 0 .. qsize - 1
  BY QueueSizes, DivMod
<1> HIDE DEF a, b, c, d
<1>3. SUFFICES ASSUME b = d PROVE FALSE
  BY DEF b, d
<1> DEFINE k == c - a
           n == y - x
<1>4. k \in Int /\ n \in 1 .. qsize - 1 /\ qsize * k + 0 = n
  BY <1>1, <1>2, <1>3, QueueSizes
<1> HIDE DEF k, n
<1>5. n \in 0 .. qsize - 1 /\ 0 \in 0 .. qsize - 1
  BY <1>4, QueueSizes
<1>6. 0 = n
  BY <1>4, <1>5, QueueSizes, SameRemainder
<1>7. QED
  BY <1>4, <1>6

\* How far apart two indices are
LEMMA MinusIs ==
  ASSUME NEW i \in Index, NEW j \in Index
  PROVE  /\ Minus(i, j) \in Index
         /\ Minus(i, j) = 0 <=> i = j
         /\ i % qsize = (j + Minus(i, j)) % qsize
<1> DEFINE n == Minus(i, j)
<1>0. i \in Int /\ j \in Int /\ i - j \in Int /\ 0 <= i /\ i < Wrap /\ 0 <= j /\ j < Wrap
  BY QueueSizes DEF Index
<1>1. n \in Index
  BY <1>0, QueueSizes, DivMod DEF Minus, Index
<1>2. n = 0 <=> i = j
  <2>1. CASE i >= j
    <3>1. i - j \in 0 .. Wrap - 1
      BY <1>0, <2>1, QueueSizes
    <3>2. n = i - j
      BY <3>1, QueueSizes, Small DEF Minus
    <3>3. QED
      BY <3>2, <1>0
  <2>2. CASE i < j
    <3>1. i - j + Wrap \in 1 .. Wrap - 1 /\ i - j + Wrap \in 0 .. Wrap - 1
      BY <1>0, <2>2, QueueSizes
    <3>2. (Wrap * 1 + (i - j)) % Wrap = (i - j) % Wrap
      <4> DEFINE y == i - j
      <4>1. y \in Int /\ 1 \in Int /\ Wrap \in Nat \ {0}
        BY <1>0, QueueSizes
      <4> HIDE DEF y
      <4>2. (Wrap * 1 + y) % Wrap = y % Wrap
        BY <4>1, MultipleGone, Zenon
      <4>3. QED
        BY <4>2 DEF y
    <3>3. Wrap * 1 + (i - j) = i - j + Wrap
      BY <1>0, QueueSizes
    <3>4. (i - j + Wrap) % Wrap = i - j + Wrap
      BY <3>1, QueueSizes, Small
    <3>5. n = i - j + Wrap
      BY <3>2, <3>3, <3>4 DEF Minus
    <3>6. QED
      BY <3>1, <3>5, <2>2, <1>0
  <2>3. QED
    BY <1>0, <2>1, <2>2
<1>3. (((i - j) % Wrap) + j) % qsize = ((i - j) + j) % qsize
  BY <1>0, EntryOfWrapped
<1>4. (i - j) + j = i /\ ((i - j) % Wrap) + j = j + n
  <2>1. n \in Int /\ n = (i - j) % Wrap
    BY <1>1, QueueSizes DEF Index, Minus
  <2>2. QED
    BY <2>1, <1>0
<1>5. QED
  BY <1>1, <1>2, <1>3, <1>4

\* Either index moves on.
LEMMA MinusMoves ==
  ASSUME NEW i \in Index, NEW j \in Index, NEW n \in Nat
  PROVE  /\ (i + n) % Wrap \in Index
         /\ Minus(i, j) + n < Wrap => Minus((i + n) % Wrap, j) = Minus(i, j) + n
         /\ n <= Minus(i, j) => Minus(i, (j + n) % Wrap) = Minus(i, j) - n
<1>0. i \in Int /\ j \in Int /\ i - j \in Int /\ i + n \in Int /\ j + n \in Int /\ - j \in Int
  BY QueueSizes DEF Index
<1>1. (i + n) % Wrap \in Index
  BY <1>0, QueueSizes, DivMod DEF Index
<1> DEFINE m == Minus(i, j)
<1>2. m \in Index /\ m \in Int /\ m = (i - j) % Wrap
  BY MinusIs, QueueSizes DEF Index, Minus
<1>3. (((i + n) % Wrap) + (- j)) % Wrap = ((i + n) + (- j)) % Wrap
  BY <1>0, QueueSizes, ModThenPlus
<1>4. (i - ((j + n) % Wrap)) % Wrap = (i - (j + n)) % Wrap
  BY <1>0, QueueSizes, ModThenPlus
<1>5. (((i - j) % Wrap) + n) % Wrap = ((i - j) + n) % Wrap
  <2> DEFINE y == i - j
  <2>1. y \in Int /\ n \in Int /\ Wrap \in Nat \ {0}
    BY <1>0, QueueSizes
  <2> HIDE DEF y
  <2>2. ((y % Wrap) + n) % Wrap = (y + n) % Wrap
    BY <2>1, ModThenPlus, Zenon
  <2>3. QED
    BY <2>2 DEF y
<1>6. (((i - j) % Wrap) + (- n)) % Wrap = ((i - j) + (- n)) % Wrap
  <2>1. - n \in Int
    OBVIOUS
  <2>2. QED
    BY <2>1, <1>0, QueueSizes, ModThenPlus
<1>7. Minus((i + n) % Wrap, j) = (m + n) % Wrap
  <2>1. ((i + n) % Wrap) + (- j) = ((i + n) % Wrap) - j /\ (i + n) + (- j) = (i - j) + n
    BY <1>0, <1>1, QueueSizes DEF Index
  <2>2. QED
    BY <1>2, <1>3, <1>5, <2>1 DEF Minus
<1>8. Minus(i, (j + n) % Wrap) = (m - n) % Wrap
  <2>1. i - (j + n) = (i - j) + (- n) /\ m + (- n) = m - n
    BY <1>0, <1>2
  <2>2. QED
    BY <1>2, <1>4, <1>6, <2>1 DEF Minus
<1> HIDE DEF m
<1>9. ASSUME m + n < Wrap PROVE (m + n) % Wrap = m + n
  <2>1. m + n \in 0 .. Wrap - 1
    BY <1>2, <1>9, QueueSizes DEF Index
  <2>2. QED
    BY <2>1, QueueSizes, Small
<1>10. ASSUME n <= m PROVE (m - n) % Wrap = m - n
  <2>1. m - n \in 0 .. Wrap - 1
    BY <1>2, <1>10, QueueSizes DEF Index
  <2>2. QED
    BY <2>1, QueueSizes, Small
<1>11. QED
  BY <1>1, <1>7, <1>8, <1>9, <1>10 DEF m

-----------------------------------------------------------------------------
\* Moves along the line

\* A line whose a-th descriptor goes to place b
LEMMA Rotated ==
  ASSUME NEW f, Each(f), NEW g, NEW a \in 1 .. qsize, NEW b \in a .. qsize,
         g = [i \in 1 .. qsize |-> IF i = b THEN f[a] ELSE IF a <= i /\ i < b THEN f[i + 1] ELSE f[i]]
  PROVE  Each(g)
<1> DEFINE N == qsize
           P(i) == IF i = b THEN a ELSE IF a <= i /\ i < b THEN i + 1 ELSE i
           R(i) == IF i = a THEN b ELSE IF a < i /\ i <= b THEN i - 1 ELSE i
<1>0. N \in Nat \ {0}
  BY QueueSizes
<1>1. \A i \in 1 .. N : P(i) \in 1 .. N /\ g[i] = f[P(i)]
  BY <1>0
<1>2. \A i, j \in 1 .. N : P(i) = P(j) => i = j
  BY <1>0
<1>3. \A i \in 1 .. N : R(i) \in 1 .. N /\ P(R(i)) = i
  BY <1>0
<1> HIDE DEF P, R
<1>4. g \in [1 .. N -> Desc]
  <2>1. \A i \in 1 .. N : g[i] \in Desc
    BY <1>1 DEF Each
  <2>2. DOMAIN g = 1 .. N /\ g = [i \in 1 .. N |-> g[i]]
    OBVIOUS
  <2>3. QED
    BY <2>1, <2>2
<1>5. ASSUME NEW i \in 1 .. N, NEW j \in 1 .. N, g[i] = g[j] PROVE i = j
  BY <1>1, <1>2, <1>5 DEF Each
<1>6. ASSUME NEW d \in Desc PROVE \E i \in 1 .. N : g[i] = d
  <2>1. PICK i \in 1 .. N : f[i] = d
    BY DEF Each
  <2>2. R(i) \in 1 .. N /\ g[R(i)] = d
    BY <1>1, <1>3, <2>1
  <2>3. QED
    BY <2>2
<1>7. QED
  BY <1>4, <1>5, <1>6 DEF Each

\* What is known of a queue
LEMMA QueueIs ==
  ASSUME NEW u \in VirtQueue
  PROVE  /\ u.avail \in Index /\ u.took \in Index /\ u.used \in Index /\ u.seen \in Index
         /\ u.ring \in [Desc -> Desc] /\ u.id \in [Desc -> Desc] /\ u.buf \in [Desc -> Event]
         /\ OfferedTo(u) \in Nat /\ UsedOf(u) \in Nat
         /\ {u.took, u.seen, u.avail, u.used} \subseteq Nat
<1>1. /\ u.avail \in Index /\ u.took \in Index /\ u.used \in Index /\ u.seen \in Index
      /\ u.ring \in [Desc -> Desc] /\ u.id \in [Desc -> Desc] /\ u.buf \in [Desc -> Event]
  BY DEF VirtQueue
<1>2. OfferedTo(u) \in Index /\ UsedOf(u) \in Index
  BY <1>1, MinusIs DEF OfferedTo, UsedOf
<1>3. QED
  BY <1>1, <1>2, QueueSizes DEF Index

\* The device fills the buffer it was offered first: that one is used last.
LEMMA CompletedIs ==
  ASSUME NEW u \in VirtQueue, NEW h, Whole(u, h), ~Starved(u), NEW e \in Event,
         NEW v, v = Completed(u, e)
  PROVE  v \in VirtQueue /\ Whole(v, h) /\ v.seen = u.seen
<1> DEFINE n == OfferedTo(u)
           m == UsedOf(u)
           x == u.ring[u.took % qsize]
<1>1. /\ u.avail \in Index /\ u.took \in Index /\ u.used \in Index /\ u.seen \in Index
      /\ u.ring \in [Desc -> Desc] /\ u.id \in [Desc -> Desc] /\ u.buf \in [Desc -> Event]
      /\ n \in Nat /\ m \in Nat /\ u.took \in Nat /\ u.seen \in Nat /\ u.used \in Nat
  BY QueueIs
<1>2. n > 0
  BY <1>1, MinusIs DEF Starved, OfferedTo
<1>3. /\ h \in Seq(Desc) /\ n + m + Len(h) = qsize /\ Len(h) \in Nat /\ n + m <= qsize
      /\ m + 1 <= qsize
  BY <1>1, <1>2 DEF Whole
<1>4. Entry(u.took) = u.took % qsize /\ u.took % qsize \in Desc /\ x \in Desc
  BY <1>1, EntryIs DEF Entry
<1>5. Entry(u.used) = (u.seen + m) % qsize /\ (u.seen + m) % qsize \in Desc
  <2>1. u.used % qsize = (u.seen + m) % qsize
    BY <1>1, MinusIs DEF UsedOf
  <2>2. u.seen + m \in Int
    BY <1>1
  <2>3. QED
    BY <2>1, <2>2, EntryIs DEF Entry
<1>6. /\ v.took = Inc(u.took) /\ v.used = Inc(u.used) /\ v.avail = u.avail /\ v.seen = u.seen
      /\ v.ring = u.ring /\ v.id = [u.id EXCEPT ![Entry(u.used)] = x]
      /\ v.buf = [u.buf EXCEPT ![x] = e]
  BY <1>4 DEF Completed, VirtQueue
<1>7. Inc(u.took) \in Index /\ Inc(u.used) \in Index
  BY <1>1, MinusMoves DEF Inc
<1>8. v \in VirtQueue
  <2> HIDE DEF x
  <2>1. v.id \in [Desc -> Desc] /\ v.buf \in [Desc -> Event]
    <3>1. v.id \in [Desc -> Desc]
      BY <1>1, <1>4, <1>6
    <3>2. v.buf \in [Desc -> Event]
      BY <1>1, <1>4, <1>6
    <3>3. QED
      BY <3>1, <3>2
  <2>2. v = [avail |-> u.avail, ring |-> u.ring, used |-> Inc(u.used), id |-> v.id, seen |-> u.seen,
             took |-> Inc(u.took), buf |-> v.buf]
    BY <1>6 DEF Completed, VirtQueue
  <2>3. QED
    BY <1>1, <1>7, <2>1, <2>2 DEF VirtQueue
<1>9. OfferedTo(v) = n - 1 /\ UsedOf(v) = m + 1
  <2>1. 1 \in Nat /\ 1 <= Minus(u.avail, u.took) /\ Minus(u.used, u.seen) + 1 < Wrap
    BY <1>1, <1>2, <1>3, QueueSizes DEF OfferedTo, UsedOf
  <2>2. Minus(u.avail, (u.took + 1) % Wrap) = Minus(u.avail, u.took) - 1
    <3>1. u.avail \in Index /\ u.took \in Index
      BY <1>1
    <3>2. QED
      BY SMTT(30), <3>1, <2>1, MinusMoves
  <2>3. Minus((u.used + 1) % Wrap, u.seen) = Minus(u.used, u.seen) + 1
    <3>1. u.used \in Index /\ u.seen \in Index
      BY <1>1
    <3>2. QED
      BY SMTT(30), <3>1, <2>1, MinusMoves
  <2>4. QED
    BY <1>6, <2>2, <2>3 DEF OfferedTo, UsedOf, Inc
<1> DEFINE f == Line(u, h)
           g == Line(v, h)
           b == n + m
<1>10. b \in 1 .. qsize /\ 1 \in 1 .. qsize /\ qsize \in Nat
  BY <1>1, <1>2, <1>3, QueueSizes
<1>11. \A i \in 1 .. qsize :
         /\ f[i] = IF i <= n THEN u.ring[(u.took + i - 1) % qsize]
                   ELSE IF i <= n + m THEN u.id[(u.seen + i - n - 1) % qsize] ELSE h[i - n - m]
         /\ g[i] = IF i <= n - 1 THEN u.ring[(Inc(u.took) + i - 1) % qsize]
                   ELSE IF i <= (n - 1) + (m + 1) THEN v.id[(u.seen + i - (n - 1) - 1) % qsize]
                   ELSE h[i - (n - 1) - (m + 1)]
  BY <1>6, <1>9 DEF Line
<1>12. ASSUME NEW i \in 1 .. qsize, i <= n - 1 PROVE g[i] = f[i + 1]
  <2>1. i + 1 \in 1 .. qsize /\ i + 1 <= n /\ u.took + 1 \in Int /\ i - 1 \in Int
    BY <1>12, <1>1, <1>3
  <2>2. (((u.took + 1) % Wrap) + (i - 1)) % qsize = ((u.took + 1) + (i - 1)) % qsize
    BY <2>1, EntryOfWrapped
  <2>3. Inc(u.took) \in Int
    BY <1>7, QueueSizes DEF Index
  <2>4. Inc(u.took) + i - 1 = ((u.took + 1) % Wrap) + (i - 1)
    BY <2>3, <2>1 DEF Inc
  <2>5. (u.took + 1) + (i - 1) = u.took + (i + 1) - 1
    BY <2>1, <1>1
  <2>6. QED
    BY <1>11, <1>12, <2>1, <2>2, <2>4, <2>5
<1>13. ASSUME NEW i \in 1 .. qsize, n - 1 < i, i < b PROVE g[i] = f[i + 1]
  <2> HIDE DEF n, m, x, f, g
  <2>1. /\ i + 1 \in 1 .. qsize /\ ~(i + 1 <= n) /\ i + 1 <= n + m /\ ~(i <= n - 1)
        /\ i <= (n - 1) + (m + 1) /\ u.seen + i - (n - 1) - 1 = u.seen + (i + 1) - n - 1
    BY SMTT(30), <1>13, <1>1, <1>3, <1>10, QueueSizes
  <2> DEFINE y == u.seen + (i + 1) - n - 1
             z == u.seen + m
  <2>2. y \in Int /\ z \in Int /\ y < z /\ z < y + qsize
    <3> DEFINE s == u.seen
    <3>1. s \in Nat /\ n \in Nat /\ m \in Nat /\ m + 1 <= qsize /\ i \in Nat /\ n <= i /\ i < n + m /\ qsize \in Nat
      BY <1>13, <1>1, <1>3, QueueSizes
    <3>2. y = s + i - n /\ z = s + m
      BY <3>1
    <3> HIDE DEF s, y, z
    <3>3. QED
      BY <3>1, <3>2
  <2> HIDE DEF y, z
  <2>3. y % qsize # z % qsize /\ y % qsize \in Desc
    BY <2>2, EntriesApart, EntryIs
  <2>4. v.id[y % qsize] = u.id[y % qsize]
    BY <2>3, <1>1, <1>5, <1>6 DEF z
  <2>5. QED
    BY <2>1, <2>4, <1>11 DEF y
<1>14. g[b] = f[1]
  <2>1. ~(b <= n - 1) /\ b <= (n - 1) + (m + 1) /\ u.seen + b - (n - 1) - 1 = u.seen + m
    BY <1>1, <1>2
  <2>2. v.id[(u.seen + m) % qsize] = x
    BY <1>1, <1>5, <1>6
  <2>3. 1 <= n /\ u.took + 1 - 1 = u.took
    BY <1>1, <1>2
  <2>4. QED
    BY <1>10, <1>11, <2>1, <2>2, <2>3
<1>15. ASSUME NEW i \in 1 .. qsize, b < i PROVE g[i] = f[i]
  <2>1. /\ ~(i <= n - 1) /\ ~(i <= (n - 1) + (m + 1)) /\ ~(i <= n) /\ ~(i <= n + m)
        /\ i - (n - 1) - (m + 1) = i - n - m
    BY <1>15, <1>1
  <2>2. QED
    BY <2>1, <1>11
<1>16. g = [i \in 1 .. qsize |-> IF i = b THEN f[1] ELSE IF 1 <= i /\ i < b THEN f[i + 1] ELSE f[i]]
  <2>1. ASSUME NEW i \in 1 .. qsize
        PROVE  g[i] = IF i = b THEN f[1] ELSE IF 1 <= i /\ i < b THEN f[i + 1] ELSE f[i]
    <3> HIDE DEF f, g
    <3>1. i = b \/ b < i \/ i <= n - 1 \/ (n - 1 < i /\ i < b)
      BY <1>1, <1>10
    <3>2. n - 1 < b /\ 1 <= i
      BY <1>1, <1>10
    <3>3. QED
      BY <3>1, <3>2, <1>1, <1>10, <1>12, <1>13, <1>14, <1>15
  <2>2. g = [i \in 1 .. qsize |-> g[i]]
    BY DEF Line
  <2> HIDE DEF f, g
  <2>3. QED
    BY <2>1, <2>2
<1>17. Each(f)
  BY DEF Whole
<1> HIDE DEF f, g, b
<1>18. Each(g)
  BY <1>10, <1>16, <1>17, Rotated DEF b
<1>19. QED
  BY <1>3, <1>6, <1>8, <1>9, <1>18, <1>1 DEF Whole, g

\* take-used!: what was used first comes last into the hand.
LEMMA TakenIs ==
  ASSUME NEW u \in VirtQueue, NEW h, Whole(u, h), SomeUsed(u), NEW v, v = take_used(u)
  PROVE  v \in VirtQueue /\ Whole(v, Append(h, TakenId(v))) /\ TakenId(v) \in Desc
<1> DEFINE n == OfferedTo(u)
           m == UsedOf(u)
           x == u.id[u.seen % qsize]
           k == Append(h, TakenId(v))
<1>1. /\ u.avail \in Index /\ u.took \in Index /\ u.used \in Index /\ u.seen \in Index
      /\ u.ring \in [Desc -> Desc] /\ u.id \in [Desc -> Desc] /\ u.buf \in [Desc -> Event]
      /\ n \in Nat /\ m \in Nat /\ u.took \in Nat /\ u.seen \in Nat /\ u.used \in Nat
  BY QueueIs
<1>2. m > 0
  BY <1>1, MinusIs DEF SomeUsed, UsedOf
<1>3. h \in Seq(Desc) /\ n + m + Len(h) = qsize /\ Len(h) \in Nat /\ n + m <= qsize
  BY <1>1 DEF Whole
<1>4. /\ v.seen = Inc(u.seen) /\ v.avail = u.avail /\ v.took = u.took /\ v.used = u.used
      /\ v.ring = u.ring /\ v.id = u.id /\ v.buf = u.buf
  BY DEF take_used, VirtQueue
<1>5. Inc(u.seen) \in Index /\ Inc(u.seen) \in Int
  <2>1. 1 \in Nat /\ (u.seen + 1) % Wrap \in Index
    BY <1>1, MinusMoves
  <2>2. QED
    BY <2>1, QueueSizes DEF Inc, Index
<1>6. v \in VirtQueue
  <2>1. v = [avail |-> u.avail, ring |-> u.ring, used |-> u.used, id |-> u.id, seen |-> Inc(u.seen),
             took |-> u.took, buf |-> u.buf]
    BY DEF take_used, VirtQueue
  <2>2. QED
    BY <1>1, <1>5, <2>1 DEF VirtQueue
<1>7. OfferedTo(v) = n /\ UsedOf(v) = m - 1
  <2>1. 1 \in Nat /\ 1 <= Minus(u.used, u.seen)
    BY <1>1, <1>2 DEF UsedOf
  <2>2. Minus(u.used, (u.seen + 1) % Wrap) = Minus(u.used, u.seen) - 1
    BY <1>1, <2>1, MinusMoves
  <2>3. QED
    BY <1>4, <2>2 DEF OfferedTo, UsedOf, Inc
<1>8. TakenId(v) = x /\ x \in Desc
  <2>1. Inc(u.seen) - 1 \in Int /\ u.seen + 1 \in Int /\ -1 \in Int
    BY <1>1, <1>5
  <2>2. Entry((Inc(u.seen) - 1) % Wrap) = (Inc(u.seen) - 1) % qsize
    BY <2>1, EntryIs
  <2>3. (((u.seen + 1) % Wrap) + (-1)) % qsize = ((u.seen + 1) + (-1)) % qsize
    BY <2>1, EntryOfWrapped
  <2>4. ((u.seen + 1) % Wrap) + (-1) = Inc(u.seen) - 1 /\ (u.seen + 1) + (-1) = u.seen
    BY <1>1, <1>5 DEF Inc
  <2>5. u.seen % qsize \in Desc
    BY <1>1, EntryIs
  <2>6. QED
    BY <1>1, <1>4, <2>2, <2>3, <2>4, <2>5 DEF TakenId
<1>9. /\ k \in Seq(Desc) /\ Len(k) = Len(h) + 1 /\ k[Len(h) + 1] = x
      /\ \A i \in 1 .. Len(h) : k[i] = h[i]
  BY <1>3, <1>8
<1> DEFINE f == Line(u, h)
           g == Line(v, k)
           a == n + 1
<1>10. a \in 1 .. qsize /\ qsize \in a .. qsize /\ qsize \in Nat
  BY <1>1, <1>2, <1>3, QueueSizes
<1>11. \A i \in 1 .. qsize :
         /\ f[i] = IF i <= n THEN u.ring[(u.took + i - 1) % qsize]
                   ELSE IF i <= n + m THEN u.id[(u.seen + i - n - 1) % qsize] ELSE h[i - n - m]
         /\ g[i] = IF i <= n THEN u.ring[(u.took + i - 1) % qsize]
                   ELSE IF i <= n + (m - 1) THEN u.id[(Inc(u.seen) + i - n - 1) % qsize]
                   ELSE k[i - n - (m - 1)]
  <2> HIDE DEF k
  <2>1. QED
    BY <1>4, <1>7 DEF Line
<1> HIDE DEF k
<1>12. ASSUME NEW i \in 1 .. qsize, i <= n PROVE g[i] = f[i]
  BY <1>11, <1>12
<1>13. ASSUME NEW i \in 1 .. qsize, n < i, i <= n + (m - 1) PROVE g[i] = f[i + 1]
  <2> HIDE DEF n, m, x, f, g
  <2>1. i + 1 \in 1 .. qsize /\ ~(i + 1 <= n) /\ ~(i <= n) /\ i + 1 <= n + m
        /\ u.seen + 1 \in Int /\ i - n - 1 \in Int
    <3>1. n \in Nat /\ m \in Nat /\ u.seen \in Nat /\ qsize \in Nat /\ n + m <= qsize
      BY <1>1, <1>3, QueueSizes
    <3>2. QED
      BY <1>13, <3>1
  <2>2. (((u.seen + 1) % Wrap) + (i - n - 1)) % qsize = ((u.seen + 1) + (i - n - 1)) % qsize
    BY <2>1, EntryOfWrapped
  <2>3. Inc(u.seen) + i - n - 1 = ((u.seen + 1) % Wrap) + (i - n - 1)
    BY <1>5, <1>1, <2>1 DEF Inc
  <2>4. (u.seen + 1) + (i - n - 1) = u.seen + (i + 1) - n - 1
    BY <2>1, <1>1
  <2>5. QED
    BY <1>11, <1>13, <2>1, <2>2, <2>3, <2>4
<1>14. ASSUME NEW i \in 1 .. qsize, n + (m - 1) < i, i < qsize PROVE g[i] = f[i + 1]
  <2> HIDE DEF n, m, x, f, g
  <2>1. /\ i + 1 \in 1 .. qsize /\ ~(i + 1 <= n) /\ ~(i <= n) /\ ~(i + 1 <= n + m) /\ ~(i <= n + (m - 1))
        /\ i - n - (m - 1) \in 1 .. Len(h) /\ i - n - (m - 1) = (i + 1) - n - m
    BY <1>14, <1>1, <1>2, <1>3, QueueSizes
  <2>2. QED
    BY <1>9, <1>11, <2>1
<1>15. g[qsize] = f[a]
  <2> HIDE DEF n, m, f, g
  <2>1. /\ ~(qsize <= n) /\ ~(qsize <= n + (m - 1)) /\ qsize - n - (m - 1) = Len(h) + 1
        /\ ~(a <= n) /\ a <= n + m /\ u.seen + a - n - 1 = u.seen /\ qsize \in 1 .. qsize
    BY SMTT(30), <1>1, <1>2, <1>3, <1>10, QueueSizes
  <2>2. QED
    BY <1>9, <1>10, <1>11, <2>1
<1>16. g = [i \in 1 .. qsize |-> IF i = qsize THEN f[a] ELSE IF a <= i /\ i < qsize THEN f[i + 1] ELSE f[i]]
  <2>1. ASSUME NEW i \in 1 .. qsize
        PROVE  g[i] = IF i = qsize THEN f[a] ELSE IF a <= i /\ i < qsize THEN f[i + 1] ELSE f[i]
    <3> HIDE DEF f, g
    <3>1. /\ i = qsize \/ i < qsize
          /\ i <= n \/ (n < i /\ i <= n + (m - 1)) \/ n + (m - 1) < i
          /\ i <= n <=> ~(a <= i)
          /\ i <= n => i # qsize
      BY <1>1, <1>2, <1>3, <1>10
    <3>2. QED
      BY <3>1, <1>12, <1>13, <1>14, <1>15
  <2>2. g = [i \in 1 .. qsize |-> g[i]]
    BY DEF Line
  <2> HIDE DEF f, g
  <2>3. QED
    BY <2>1, <2>2
<1>17. Each(f)
  BY DEF Whole
<1> HIDE DEF f, g, a
<1>18. Each(g)
  BY <1>10, <1>16, <1>17, Rotated
<1>19. OfferedTo(v) + UsedOf(v) + Len(k) = qsize
  BY <1>1, <1>3, <1>7, <1>9
<1>20. Whole(v, k)
  BY <1>9, <1>18, <1>19 DEF Whole, g
<1>21. QED
  BY <1>6, <1>8, <1>20 DEF k

\* publish!: what is in hand is offered, in order, after what was.
LEMMA PublishedIs ==
  ASSUME NEW u \in VirtQueue, NEW h, Whole(u, h), ~SomeUsed(u), NEW v, v = publish(u, h)
  PROVE  v \in VirtQueue /\ Whole(v, << >>) /\ v.seen = u.seen /\ v.used = u.used
<1> DEFINE n == OfferedTo(u)
           k == Len(h)
           P(j) == Entry((u.avail + j - 1) % Wrap)
           r == [e \in Desc |-> IF \E j \in DOMAIN h : P(j) = e
                                  THEN h[CHOOSE j \in DOMAIN h : P(j) = e] ELSE u.ring[e]]
<1>1. /\ u.avail \in Index /\ u.took \in Index /\ u.used \in Index /\ u.seen \in Index
      /\ u.ring \in [Desc -> Desc] /\ u.id \in [Desc -> Desc] /\ u.buf \in [Desc -> Event]
      /\ n \in Nat /\ u.took \in Nat /\ u.avail \in Nat /\ UsedOf(u) \in Nat
  BY QueueIs
<1>2. UsedOf(u) = 0
  BY <1>1, MinusIs DEF SomeUsed, UsedOf
<1>3. h \in Seq(Desc) /\ n + k = qsize /\ k \in Nat /\ DOMAIN h = 1 .. k /\ qsize \in Nat
  BY <1>1, <1>2, QueueSizes DEF Whole
<1>4. \A j \in 1 .. k : P(j) = (u.took + n + j - 1) % qsize /\ P(j) \in Desc
  <2> SUFFICES ASSUME NEW j \in 1 .. k PROVE P(j) = (u.took + n + j - 1) % qsize /\ P(j) \in Desc
    OBVIOUS
  <2>1. u.avail + j - 1 \in Int /\ j - 1 \in Int /\ u.avail - u.took \in Int
    BY <1>1, <1>3
  <2>2. P(j) = (u.avail + j - 1) % qsize /\ (u.avail + j - 1) % qsize \in Desc
    BY <2>1, EntryIs
  <2> DEFINE y == u.avail - u.took
             b == u.took + j - 1
  <2>3. y \in Int /\ b \in Int /\ n = y % Wrap
    BY <2>1, <1>1 DEF OfferedTo, Minus
  <2>4. y + b = u.avail + j - 1 /\ n + b = u.took + n + j - 1
    BY SMTT(30), <1>1, <1>3, <2>1
  <2> HIDE DEF y, b, n, P
  <2>5. ((y % Wrap) + b) % qsize = (y + b) % qsize
    BY <2>3, EntryOfWrapped
  <2>6. QED
    BY <2>2, <2>3, <2>4, <2>5
<1> HIDE DEF P, n
<1>5. \A i, j \in 1 .. k : P(i) = P(j) => i = j
  <2>1. ASSUME NEW i \in 1 .. k, NEW j \in 1 .. k, i < j PROVE P(i) # P(j)
    <3> DEFINE x == u.took + n + i - 1
               y == u.took + n + j - 1
    <3>1. x \in Int /\ y \in Int /\ x < y /\ y < x + qsize
      <4> DEFINE s == u.took + n
      <4>1. s \in Nat /\ i \in Nat /\ j \in Nat /\ i < j /\ 1 <= i /\ j <= qsize /\ qsize \in Nat
        BY <2>1, <1>1, <1>3
      <4>2. x = s + i - 1 /\ y = s + j - 1
        OBVIOUS
      <4> HIDE DEF s, x, y
      <4>3. QED
        BY <4>1, <4>2
    <3>2. P(i) = x % qsize /\ P(j) = y % qsize
      BY <1>4
    <3> HIDE DEF x, y
    <3>3. x % qsize # y % qsize
      BY <3>1, EntriesApart
    <3>4. QED
      BY <3>2, <3>3
  <2>2. \A i, j \in 1 .. k : i < j \/ j < i \/ i = j
    BY <1>3
  <2>3. QED
    BY <2>1, <2>2
<1>6. ASSUME NEW j \in 1 .. k PROVE r[P(j)] = h[j]
  <2>1. \E i \in DOMAIN h : P(i) = P(j)
    BY <1>3
  <2>2. (CHOOSE i \in DOMAIN h : P(i) = P(j)) = j
    BY <1>3, <1>5
  <2>3. P(j) \in Desc
    BY <1>4
  <2>4. r[P(j)] = h[CHOOSE i \in DOMAIN h : P(i) = P(j)]
    BY <2>1, <2>3
  <2>5. QED
    BY <2>2, <2>4
<1>7. ASSUME NEW e \in Desc, \A j \in 1 .. k : P(j) # e PROVE r[e] = u.ring[e]
  BY <1>3, <1>7
<1>8. r \in [Desc -> Desc]
  <2>1. ASSUME NEW e \in Desc PROVE r[e] \in Desc
    <3>1. CASE \E j \in 1 .. k : P(j) = e
      <4>1. PICK j \in 1 .. k : P(j) = e
        BY <3>1
      <4>2. h[j] \in Desc
        BY <1>3
      <4> HIDE DEF r
      <4>3. QED
        BY <1>6, <4>1, <4>2
    <3>2. CASE \A j \in 1 .. k : P(j) # e
      <4> HIDE DEF r
      <4>1. QED
        BY <1>1, <1>7, <3>2
    <3>3. QED
      BY <3>1, <3>2
  <2>2. r = [e \in Desc |-> r[e]]
    OBVIOUS
  <2> HIDE DEF r
  <2>3. QED
    BY <2>1, <2>2
<1>9. /\ v.avail = (u.avail + k) % Wrap /\ v.ring = r /\ v.took = u.took /\ v.used = u.used
      /\ v.seen = u.seen /\ v.id = u.id
      /\ v = [avail |-> (u.avail + k) % Wrap, ring |-> r, used |-> u.used, id |-> u.id,
              seen |-> u.seen, took |-> u.took, buf |-> u.buf]
  BY DEF publish, VirtQueue, P
<1> HIDE DEF r
<1>10. (u.avail + k) % Wrap \in Index /\ OfferedTo(v) = qsize /\ UsedOf(v) = 0
  <2>1. Minus(u.avail, u.took) + k < Wrap /\ Minus(u.avail, u.took) + k = qsize
    BY <1>3, QueueSizes DEF n, OfferedTo
  <2>2. Minus((u.avail + k) % Wrap, u.took) = Minus(u.avail, u.took) + k /\ (u.avail + k) % Wrap \in Index
    <3>1. u.avail \in Index /\ u.took \in Index /\ k \in Nat
      BY <1>1, <1>3
    <3> HIDE DEF k
    <3>2. QED
      BY SMTT(30), <3>1, <2>1, MinusMoves
  <2>3. QED
    BY <1>2, <1>9, <2>1, <2>2 DEF OfferedTo, UsedOf
<1>11. v \in VirtQueue
  BY <1>1, <1>8, <1>9, <1>10 DEF VirtQueue
<1>12. ASSUME NEW i \in 1 .. qsize PROVE Line(v, << >>)[i] = Line(u, h)[i]
  <2>1. Line(v, << >>)[i] = r[(u.took + i - 1) % qsize]
    BY <1>9, <1>10, <1>3 DEF Line
  <2>2. Line(u, h)[i] = IF i <= n THEN u.ring[(u.took + i - 1) % qsize] ELSE h[i - n]
    BY <1>1, <1>2, <1>3 DEF Line, n
  <2>3. CASE i <= n
    <3> DEFINE x == u.took + i - 1
    <3>1. x \in Int
      BY <1>1
    <3>2. ASSUME NEW j \in 1 .. k PROVE P(j) # x % qsize
      <4> DEFINE y == u.took + n + j - 1
      <4>1. y \in Int /\ x < y /\ y < x + qsize
        BY SMTT(30), <2>3, <1>1, <1>3
      <4>2. P(j) = y % qsize
        BY <1>4
      <4> HIDE DEF x, y
      <4>3. x % qsize # y % qsize
        BY <3>1, <4>1, EntriesApart
      <4>4. QED
        BY <4>2, <4>3
    <3>3. x % qsize \in Desc
      BY <3>1, EntryIs
    <3>4. r[x % qsize] = u.ring[x % qsize]
      BY <1>7, <3>2, <3>3
    <3>5. QED
      BY <2>1, <2>2, <2>3, <3>4
  <2>4. CASE ~(i <= n)
    <3>1. i - n \in 1 .. k /\ u.took + n + (i - n) - 1 = u.took + i - 1
      BY <2>4, <1>1, <1>3
    <3>2. P(i - n) = (u.took + n + (i - n) - 1) % qsize
      BY <1>4, <3>1
    <3>3. r[P(i - n)] = h[i - n]
      BY <1>6, <3>1
    <3>4. QED
      BY <2>1, <2>2, <2>4, <3>1, <3>2, <3>3
  <2>5. QED
    BY <2>3, <2>4
<1>13. Line(v, << >>) = Line(u, h)
  <2> DEFINE f == Line(u, h)
             g == Line(v, << >>)
  <2>1. f = [i \in 1 .. qsize |-> f[i]] /\ g = [i \in 1 .. qsize |-> g[i]]
    BY DEF Line
  <2>2. \A i \in 1 .. qsize : f[i] = g[i]
    BY <1>12
  <2> HIDE DEF f, g
  <2>3. f = g
    BY <2>1, <2>2
  <2>4. QED
    BY <2>3 DEF f, g
<1>14. Whole(v, << >>)
  <2>1. Each(Line(v, << >>))
    BY <1>13 DEF Whole
  <2>2. << >> \in Seq(Desc) /\ Len(<< >>) = 0 /\ OfferedTo(v) + UsedOf(v) + Len(<< >>) = qsize
    BY <1>10, <1>3
  <2>3. QED
    BY <2>1, <2>2 DEF Whole
<1>15. QED
  BY <1>9, <1>11, <1>14

\* setup-queue!, before the buffers are posted: all are in the driver's hand.
LEMMA SetUpIs ==
  /\ setup_queue(NoEvent) \in VirtQueue /\ ~SomeUsed(setup_queue(NoEvent))
  /\ Whole(setup_queue(NoEvent), post_all)
<1> DEFINE u == setup_queue(NoEvent)
<1>0. qsize \in Nat \ {0} /\ 0 \in Index /\ 0 \in Desc
  BY QueueSizes DEF Index, Desc
<1>1. u \in VirtQueue
  BY <1>0 DEF setup_queue, VirtQueue, Event
<1>2. u.avail = 0 /\ u.took = 0 /\ u.used = 0 /\ u.seen = 0
  BY DEF setup_queue
<1>3. OfferedTo(u) = 0 /\ UsedOf(u) = 0
  BY <1>0, <1>2, MinusIs DEF OfferedTo, UsedOf
<1>4. post_all \in [1 .. qsize -> Desc] /\ \A i \in 1 .. qsize : post_all[i] = i - 1
  BY <1>0 DEF post_all, Desc
<1>5. post_all \in Seq(Desc) /\ Len(post_all) = qsize
  BY <1>0, <1>4
<1>6. ASSUME NEW i \in 1 .. qsize PROVE Line(u, post_all)[i] = i - 1
  <2> HIDE DEF u
  <2>1. ~(i <= 0) /\ ~(i <= 0 + 0) /\ i - 0 - 0 = i
    OBVIOUS
  <2>2. QED
    BY <1>3, <1>4, <2>1 DEF Line
<1> HIDE DEF u
<1>7. Each(Line(u, post_all))
  <2> DEFINE f == Line(u, post_all)
  <2>1. f = [i \in 1 .. qsize |-> f[i]]
    BY DEF Line
  <2>2. \A i \in 1 .. qsize : f[i] = i - 1 /\ f[i] \in Desc
    BY <1>0, <1>6 DEF Desc
  <2> HIDE DEF f
  <2>3. f \in [1 .. qsize -> Desc]
    BY <2>1, <2>2
  <2>4. \A i, j \in 1 .. qsize : f[i] = f[j] => i = j
    BY <2>2
  <2>5. ASSUME NEW d \in Desc PROVE \E i \in 1 .. qsize : f[i] = d
    <3>1. d + 1 \in 1 .. qsize /\ (d + 1) - 1 = d
      BY <1>0 DEF Desc
    <3>2. f[d + 1] = d
      BY <2>2, <3>1
    <3>3. QED
      BY <3>1, <3>2
  <2>6. Each(f)
    BY <2>3, <2>4, <2>5 DEF Each
  <2>7. QED
    BY <2>6 DEF f
<1>8. Whole(u, post_all)
  BY <1>0, <1>3, <1>5, <1>7 DEF Whole
<1>9. QED
  BY <1>1, <1>2, <1>8 DEF SomeUsed, u

-----------------------------------------------------------------------------
\* The backend

PCs == {"none", "loop", "take", "entry", "offer", "gone"}

\* What is known of a task: a record whose buffers are descriptors
Shape(r) ==
  /\ DOMAIN r = {"pc", "pending", "done", "out"}
  /\ r.pc \in PCs /\ r.done \in Seq(Desc)

BackendTypes ==
  /\ q \in [Task -> VirtQueue] /\ DOMAIN task = Task /\ \A t \in Task : Shape(task[t])
  /\ DOMAIN sent = Task /\ generation \in 0 .. MaxGen /\ current \in [Dev -> 0 .. MaxGen]
  /\ attacher \in [gen : 0 .. MaxGen, left : Seq(Dev)]

\* The tasks of the devices that attach! has not come to are unborn, as are
\* those of generations to come: no task is started twice.
Unborn ==
  /\ \A t \in Task : t[2] > generation => task[t].pc = "none"
  /\ attacher.gen <= generation
  /\ attacher.left # << >> => attacher.gen > 0
  /\ \A i, j \in 1 .. Len(attacher.left) : attacher.left[i] = attacher.left[j] => i = j
  /\ \A i \in 1 .. Len(attacher.left) : <<attacher.left[i], attacher.gen>> \in Task =>
       task[<<attacher.left[i], attacher.gen>>].pc = "none"

\* A device writes only to the queue of a task that was started.
Attached ==
  \A t \in Task : t[2] = current[t[1]] => task[t].pc # "none"

\* Buffers in the hands of a task r with queue u
HandOf(r, u) == r.done \o (IF r.pc = "entry" THEN <<TakenId(u)>> ELSE << >>)

InPlaces ==
  \A t \in Task : IF task[t].pc = "none" THEN /\ q[t] = setup_queue(NoEvent) /\ sent[t] = << >>
                                                /\ task[t].done = << >>
                  ELSE Whole(q[t], HandOf(task[t], q[t]))

BackendInv == BackendTypes /\ Unborn /\ Attached /\ InPlaces

\* Records of tasks with fields replaced
LEMMA WithPc ==
  ASSUME NEW r, Shape(r), NEW lbl \in PCs, NEW a, a = [r EXCEPT !.pc = lbl]
  PROVE  Shape(a) /\ a.pc = lbl /\ a.done = r.done
BY DEF Shape

LEMMA WithLeft ==
  ASSUME NEW a \in [gen : 0 .. MaxGen, left : Seq(Dev)], NEW l \in Seq(Dev),
         NEW b, b = [a EXCEPT !.left = l]
  PROVE  b \in [gen : 0 .. MaxGen, left : Seq(Dev)] /\ b.gen = a.gen /\ b.left = l
OBVIOUS

\* What a task that is at rest or has an entry in hand holds
LEMMA HandIs ==
  ASSUME NEW r, r.done \in Seq(Desc), NEW u
  PROVE  /\ r.pc # "entry" => HandOf(r, u) = r.done
         /\ r.pc = "entry" => HandOf(r, u) = Append(r.done, TakenId(u))
<1>1. \A s \in Seq(Desc) : s \o << >> = s
  BY ConcatEmptySeq
<1>2. \A s \in Seq(Desc) : \A x : s \o <<x>> = Append(s, x)
  OBVIOUS
<1>3. QED
  BY <1>1, <1>2 DEF HandOf

\* The device writes ahead of the entry that the task has in hand.
LEMMA TakenStays ==
  ASSUME NEW u \in VirtQueue, NEW h, Whole(u, h), ~Starved(u), Len(h) > 0, NEW e \in Event,
         NEW v, v = Completed(u, e)
  PROVE  TakenId(v) = TakenId(u)
<1> DEFINE n == OfferedTo(u)
           m == UsedOf(u)
           x == u.seen - 1
           y == u.seen + m
<1>1. /\ u.avail \in Index /\ u.took \in Index /\ u.used \in Index /\ u.seen \in Index
      /\ u.ring \in [Desc -> Desc] /\ u.id \in [Desc -> Desc]
      /\ n \in Nat /\ m \in Nat /\ u.seen \in Nat /\ u.used \in Nat
  BY QueueIs
<1>2. n > 0
  BY <1>1, MinusIs DEF Starved, OfferedTo
<1>3. n + m + Len(h) = qsize /\ Len(h) \in Nat /\ qsize \in Nat
  BY QueueSizes DEF Whole
<1>4. x \in Int /\ y \in Int /\ x < y /\ y < x + qsize
  <2> HIDE DEF n, m
  <2>1. QED
    BY <1>1, <1>2, <1>3
<1>5. u.used % qsize = y % qsize
  BY <1>1, MinusIs DEF UsedOf
<1>6. v.seen = u.seen /\ v.id = [u.id EXCEPT ![Entry(u.used)] = u.ring[Entry(u.took)]]
  BY DEF Completed, VirtQueue
<1> HIDE DEF x, y
<1>7. x % qsize # y % qsize /\ Entry(x % Wrap) = x % qsize /\ x % qsize \in Desc
  BY <1>4, EntriesApart, EntryIs
<1>8. Entry(u.used) # x % qsize
  BY <1>5, <1>7 DEF Entry
<1>9. TakenId(v) = v.id[x % qsize] /\ TakenId(u) = u.id[x % qsize]
  BY <1>6, <1>7 DEF TakenId, x
<1>10. QED
  BY <1>1, <1>6, <1>7, <1>8, <1>9

-----------------------------------------------------------------------------
\* The steps

\* A step of one task, or of its device
LEMMA OneTask ==
  ASSUME BackendInv, NEW t \in Task, UNCHANGED backend,
         q' \in [Task -> VirtQueue], DOMAIN task' = Task, DOMAIN sent' = Task,
         \A s \in Task : s # t => q'[s] = q[s] /\ task'[s] = task[s] /\ sent'[s] = sent[s],
         Shape(task'[t]), task[t].pc # "none", task'[t].pc # "none",
         Whole(q'[t], HandOf(task'[t], q'[t]))
  PROVE  BackendInv'
<1>1. generation' = generation /\ attacher' = attacher /\ current' = current
  BY DEF backend
<1>2. BackendTypes'
  <2>1. \A s \in Task : Shape(task'[s])
    BY DEF BackendInv, BackendTypes
  <2>2. QED
    BY <1>1, <2>1 DEF BackendInv, BackendTypes
<1>3. \A s \in Task : task[s].pc = "none" => task'[s].pc = "none"
  OBVIOUS
<1>4. \A s \in Task : task[s].pc # "none" => task'[s].pc # "none"
  OBVIOUS
<1>5. Unborn'
  BY <1>1, <1>3 DEF BackendInv, Unborn
<1>6. Attached'
  BY <1>1, <1>4 DEF BackendInv, Attached
<1>7. InPlaces'
  BY DEF BackendInv, InPlaces
<1>8. QED
  BY <1>2, <1>5, <1>6, <1>7 DEF BackendInv

\* A step of attach!, stop! or a reader
LEMMA NoTask ==
  ASSUME BackendInv, UNCHANGED <<q, task, sent>>
  PROVE  InPlaces' /\ q' \in [Task -> VirtQueue] /\ DOMAIN task' = Task /\ DOMAIN sent' = Task
         /\ \A t \in Task : Shape(task'[t])
BY DEF BackendInv, BackendTypes, InPlaces

LEMMA PollEventInv ==
  ASSUME BackendInv, poll_event
  PROVE  BackendInv'
<1>1. UNCHANGED <<q, task, sent, generation, attacher, current>>
  BY DEF poll_event, backend, traces
<1>2. QED
  BY <1>1, NoTask DEF BackendInv, BackendTypes, Unborn, Attached

LEMMA StopInv ==
  ASSUME BackendInv, stop
  PROVE  BackendInv'
<1>1. UNCHANGED <<q, task, sent, attacher, current>> /\ generation' = generation + 1 /\ generation < MaxGen
  BY DEF stop, traces
<1>2. generation \in 0 .. MaxGen /\ MaxGen \in Nat
  BY InputAssumption DEF BackendInv, BackendTypes
<1>3. BackendTypes'
  BY <1>1, <1>2, NoTask DEF BackendInv, BackendTypes
<1>4. Unborn'
  <2>1. \A t \in Task : t[2] \in Nat
    BY <1>2 DEF Task
  <2>2. attacher.gen \in Nat
    BY DEF BackendInv, BackendTypes
  <2>3. QED
    BY <1>1, <1>2, <2>1, <2>2 DEF BackendInv, Unborn
<1>5. QED
  BY <1>1, <1>3, <1>4, NoTask DEF BackendInv, Attached

LEMMA AttachInv ==
  ASSUME BackendInv, attach
  PROVE  BackendInv'
<1>1. /\ UNCHANGED <<q, task, sent, current>> /\ generation' = generation + 1 /\ generation < MaxGen
      /\ attacher' = [gen |-> generation + 1, left |-> Devices]
  BY DEF attach, traces
<1>2. generation \in 0 .. MaxGen /\ MaxGen \in Nat
  BY InputAssumption DEF BackendInv, BackendTypes
<1>3. Devices \in Seq(Dev) /\ \A i, j \in 1 .. Len(Devices) : Devices[i] = Devices[j] => i = j
  BY InputAssumption DEF IsInjective
<1>4. BackendTypes'
  BY <1>1, <1>2, <1>3, NoTask DEF BackendInv, BackendTypes
<1>5. \A t \in Task : t[2] \in Nat /\ (t[2] > generation => task[t].pc = "none")
  BY <1>2 DEF BackendInv, Unborn, Task
<1>6. Unborn'
  <2>1. attacher'.gen = generation + 1 /\ attacher'.left = Devices
    BY <1>1
  <2>2. ASSUME NEW i \in 1 .. Len(Devices), <<Devices[i], generation + 1>> \in Task
        PROVE  task[<<Devices[i], generation + 1>>].pc = "none"
    <3>1. <<Devices[i], generation + 1>>[2] = generation + 1
      OBVIOUS
    <3>2. generation + 1 > generation
      BY <1>2
    <3>3. QED
      BY <1>5, <2>2, <3>1, <3>2
  <2>3. \A t \in Task : t[2] > generation + 1 => task[t].pc = "none"
    BY <1>2, <1>5
  <2>4. QED
    BY <1>1, <1>2, <1>3, <2>1, <2>2, <2>3 DEF Unborn
<1>7. QED
  BY <1>1, <1>4, <1>6, NoTask DEF BackendInv, Attached

LEMMA TaskIs ==
  ASSUME NEW t \in Task
  PROVE  t[1] \in Dev /\ t[2] \in 1 .. MaxGen /\ t[2] \in Nat \ {0} /\ t = <<t[1], t[2]>>
BY InputAssumption DEF Task

LEMMA InitFailedInv ==
  ASSUME BackendInv, init_failed
  PROVE  BackendInv'
<1> DEFINE d == Head(attacher.left)
<1>1. /\ UNCHANGED <<q, task, sent, generation>> /\ attacher.left # << >>
      /\ attacher' = [attacher EXCEPT !.left = << >>] /\ current' = [current EXCEPT ![d] = 0]
  BY DEF init_failed, traces
<1>2. /\ generation \in 0 .. MaxGen /\ MaxGen \in Nat /\ current \in [Dev -> 0 .. MaxGen]
      /\ attacher \in [gen : 0 .. MaxGen, left : Seq(Dev)]
  BY InputAssumption DEF BackendInv, BackendTypes
<1>3. d \in Dev
  BY <1>1, <1>2
<1>4. /\ attacher'.gen = attacher.gen /\ attacher'.left = << >> /\ Len(<< >>) = 0
      /\ attacher' \in [gen : 0 .. MaxGen, left : Seq(Dev)]
  <2>1. << >> \in Seq(Dev) /\ Len(<< >>) = 0
    OBVIOUS
  <2>2. QED
    BY <1>1, <1>2, <2>1, WithLeft
<1> HIDE DEF d
<1>5. current' \in [Dev -> 0 .. MaxGen] /\ \A c \in Dev : c # d => current'[c] = current[c]
  <2>1. 0 \in 0 .. MaxGen
    BY <1>2
  <2>2. QED
    BY <1>1, <1>2, <1>3, <2>1
<1>6. BackendTypes'
  BY <1>1, <1>2, <1>4, <1>5, NoTask DEF BackendTypes
<1>7. Unborn'
  <2>1. attacher.gen <= generation
    BY DEF BackendInv, Unborn
  <2>2. QED
    BY <1>1, <1>4, <2>1 DEF BackendInv, Unborn
<1>8. Attached'
  <2> SUFFICES ASSUME NEW t \in Task, t[2] = current'[t[1]] PROVE task[t].pc # "none"
    BY <1>1 DEF Attached
  <2>1. t[1] # d
    BY <1>1, <1>2, <1>3, TaskIs
  <2>2. QED
    BY <1>5, <2>1, TaskIs DEF BackendInv, Attached
<1>9. QED
  BY <1>1, <1>6, <1>7, <1>8, NoTask DEF BackendInv

LEMMA InitDeviceInv ==
  ASSUME BackendInv, init
  PROVE  BackendInv'
<1> DEFINE d == Head(attacher.left)
           g == attacher.gen
           t == <<d, g>>
           v == publish(setup_queue(NoEvent), post_all)
<1>1. /\ UNCHANGED <<sent, generation>> /\ attacher.left # << >>
      /\ attacher' = [attacher EXCEPT !.left = Tail(@)] /\ current' = [current EXCEPT ![t[1]] = t[2]]
      /\ q' = [q EXCEPT ![t] = v] /\ task' = [task EXCEPT ![t].pc = "loop"]
  BY DEF init, traces
<1>2. /\ generation \in 0 .. MaxGen /\ MaxGen \in Nat /\ current \in [Dev -> 0 .. MaxGen]
      /\ attacher \in [gen : 0 .. MaxGen, left : Seq(Dev)] /\ q \in [Task -> VirtQueue]
      /\ DOMAIN task = Task /\ DOMAIN sent = Task /\ \A s \in Task : Shape(task[s])
  BY InputAssumption DEF BackendInv, BackendTypes
<1>3. /\ g <= generation /\ g \in 1 .. MaxGen /\ d \in Dev /\ d = attacher.left[1]
      /\ Len(attacher.left) \in Nat \ {0}
  <2>1. g <= generation /\ g > 0
    BY <1>1 DEF BackendInv, Unborn
  <2>2. attacher.left \in Seq(Dev) /\ g \in 0 .. MaxGen
    BY <1>2
  <2> HIDE DEF g
  <2>3. QED
    BY <1>1, <1>2, <2>1, <2>2
<1>4. t \in Task /\ t[1] = d /\ t[2] = g
  BY <1>3 DEF Task
<1>5. /\ attacher'.gen = g /\ attacher'.left = Tail(attacher.left)
      /\ attacher' \in [gen : 0 .. MaxGen, left : Seq(Dev)]
  <2>1. Tail(attacher.left) \in Seq(Dev)
    BY <1>1, <1>2
  <2>2. QED
    BY <1>1, <1>2, <2>1, WithLeft
<1>6. /\ Len(attacher'.left) = Len(attacher.left) - 1
      /\ \A i \in 1 .. Len(attacher'.left) : attacher'.left[i] = attacher.left[i + 1]
                                            /\ i + 1 \in 1 .. Len(attacher.left) /\ i + 1 # 1
  <2> DEFINE l == attacher.left
  <2>1. l \in Seq(Dev) /\ l # << >> /\ Len(l) \in Nat \ {0}
    BY <1>1, <1>2, <1>3
  <2>2. attacher'.left = Tail(l)
    BY <1>5
  <2> HIDE DEF l
  <2>3. Len(Tail(l)) = Len(l) - 1 /\ \A i \in 1 .. Len(l) - 1 : Tail(l)[i] = l[i + 1]
    BY <2>1
  <2>4. QED
    BY <2>1, <2>2, <2>3 DEF l
<1>7. v \in VirtQueue /\ Whole(v, << >>)
  BY SetUpIs, PublishedIs
<1>8. task[t].pc = "none"
  BY <1>3, <1>4 DEF BackendInv, Unborn
<1>9. Shape(task[t])
  BY <1>2, <1>4
<1> HIDE DEF v, t
<1>10. /\ q' \in [Task -> VirtQueue] /\ q'[t] = v /\ \A s \in Task : s # t => q'[s] = q[s]
  BY <1>1, <1>2, <1>4, <1>7
<1>11. /\ DOMAIN task' = Task /\ task'[t] = [task[t] EXCEPT !.pc = "loop"]
       /\ \A s \in Task : s # t => task'[s] = task[s]
  BY <1>1, <1>2, <1>4
<1>12. Shape(task'[t]) /\ task'[t].pc = "loop" /\ task'[t].done = task[t].done
  <2>1. "loop" \in PCs
    BY DEF PCs
  <2>2. QED
    BY <1>9, <1>11, <2>1, WithPc
<1>13. BackendTypes'
  <2>1. \A s \in Task : Shape(task'[s])
    BY <1>2, <1>11, <1>12
  <2>2. current' \in [Dev -> 0 .. MaxGen]
    BY <1>1, <1>2, <1>3, <1>4
  <2>3. QED
    BY <1>1, <1>2, <1>5, <1>10, <1>11, <2>1, <2>2 DEF BackendTypes
<1>14. Unborn'
  <2>1. \A s \in Task : s[2] > generation => task'[s].pc = "none"
    <3>1. ~(t[2] > generation)
      BY <1>2, <1>3, <1>4
    <3>2. QED
      BY <1>11, <3>1 DEF BackendInv, Unborn
  <2>2. \A i, j \in 1 .. Len(attacher'.left) : attacher'.left[i] = attacher'.left[j] => i = j
    <3> SUFFICES ASSUME NEW i \in 1 .. Len(attacher'.left), NEW j \in 1 .. Len(attacher'.left),
                        attacher'.left[i] = attacher'.left[j]
                 PROVE  i = j
      OBVIOUS
    <3>1. i + 1 = j + 1
      BY <1>6 DEF BackendInv, Unborn
    <3>2. QED
      BY <3>1, <1>6, <1>3
  <2>3. ASSUME NEW i \in 1 .. Len(attacher'.left), <<attacher'.left[i], g>> \in Task
        PROVE  task'[<<attacher'.left[i], g>>].pc = "none"
    <3>1. attacher.left[i + 1] # d
      <4>1. 1 \in 1 .. Len(attacher.left)
        BY <1>3
      <4>2. QED
        BY <1>3, <1>6, <4>1 DEF BackendInv, Unborn
    <3>2. <<attacher.left[i + 1], g>> \in Task /\ <<attacher.left[i + 1], g>> # t
      BY <1>6, <2>3, <3>1 DEF t
    <3>3. task[<<attacher.left[i + 1], g>>].pc = "none"
      BY <1>6, <3>2 DEF BackendInv, Unborn
    <3>4. QED
      BY <1>6, <1>11, <3>2, <3>3
  <2>4. g <= generation' /\ g > 0
    BY <1>1, <1>3
  <2> HIDE DEF g
  <2>5. QED
    BY <1>1, <1>5, <2>1, <2>2, <2>3, <2>4 DEF Unborn
<1>15. Attached'
  <2> SUFFICES ASSUME NEW s \in Task, s[2] = current'[s[1]] PROVE task'[s].pc # "none"
    BY DEF Attached
  <2>1. CASE s[1] = d
    <3>1. s = t
      <4>1. s[2] = g
        BY <2>1, <1>1, <1>2, <1>3, <1>4
      <4>2. QED
        BY <2>1, <4>1, TaskIs DEF t
    <3>2. QED
      BY <3>1, <1>12
  <2>2. CASE s[1] # d
    <3>1. s # t /\ current'[s[1]] = current[s[1]]
      BY <2>2, <1>1, <1>2, <1>4, TaskIs
    <3>2. QED
      BY <3>1, <1>11 DEF BackendInv, Attached
  <2>3. QED
    BY <2>1, <2>2
<1>16. InPlaces'
  <2>1. task'[t].done \in Seq(Desc)
    BY <1>12 DEF Shape
  <2>2. task'[t].done = << >>
    BY <1>4, <1>8, <1>12 DEF BackendInv, InPlaces
  <2>3. HandOf(task'[t], v) = << >>
    BY <1>12, <2>1, <2>2, HandIs
  <2>4. Whole(q'[t], HandOf(task'[t], q'[t])) /\ task'[t].pc # "none"
    BY <1>7, <1>10, <1>12, <2>3
  <2>5. QED
    BY <1>1, <1>10, <1>11, <2>4 DEF BackendInv, InPlaces
<1>17. QED
  BY <1>13, <1>14, <1>15, <1>16 DEF BackendInv

LEMMA DeviceEventInv ==
  ASSUME BackendInv, NEW d \in Dev, NEW e \in Raw[d], DeviceEvent(d, e)
  PROVE  BackendInv'
<1> DEFINE t == <<d, current[d]>>
           u == q[t]
           v == Completed(u, e)
           h == HandOf(task[t], u)
<1>1. /\ UNCHANGED backend /\ UNCHANGED task /\ current[d] # 0 /\ ~Starved(u)
      /\ q' = [q EXCEPT ![t] = v] /\ sent' = [sent EXCEPT ![t] = Append(@, e)]
  BY DEF DeviceEvent
<1>2. /\ current \in [Dev -> 0 .. MaxGen] /\ MaxGen \in Nat /\ q \in [Task -> VirtQueue]
      /\ DOMAIN task = Task /\ DOMAIN sent = Task /\ \A s \in Task : Shape(task[s])
  BY InputAssumption DEF BackendInv, BackendTypes
<1>3. t \in Task /\ t[1] = d /\ t[2] = current[d]
  <2>1. current[d] \in 1 .. MaxGen
    BY <1>1, <1>2
  <2>2. QED
    BY <2>1 DEF Task
<1>4. task[t].pc # "none"
  BY <1>3 DEF BackendInv, Attached
<1> HIDE DEF t
<1>5. Whole(u, h) /\ u \in VirtQueue /\ Shape(task[t])
  BY <1>2, <1>3, <1>4 DEF BackendInv, InPlaces
<1>6. e \in Event
  BY DEF Event
<1> HIDE DEF u
<1>7. v \in VirtQueue /\ Whole(v, h)
  BY <1>1, <1>5, <1>6, CompletedIs
<1>8. HandOf(task[t], v) = h
  <2>1. task[t].done \in Seq(Desc)
    BY <1>5 DEF Shape
  <2>2. CASE task[t].pc # "entry"
    BY <2>1, <2>2, HandIs
  <2>3. CASE task[t].pc = "entry"
    <3>1. h = Append(task[t].done, TakenId(u)) /\ HandOf(task[t], v) = Append(task[t].done, TakenId(v))
      BY <2>1, <2>3, HandIs
    <3>2. h \in Seq(Desc) /\ h # << >>
      <4>1. Append(task[t].done, TakenId(u)) # << >>
        BY <2>1
      <4>2. QED
        BY <3>1, <4>1, <1>5 DEF Whole
    <3> HIDE DEF h
    <3>3. Len(h) > 0
      BY <3>2
    <3>4. TakenId(v) = TakenId(u)
      BY <1>1, <1>5, <1>6, <3>3, TakenStays
    <3>5. QED
      BY <3>1, <3>4
  <2>4. QED
    BY <2>2, <2>3
<1> HIDE DEF v, h
<1>9. q' \in [Task -> VirtQueue] /\ q'[t] = v /\ \A s \in Task : s # t => q'[s] = q[s]
  BY <1>1, <1>2, <1>3, <1>7
<1>10. DOMAIN sent' = Task /\ \A s \in Task : s # t => sent'[s] = sent[s]
  BY <1>1, <1>2, <1>3
<1>11. task' = task
  BY <1>1
<1>12. Whole(q'[t], HandOf(task'[t], q'[t]))
  BY <1>7, <1>8, <1>9, <1>11
<1>13. QED
  BY <1>1, <1>2, <1>3, <1>4, <1>5, <1>9, <1>10, <1>11, <1>12, OneTask

\* A step of a task: what it starts from
LEMMA TaskStarts ==
  ASSUME BackendInv, NEW t \in Task, task[t].pc # "none"
  PROVE  /\ q \in [Task -> VirtQueue] /\ q[t] \in VirtQueue /\ DOMAIN task = Task /\ DOMAIN sent = Task
         /\ Shape(task[t]) /\ task[t].done \in Seq(Desc)
         /\ Whole(q[t], HandOf(task[t], q[t]))
BY DEF BackendInv, BackendTypes, InPlaces, Shape

LEMMA AgainIs ==
  ASSUME NEW t
  PROVE  Again(t) \in PCs /\ Again(t) # "none" /\ Again(t) # "entry"
BY DEF Again, PCs

LEMMA RunLoopInv ==
  ASSUME BackendInv, NEW t \in Task, run_loop(t)
  PROVE  BackendInv'
<1>1. /\ UNCHANGED <<backend, q, sent>> /\ task[t].pc = "loop"
      /\ task' = [task EXCEPT ![t].pc = Again(t)]
  BY DEF run_loop, At, traces
<1>2. /\ q \in [Task -> VirtQueue] /\ q[t] \in VirtQueue /\ DOMAIN task = Task /\ DOMAIN sent = Task
      /\ Shape(task[t]) /\ task[t].done \in Seq(Desc) /\ Whole(q[t], HandOf(task[t], q[t]))
      /\ task[t].pc # "none" /\ task[t].pc # "entry"
  BY <1>1, TaskStarts
<1>3. /\ DOMAIN task' = Task /\ task'[t] = [task[t] EXCEPT !.pc = Again(t)]
      /\ \A s \in Task : s # t => task'[s] = task[s]
  BY <1>1, <1>2
<1>4. Shape(task'[t]) /\ task'[t].pc = Again(t) /\ task'[t].done = task[t].done
  BY <1>2, <1>3, AgainIs DEF Shape
<1>5. task'[t].pc # "none" /\ task'[t].pc # "entry"
  BY <1>4, AgainIs
<1>6. HandOf(task'[t], q[t]) = task[t].done /\ HandOf(task[t], q[t]) = task[t].done
  BY <1>2, <1>4, <1>5, HandIs
<1>7. q' = q /\ sent' = sent
  BY <1>1
<1>8. Whole(q'[t], HandOf(task'[t], q'[t]))
  BY <1>2, <1>6, <1>7
<1>9. QED
  BY <1>1, <1>2, <1>3, <1>4, <1>5, <1>7, <1>8, OneTask

LEMMA TakeUsedInv ==
  ASSUME BackendInv, NEW t \in Task, TakeUsed(t)
  PROVE  BackendInv'
<1> DEFINE u == q[t]
           v == take_used(u)
<1>1. /\ UNCHANGED <<backend, sent>> /\ task[t].pc = "take" /\ SomeUsed(u)
      /\ q' = [q EXCEPT ![t] = v] /\ task' = [task EXCEPT ![t].pc = "entry"]
  BY DEF TakeUsed, At, traces
<1>2. /\ q \in [Task -> VirtQueue] /\ u \in VirtQueue /\ DOMAIN task = Task /\ DOMAIN sent = Task
      /\ Shape(task[t]) /\ task[t].done \in Seq(Desc) /\ Whole(u, HandOf(task[t], u))
      /\ task[t].pc # "none" /\ task[t].pc # "entry"
  BY <1>1, TaskStarts
<1>3. HandOf(task[t], u) = task[t].done
  BY <1>2, HandIs
<1> HIDE DEF u
<1>4. v \in VirtQueue /\ Whole(v, Append(task[t].done, TakenId(v)))
  BY <1>1, <1>2, <1>3, TakenIs
<1> HIDE DEF v
<1>5. q' \in [Task -> VirtQueue] /\ q'[t] = v /\ \A s \in Task : s # t => q'[s] = q[s]
  BY <1>1, <1>2, <1>4
<1>6. /\ DOMAIN task' = Task /\ task'[t] = [task[t] EXCEPT !.pc = "entry"]
      /\ \A s \in Task : s # t => task'[s] = task[s]
  BY <1>1, <1>2
<1>7. Shape(task'[t]) /\ task'[t].pc = "entry" /\ task'[t].done = task[t].done
  <2>1. "entry" \in PCs
    BY DEF PCs
  <2>2. QED
    BY <1>2, <1>6, <2>1, WithPc
<1>8. HandOf(task'[t], v) = Append(task[t].done, TakenId(v))
  BY <1>2, <1>7, HandIs
<1>9. Whole(q'[t], HandOf(task'[t], q'[t])) /\ task'[t].pc # "none" /\ sent' = sent
  BY <1>1, <1>4, <1>5, <1>7, <1>8
<1>10. QED
  BY <1>1, <1>2, <1>5, <1>6, <1>7, <1>9, OneTask

LEMMA OnEventInv ==
  ASSUME BackendInv, NEW t \in Task, OnEvent(t)
  PROVE  BackendInv'
<1> DEFINE i == TakenId(q[t])
           e == q[t].buf[i]
           outs == on_event(t[1], task[t].pending, e)
           out == [k \in DOMAIN outs |-> WithMods(outs[k])]
           lbl == IF out = << >> THEN "take" ELSE "offer"
           p == Pending(task[t].pending, e)
           d == Append(task[t].done, i)
<1>1. /\ UNCHANGED <<backend, q, sent>> /\ task[t].pc = "entry"
      /\ task' = [task EXCEPT ![t].pending = Pending(@, e), ![t].done = Append(@, i),
                              ![t].out = out, ![t].pc = lbl]
  BY DEF OnEvent, At
<1>2. /\ q \in [Task -> VirtQueue] /\ q[t] \in VirtQueue /\ DOMAIN task = Task /\ DOMAIN sent = Task
      /\ Shape(task[t]) /\ task[t].done \in Seq(Desc) /\ Whole(q[t], HandOf(task[t], q[t]))
      /\ task[t].pc # "none"
  BY <1>1, TaskStarts
<1>3. HandOf(task[t], q[t]) = d /\ d \in Seq(Desc)
  <2>1. HandOf(task[t], q[t]) = d
    BY <1>1, <1>2, HandIs
  <2>2. QED
    BY <2>1, <1>2 DEF Whole
<1>4. lbl \in PCs /\ lbl # "none" /\ lbl # "entry"
  BY DEF PCs
<1> HIDE DEF i, e, outs, out, lbl
<1>5. /\ DOMAIN task' = Task
      /\ task'[t] = [task[t] EXCEPT !.pending = p, !.done = d, !.out = out, !.pc = lbl]
      /\ \A s \in Task : s # t => task'[s] = task[s]
  BY <1>1, <1>2 DEF Shape, p, d
<1> HIDE DEF p, d
<1>6. Shape(task'[t]) /\ task'[t].pc = lbl /\ task'[t].done = d
  BY <1>2, <1>3, <1>4, <1>5 DEF Shape
<1>7. HandOf(task'[t], q[t]) = d
  BY <1>3, <1>4, <1>6, HandIs
<1>8. q' = q /\ sent' = sent
  BY <1>1
<1>9. Whole(q'[t], HandOf(task'[t], q'[t])) /\ task'[t].pc # "none"
  BY <1>2, <1>3, <1>4, <1>6, <1>7, <1>8
<1>10. QED
  BY <1>1, <1>2, <1>5, <1>6, <1>8, <1>9, OneTask

LEMMA RepostInv ==
  ASSUME BackendInv, NEW t \in Task, Repost(t)
  PROVE  BackendInv'
<1> DEFINE u == q[t]
           v == IF task[t].done = << >> THEN u ELSE publish(u, task[t].done)
<1>1. /\ UNCHANGED <<backend, sent>> /\ task[t].pc = "take" /\ ~SomeUsed(u)
      /\ q' = IF task[t].done = << >> THEN q ELSE [q EXCEPT ![t] = publish(u, task[t].done)]
      /\ task' = [task EXCEPT ![t].pc = Again(t), ![t].done = << >>]
  BY DEF Repost, At, traces
<1>2. /\ q \in [Task -> VirtQueue] /\ u \in VirtQueue /\ DOMAIN task = Task /\ DOMAIN sent = Task
      /\ Shape(task[t]) /\ task[t].done \in Seq(Desc) /\ Whole(u, HandOf(task[t], u))
      /\ task[t].pc # "none" /\ task[t].pc # "entry"
  BY <1>1, TaskStarts
<1>3. HandOf(task[t], u) = task[t].done
  BY <1>2, HandIs
<1>4. /\ q' \in [Task -> VirtQueue] /\ q'[t] = v /\ v \in VirtQueue /\ Whole(v, << >>)
      /\ \A s \in Task : s # t => q'[s] = q[s]
  <2>1. CASE task[t].done = << >>
    BY <2>1, <1>1, <1>2, <1>3
  <2>2. CASE task[t].done # << >>
    <3> HIDE DEF u
    <3>1. publish(u, task[t].done) \in VirtQueue /\ Whole(publish(u, task[t].done), << >>)
      BY <1>1, <1>2, <1>3, PublishedIs
    <3>2. QED
      BY <2>2, <3>1, <1>1, <1>2
  <2>3. QED
    BY <2>1, <2>2
<1> HIDE DEF u, v
<1>5. /\ DOMAIN task' = Task /\ task'[t] = [task[t] EXCEPT !.pc = Again(t), !.done = << >>]
      /\ \A s \in Task : s # t => task'[s] = task[s]
  BY <1>1, <1>2
<1>6. Shape(task'[t]) /\ task'[t].pc = Again(t) /\ task'[t].done = << >> /\ << >> \in Seq(Desc)
  <2>1. << >> \in Seq(Desc)
    OBVIOUS
  <2>2. Again(t) \in PCs
    BY AgainIs
  <2>3. Shape(task'[t]) /\ task'[t].pc = Again(t) /\ task'[t].done = << >>
    BY <1>2, <1>5, <2>1, <2>2 DEF Shape
  <2>4. QED
    BY <2>1, <2>3
<1>7. HandOf(task'[t], v) = << >>
  BY <1>6, AgainIs, HandIs
<1>8. Whole(q'[t], HandOf(task'[t], q'[t])) /\ task'[t].pc # "none" /\ sent' = sent
  BY <1>1, <1>4, <1>6, <1>7, AgainIs
<1>9. QED
  BY <1>1, <1>2, <1>4, <1>5, <1>6, <1>8, OneTask

LEMMA EmitInv ==
  ASSUME BackendInv, NEW t \in Task, emit(t)
  PROVE  BackendInv'
<1> DEFINE o == Tail(task[t].out)
           lbl == IF o = << >> THEN "take" ELSE "offer"
<1>1. /\ UNCHANGED <<backend, q, sent>> /\ task[t].pc = "offer"
      /\ task' = [task EXCEPT ![t].out = Tail(@), ![t].pc = lbl]
  BY DEF emit, At
<1>2. /\ q \in [Task -> VirtQueue] /\ q[t] \in VirtQueue /\ DOMAIN task = Task /\ DOMAIN sent = Task
      /\ Shape(task[t]) /\ task[t].done \in Seq(Desc) /\ Whole(q[t], HandOf(task[t], q[t]))
      /\ task[t].pc # "none" /\ task[t].pc # "entry"
  BY <1>1, TaskStarts
<1>3. lbl \in PCs /\ lbl # "none" /\ lbl # "entry"
  BY DEF PCs
<1> HIDE DEF lbl
<1>4. /\ DOMAIN task' = Task /\ task'[t] = [task[t] EXCEPT !.out = o, !.pc = lbl]
      /\ \A s \in Task : s # t => task'[s] = task[s]
  BY <1>1, <1>2
<1> HIDE DEF o
<1>5. Shape(task'[t]) /\ task'[t].pc = lbl /\ task'[t].done = task[t].done
  BY <1>2, <1>3, <1>4 DEF Shape
<1>6. HandOf(task'[t], q[t]) = task[t].done /\ HandOf(task[t], q[t]) = task[t].done
  BY <1>2, <1>3, <1>5, HandIs
<1>7. q' = q /\ sent' = sent
  BY <1>1
<1>8. Whole(q'[t], HandOf(task'[t], q'[t])) /\ task'[t].pc # "none"
  BY <1>2, <1>3, <1>5, <1>6, <1>7
<1>9. QED
  BY <1>1, <1>2, <1>4, <1>5, <1>7, <1>8, OneTask

-----------------------------------------------------------------------------

LEMMA InitInv ==
  ASSUME InputInit
  PROVE  BackendInv
<1>1. MaxGen \in Nat /\ \A t \in Task : t[2] \in Nat \ {0} /\ t[1] \in Dev
  BY InputAssumption, TaskIs
<1>2. setup_queue(NoEvent) \in VirtQueue
  BY SetUpIs
<1>3. Shape(Idle) /\ Idle.pc = "none" /\ Idle.done = << >>
  BY DEF Idle, Shape, PCs
<1>4. \A t \in Task : q[t] = setup_queue(NoEvent) /\ task[t] = Idle /\ sent[t] = << >>
  BY DEF InputInit
<1>5. BackendTypes
  BY <1>1, <1>2, <1>3 DEF InputInit, BackendTypes
<1>6. Unborn
  BY <1>1, <1>3, <1>4 DEF InputInit, Unborn
<1>7. Attached
  BY <1>1 DEF InputInit, Attached
<1>8. InPlaces
  BY <1>3, <1>4 DEF InPlaces
<1>9. QED
  BY <1>5, <1>6, <1>7, <1>8 DEF BackendInv

\* The places of the line, one after the other, are BuffersKept's sequence.
LEMMA LineIs ==
  ASSUME NEW u \in VirtQueue, NEW h, Whole(u, h), NEW all, all = Offered(u) \o Untaken(u) \o h
  PROVE  Len(all) = qsize /\ Range(all) = Desc
<1> DEFINE n == OfferedTo(u)
           m == UsedOf(u)
           a == Offered(u)
           b == Untaken(u)
<1>1. /\ u.ring \in [Desc -> Desc] /\ u.id \in [Desc -> Desc] /\ n \in Nat /\ m \in Nat
      /\ u.took \in Nat /\ u.seen \in Nat
  BY QueueIs
<1>2. h \in Seq(Desc) /\ n + m + Len(h) = qsize /\ Len(h) \in Nat /\ qsize \in Nat /\ Each(Line(u, h))
  BY QueueSizes DEF Whole
<1>3. ASSUME NEW x \in Nat, NEW k \in Nat \ {0}
      PROVE  Entry((x + k - 1) % Wrap) = (x + k - 1) % qsize /\ (x + k - 1) % qsize \in Desc
  <2>1. x + k - 1 \in Int
    OBVIOUS
  <2>2. QED
    BY <2>1, EntryIs
<1>4. a = [k \in 1 .. n |-> u.ring[(u.took + k - 1) % qsize]] /\ a \in Seq(Desc) /\ Len(a) = n
  <2> DEFINE f == [k \in 1 .. n |-> u.ring[(u.took + k - 1) % qsize]]
  <2>1. \A k \in 1 .. n : k \in Nat \ {0}
    BY <1>1
  <2>2. a = f
    BY <1>1, <1>3, <2>1 DEF Offered, OfferedTo
  <2>3. f \in [1 .. n -> Desc]
    BY <1>1, <1>3, <2>1
  <2> HIDE DEF f, a, n
  <2>4. f \in Seq(Desc) /\ Len(f) = n
    BY <1>1, <2>3
  <2>5. QED
    BY <2>2, <2>4 DEF f
<1>5. b = [k \in 1 .. m |-> u.id[(u.seen + k - 1) % qsize]] /\ b \in Seq(Desc) /\ Len(b) = m
  <2> DEFINE f == [k \in 1 .. m |-> u.id[(u.seen + k - 1) % qsize]]
  <2>1. \A k \in 1 .. m : k \in Nat \ {0}
    BY <1>1
  <2>2. b = f
    BY <1>1, <1>3, <2>1 DEF Untaken, UsedOf
  <2>3. f \in [1 .. m -> Desc]
    BY <1>1, <1>3, <2>1
  <2> HIDE DEF f, b, m
  <2>4. f \in Seq(Desc) /\ Len(f) = m
    BY <1>1, <2>3
  <2>5. QED
    BY <2>2, <2>4 DEF f
<1> HIDE DEF a, b
<1>6. all \in Seq(Desc) /\ Len(all) = n + m + Len(h)
  <2> HIDE DEF n, m
  <2>1. a \o b \in Seq(Desc) /\ Len(a \o b) = n + m
    <3>1. a \in Seq(Desc) /\ b \in Seq(Desc) /\ Len(a) = n /\ Len(b) = m
      BY <1>4, <1>5
    <3>2. \A x, y \in Seq(Desc) : x \o y \in Seq(Desc) /\ Len(x \o y) = Len(x) + Len(y)
      OBVIOUS
    <3>3. QED
      BY <3>1, <3>2
  <2>2. QED
    BY <1>2, <2>1 DEF a, b
<1>7. ASSUME NEW i \in 1 .. qsize PROVE all[i] = Line(u, h)[i]
  <2> DEFINE c == a \o b
  <2>1. c \in Seq(Desc) /\ Len(c) = n + m /\ all = c \o h /\ Len(h) \in Nat
    <3>1. a \in Seq(Desc) /\ b \in Seq(Desc) /\ Len(a) = n /\ Len(b) = m
      BY <1>4, <1>5
    <3> HIDE DEF n, m
    <3>2. c \in Seq(Desc) /\ Len(c) = n + m
      BY SMTT(30), <3>1
    <3>3. all = c \o h
      BY DEF a, b
    <3>4. QED
      BY <1>2, <3>2, <3>3
  <2>2. Line(u, h)[i] = IF i <= n THEN u.ring[(u.took + i - 1) % qsize]
                        ELSE IF i <= n + m THEN u.id[(u.seen + i - n - 1) % qsize]
                        ELSE h[i - n - m]
    BY DEF Line
  <2>3. CASE i <= n
    <3>1. c[i] = a[i]
      BY <2>3, <1>1, <1>4, <1>5
    <3>2. a[i] = u.ring[(u.took + i - 1) % qsize]
      BY <2>3, <1>1, <1>4
    <3> HIDE DEF c, n, m
    <3>3. all[i] = c[i]
      BY <2>1, <2>3, <1>1, <1>2
    <3>4. QED
      BY <2>2, <2>3, <3>1, <3>2, <3>3
  <2>4. CASE ~(i <= n) /\ i <= n + m
    <3> HIDE DEF n, m
    <3>1. i - n \in 1 .. m /\ u.seen + (i - n) - 1 = u.seen + i - n - 1
      BY <2>4, <1>1, <1>2
    <3>2. c[i] = b[i - n]
      BY <2>4, <3>1, <1>1, <1>4, <1>5
    <3>3. b[i - n] = u.id[(u.seen + (i - n) - 1) % qsize]
      BY <3>1, <1>5
    <3> HIDE DEF c
    <3>4. all[i] = c[i]
      BY <2>1, <2>4, <1>1, <1>2
    <3>5. QED
      BY <2>2, <2>4, <3>1, <3>2, <3>3, <3>4
  <2>5. CASE ~(i <= n + m)
    <3> HIDE DEF n, m, c
    <3>1. ~(i <= n) /\ i - (n + m) = i - n - m /\ i - (n + m) \in 1 .. Len(h)
      BY <2>5, <1>1, <1>2
    <3>2. all[i] = h[i - (n + m)]
      BY <2>1, <2>5, <3>1, <1>1, <1>2
    <3>3. QED
      BY <2>2, <2>5, <3>1, <3>2
  <2>6. QED
    BY <2>3, <2>4, <2>5
<1>8. Len(all) = qsize /\ DOMAIN all = 1 .. qsize
  <2> HIDE DEF n, m
  <2>1. QED
    BY <1>2, <1>6
<1>9. \A d : d \in Range(all) <=> d \in Desc
  <2>1. \A d : d \in Range(all) <=> \E i \in 1 .. qsize : all[i] = d
    BY <1>8 DEF Range
  <2>2. \A i \in 1 .. qsize : all[i] \in Desc
    BY <1>6, <1>8
  <2>3. \A d \in Desc : \E i \in 1 .. qsize : all[i] = d
    <3> SUFFICES ASSUME NEW d \in Desc PROVE \E i \in 1 .. qsize : all[i] = d
      OBVIOUS
    <3>1. PICK i \in 1 .. qsize : Line(u, h)[i] = d
      BY <1>2 DEF Each
    <3>2. all[i] = d
      BY <1>7, <3>1
    <3>3. QED
      BY <3>2
  <2>4. QED
    BY <2>1, <2>2, <2>3
<1>10. QED
  BY <1>8, <1>9

LEMMA BackendKeeps ==
  ASSUME BackendInv
  PROVE  BuffersKept
<1> SUFFICES ASSUME NEW t \in Task, q[t].avail # 0 \/ sent[t] # << >>
             PROVE  LET all == Offered(q[t]) \o Untaken(q[t]) \o InHand(t)
                    IN  Len(all) = qsize /\ Range(all) = Desc
  BY DEF BuffersKept
<1>1. setup_queue(NoEvent).avail = 0
  BY DEF setup_queue
<1>2. task[t].pc # "none"
  BY <1>1 DEF BackendInv, InPlaces
<1>3. q[t] \in VirtQueue /\ Whole(q[t], HandOf(task[t], q[t]))
  BY <1>2, TaskStarts
<1>4. InHand(t) = HandOf(task[t], q[t])
  BY DEF InHand, HandOf, At
<1>5. QED
  BY <1>3, <1>4, LineIs

\* The invariant behind BuffersKept: every task that was started has its
\* buffers in one line, and only such a task's queue is the device's.
THEOREM BackendTheorem == InputSpec => []BackendInv
<1>1. InputInit => BackendInv
  BY InitInv
<1>2. BackendInv /\ [InputNext]_inputVars => BackendInv'
  <2> SUFFICES ASSUME BackendInv, [InputNext]_inputVars PROVE BackendInv'
    OBVIOUS
  <2>1. CASE UNCHANGED inputVars
    <3>1. UNCHANGED <<q, task, sent, generation, attacher, current>>
      BY <2>1 DEF inputVars, backend, traces
    <3>2. QED
      BY <3>1, NoTask DEF BackendInv, BackendTypes, Unborn, Attached
  <2>2. CASE attach \/ stop \/ init \/ init_failed \/ poll_event
    BY <2>2, AttachInv, StopInv, InitDeviceInv, InitFailedInv, PollEventInv
  <2>3. CASE \E d \in Dev : \E e \in Raw[d] : DeviceEvent(d, e)
    BY <2>3, DeviceEventInv
  <2>4. CASE \E t \in Task : Poll(t)
    BY <2>4, RunLoopInv, TakeUsedInv, OnEventInv, RepostInv, EmitInv DEF Poll
  <2>5. QED
    BY <2>1, <2>2, <2>3, <2>4 DEF InputNext
<1>3. QED
  BY <1>1, <1>2, PTL DEF InputSpec

\* virtio-input's buffers: from the moment a queue is posted each of its
\* buffers is offered, used or with the polling task, in exactly one of
\* these, whatever attach!, stop!, the device and the other tasks do, and
\* however often the indices wrap.
THEOREM BuffersKeptTheorem == InputSpec => []BuffersKept
<1>1. BackendInv => BuffersKept
  BY BackendKeeps
<1>2. QED
  BY <1>1, BackendTheorem, PTL
=============================================================================
