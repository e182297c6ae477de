------------------------------ MODULE VirtioBlk ------------------------------
(***************************************************************************)
(* kernel/virtio_blk.c: the C driver of a virtio block device, against the *)
(* device.  The driver keeps one request in descriptor chain 0, publishes  *)
(* it by moving avail.idx, and spins until used.idx differs from the value *)
(* it saw last or two seconds have passed.                                 *)
(*                                                                         *)
(* The device is external: modelled from how the driver uses it and from   *)
(* what a virtqueue is.  Once notified it takes a chain for every step of  *)
(* avail.idx it has not taken, reading header and descriptors then, and at *)
(* the end moves data, status and used.idx.                                *)
(***************************************************************************)
EXTENDS Naturals

CONSTANTS Sectors, Val,
          QSize,                \* QSIZE
          IdxMod,               \* 2^16: avail.idx, used.idx, used_seen
          MaxTimeouts,          \* bound: requests that time out
          MaxProbes,            \* bound: calls of (probe!)
          MaxDone               \* bound: requests returned since a probe

ASSUME VirtioAssumption ==
  /\ Sectors \in Nat \ {0}
  /\ QSize \in Nat \ {0} /\ IdxMod \in Nat /\ QSize < IdxMod
  /\ MaxTimeouts \in Nat /\ MaxProbes \in Nat /\ MaxDone \in Nat
  /\ MaxTimeouts + 1 < IdxMod      \* the driver never falls behind by a full turn

VARIABLES disk, buf,                \* the medium; the caller's buffer
          offered,                  \* the features of the device
          attached,                 \* init_device succeeded: 0 < n_devs
          read_only, can_flush,
          req,                      \* hdr and desc[]: the request in chain 0
          status,                   \* the status byte the device writes
          avail_idx, used_idx,      \* the rings' indices, in shared memory
          used_seen,
          pc,                       \* "idle", or "spin" inside submit
          result,                   \* what the last call returned
          dev_avail, dev_used,      \* the device's own copies of the indices
          notified,                 \* R_QUEUE_NOTIFY written since the reset
          job                       \* the request the device works on

\* History: did the device carry out the current request; how many requests
\* have timed out; how often the driver has probed; requests since then.
VARIABLES executed, timeouts, probes, done

driver == <<attached, read_only, can_flush, req, status, avail_idx, used_seen, pc, result>>
device == <<offered, used_idx, dev_avail, dev_used, notified, job>>
history == <<executed, timeouts, probes, done>>
vars == <<disk, buf, driver, device, history>>

B == INSTANCE BlockDev WITH phase <- "idle"   \* its operators on requests

NoJob == [busy |-> FALSE, req |-> B!NoRequest, current |-> FALSE]
Job(r) == [busy |-> TRUE, req |-> r, current |-> TRUE]

\* i + 1 and i - j on uint16_t
Succ(i) == IF i + 1 = IdxMod THEN 0 ELSE i + 1
Ahead(i, j) == IF i >= j THEN i - j ELSE i - j + IdxMod

Features == SUBSET {"read-only", "flush"}

Init ==
  /\ \E v \in Val : disk = [s \in B!Lba |-> v]
                    /\ buf = [i \in 0 .. B!MaxN - 1 |-> v]
  /\ offered \in Features
  /\ attached = FALSE /\ read_only = FALSE /\ can_flush = FALSE
  /\ req = B!NoRequest /\ status = "ok"       \* static storage: all zero
  /\ avail_idx = 0 /\ used_idx = 0 /\ used_seen = 0
  /\ pc = "idle" /\ result = "none"
  /\ dev_avail = 0 /\ dev_used = 0 /\ notified = FALSE /\ job = NoJob
  /\ executed = FALSE /\ timeouts = 0 /\ probes = 0 /\ done = 0

-----------------------------------------------------------------------------
\* The driver

\* init_device resets the device and hands it the rings.  devs[] is not
\* cleared: the rings keep the indices they had.  A device that refuses the
\* features or the queue is left FAILED and not attached.
virtio_blk_probe ==
  /\ pc = "idle" /\ probes < MaxProbes
  /\ attached' \in BOOLEAN
  /\ IF attached'
       THEN read_only' = ("read-only" \in offered) /\ can_flush' = ("flush" \in offered)
       ELSE UNCHANGED <<read_only, can_flush>>
  /\ dev_avail' = 0 /\ dev_used' = 0 /\ notified' = FALSE /\ job' = NoJob
  /\ probes' = probes + 1 /\ done' = 0
  /\ result' = "none"
  /\ UNCHANGED <<disk, buf, offered, req, status, avail_idx, used_idx, used_seen,
                 pc, executed, timeouts>>

\* submit: chain 0 now describes r and the device is notified.
Submit(r) ==
  /\ req' = r
  /\ status' = "busy"
  /\ avail_idx' = Succ(avail_idx)
  /\ notified' = TRUE
  /\ pc' = "spin"
  /\ executed' = FALSE
  /\ job' = [job EXCEPT !.current = FALSE]
  /\ UNCHANGED <<disk, offered, attached, read_only, can_flush, used_idx, used_seen,
                 result, dev_avail, dev_used, timeouts, probes, done>>

Refuse(why) ==
  /\ result' = why
  /\ UNCHANGED <<disk, buf, attached, read_only, can_flush, req, status, avail_idx,
                 used_seen, pc, device, history>>

\* Mutant: only the first sector is checked.
RwRefusalFirst(r) ==
  CASE ~attached                    -> "no-device"
    [] r.n = 0 \/ r.lba > Sectors   -> "out-of-range"
    [] r.type = "write" /\ read_only -> "read-only"
    [] OTHER                        -> "none"

\* The checks of virtio_blk_rw, in their order.
RwRefusal(r) ==
  CASE ~attached                    -> "no-device"
    [] ~B!InRange(r.lba, r.n)       -> "out-of-range"
    [] r.type = "write" /\ read_only -> "read-only"
    [] OTHER                        -> "none"

virtio_blk_rw(r) ==
  /\ pc = "idle" /\ done < MaxDone
  /\ \/ RwRefusal(r) # "none" /\ Refuse(RwRefusal(r))
     \/ RwRefusal(r) = "none" /\ buf' \in B!Buffers /\ Submit(r)

\* The natives read! and write! ask for a sector at least before they call the
\* driver.  Callers pass a buffer that holds the sectors.
rw(r) ==
  \/ r.n = 0 /\ pc = "idle" /\ done < MaxDone /\ Refuse("bad-args")
  \/ r.n > 0 /\ virtio_blk_rw(r)

virtio_blk_flush ==
  /\ pc = "idle" /\ done < MaxDone
  /\ \/ ~attached /\ Refuse("no-device")
     \/ attached /\ ~can_flush /\ Refuse("unsupported")
     \/ attached /\ can_flush /\ Submit(B!NoRequest) /\ UNCHANGED buf

\* The spin ends: used.idx moved.
SeeUsed ==
  /\ pc = "spin" /\ used_idx # used_seen
  /\ used_seen' = Succ(used_seen)
  /\ result' = IF status \in {"ok", "unsupported"} THEN status ELSE "io-error"
  /\ pc' = "idle" /\ done' = done + 1
  /\ UNCHANGED <<disk, buf, attached, read_only, can_flush, req, status, avail_idx,
                 device, executed, timeouts, probes>>

\* Mutant: the request that timed out counts as answered.
TimeoutTakesBack ==
  /\ pc = "spin" /\ used_idx = used_seen /\ timeouts < MaxTimeouts
  /\ used_seen' = Succ(used_seen)
  /\ result' = "timeout"
  /\ pc' = "idle" /\ done' = done + 1
  /\ timeouts' = timeouts + 1
  /\ UNCHANGED <<disk, buf, attached, read_only, can_flush, req, status, avail_idx,
                 device, executed, probes>>

\* The spin ends: the deadline passed.  Nothing is taken back.
Timeout ==
  /\ pc = "spin" /\ used_idx = used_seen /\ timeouts < MaxTimeouts
  /\ result' = "timeout"
  /\ pc' = "idle" /\ done' = done + 1
  /\ timeouts' = timeouts + 1
  /\ UNCHANGED <<disk, buf, attached, read_only, can_flush, req, status, avail_idx,
                 used_seen, device, executed, probes>>

-----------------------------------------------------------------------------
\* The device (external)

\* It finds avail.idx ahead of its own count and reads chain 0.  More new
\* entries than the queue holds is a broken queue, which it stops serving.
Fetch ==
  /\ attached /\ notified /\ ~job.busy
  /\ Ahead(avail_idx, dev_avail) \in 1 .. QSize
  /\ job' = Job(req)
  /\ dev_avail' = Succ(dev_avail)
  /\ UNCHANGED <<disk, buf, driver, offered, used_idx, dev_used, notified, history>>

\* Data, status and used ring entry are written, then used.idx.
Complete(s) ==
  /\ status' = s
  /\ dev_used' = Succ(dev_used)
  /\ used_idx' = dev_used'
  /\ job' = NoJob
  /\ UNCHANGED <<offered, attached, read_only, can_flush, req, avail_idx, used_seen,
                 pc, result, dev_avail, notified, timeouts, probes, done>>

CompleteOk ==
  /\ job.busy
  /\ disk' = B!Written(job.req, disk, buf)
  /\ buf' = B!Filled(job.req, disk, buf)
  /\ executed' = (executed \/ job.current)
  /\ Complete("ok")

CompleteFailed ==
  /\ job.busy
  /\ \E S \in SUBSET B!Lba :
       disk' = [s \in B!Lba |-> IF s \in S THEN B!Written(job.req, disk, buf)[s]
                                           ELSE disk[s]]
  /\ \E s \in {"failed", "unsupported"} : Complete(s)
  /\ UNCHANGED <<buf, executed>>

Next ==
  \/ virtio_blk_probe
  \/ \E r \in B!Requests : rw(r)
  \/ virtio_blk_flush \/ SeeUsed \/ Timeout
  \/ Fetch \/ CompleteOk \/ CompleteFailed

Spec == Init /\ [][Next]_vars

-----------------------------------------------------------------------------
DataTyped ==
  /\ disk \in [B!Lba -> Val] /\ buf \in B!Buffers
  /\ offered \in Features
  /\ req \in B!Requests \cup {B!NoRequest}
  /\ job \in {NoJob} \cup [busy : {TRUE}, req : B!Requests \cup {B!NoRequest},
                           current : BOOLEAN]

FlagsTyped ==
  /\ attached \in BOOLEAN /\ read_only \in BOOLEAN /\ can_flush \in BOOLEAN
  /\ notified \in BOOLEAN /\ executed \in BOOLEAN

WordsTyped ==
  /\ status \in {"busy", "ok", "failed", "unsupported"}
  /\ pc \in {"idle", "spin"}
  /\ result \in {"none", "ok", "io-error", "timeout", "no-device", "out-of-range",
                 "read-only", "unsupported", "bad-args"}

NumbersTyped ==
  /\ avail_idx \in 0 .. IdxMod - 1 /\ used_idx \in 0 .. IdxMod - 1
  /\ used_seen \in 0 .. IdxMod - 1
  /\ dev_avail \in 0 .. IdxMod - 1 /\ dev_used \in 0 .. IdxMod - 1
  /\ timeouts \in 0 .. MaxTimeouts /\ probes \in Nat /\ done \in Nat

\* Type invariant of the driver, the rings and the device.
TypeOK == DataTyped /\ FlagsTyped /\ WordsTyped /\ NumbersTyped

\* "an op either completes fully or throws" (docs/block-device.md): a request
\* that returned nil was carried out by the device.
OkMeansDone == (pc = "idle" /\ result = "ok") => executed

\* A request that timed out is never taken back, so the driver stays behind by
\* as many answers as requests timed out; the device answers what was published
\* and nothing twice, across the wrap of the 16-bit indices.  A late answer is
\* therefore taken for the answer to a later request, never for a new one.
RingsInStep ==
  probes <= 1 =>
    /\ Ahead(avail_idx, used_seen) = timeouts + (IF pc = "spin" THEN 1 ELSE 0)
    /\ Ahead(dev_avail, used_idx) = (IF job.busy THEN 1 ELSE 0)
    /\ Ahead(dev_avail, used_seen) <= Ahead(avail_idx, used_seen)
    /\ Ahead(used_idx, used_seen) <= Ahead(dev_avail, used_seen)

\* The phase of the request, as its caller sees it.
Phase ==
  IF timeouts > 0 \/ probes > 1 THEN "lost"
  ELSE IF pc = "idle" THEN "idle"
  ELSE IF used_idx = used_seen THEN "pending"
  ELSE IF status = "ok" THEN "ok" ELSE "error"

Abstract == INSTANCE BlockDev WITH phase <- Phase

\* Until a request times out or the driver is attached again, the driver and
\* the device together are BlockDev: every request that returns nil took effect
\* once and on all its sectors, and nothing moves data between requests.
ImplementsBlockDev == Abstract!Spec
=============================================================================
