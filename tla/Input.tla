------------------------------- MODULE Input -------------------------------
(***************************************************************************)
(* Keyboards and pointers: lib/virtio_input.beer on the queues of          *)
(* lib/virtio.beer, and lib/input.beer with the interrupt keys that        *)
(* lib/tty.beer intercepts.  Each attach! starts a generation: it resets   *)
(* every device, gives it a queue of its own and spawns a task that polls  *)
(* it, while tasks of older generations may still be busy with the events  *)
(* they have taken.  Tasks are preempted between any two steps, and the    *)
(* devices write all the time.  Tasks share the held keys and the queue.   *)
(*                                                                         *)
(* Setting up a device is one step: between its reset and the first buffer *)
(* it can send nothing.  A device that has no buffer drops the event, so   *)
(* any sequence of events may arrive.  Names given to devices, characters  *)
(* and the scale of positions are left out.                                *)
(***************************************************************************)
EXTENDS Virtq, SequencesExt, FiniteSetsExt

CONSTANTS Devices,              \* the devices in slot order, a sequence
          Raw,                  \* device -> evdev events it may send
          key_names, button_names, modifier_keys,
          Word,                 \* 2^32
          queue_max,
          MaxGen,               \* bound: calls of attach! and stop!
          MaxEvents             \* bound: generation -> events, those before included

Dev == Range(Devices)

\* Each device has its own slot, and no two have a key or button of the same
\* name.
Codes(d) == {e.code : e \in {r \in Raw[d] : r.type = "key"}}
Named(code) ==
  IF code \in DOMAIN button_names THEN button_names[code]
  ELSE IF code \in DOMAIN key_names THEN key_names[code] ELSE "unknown"
ASSUME InputAssumption ==
  /\ Devices \in Seq(Dev) /\ IsInjective(Devices)
  /\ Word \in Nat /\ queue_max \in Nat /\ MaxGen \in Nat /\ MaxEvents \in [1 .. MaxGen -> Nat]
  /\ \A d, c \in Dev : d # c =>
       {Named(k) : k \in Codes(d)} \cap {Named(k) : k \in Codes(c)} = {}

Task == Dev \X (1 .. MaxGen)

VARIABLES generation,
          attacher,             \* the caller of attach!: gen, devices left
          current,              \* device -> generation of its queue, 0: none
          q,                    \* task -> its queue
          task,                 \* task -> pc, pending, done and out
          held, waiting         \* of beer.input: held keys, events in the queue

\* History: what the device put into each queue; what each task emitted, and
\* of how many events it is done.
VARIABLES sent, emitted, handled

shared == <<held, waiting>>
backend == <<generation, attacher, current>>
traces == <<sent, emitted, handled>>
inputVars == <<backend, q, task, shared, traces>>

NoEvent == [type |-> "none"]
Still == [dx |-> 0, dy |-> 0, x |-> 0, y |-> 0, abs |-> FALSE]
Idle == [pc |-> "none", pending |-> Still, done |-> << >>, out |-> << >>]

InputInit ==
  /\ generation = 0 /\ attacher = [gen |-> 0, left |-> << >>]
  /\ current = [d \in Dev |-> 0]
  /\ q = [t \in Task |-> setup_queue(NoEvent)] /\ task = [t \in Task |-> Idle]
  /\ held = {} /\ waiting = 0
  /\ sent = [t \in Task |-> << >>] /\ emitted = [t \in Task |-> << >>]
  /\ handled = [t \in Task |-> 0]

-----------------------------------------------------------------------------
\* attach! and stop!

attach ==
  /\ attacher.left = << >> /\ generation < MaxGen
  /\ generation' = generation + 1
  /\ attacher' = [gen |-> generation + 1, left |-> Devices]
  /\ UNCHANGED <<current, q, task, shared, traces>>

stop ==
  /\ generation < MaxGen /\ generation' = generation + 1
  /\ UNCHANGED <<attacher, current, q, task, shared, traces>>

post_all == [i \in 1 .. qsize |-> i - 1]

\* The next device: negotiate! resets it, so that it forgets its queue, and
\* setup-queue! gives it another; then its task is spawned.
init ==
  LET t == <<Head(attacher.left), attacher.gen>> IN
  /\ attacher.left # << >>
  /\ attacher' = [attacher EXCEPT !.left = Tail(@)]
  /\ q' = [q EXCEPT ![t] = publish(setup_queue(NoEvent), post_all)]
  /\ current' = [current EXCEPT ![t[1]] = t[2]]
  /\ task' = [task EXCEPT ![t].pc = "loop"]
  /\ UNCHANGED <<generation, shared, traces>>

\* The device does not do VERSION_1, rejects the features or has too small a
\* queue: attach! throws, and sets up no other device.
init_failed ==
  /\ attacher.left # << >>
  /\ attacher' = [attacher EXCEPT !.left = << >>]
  /\ current' = [current EXCEPT ![Head(attacher.left)] = 0]
  /\ UNCHANGED <<generation, q, task, shared, traces>>

Arrived == MapThenSumSet(LAMBDA t : Len(sent[t]), Task)

\* The device has an event (external).
DeviceEvent(d, e) ==
  LET t == <<d, current[d]>> IN
  /\ current[d] # 0 /\ ~Starved(q[t]) /\ Arrived < MaxEvents[t[2]]
  /\ q' = [q EXCEPT ![t] = Completed(@, e)]
  /\ sent' = [sent EXCEPT ![t] = Append(@, e)]
  /\ UNCHANGED <<backend, task, shared, emitted, handled>>

-----------------------------------------------------------------------------
\* From evdev to beer.input

rel_x == 0
rel_y == 1
rel_wheel == 8
abs_x == 0
abs_y == 1

signed32(v) == IF v > (Word \div 2) - 1 THEN v - Word ELSE v

\* Mutant: the sums are kept.
SyncKeepsSums(p) == [p EXCEPT !.abs = FALSE]

Synced(p) == [p EXCEPT !.dx = 0, !.dy = 0, !.abs = FALSE]
on_sync(d, p) ==
  (IF p.dx # 0 \/ p.dy # 0
     THEN <<[dev |-> d, type |-> "motion", dx |-> p.dx, dy |-> p.dy]>> ELSE << >>) \o
  (IF p.abs THEN <<[dev |-> d, type |-> "abs", x |-> p.x, y |-> p.y]>> ELSE << >>)

KeyEvent(d, e) ==
  IF e.code \in DOMAIN button_names
    THEN [dev |-> d, type |-> "button", key |-> Named(e.code), down |-> e.value # 0]
    ELSE [dev |-> d, type |-> "key", key |-> Named(e.code), down |-> e.value # 0,
          repeat |-> e.value = 2, mods |-> {}]

\* What on-event! makes of the sums so far, and the events it emits
Pending(p, e) ==
  CASE e.type = "syn" -> Synced(p)
    [] e.type = "rel" /\ e.code = rel_x -> [p EXCEPT !.dx = @ + signed32(e.value)]
    [] e.type = "rel" /\ e.code = rel_y -> [p EXCEPT !.dy = @ + signed32(e.value)]
    [] e.type = "abs" /\ e.code = abs_x -> [p EXCEPT !.x = e.value, !.abs = TRUE]
    [] e.type = "abs" /\ e.code = abs_y -> [p EXCEPT !.y = e.value, !.abs = TRUE]
    [] OTHER -> p
on_event(d, p, e) ==
  CASE e.type = "syn" -> on_sync(d, p)
    [] e.type = "key" -> <<KeyEvent(d, e)>>
    [] e.type = "rel" /\ e.code = rel_wheel ->
         <<[dev |-> d, type |-> "wheel", delta |-> signed32(e.value)]>>
    [] OTHER -> << >>

\* The modifiers held when a key event is emitted
mods == {modifier_keys[k] : k \in held \cap DOMAIN modifier_keys}

\* Mutant: the modifiers with the key that moves.
ModsAfter(ev) ==
  IF ev.type = "key"
    THEN [ev EXCEPT !.mods = {modifier_keys[k] : k \in
           (IF ev.down THEN held \cup {ev.key} ELSE held \ {ev.key}) \cap DOMAIN modifier_keys}]
    ELSE ev

WithMods(ev) == IF ev.type = "key" THEN [ev EXCEPT !.mods = mods] ELSE ev

-----------------------------------------------------------------------------
\* The polling task: run-loop and poll!

At(t, pc) == task[t].pc = pc

\* run-loop goes on while its generation is the current one.
Again(t) == IF generation = t[2] THEN "take" ELSE "gone"

run_loop(t) ==
  /\ At(t, "loop")
  /\ task' = [task EXCEPT ![t].pc = Again(t)]
  /\ UNCHANGED <<backend, q, shared, traces>>

TakeUsed(t) ==
  /\ At(t, "take") /\ SomeUsed(q[t])
  /\ q' = [q EXCEPT ![t] = take_used(@)]
  /\ task' = [task EXCEPT ![t].pc = "entry"]
  /\ UNCHANGED <<backend, shared, traces>>

\* After the last event of on-event!
Finished(t, out) == handled' = IF out = << >> THEN [handled EXCEPT ![t] = @ + 1] ELSE handled

OnEvent(t) ==
  LET i == TakenId(q[t])
      e == q[t].buf[i]
      outs == on_event(t[1], task[t].pending, e)
      out == [k \in DOMAIN outs |-> WithMods(outs[k])]
  IN
  /\ At(t, "entry")
  /\ task' = [task EXCEPT ![t].pending = Pending(@, e), ![t].done = Append(@, i),
                          ![t].out = out, ![t].pc = IF out = << >> THEN "take" ELSE "offer"]
  /\ Finished(t, out)
  /\ UNCHANGED <<backend, q, shared, sent, emitted>>

\* The buffers go back to the device, and poll! to run-loop.
Repost(t) ==
  /\ At(t, "take") /\ ~SomeUsed(q[t])
  /\ q' = IF task[t].done = << >> THEN q ELSE [q EXCEPT ![t] = publish(@, task[t].done)]
  /\ task' = [task EXCEPT ![t].pc = Again(t), ![t].done = << >>]
  /\ UNCHANGED <<backend, shared, traces>>

-----------------------------------------------------------------------------
\* The rest of emit!

HeldAfter(ev) ==
  IF ev.type \notin {"key", "button"} THEN held
  ELSE IF ev.down THEN held \cup {ev.key} ELSE held \ {ev.key}

\* Ctrl-\, Ctrl-Alt-Esc and Ctrl-C.  Whether one is taken is up to the
\* handler and the programs: keyboard-interrupt, ctrl-c-interrupts?.
interrupt_key(ev) ==
  /\ ev.type = "key" /\ ev.down
  /\ \/ ev.key \in {"backslash", "c"} /\ ev.mods = {"ctrl"}
     \/ ev.key = "escape" /\ {"ctrl", "alt"} \subseteq ev.mods

\* Mutant: the task waits for room.
offer_waits(taken) ==
  IF taken THEN waiting' = waiting ELSE waiting < queue_max /\ waiting' = waiting + 1

\* offer! never waits: what does not fit is dropped.
offer(taken) == waiting' = IF taken \/ waiting = queue_max THEN waiting ELSE waiting + 1

emit(t) ==
  LET ev == Head(task[t].out) IN
  /\ At(t, "offer")
  /\ held' = HeldAfter(ev)
  /\ \E taken \in IF interrupt_key(ev) THEN BOOLEAN ELSE {FALSE} : offer(taken)
  /\ task' = [task EXCEPT ![t].out = Tail(@),
                          ![t].pc = IF Tail(task[t].out) = << >> THEN "take" ELSE "offer"]
  /\ emitted' = [emitted EXCEPT ![t] = Append(@, ev)]
  /\ Finished(t, Tail(task[t].out))
  /\ UNCHANGED <<backend, q, sent>>

\* A program reads: poll-event, wait-event, and clear! again and again
poll_event ==
  /\ waiting > 0 /\ waiting' = waiting - 1
  /\ UNCHANGED <<backend, q, task, held, traces>>

Poll(t) ==
  run_loop(t) \/ TakeUsed(t) \/ OnEvent(t) \/ Repost(t) \/ emit(t)

InputNext ==
  \/ attach \/ stop \/ init \/ init_failed
  \/ \E d \in Dev : \E e \in Raw[d] : DeviceEvent(d, e)
  \/ \E t \in Task : Poll(t)
  \/ poll_event

InputSpec == InputInit /\ [][InputNext]_inputVars

\* The scheduler serves every task that can run.  Nothing is asked of the
\* readers.
FairSpec == InputSpec /\ \A t \in Task : WF_inputVars(Poll(t))

-----------------------------------------------------------------------------
\* Buffers in the hands of a task
InHand(t) == task[t].done \o (IF At(t, "entry") THEN <<TakenId(q[t])>> ELSE << >>)

\* From the moment a queue is posted, whatever happens to its generation, each
\* of its buffers is in exactly one place: offered, used or with the task.
\* None is lost to the device, none given to it twice, across the wrap of the
\* indices.
BuffersKept ==
  \A t \in Task :
    LET all == Offered(q[t]) \o Untaken(q[t]) \o InHand(t)
    IN  q[t].avail # 0 \/ sent[t] # << >> => Len(all) = qsize /\ Range(all) = Desc

\* What events s of device d amount to when they arrive, event by event: keys,
\* buttons and the wheel at once; at the end of a report its motions summed,
\* if they are not zero, and the last position, if the report has one.
Since(s, i) == {j \in 1 .. i - 1 : \A k \in j .. i - 1 : s[k].type # "syn"}
Sum(s, J, c) ==
  MapThenSumSet(LAMBDA j : signed32(s[j].value),
                {j \in J : s[j].type = "rel" /\ s[j].code = c})
Latest(s, i, c) ==
  LET J == {j \in 1 .. i - 1 : s[j].type = "abs" /\ s[j].code = c}
  IN  IF J = {} THEN 0 ELSE s[Max(J)].value
Meant(d, s, i) ==
  LET dx == Sum(s, Since(s, i), rel_x)
      dy == Sum(s, Since(s, i), rel_y)
  IN  IF s[i].type # "syn" THEN on_event(d, Still, s[i])
      ELSE on_sync(d, [dx |-> dx, dy |-> dy, x |-> Latest(s, i, abs_x), y |-> Latest(s, i, abs_y),
                       abs |-> \E j \in Since(s, i) : s[j].type = "abs"])
Unmodified(ev) == IF ev.type = "key" THEN [ev EXCEPT !.mods = {}] ELSE ev

\* Every task emits what its device sent: all of it, nothing twice, in order,
\* read from a buffer before the device may write to it again; and motions
\* add up report by report.
EmittedAsSent ==
  \A t \in Task : At(t, "loop") \/ At(t, "take") \/ At(t, "gone") =>
    [i \in DOMAIN emitted[t] |-> Unmodified(emitted[t][i])]
      = FlattenSeq([i \in 1 .. handled[t] |-> Meant(t[1], sent[t], i)])

Down(evs, k) ==
  \E i \in DOMAIN evs :
    /\ evs[i].type \in {"key", "button"} /\ evs[i].key = k /\ evs[i].down
    /\ \A j \in i + 1 .. Len(evs) : evs[j].type \in {"key", "button"} => evs[j].key # k

\* A key is held if its last event was down, even if a full queue or an
\* interrupt handler swallowed it, and each key event carries the modifiers
\* that were down when the key moved, whenever it is read.  (If two
\* generations had events, the tasks of the older one may come late.)
HeldAsTyped ==
  (\E g \in 1 .. MaxGen : \A t \in Task : t[2] # g => sent[t] = << >>) =>
    /\ \A d \in Dev : \A c \in Codes(d) :
         Named(c) \in held <=> \E g \in 1 .. MaxGen : Down(emitted[<<d, g>>], Named(c))
    /\ \A t \in Task : \A i \in DOMAIN emitted[t] : emitted[t][i].type = "key" =>
         emitted[t][i].mods =
           {modifier_keys[k] : k \in {m \in DOMAIN modifier_keys :
              Down(SubSeq(emitted[t], 1, i - 1), m)}}

\* No reader can hold a backend up: while its generation is the current one, a
\* task comes to the end of what its device has sent, again and again.
EventuallyEmitted ==
  \A t \in Task :
    []<>(At(t, "none") \/ generation # t[2] \/ handled[t] = Len(sent[t]))
=============================================================================
