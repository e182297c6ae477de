--------------------------------- MODULE Irq ---------------------------------
(***************************************************************************)
(* Device interrupts: kernel/mem_natives.c (mem_trap_handler, irq-enable!, *)
(* irq-wait!), lib/mem.beer (irq-listen!, irq-loop!) and the C stack that  *)
(* irq-wait! builds by running scheduler ticks while it waits.             *)
(*                                                                         *)
(* The trap handler runs to completion between any two instructions, so it *)
(* is one step; irq-wait!'s "irq_pending &= ~(1 << n)" is a load and a     *)
(* store and is two.  Tasks switch only when a frame on top of the C stack *)
(* runs a scheduler tick: a frame below returns only after those above.    *)
(***************************************************************************)
EXTENDS Naturals, Sequences

CONSTANTS Sources,     \* interrupt numbers the PLIC can deliver
          MaxIrqs,     \* MAX_IRQS: the bits of irq_pending
          Listener,    \* tasks that run (irq-loop! n)
          IrqOf        \* the n of each of them

ASSUME IrqAssumption ==
  /\ Sources \subseteq Nat \ {0}
  /\ MaxIrqs \in Nat
  /\ IrqOf \in [Listener -> {n \in Sources : n < MaxIrqs}]

VARIABLES raised,        \* PLIC: raised and not yet claimed
          in_service,    \* PLIC: claimed and not yet completed
          enabled,       \* PLIC: enabled for this hart
          irq_pending,   \* the set bits of irq_pending
          irq_handlers,  \* the interrupts that have a handler
          stack,         \* C frames that run scheduler ticks, the last on top
          listener,      \* where each listener task is
          form           \* the form task the REPL runs

\* History: interrupts fired since last waited for, those that fired with a
\* handler registered and are still to be handled, and those whose bit a wait for
\* another interrupt erased and that have not fired again.
VARIABLES fired, owed, erased

plic  == <<raised, in_service, enabled>>
tasks == <<stack, listener, form>>
irqVars == <<plic, irq_pending, irq_handlers, tasks, fired, owed, erased>>

\* A frame is run_repl in scheduler_run_task_to_completion, or a listener's
\* irq-wait!: polling the bit, about to load irq_pending, or about to store.
RunFrame == [kind |-> "run"]
WaitFrame(l, at, loaded) ==
  [kind |-> "wait", task |-> l, at |-> at, loaded |-> loaded]

Top == stack[Len(stack)]
SetTop(f) == [stack EXCEPT ![Len(stack)] = f]
Pop == SubSeq(stack, 1, Len(stack) - 1)

IrqInit ==
  /\ raised = {} /\ in_service = {} /\ enabled = {}
  /\ irq_pending = {} /\ irq_handlers = {}
  /\ stack = <<>>
  /\ listener = [l \in Listener |-> "unborn"]
  /\ form = "none"
  /\ fired = {} /\ owed = {} /\ erased = {}

-----------------------------------------------------------------------------
\* Devices and the trap handler

\* A device raises an enabled interrupt; the PLIC gate holds it back while
\* the previous one is claimed and not completed.
Raise(n) ==
  /\ n \in enabled \ (raised \cup in_service)
  /\ raised' = raised \cup {n}
  /\ UNCHANGED <<in_service, enabled, irq_pending, irq_handlers, tasks, fired, owed, erased>>

\* Claim; set the bit and complete if it has a bit, else neither.
mem_trap_handler ==
  \E n \in raised :
    /\ raised' = raised \ {n}
    /\ IF n < MaxIrqs
         THEN /\ irq_pending' = irq_pending \cup {n}
              /\ fired' = fired \cup {n}
              /\ owed' = owed \cup ({n} \cap irq_handlers)
              /\ erased' = erased \ {n}
              /\ UNCHANGED in_service
         ELSE /\ in_service' = in_service \cup {n}
              /\ UNCHANGED <<irq_pending, fired, owed, erased>>
    /\ UNCHANGED <<enabled, irq_handlers, tasks>>

-----------------------------------------------------------------------------
\* The frame on top of the C stack

WaitingAt(at) == stack # <<>> /\ Top.kind = "wait" /\ Top.at = at

\* while (!(irq_pending & (1ULL << n))) found the bit set.
PollSet ==
  /\ WaitingAt("poll") /\ IrqOf[Top.task] \in irq_pending
  /\ stack' = SetTop(WaitFrame(Top.task, "load", {}))
  /\ UNCHANGED <<plic, irq_pending, irq_handlers, listener, form, fired, owed, erased>>

\* Mutant: the bit is not cleared.
LoadUnmasked ==
  /\ WaitingAt("load")
  /\ stack' = SetTop(WaitFrame(Top.task, "store", irq_pending))
  /\ UNCHANGED <<plic, irq_pending, irq_handlers, listener, form, fired, owed, erased>>

\* irq_pending &= ~(1ULL << n), the load ...
LoadPending ==
  /\ WaitingAt("load")
  /\ stack' = SetTop(WaitFrame(Top.task, "store",
                               irq_pending \ {IrqOf[Top.task]}))
  /\ UNCHANGED <<plic, irq_pending, irq_handlers, listener, form, fired, owed, erased>>

\* ... and the store, after which irq-wait! returns.  It erases what the trap
\* handler set since the load.
StorePending ==
  /\ WaitingAt("store")
  /\ irq_pending' = Top.loaded
  /\ erased' = erased \cup (irq_pending \ (Top.loaded \cup {IrqOf[Top.task]}))
  /\ fired' = fired \ {IrqOf[Top.task]}
  /\ listener' = [listener EXCEPT ![Top.task] = "dispatch"]
  /\ stack' = Pop
  /\ UNCHANGED <<plic, irq_handlers, form, owed>>

\* scheduler_run_task_to_completion returns when its task is done.
FormReturns ==
  /\ stack # <<>> /\ Top.kind = "run" /\ form = "done"
  /\ stack' = Pop
  /\ form' = "none"
  /\ UNCHANGED <<plic, irq_pending, irq_handlers, listener, fired, owed, erased>>

\* run_repl has read a form and runs it.
RunForm ==
  /\ stack = <<>>
  /\ stack' = <<RunFrame>>
  /\ form' = "running"
  /\ UNCHANGED <<plic, irq_pending, irq_handlers, listener, fired, owed, erased>>

\* The code on top of the stack calls scheduler_run_one_tick: irq-wait! with
\* its bit clear, the REPL with its form not done, or uart_readline (no frame)
\* with no byte to read.
Ticks ==
  \/ stack = <<>>
  \/ stack # <<>> /\ Top.kind = "run" /\ form # "done"
  \/ WaitingAt("poll") /\ IrqOf[Top.task] \notin irq_pending

-----------------------------------------------------------------------------
\* One quantum of a task

\* The form calls (irq-register! n f), refused beyond the table, or
\* (irq-enable! n prio), spawns a listener, or ends.
native_mem_irq_register ==
  /\ Ticks /\ form = "running"
  /\ \E n \in Sources :
       irq_handlers' = irq_handlers \cup {m \in {n} : m < MaxIrqs}
  /\ UNCHANGED <<plic, irq_pending, tasks, fired, owed, erased>>

native_mem_irq_enable ==
  /\ Ticks /\ form = "running"
  /\ \E n \in Sources : enabled' = enabled \cup {n}
  /\ UNCHANGED <<raised, in_service, irq_pending, irq_handlers, tasks, fired, owed, erased>>

Spawn ==
  /\ Ticks /\ form = "running"
  /\ \E l \in Listener :
       /\ listener[l] = "unborn"
       /\ listener' = [listener EXCEPT ![l] = "call"]
  /\ UNCHANGED <<plic, irq_pending, irq_handlers, stack, form, fired, owed, erased>>

FormEnds ==
  /\ Ticks /\ form = "running"
  /\ form' = "done"
  /\ UNCHANGED <<plic, irq_pending, irq_handlers, stack, listener, fired, owed, erased>>

\* Mutant: irq-wait! clears the bit before it waits.
CallWaitClearing(l) ==
  /\ Ticks /\ listener[l] = "call"
  /\ listener' = [listener EXCEPT ![l] = "waiting"]
  /\ stack' = Append(stack, WaitFrame(l, "poll", {}))
  /\ irq_pending' = irq_pending \ {IrqOf[l]}
  /\ UNCHANGED <<plic, irq_handlers, form, fired, owed, erased>>

\* irq-loop! calls irq-wait!: a new frame on the C stack.
CallWait(l) ==
  /\ Ticks /\ listener[l] = "call"
  /\ listener' = [listener EXCEPT ![l] = "waiting"]
  /\ stack' = Append(stack, WaitFrame(l, "poll", {}))
  /\ UNCHANGED <<plic, irq_pending, irq_handlers, form, fired, owed, erased>>

\* irq-listen! calls the handler, if there is one, and irq-loop! recurs.
Dispatch(l) ==
  /\ Ticks /\ listener[l] = "dispatch"
  /\ listener' = [listener EXCEPT ![l] = "call"]
  /\ owed' = owed \ ({IrqOf[l]} \cap irq_handlers)
  /\ UNCHANGED <<plic, irq_pending, irq_handlers, stack, form, fired, erased>>

Quantum(l) == CallWait(l) \/ Dispatch(l)

IrqNext ==
  \/ \E n \in Sources : Raise(n)
  \/ mem_trap_handler
  \/ PollSet \/ LoadPending \/ StorePending
  \/ FormReturns \/ RunForm
  \/ native_mem_irq_register \/ native_mem_irq_enable \/ Spawn \/ FormEnds
  \/ \E l \in Listener : Quantum(l)

\* The hart runs whatever is on top of the stack, and traps are taken.  The
\* scheduler's run queue gives every ready task its turn when ticks keep
\* coming, also if they come and go with the frames that run them: strong
\* fairness.  Neither devices nor the user owe the system anything.
Fairness ==
  /\ WF_irqVars(mem_trap_handler)
  /\ WF_irqVars(PollSet) /\ WF_irqVars(LoadPending) /\ WF_irqVars(StorePending)
  /\ WF_irqVars(FormReturns)
  /\ \A l \in Listener : SF_irqVars(Quantum(l))

IrqSpec == IrqInit /\ [][IrqNext]_irqVars
FairSpec == IrqSpec /\ Fairness

-----------------------------------------------------------------------------
Storing == WaitingAt("store")

\* irq-wait! returns only for an interrupt that fired: neither the nesting of
\* waits nor the two halves of irq_pending &= bring back a bit that an
\* earlier wait consumed, and an interrupt beyond the 64 bits sets none.
NoSpuriousWake ==
  /\ irq_pending \subseteq fired \cap 0 .. MaxIrqs - 1
  /\ Storing => Top.loaded \subseteq fired

\* "beer task polls irq_pending -> handler runs in task context" (plic.h:10):
\* an interrupt that fires with a handler registered is handled once a task
\* listens for it, also when several tasks wait for it with their frames nested
\* among those of other waits.  The code does not promise more than that: a wait
\* for another interrupt that never comes keeps the frames below it on the stack
\* for ever, and a bit erased between the load and the store is gone until the
\* interrupt fires again.
Returns(l) == [](listener[l] = "waiting" => <>(listener[l] # "waiting"))
Listened(n) == \E l \in Listener : IrqOf[l] = n /\ listener[l] # "unborn"
FiredIsDispatched ==
  \A n \in Sources :
    /\ <>[](n \notin erased)
    /\ \A l \in Listener : IrqOf[l] # n => Returns(l)
    => ((n \in owed /\ Listened(n)) ~> n \notin owed)

\* plic.h:10 says it without these two conditions.
AlwaysDispatched == \A n \in Sources : (n \in owed /\ Listened(n)) ~> n \notin owed

\* "Has interrupt n fired since it was last waited for?" (mem_natives.c:286).
\* irq-wait! for another interrupt can erase the answer.
FiredIsPending == ~Storing => fired \subseteq irq_pending

\* "Use inside a (spawn ...) if you want the REPL to remain responsive while
\* waiting" (mem_natives.c:247): a form that is done gives the REPL its
\* prompt back.
ReplResponsive == (form = "done") ~> (stack = <<>>)
=============================================================================
