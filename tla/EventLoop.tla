------------------------------ MODULE EventLoop ------------------------------
(***************************************************************************)
(* The main loop of the firmware (src/src/main.c, main_body and            *)
(* hw_wait_for_event).  Interrupt handlers only trigger tm_events; the     *)
(* main loop sleeps until one is pending and then runs its callback.       *)
(*                                                                         *)
(* tm_event itself lives in the runtime submodule.  It is modelled from    *)
(* how the firmware uses it: a FIFO of triggered events, a trigger that is *)
(* atomic and idempotent (src/src/tm/tm_uptime.c:60), a processing step    *)
(* that pops one event and runs its callback.                              *)
(***************************************************************************)
EXTENDS Naturals, Sequences

CONSTANTS
  Events,    (* the tm_event objects of the firmware                       *)
  Irqs,      (* the interrupt lines                                        *)
  EventOf,   (* the event the handler of a line triggers, or NoEvent       *)
  NoEvent    (* a line such as SysTick, whose handler triggers nothing     *)

ASSUME EventAssumption ==
  /\ NoEvent \notin Events
  /\ EventOf \in [Irqs -> Events \union {NoEvent}]

VARIABLES
  pc,        (* where the main thread is                                   *)
  primask,   (* TRUE between __disable_irq and __enable_irq                *)
  irq,       (* the lines the hardware asserts and no handler has served   *)
  queue,     (* the triggered events, oldest first                         *)
  running    (* the event whose callback runs, NoEvent outside callbacks   *)

loopVars == <<pc, primask, irq, queue, running>>

PC == {"disable", "test", "wfi", "sleep", "enable", "process", "callback"}

Queued(e) == \E i \in 1..Len(queue) : queue[i] = e

(* Mutated forms of what follows, each a plausible slip: a handler that     *)
(* triggers no event all the same, a check that is not masked, a mask that *)
(* is not lifted.                                                          *)
TriggerNothing(e) == queue' = IF Queued(e) THEN queue ELSE Append(queue, e)

DisableIrqUnmasked ==
  pc = "disable" /\ pc' = "test" /\ UNCHANGED <<primask, irq, queue, running>>

EnableIrqStaysMasked ==
  pc = "enable" /\ pc' = "process" /\ UNCHANGED <<primask, irq, queue, running>>

(* tm_event_trigger: a second trigger before the callback runs is dropped. *)
Trigger(e) ==
  queue' = IF e = NoEvent \/ Queued(e) THEN queue ELSE Append(queue, e)

LoopInit ==
  /\ pc = "disable"
  /\ primask = FALSE
  /\ irq = {}
  /\ queue = <<>>
  /\ running = NoEvent

-----------------------------------------------------------------------------
(* The hardware and the interrupt handlers.                                *)

Raise(i) ==
  /\ irq' = irq \union {i}
  /\ UNCHANGED <<pc, primask, queue, running>>

(* A handler runs between any two steps of the main thread.  If the        *)
(* processor slept with interrupts enabled, the handler returns behind     *)
(* the WFI.                                                                *)
Isr(i) ==
  /\ ~primask
  /\ i \in irq
  /\ irq' = irq \ {i}
  /\ Trigger(EventOf[i])
  /\ pc' = IF pc = "sleep" THEN "enable" ELSE pc
  /\ UNCHANGED <<primask, running>>

-----------------------------------------------------------------------------
(* hw_wait_for_event, one step per instruction that matters.               *)

DisableIrq ==
  /\ pc = "disable"
  /\ primask' = TRUE
  /\ pc' = "test"
  /\ UNCHANGED <<irq, queue, running>>

TestPending ==
  /\ pc = "test"
  /\ pc' = IF queue = <<>> THEN "wfi" ELSE "enable"
  /\ UNCHANGED <<primask, irq, queue, running>>

(* WFI falls through when a request is already asserted, masked or not.    *)
Wfi ==
  /\ pc = "wfi"
  /\ pc' = IF irq = {} THEN "sleep" ELSE "enable"
  /\ UNCHANGED <<primask, irq, queue, running>>

Wake ==
  /\ pc = "sleep"
  /\ irq # {}
  /\ pc' = "enable"
  /\ UNCHANGED <<primask, irq, queue, running>>

EnableIrq ==
  /\ pc = "enable"
  /\ primask' = FALSE
  /\ pc' = "process"
  /\ UNCHANGED <<irq, queue, running>>

(* tm_event_process: pop one event, or none when the wakeup was a tick.    *)
Process ==
  /\ pc = "process"
  /\ IF queue = <<>>
     THEN /\ pc' = "disable"
          /\ UNCHANGED <<queue, running>>
     ELSE /\ pc' = "callback"
          /\ running' = Head(queue)
          /\ queue' = Tail(queue)
  /\ UNCHANGED <<primask, irq>>

(* The callback returns; it may have triggered an event itself.            *)
Callback(e) ==
  /\ pc = "callback"
  /\ Trigger(e)
  /\ running' = NoEvent
  /\ pc' = "disable"
  /\ UNCHANGED <<primask, irq>>

Main ==
  \/ DisableIrq \/ TestPending \/ Wfi \/ Wake \/ EnableIrq \/ Process
  \/ \E e \in Events \union {NoEvent} : Callback(e)

LoopNext ==
  \/ Main
  \/ \E i \in Irqs : Raise(i) \/ Isr(i)

(* The main thread runs whenever it can, and an asserted line is served    *)
(* once interrupts have been enabled often enough: the loop enables them   *)
(* on every turn, and the NVIC takes a pending request at once.            *)
LoopFairness ==
  /\ WF_loopVars(Main)
  /\ \A i \in Irqs : SF_loopVars(Isr(i))

LoopSpec == LoopInit /\ [][LoopNext]_loopVars /\ LoopFairness

-----------------------------------------------------------------------------
LoopTypeOK ==
  /\ pc \in PC
  /\ primask \in BOOLEAN
  /\ irq \subseteq Irqs
  /\ queue \in Seq(Events)
  /\ running \in Events \union {NoEvent}

(* The processor never sleeps on work: while it is asleep no event is      *)
(* pending, although handlers may run at any point before the sleep.       *)
(* main.c:437 disables interrupts around the check for this reason.        *)
NoSleepOnPending == pc = "sleep" => queue = <<>>

(* Why that holds, as an inductive invariant: from the check to the wakeup *)
(* interrupts are masked, so that an empty queue stays empty.              *)
SleepInv ==
  /\ pc \in {"test", "wfi", "sleep", "enable"} <=> primask
  /\ pc \in {"wfi", "sleep"} => queue = <<>>

(* Every interrupt eventually runs the callback of its event: neither the  *)
(* sleep nor the other events can starve it.                               *)
IrqServed ==
  \A i \in Irqs :
    EventOf[i] # NoEvent => (i \in irq ~> running = EventOf[i])

=============================================================================
