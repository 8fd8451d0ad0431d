---------------------------- MODULE GpioInterrupt ----------------------------
(***************************************************************************)
(* GPIO interrupts: the seven slots of the firmware                        *)
(* (src/src/hw/hw_interrupt.c, hw_digital.c), the pin interrupt hardware   *)
(* below and the listeners of the JS library above (builtin/tessel.js:     *)
(* 77-318).  A mode is the set of its flags; -1, the mode of a free slot,  *)
(* has all of them.                                                        *)
(***************************************************************************)
EXTENDS Integers

CONSTANTS
  Pins,
  NumSlots,      (* NUM_INTERRUPTS, 7 in the code                          *)
  Modes,         (* what scripts listen for: "rise", "fall", "change",     *)
                 (* "high", "low"                                          *)
  NULL

ASSUME GpioAssumption ==
  /\ NumSlots \in Nat \ {0}
  /\ Modes \subseteq {"rise", "fall", "change", "high", "low"}

Slots == 0..(NumSlots - 1)

VARIABLES
  slots,      (* interrupts[]: pin and mode                                *)
  hw,         (* per slot: the pin selected, level or edge, IENR, IENF,    *)
              (* the edges detected, enabled in the NVIC                   *)
  high,       (* the level of each pin                                     *)
  pending,    (* slots whose event is pending                              *)
  state,      (* interrupts[].state: what the last interrupt saw           *)
  pins,       (* pin.interrupts: per type NULL or mode and slot id         *)
  board,      (* board.interrupts: the pin that last took each slot        *)
  listeners,  (* of each pin and mode; at most one, with on() or once()    *)
  emitting    (* the pin and trigger still to be emitted after 'change',   *)
              (* and whether a listener of 'change' was called             *)

gpioVars == <<slots, hw, high, pending, state, pins, board, listeners, emitting>>

Type(e) == IF e \in {"high", "low"} THEN "level" ELSE "edge"
Flags(e) == IF e = "change" THEN {"rise", "fall"} ELSE {e}

NoAssignment == [pin |-> NULL, mode |-> {"rise", "fall", "high", "low", "rest"}]
NoListener == [e \in Modes |-> "none"]

GpioInit ==
  /\ slots = [i \in Slots |-> NoAssignment]
  /\ hw = [i \in Slots |-> [pin |-> NULL, sel |-> "edge", ienr |-> FALSE, ienf |-> FALSE,
                            rise |-> FALSE, fall |-> FALSE, nvic |-> FALSE]]
  /\ high \in [Pins -> BOOLEAN]
  /\ pending = {} /\ state = [i \in Slots |-> NULL]
  /\ pins = [p \in Pins |-> [edge |-> NULL, level |-> NULL]]
  /\ board = [i \in Slots |-> NULL]
  /\ listeners = [p \in Pins |-> NoListener]
  /\ emitting = NULL

-----------------------------------------------------------------------------
(* What the calls of the main thread do to a slot [s, h]: its entry of     *)
(* interrupts[] and its hardware.                                          *)

(* hw_interrupt_enable.  IENF is the falling edge or the active level.     *)
Enable(h, p, b) ==
  [pin |-> p, sel |-> Type(b), ienr |-> h.ienr \/ b # "fall",
   ienf |-> b \in {"fall", "high"} \/ (b = "rise" /\ h.ienf),
   rise |-> FALSE, fall |-> FALSE, nvic |-> TRUE]

(* hw_interrupt_disable: writing zeros to SIENF and CIENF changes nothing. *)
(* The mutated form forgets the falling edge.                              *)
DisableKeepsFall(h, mode) ==
  [h EXCEPT !.ienr = @ /\ mode \cap {"rise", "high", "low"} = {}]
Disable(h, mode) ==
  [h EXCEPT !.ienr = @ /\ mode \cap {"rise", "high", "low"} = {},
            !.ienf = @ /\ "fall" \notin mode]

(* hw_interrupt_watch, with the modes enabled in this order.               *)
Watch(slot, p, mode) ==
  LET on(h, b) == IF b \in mode THEN Enable(h, p, b) ELSE h
  IN [s |-> [pin |-> p, mode |-> mode],
      h |-> on(on(on(on(slot.h, "rise"), "fall"), "high"), "low")]

(* hw_interrupt_unwatch.                                                   *)
Unwatch(slot, mode) ==
  LET h == Disable(slot.h, mode)
      left == slot.s.mode \ mode
  IN IF left = {} THEN [s |-> NoAssignment, h |-> [h EXCEPT !.nvic = FALSE]]
                  ELSE [s |-> [slot.s EXCEPT !.mode = left], h |-> h]

(* What the library and the firmware share.                                *)
World == [slot |-> [i \in Slots |-> [s |-> slots[i], h |-> hw[i]]],
          pins |-> pins, board |-> board, listeners |-> listeners]

Become(w) ==
  /\ slots' = [i \in Slots |-> w.slot[i].s]
  /\ hw' = [i \in Slots |-> w.slot[i].h]
  /\ pins' = w.pins /\ board' = w.board /\ listeners' = w.listeners

(* _removeInterruptMode: the library keeps the rising and falling edges    *)
(* that still have listeners, the firmware is told to drop all of mode e.  *)
Removal(w, p, e) ==
  IF w.pins[p][Type(e)].mode # Flags("change") THEN Flags(e)
  ELSE Flags(e) \ {b \in {"rise", "fall"} \cap Modes : w.listeners[p][b] # "none"}

Without(r, flags) ==
  IF r.mode \subseteq flags THEN NULL ELSE [r EXCEPT !.mode = @ \ flags]

(* The mutated form drops nothing in the firmware.                         *)
RemoveModeInJsOnly(w, p, e) ==
  IF w.pins[p][Type(e)] = NULL THEN w
  ELSE [w EXCEPT !.pins[p][Type(e)] = Without(@, Removal(w, p, e))]

Drop(w, p, e) ==
  LET r == w.pins[p][Type(e)]
  IN [w EXCEPT !.pins[p][Type(e)] = Without(r, Removal(w, p, e)),
               !.slot[r.id] = Unwatch(@, Flags(e))]
RemoveMode(w, p, e) == IF w.pins[p][Type(e)] = NULL THEN w ELSE Drop(w, p, e)

Unlisten(w, p, e) == [w EXCEPT !.listeners[p][e] = "none"]

(* pin.emit(e): a once() listener is removed before it is called.  The     *)
(* mutated form takes it out of the list of the event emitter only.        *)
EmittedKeepsWatch(w, p, e) ==
  IF e \in Modes /\ w.listeners[p][e] = "once" THEN Unlisten(w, p, e) ELSE w
Emitted(w, p, e) ==
  IF e \in Modes /\ w.listeners[p][e] = "once" THEN RemoveMode(Unlisten(w, p, e), p, e) ELSE w

-----------------------------------------------------------------------------
(* The pins and the interrupt handlers, which preempt the main thread.     *)

Asserted(i) ==
  /\ hw[i].nvic
  /\ IF hw[i].sel = "edge" THEN (hw[i].rise /\ hw[i].ienr) \/ (hw[i].fall /\ hw[i].ienf)
                           ELSE hw[i].ienr /\ high[hw[i].pin] = hw[i].ienf

Preempted == \E i \in Slots : Asserted(i)

(* Edges are detected whether they are enabled or not.                     *)
Toggle(p) ==
  /\ high' = [high EXCEPT ![p] = ~@]
  /\ hw' = [i \in Slots |->
              IF hw[i].pin # p \/ hw[i].sel # "edge" THEN hw[i]
              ELSE IF high[p] THEN [hw[i] EXCEPT !.fall = TRUE]
                              ELSE [hw[i] EXCEPT !.rise = TRUE]]
  /\ UNCHANGED <<slots, pending, state, pins, board, listeners, emitting>>

Detected(i) == {b \in slots[i].mode : (b = "rise" /\ hw[i].rise) \/ (b = "fall" /\ hw[i].fall)}
OnEdges(i) == slots[i].mode \cap {"rise", "fall"} # {}

(* place_awaiting_interrupt.  A level disables itself; an edge that is not *)
(* expected returns with the interrupt still asserted.                     *)
PlaceAwaitingInterrupt(i) ==
  /\ Asserted(i)
  /\ \/ /\ OnEdges(i) /\ Detected(i) # {}
        /\ state' = [state EXCEPT ![i] = IF "rise" \in Detected(i) THEN "rise" ELSE "fall"]
        /\ hw' = [hw EXCEPT ![i].rise = FALSE, ![i].fall = FALSE]
     \/ /\ ~OnEdges(i)
        /\ state' = [state EXCEPT ![i] = IF hw[i].ienf THEN "high" ELSE "low"]
        /\ hw' = [hw EXCEPT ![i] = Disable([@ EXCEPT !.ienr = FALSE], slots[i].mode)]
  /\ pending' = pending \union {i}
  /\ UNCHANGED <<slots, high, pins, board, listeners, emitting>>

-----------------------------------------------------------------------------
(* The main thread: interrupt_callback and the listener of 'interrupt',    *)
(* which emits 'change' and then the trigger on the pin of the slot, if it *)
(* watches that type by now.                                               *)
InterruptFired(i) ==
  LET p == board[i]
      watched == p # NULL /\ pins[p][Type(state[i])] # NULL
  IN /\ ~Preempted /\ emitting = NULL
     /\ i \in pending
     /\ pending' = pending \ {i}
     /\ IF watched
        THEN /\ Become(Emitted(World, p, "change"))
             /\ emitting' = [pin |-> p, trigger |-> state[i],
                             callback |-> "change" \in Modes /\ listeners[p]["change"] # "none"]
        ELSE UNCHANGED <<slots, hw, pins, board, listeners, emitting>>
     /\ UNCHANGED <<high, state>>

EmitTrigger ==
  /\ ~Preempted /\ emitting # NULL
  /\ Become(Emitted(World, emitting.pin, emitting.trigger))
  /\ emitting' = NULL
  /\ UNCHANGED <<high, pending, state>>

(* A script runs at the top level or in a listener.                        *)
ScriptRuns == ~Preempted /\ (IF emitting = NULL THEN TRUE ELSE emitting.callback)

Free == {i \in Slots : slots[i].pin = NULL}
Lowest(S) == CHOOSE i \in S : \A j \in S : i <= j

(* on() and once() with _registerPinInterrupt; level modes allow once()    *)
(* only.  Without a free slot the listener is added all the same if the    *)
(* pin has an 'error' listener; otherwise on() throws.                     *)
Listen(p, e, how) ==
  LET added == [World EXCEPT !.listeners[p][e] = how]
      r == pins[p][Type(e)]
      mode == r.mode \union Flags(e)
      i == Lowest(Free)
  IN /\ ScriptRuns
     /\ listeners[p][e] = "none"
     /\ how = "on" => Type(e) = "edge"
     /\ \/ /\ r # NULL /\ r.mode = Flags(e)
           /\ Become(added)
        \/ /\ r # NULL /\ r.mode # Flags(e)
           /\ Become([added EXCEPT !.pins[p][Type(e)].mode = mode,
                                   !.slot[r.id] = Watch(@, p, mode)])
        \/ /\ r = NULL /\ Free # {}
           /\ Become([added EXCEPT !.pins[p][Type(e)] = [mode |-> Flags(e), id |-> i],
                                   !.board[i] = p,
                                   !.slot[i] = Watch(@, p, Flags(e))])
        \/ /\ r = NULL /\ Free = {}
           /\ Become(added)
     /\ UNCHANGED <<high, pending, state, emitting>>

(* removeListener of the listener, removeAllListeners(e).                  *)
RemoveListener(p, e) ==
  /\ ScriptRuns
  /\ Become(RemoveMode(Unlisten(World, p, e), p, e))
  /\ UNCHANGED <<high, pending, state, emitting>>

(* removeAllListeners(): every mode there is, listened for or not.         *)
RemoveAllListeners(p) ==
  /\ ScriptRuns
  /\ LET off(w, e) == RemoveMode(w, p, e)
         silent == [World EXCEPT !.listeners[p] = NoListener]
     IN Become(off(off(off(off(off(silent, "rise"), "fall"), "change"), "high"), "low"))
  /\ UNCHANGED <<high, pending, state, emitting>>

(* A script ends and another starts: initialize_GPIO_interrupts twice, and *)
(* a new runtime.  Events processed in between are dropped.                *)
Restart ==
  /\ ~Preempted /\ emitting = NULL
  /\ LET unwatched == [i \in Slots |->
           Unwatch(Unwatch([s |-> slots[i], h |-> hw[i]], slots[i].mode), NoAssignment.mode)]
     IN Become([slot |-> unwatched,
                pins |-> [p \in Pins |-> [edge |-> NULL, level |-> NULL]],
                board |-> [i \in Slots |-> NULL],
                listeners |-> [p \in Pins |-> NoListener]])
  /\ pending' \in SUBSET pending
  /\ UNCHANGED <<high, state, emitting>>

GpioNext ==
  \/ \E p \in Pins :
       \/ Toggle(p) \/ RemoveAllListeners(p)
       \/ \E e \in Modes : RemoveListener(p, e) \/ \E how \in {"on", "once"} : Listen(p, e, how)
  \/ \E i \in Slots : PlaceAwaitingInterrupt(i) \/ InterruptFired(i)
  \/ EmitTrigger \/ Restart

(* Interrupts are taken; the event loop runs whenever they let it.         *)
GpioSpec ==
  /\ GpioInit /\ [][GpioNext]_gpioVars
  /\ \A i \in Slots : WF_gpioVars(PlaceAwaitingInterrupt(i)) /\ SF_gpioVars(InterruptFired(i))
  /\ SF_gpioVars(EmitTrigger)

-----------------------------------------------------------------------------
Record == [mode : (SUBSET {"rise", "fall", "high", "low"}) \ {{}}, id : Slots]
Triggers == {"rise", "fall", "high", "low", NULL}
Emission == [pin : Pins, trigger : Triggers, callback : BOOLEAN]

ASSUME GpioNullAssumption ==
  NULL \notin Pins \union {"high"} /\ NULL \notin Record /\ NULL \notin Emission

Hardware == [pin : Pins \union {NULL}, sel : {"edge", "level"}, ienr : BOOLEAN, ienf : BOOLEAN,
             rise : BOOLEAN, fall : BOOLEAN, nvic : BOOLEAN]
Assignment == [pin : Pins \union {NULL}, mode : SUBSET NoAssignment.mode]
Records == [edge : Record \union {NULL}, level : Record \union {NULL}]

(* A slot is free exactly if its mode is -1, and the records of a pin name *)
(* a slot and at least one mode.                                           *)
GpioTypeOK ==
  /\ slots \in [Slots -> Assignment] /\ hw \in [Slots -> Hardware]
  /\ \A i \in Slots : slots[i].pin = NULL <=> slots[i].mode = NoAssignment.mode
  /\ high \in [Pins -> BOOLEAN]
  /\ pending \subseteq Slots /\ state \in [Slots -> Triggers]
  /\ pins \in [Pins -> Records] /\ board \in [Slots -> Pins \union {NULL}]
  /\ listeners \in [Pins -> [Modes -> {"none", "on", "once"}]]
  /\ emitting \in Emission \union {NULL}

(* What the library believes is watched is watched: every record of a pin  *)
(* has a slot of its own, which has the same pin and mode and whose        *)
(* interrupts are enabled; a level may be waiting for its event instead.   *)
(* "first check to see if there are 'rise' || 'fall' listeners"            *)
(* (tessel.js:227-229).                                                    *)
RecordsAreWatched ==
  \A p \in Pins, t \in {"edge", "level"} : pins[p][t] # NULL =>
    LET r == pins[p][t]
        h == hw[r.id]
    IN /\ board[r.id] = p
       /\ slots[r.id] = [pin |-> p, mode |-> r.mode]
       /\ h.pin = p /\ h.sel = t /\ h.nvic
       /\ t = "edge" => (h.ienr <=> "rise" \in r.mode) /\ (h.ienf <=> "fall" \in r.mode)
       /\ t = "level" => h.ienr \/ r.id \in pending \/ (emitting # NULL /\ emitting.pin = p)

(* A slot is in use for a pin that has it in its records, and for no two   *)
(* records: slots are neither leaked nor shared.                           *)
SlotsAccounted ==
  \A i \in Slots : slots[i].pin # NULL =>
    \E p \in Pins, t \in {"edge", "level"} :
      /\ pins[p][t] # NULL /\ pins[p][t].id = i
      /\ \A q \in Pins, u \in {"edge", "level"} :
           pins[q][u] # NULL /\ pins[q][u].id = i => q = p /\ u = t

(* The three books, of the script's pins, of the library's board and of    *)
(* the firmware's slots, agree.                                            *)
BooksAgree == GpioTypeOK /\ RecordsAreWatched /\ SlotsAccounted

(* The handler never meets an edge it does not expect, "Something went     *)
(* wrong" (hw_interrupt.c:224): it would return with the interrupt still   *)
(* asserted and be entered again for ever.                                 *)
NothingWentWrong == \A i \in Slots : Asserted(i) /\ OnEdges(i) => Detected(i) # {}

(* A listener for a low level is called if the level lasts.                *)
LevelServed ==
  \A p \in Pins :
    pins[p].level # NULL /\ ~high[p] ~> pins[p].level = NULL \/ high[p]
=============================================================================
