------------------------------ MODULE MainProofs ------------------------------
(***************************************************************************)
(* The main thread between scripts and at its start and end, and the pin   *)
(* interrupts.  The loop never sleeps on work, for any set of events and   *)
(* interrupt lines.  The script that runs keeps its buffer, for any number *)
(* of messages, any commands, known or not, and any way a load may end;    *)
(* and as long as all commands are known, each upload is loaded once and   *)
(* in order.  For any number of pins and slots, what scripts listen for,   *)
(* what the library has recorded and what the slots watch agree, if the    *)
(* scripts listen for edges and for low levels.                            *)
(***************************************************************************)
EXTENDS EventLoop, ScriptHost, GpioInterrupt, WellFoundedInduction, TLAPS

-----------------------------------------------------------------------------
(* The loop (EventLoop).                                                   *)

(* A trigger keeps the queue a sequence of events.                         *)
LEMMA TriggerType ==
  ASSUME queue \in Seq(Events), NEW e \in Events \union {NoEvent}, Trigger(e)
  PROVE  queue' \in Seq(Events)
BY EventAssumption DEF Trigger

LEMMA LoopInitInv == LoopInit => LoopTypeOK /\ SleepInv
<1>1. LoopInit => LoopTypeOK
  <2>1. LoopInit => queue \in Seq(Events)
    BY DEF LoopInit
  <2>2. QED
    BY <2>1, Zenon DEF LoopInit, LoopTypeOK, PC
<1>2. LoopInit => SleepInv
  BY DEF LoopInit, SleepInv
<1>3. QED
  BY <1>1, <1>2

(* Every step of the main thread, of a handler and of the hardware keeps   *)
(* the type invariant.                                                     *)
LEMMA LoopTypeStep == LoopTypeOK /\ [LoopNext]_loopVars => LoopTypeOK'
<1> SUFFICES ASSUME LoopTypeOK, [LoopNext]_loopVars PROVE LoopTypeOK'
  OBVIOUS
<1> USE EventAssumption DEF LoopTypeOK, PC
<1>1. ASSUME NEW i \in Irqs, Raise(i) PROVE LoopTypeOK'
  BY <1>1 DEF Raise
<1>2. ASSUME NEW i \in Irqs, Isr(i) PROVE LoopTypeOK'
  <2>1. queue' \in Seq(Events)
    BY <1>2, TriggerType DEF Isr
  <2>2. QED
    BY <1>2, <2>1 DEF Isr
<1>3. CASE DisableIrq \/ TestPending \/ Wfi \/ Wake \/ EnableIrq
  BY <1>3 DEF DisableIrq, TestPending, Wfi, Wake, EnableIrq
<1>4. CASE Process
  <2>1. CASE queue = <<>>
    BY <1>4, <2>1 DEF Process
  <2>2. CASE queue # <<>>
    BY <1>4, <2>2 DEF Process
  <2>3. QED
    BY <2>1, <2>2
<1>5. ASSUME NEW e \in Events \union {NoEvent}, Callback(e) PROVE LoopTypeOK'
  <2>1. queue' \in Seq(Events)
    BY <1>5, TriggerType DEF Callback
  <2>2. QED
    BY <1>5, <2>1 DEF Callback
<1>6. CASE UNCHANGED loopVars
  BY <1>6 DEF loopVars
<1>7. QED
  BY <1>1, <1>2, <1>3, <1>4, <1>5, <1>6 DEF LoopNext, Main

(* The steps that matter are the handler, which runs only unmasked and so  *)
(* never between the check and the wakeup, and the check itself.           *)
LEMMA SleepStep == LoopTypeOK /\ SleepInv /\ [LoopNext]_loopVars => SleepInv'
<1> SUFFICES ASSUME LoopTypeOK, SleepInv, [LoopNext]_loopVars PROVE SleepInv'
  OBVIOUS
<1> USE DEF SleepInv, LoopTypeOK, PC
<1>1. ASSUME NEW i \in Irqs, Raise(i) PROVE SleepInv'
  BY <1>1 DEF Raise
<1>2. ASSUME NEW i \in Irqs, Isr(i) PROVE SleepInv'
  BY <1>2 DEF Isr
<1>3. CASE TestPending \/ Wfi \/ Wake
  BY <1>3 DEF TestPending, Wfi, Wake
<1>4. CASE DisableIrq \/ EnableIrq
  BY <1>4 DEF DisableIrq, EnableIrq
<1>5. CASE Process
  BY <1>5 DEF Process
<1>6. ASSUME NEW e \in Events \union {NoEvent}, Callback(e) PROVE SleepInv'
  BY <1>6 DEF Callback
<1>7. CASE UNCHANGED loopVars
  BY <1>7 DEF loopVars
<1>8. QED
  BY <1>1, <1>2, <1>3, <1>4, <1>5, <1>6, <1>7 DEF LoopNext, Main

(* The main loop's variables keep their types.                             *)
THEOREM LoopTypeCorrect == LoopSpec => []LoopTypeOK
<1>1. LoopInit => LoopTypeOK
  BY LoopInitInv
<1>2. QED
  BY <1>1, LoopTypeStep, PTL DEF LoopSpec

(* For every number of events and lines, the processor is never asleep     *)
(* while an event waits for its callback.                                  *)
THEOREM NeverSleepsOnPending == LoopSpec => []NoSleepOnPending
<1>1. SleepInv => NoSleepOnPending
  BY DEF SleepInv, NoSleepOnPending
<1>2. LoopTypeOK /\ SleepInv /\ [LoopNext]_loopVars => (LoopTypeOK /\ SleepInv)'
  BY LoopTypeStep, SleepStep
<1>3. QED
  BY LoopInitInv, <1>1, <1>2, PTL DEF LoopSpec

-----------------------------------------------------------------------------
(* The life cycle of scripts (ScriptHost).                                 *)

(* The part of TypeOK a step reads or changes, and the property.           *)
Inv == TypeOK /\ ScriptBufAlive

LEMMA InitInv == Init => Inv
<1> SUFFICES ASSUME Init PROVE Inv
  OBVIOUS
<1>1. main \in {"wait", "load"}
  BY DEF Init
<1>2. script.buf = 0 /\ script.flash = FALSE /\ lua = FALSE
  BY DEF Init
<1>3. TypeOK
  <2>1. lua \in BOOLEAN /\ script.flash \in BOOLEAN
    BY <1>2
  <2>2. 0 \in 0..MaxMessages
    BY ScriptAssumption
  <2> QED BY <1>1, <1>2, <2>1, <2>2, Zenon DEF Init, TypeOK
<1>4. ScriptBufAlive
  BY DEF Init, ScriptBufAlive, Busy
<1> QED BY <1>3, <1>4 DEF Inv

(* A message takes the next number, which is in range.                     *)
LEMMA MessageRange ==
  TypeOK /\ Message => count' \in 1..MaxMessages
BY ScriptAssumption DEF TypeOK, Message

(* Return frees what script_buf points to, which no one needs any more:    *)
(* nothing is loaded or run, and nothing waits unless it waits since boot. *)
LEMMA ReturnInv ==
  ASSUME Inv, Return, lua' \in BOOLEAN
  PROVE  Inv'
BY DEF Inv, Return, TypeOK, ScriptBufAlive, Busy

LEMMA StepInv == Inv /\ [Next]_vars => Inv'
<1> SUFFICES ASSUME Inv, [Next]_vars PROVE Inv'
  OBVIOUS
<1>1. ASSUME NEW toFlash \in BOOLEAN, TakeUpload(toFlash) PROVE Inv'
  <2>1. count' \in 1..MaxMessages
    BY <1>1, MessageRange DEF Inv, TakeUpload
  <2>2. TypeOK'
    BY <1>1, <2>1 DEF Inv, TypeOK, TakeUpload, TakenLock, KeptBuffer
  <2>3. ScriptBufAlive'
    BY <1>1 DEF Inv, TypeOK, ScriptBufAlive, Busy, TakeUpload, KeptBuffer
  <2> QED BY <2>2, <2>3 DEF Inv
<1>2. CASE RefuseUpload
  <2>1. count' \in 1..MaxMessages
    BY <1>2, MessageRange DEF Inv, RefuseUpload
  <2> QED BY <1>2, <2>1 DEF Inv, TypeOK, ScriptBufAlive, Busy, RefuseUpload
<1>3. CASE OtherCommand
  <2>1. count' \in 1..MaxMessages
    BY <1>3, MessageRange DEF Inv, OtherCommand
  <2> QED BY <1>3, <2>1 DEF Inv, TypeOK, ScriptBufAlive, Busy, OtherCommand
<1>4. CASE UnknownCommand
  <2>1. count' \in 1..MaxMessages
    BY <1>4, MessageRange DEF Inv, UnknownCommand
  <2> QED BY <1>4, <2>1 DEF Inv, TypeOK, ScriptBufAlive, Busy, UnknownCommand
<1>5. CASE StartScript
  BY <1>5 DEF Inv, TypeOK, ScriptBufAlive, Busy, StartScript
<1>6. CASE BadBundle
  BY <1>6, ReturnInv DEF Inv, TypeOK, BadBundle
<1>7. CASE OpenRuntime
  BY <1>7 DEF Inv, TypeOK, ScriptBufAlive, Busy, OpenRuntime
<1>8. CASE LibraryFails
  BY <1>8, ReturnInv DEF LibraryFails
<1>9. CASE ScriptEnds
  BY <1>9, ReturnInv DEF ScriptEnds
<1>10. CASE UNCHANGED vars
  BY <1>10 DEF Inv, TypeOK, ScriptBufAlive, Busy, vars
<1> QED BY <1>1, <1>2, <1>3, <1>4, <1>5, <1>6, <1>7, <1>8, <1>9, <1>10 DEF Next

(* The types of the script host's state (main.c:121-132).                  *)
THEOREM TypeCorrect == Spec => []TypeOK
<1>1. Inv => TypeOK BY DEF Inv
<1> QED BY <1>1, InitInv, StepInv, PTL DEF Spec

(* The bundle in use and the upload that waits are never freed: refused    *)
(* and unknown commands, which do lose other buffers, cannot free them,    *)
(* although main_body frees the global pointer and not what it loaded      *)
(* (main.c:158, :422-423).                                                 *)
THEOREM ScriptBufStaysAlive == Spec => []ScriptBufAlive
<1>1. Inv => ScriptBufAlive BY DEF Inv
<1> QED BY <1>1, InitInv, StepInv, PTL DEF Spec
-----------------------------------------------------------------------------
(* Uploads are loaded in order.                                            *)

(* Until an unknown command resets it, the lock is held from the moment an *)
(* upload is taken to the end of its script, and the global pointer is     *)
(* that upload's all the time: at most one is accepted and not yet over.   *)
InOrder ==
  /\ accepted = IF lock = "READING" THEN Append(ran, script.buf) ELSE ran
  /\ lock = "READING" => script.buf # 0
  /\ main # "wait" /\ current # 0 => lock = "READING" /\ script.buf = current

OrderInv ==
  /\ accepted \in Seq(Nat) /\ ran \in Seq(Nat)
  /\ ~unknown => InOrder

LEMMA InitOrder == Init => OrderInv
  BY DEF Init, OrderInv, InOrder

(* The script that is over is the one upload that was not: what main_body  *)
(* then resets the lock for and frees is that upload's own.                *)
LEMMA ReturnOrder ==
  ASSUME TypeOK, OrderInv, Return, main \in {"load", "run"}
  PROVE  OrderInv'
<1>1. current \in Nat /\ UNCHANGED <<script, current, accepted, unknown>> /\ main' = "wait"
  BY ScriptAssumption DEF TypeOK, Return
<1>2. CASE current = 0
  BY <1>1, <1>2 DEF Return, OrderInv, InOrder
<1>3. CASE current # 0
  <2>1. lock' = "EMPTY" /\ ran' = Append(ran, current)
    BY <1>3 DEF Return
  <2>2. ran' \in Seq(Nat)
    BY <1>1, <2>1 DEF OrderInv
  <2>3. ~unknown => accepted = Append(ran, current)
    BY <1>3 DEF OrderInv, InOrder
  <2>4. QED
    BY <1>1, <2>1, <2>2, <2>3 DEF OrderInv, InOrder
<1>4. QED
  BY <1>2, <1>3

LEMMA StepOrder == TypeOK /\ OrderInv /\ [Next]_vars => OrderInv'
<1> SUFFICES ASSUME TypeOK, OrderInv, [Next]_vars PROVE OrderInv'
  OBVIOUS
<1>1. ASSUME NEW toFlash \in BOOLEAN, TakeUpload(toFlash) PROVE OrderInv'
  <2>1. count' \in Nat \ {0}
    BY <1>1, MessageRange, ScriptAssumption DEF TakeUpload
  <2>2. /\ lock = "EMPTY" /\ lock' = "READING" /\ script'.buf = count'
        /\ accepted' = Append(accepted, count')
        /\ UNCHANGED <<main, current, ran, unknown>>
    BY <1>1 DEF TakeUpload, Accepting, TakenLock
  <2>3. accepted' \in Seq(Nat)
    BY <2>1, <2>2 DEF OrderInv
  <2>4. ASSUME ~unknown PROVE InOrder'
    BY <2>1, <2>2, <2>4 DEF OrderInv, InOrder
  <2>5. QED
    BY <2>2, <2>3, <2>4 DEF OrderInv
<1>2. CASE RefuseUpload \/ OtherCommand \/ UNCHANGED vars
  <2>1. UNCHANGED <<lock, script, main, current, accepted, ran, unknown>>
    BY <1>2 DEF RefuseUpload, OtherCommand, vars
  <2>2. QED
    BY <2>1 DEF OrderInv, InOrder
<1>3. CASE UnknownCommand
  BY <1>3 DEF UnknownCommand, OrderInv
<1>4. CASE StartScript
  BY <1>4 DEF StartScript, OrderInv, InOrder
<1>5. CASE OpenRuntime
  BY <1>5 DEF OpenRuntime, OrderInv, InOrder
<1>6. CASE BadBundle \/ LibraryFails \/ ScriptEnds
  BY <1>6, ReturnOrder DEF BadBundle, LibraryFails, ScriptEnds
<1>7. QED
  BY <1>1, <1>2, <1>3, <1>4, <1>5, <1>6 DEF Next

(* As long as every command is known, each upload that was accepted is     *)
(* loaded once and in the order accepted, whenever it came: while another  *)
(* was loaded, run or refused, and while the bundle in flash ran           *)
(* (main.c:150, :411-423).                                                 *)
THEOREM UploadsRunInOrder == Spec => []KnownUploadsRun
<1>1. OrderInv => KnownUploadsRun
  <2> SUFFICES ASSUME OrderInv, ~unknown PROVE KnownUploadsRun
    BY DEF KnownUploadsRun
  <2> DEFINE loaded == Busy /\ current # 0
             inUse == IF loaded THEN <<current>> ELSE <<>>
             waits == IF lock = "READING" /\ ~loaded THEN <<script.buf>> ELSE <<>>
  <2>1. ran \in Seq(Nat) /\ InOrder /\ (loaded => lock = "READING" /\ script.buf = current)
    BY DEF OrderInv, InOrder, Busy
  <2>2. /\ ran \o <<>> = ran
        /\ \A x : ran \o <<x>> = Append(ran, x) /\ Append(ran, x) \o <<>> = Append(ran, x)
    BY <2>1
  <2>3. accepted = ran \o inUse \o waits
    <3> HIDE DEF loaded
    <3>1. CASE loaded
      BY <2>1, <2>2, <3>1 DEF InOrder
    <3>2. CASE ~loaded /\ lock = "READING"
      BY <2>1, <2>2, <3>2 DEF InOrder
    <3>3. CASE ~loaded /\ lock # "READING"
      BY <2>1, <2>2, <3>3 DEF InOrder
    <3>4. QED
      BY <3>1, <3>2, <3>3
  <2>4. QED
    BY <2>3 DEF KnownUploadsRun
<1>2. Inv => TypeOK
  BY DEF Inv
<1>3. QED
  BY <1>1, <1>2, InitInv, StepInv, InitOrder, StepOrder, PTL DEF Spec

-----------------------------------------------------------------------------
(* The pin interrupts (GpioInterrupt).                                     *)

(* With 'change' a record may lose a mode that is still listened for       *)
(* (tessel.js:246); a high level leaves IENF set (hw_digital.c:143).       *)
QuietModes == Modes \subseteq {"rise", "fall", "low"}

Kinds == {"rise", "fall", "change", "high", "low"}
Types == {"edge", "level"}

(* A world is what the library and the firmware share: its slots have an   *)
(* assignment and a hardware.                                              *)
Slot == [s : Assignment, h : Hardware]

Worlds == [slot : [Slots -> Slot],
           pins : [Pins -> Records], board : [Slots -> Pins \union {NULL}],
           listeners : [Pins -> [Modes -> {"none", "on", "once"}]]]

(* The slot watches pin p as type t of it, with the interrupts that the    *)
(* mode says; those of a level may be off.                                 *)
Watching(slot, p, t, mode) ==
  /\ slot.s = [pin |-> p, mode |-> mode]
  /\ slot.h.pin = p /\ slot.h.sel = t /\ slot.h.nvic
  /\ t = "edge" => /\ mode \subseteq {"rise", "fall"}
                   /\ slot.h.ienr <=> "rise" \in mode
                   /\ slot.h.ienf <=> "fall" \in mode
  /\ t = "level" => mode = {"low"} /\ ~slot.h.ienf

(* The slot is free and asks for nothing: what a slot's next user finds.   *)
Idle(slot) == slot.s = NoAssignment /\ ~slot.h.nvic /\ ~slot.h.ienr /\ ~slot.h.ienf

(* Record t of pin p has the slot that it names, and so has the board.     *)
Watched(w, p, t) ==
  LET r == w.pins[p][t]
  IN w.board[r.id] = p /\ Watching(w.slot[r.id], p, t, r.mode)

Named(w, i) == \E p \in Pins, t \in Types : w.pins[p][t] # NULL /\ w.pins[p][t].id = i

(* The three books agree: each record is watched, each slot is named by a  *)
(* record or idle.                                                         *)
Books(w) ==
  /\ w \in Worlds
  /\ \A p \in Pins, t \in Types : w.pins[p][t] # NULL => Watched(w, p, t)
  /\ \A i \in Slots : Idle(w.slot[i]) \/ Named(w, i)

-----------------------------------------------------------------------------
(* What enabling and disabling does to a slot.                             *)

(* Every event is of a type and has flags.                                 *)
LEMMA KindTypes ==
  ASSUME NEW e \in Kinds
  PROVE  Type(e) \in Types /\ Flags(e) # {} /\ Flags(e) \subseteq {"rise", "fall", "high", "low"}
BY DEF Kinds, Types, Type, Flags

(* An edge slot, or an idle one, watches what it is told and no more.      *)
LEMMA WatchEdges ==
  ASSUME NEW slot \in Slot, NEW p \in Pins, NEW mode \in (SUBSET {"rise", "fall"}) \ {{}},
         slot.h.ienr => "rise" \in mode, slot.h.ienf => "fall" \in mode
  PROVE  Watch(slot, p, mode) \in Slot /\ Watching(Watch(slot, p, mode), p, "edge", mode)
<1> DEFINE on(h, b) == IF b \in mode THEN Enable(h, p, b) ELSE h
           h1 == on(slot.h, "rise")
           h2 == on(h1, "fall")
           s == [pin |-> p, mode |-> mode]
<1>1. slot.h \in Hardware /\ s \in Assignment
  BY DEF Slot, Assignment, NoAssignment
<1>2. /\ h1 \in Hardware
      /\ "rise" \in mode => h1.pin = p /\ h1.sel = "edge" /\ h1.nvic /\ h1.ienr
      /\ "rise" \notin mode => h1 = slot.h /\ ~h1.ienr
      /\ h1.ienf => "fall" \in mode
  BY <1>1 DEF Hardware, Enable, Type
<1> HIDE DEF h1
<1>3. /\ h2 \in Hardware
      /\ h2.pin = p /\ h2.sel = "edge" /\ h2.nvic
      /\ h2.ienr <=> "rise" \in mode
      /\ h2.ienf <=> "fall" \in mode
  <2>1. CASE "fall" \in mode
    <3>1. h2 = Enable(h1, p, "fall")
      BY <2>1
    <3> HIDE DEF h2
    <3>2. h2 \in Hardware /\ h2.pin = p /\ h2.sel = "edge" /\ h2.nvic /\ h2.ienf
      BY <1>2, <3>1 DEF Hardware, Enable, Type
    <3>3. h2.ienr <=> h1.ienr
      BY <1>2, <3>1 DEF Hardware, Enable
    <3>4. QED
      BY <1>2, <2>1, <3>2, <3>3
  <2>2. CASE "fall" \notin mode
    <3>1. h2 = h1
      BY <2>2
    <3>3. "rise" \in mode
      <4>1. mode # {} /\ mode \subseteq {"rise", "fall"}
        OBVIOUS
      <4>2. PICK b \in mode : TRUE
        BY <4>1
      <4>3. QED
        BY <2>2, <4>1, <4>2
    <3>2. QED
      BY <1>2, <2>2, <3>1, <3>3
  <2>3. QED
    BY <2>1, <2>2
<1>4. Watch(slot, p, mode) = [s |-> s, h |-> h2]
  BY DEF Watch, h1
<1> HIDE DEF h2
<1>5. QED
  BY <1>1, <1>3, <1>4 DEF Slot, Watching

(* Whatever the slot did, a low level is then on.                          *)
LEMMA WatchLevel ==
  ASSUME NEW slot \in Slot, NEW p \in Pins
  PROVE  LET n == Watch(slot, p, {"low"})
         IN n \in Slot /\ Watching(n, p, "level", {"low"}) /\ n.h.ienr
<1> DEFINE s == [pin |-> p, mode |-> {"low"}]
           h == Enable(slot.h, p, "low")
<1>1. s \in Assignment /\ slot.h \in Hardware
  BY DEF Slot, Assignment, NoAssignment
<1>2. h \in Hardware /\ h.pin = p /\ h.sel = "level" /\ h.nvic /\ h.ienr /\ ~h.ienf
  BY <1>1 DEF Hardware, Enable, Type
<1>3. Watch(slot, p, {"low"}) = [s |-> s, h |-> h]
  BY DEF Watch
<1> HIDE DEF h
<1>4. QED
  BY <1>1, <1>2, <1>3 DEF Slot, Watching

(* A mode that goes takes its interrupt along; the last one leaves the     *)
(* slot idle.                                                              *)
LEMMA UnwatchSome ==
  ASSUME GpioNullAssumption, NEW slot \in Slot, NEW p \in Pins, NEW t \in Types, NEW mode,
         Watching(slot, p, t, mode), NEW e \in Kinds, Type(e) = t, mode # {}
  PROVE  LET n == Unwatch(slot, Flags(e))
             left == mode \ Flags(e)
         IN /\ n \in Slot
            /\ left = {} => Idle(n)
            /\ left # {} => Watching(n, p, t, left)
            /\ e = "low" => left = {}
<1> DEFINE h == Disable(slot.h, Flags(e))
           left == mode \ Flags(e)
<1>1. slot.s \in Assignment /\ slot.h \in Hardware /\ slot.s.mode = mode /\ slot.s.pin = p
  BY DEF Slot, Watching
<1>2. h \in Hardware /\ h.pin = slot.h.pin /\ h.sel = slot.h.sel /\ h.nvic = slot.h.nvic
  BY <1>1 DEF Hardware, Disable
<1>3. /\ h.ienr <=> slot.h.ienr /\ Flags(e) \cap {"rise", "high", "low"} = {}
      /\ h.ienf <=> slot.h.ienf /\ "fall" \notin Flags(e)
  BY <1>1 DEF Hardware, Disable
<1>4. /\ t = "edge" => Flags(e) \cap {"high", "low"} = {}
      /\ t = "level" => mode = {"low"} /\ Flags(e) \subseteq {"low", "high"}
  BY DEF Kinds, Flags, Type, Watching
<1>5. t = "edge" => /\ h.ienr <=> "rise" \in left
                    /\ h.ienf <=> "fall" \in left
                    /\ left \subseteq {"rise", "fall"}
  BY <1>3, <1>4 DEF Watching
<1>6. t = "level" => ~h.ienf /\ left \in {{}, {"low"}}
  BY <1>3, <1>4 DEF Watching
<1>7. e = "low" => left = {}
  BY <1>4 DEF Type, Flags
<1>8. t = "level" /\ left = {} => ~h.ienr
  BY <1>3, <1>4
<1> HIDE DEF h
<1>9. CASE left = {}
  <2>1. Unwatch(slot, Flags(e)) = [s |-> NoAssignment, h |-> [h EXCEPT !.nvic = FALSE]]
    BY <1>1, <1>9 DEF Unwatch, h
  <2>2. [h EXCEPT !.nvic = FALSE] \in Hardware /\ NoAssignment \in Assignment
    BY <1>2 DEF Hardware, Assignment, NoAssignment
  <2>3. ~h.ienr /\ ~h.ienf
    BY <1>5, <1>6, <1>8, <1>9 DEF Types
  <2>4. QED
    BY <1>2, <1>9, <2>1, <2>2, <2>3 DEF Slot, Idle, Hardware
<1>10. CASE left # {}
  <2>1. Unwatch(slot, Flags(e)) = [s |-> [pin |-> p, mode |-> left], h |-> h]
    <3>1. [slot.s EXCEPT !.mode = left] = [pin |-> p, mode |-> left]
      BY <1>1 DEF Assignment
    <3>2. QED
      BY <1>1, <1>10, <3>1 DEF Unwatch, h
  <2>2. [pin |-> p, mode |-> left] \in Assignment
    BY <1>1 DEF Assignment
  <2> DEFINE new == [s |-> [pin |-> p, mode |-> left], h |-> h]
  <2>3. new \in Slot
    BY <1>2, <2>2 DEF Slot
  <2>4. slot.h.pin = p /\ slot.h.sel = t /\ slot.h.nvic
    BY DEF Watching
  <2>5. Watching(new, p, t, left)
    BY <1>2, <1>5, <1>6, <1>10, <2>4 DEF Watching
  <2>6. QED
    BY <1>7, <1>10, <2>1, <2>3, <2>5
<1>11. QED
  BY <1>9, <1>10, <1>7

(* What a record of a pin becomes leaves the other records alone.          *)
LEMMA RecordChanged ==
  ASSUME NEW f \in [Pins -> Records], NEW p \in Pins, NEW t \in Types, NEW v \in Record \union {NULL}
  PROVE  LET g == [f EXCEPT ![p][t] = v]
         IN /\ g \in [Pins -> Records]
            /\ \A q \in Pins, u \in Types : g[q][u] = IF q = p /\ u = t THEN v ELSE f[q][u]
<1>1. ASSUME NEW q \in Pins PROVE f[q] \in Records
  OBVIOUS
<1>2. CASE t = "edge"
  BY <1>1, <1>2 DEF Types, Records
<1>3. CASE t = "level"
  BY <1>1, <1>3 DEF Types, Records
<1>4. QED
  BY <1>2, <1>3 DEF Types

(* What the books say of a record.                                         *)
LEMMA SlotKnown ==
  ASSUME NEW w, Books(w), NEW p \in Pins, NEW t \in Types, w.pins[p][t] # NULL
  PROVE  LET r == w.pins[p][t]
         IN /\ r \in Record /\ r.id \in Slots /\ r.mode # {} /\ w.board[r.id] = p
            /\ w.slot[r.id] \in Slot
            /\ Watching(w.slot[r.id], p, t, r.mode)
<1>1. w \in Worlds /\ Watched(w, p, t)
  BY DEF Books
<1>2. w.pins[p] \in Records
  BY <1>1 DEF Worlds
<1>3. w.pins[p][t] \in Record
  BY <1>2 DEF Records, Types
<1>4. w.pins[p][t].id \in Slots /\ w.pins[p][t].mode # {}
  <2> DEFINE r == w.pins[p][t]
  <2>1. r \in Record
    BY <1>3
  <2> HIDE DEF r
  <2>2. r.id \in Slots /\ r.mode \in (SUBSET {"rise", "fall", "high", "low"}) \ {{}}
    BY <2>1 DEF Record
  <2>4. r.mode # {}
    BY <2>2, Zenon
  <2>3. QED
    BY <2>2, <2>4 DEF r
<1>5. QED
  BY <1>1, <1>3, <1>4 DEF Worlds, Watched

(* A slot watches for one record only: it has the pin and the type of it.  *)
LEMMA OneRecord ==
  ASSUME NEW w, Books(w), NEW p \in Pins, NEW t \in Types, w.pins[p][t] # NULL,
         NEW q \in Pins, NEW u \in Types, w.pins[q][u] # NULL,
         w.pins[p][t].id = w.pins[q][u].id
  PROVE  p = q /\ t = u
<1>1. Watching(w.slot[w.pins[p][t].id], p, t, w.pins[p][t].mode)
  BY SlotKnown
<1>2. Watching(w.slot[w.pins[q][u].id], q, u, w.pins[q][u].mode)
  BY SlotKnown
<1>3. QED
  BY <1>1, <1>2 DEF Watching

(* From w to n, record t of pin p becomes v and slot i becomes s.          *)
OneChange(w, n, p, t, i, v, s) ==
  /\ n.pins = [w.pins EXCEPT ![p][t] = v]
  /\ n.slot = [w.slot EXCEPT ![i] = s]
  /\ n.board[i] = p /\ \A j \in Slots : j # i => n.board[j] = w.board[j]
  /\ w.pins[p][t] = NULL => ~Named(w, i)
  /\ w.pins[p][t] # NULL => w.pins[p][t].id = i
  /\ v = NULL => Idle(s)
  /\ v # NULL => v.id = i /\ Watching(s, p, t, v.mode)

(* That keeps the books if the slot watches what the record then says.     *)
LEMMA OneChanged ==
  ASSUME GpioNullAssumption, NEW w, Books(w), NEW n \in Worlds, NEW p \in Pins, NEW t \in Types,
         NEW i \in Slots, NEW v \in Record \union {NULL}, NEW s \in Slot,
         OneChange(w, n, p, t, i, v, s)
  PROVE  Books(n)
<1> USE DEF OneChange
<1>1. w \in Worlds
  BY DEF Books
<1>2. /\ w.slot \in [Slots -> Slot] /\ w.pins \in [Pins -> Records]
      /\ w.board \in [Slots -> Pins \union {NULL}]
  BY <1>1 DEF Worlds
<1>3. \A q \in Pins, u \in Types : n.pins[q][u] = IF q = p /\ u = t THEN v ELSE w.pins[q][u]
  BY <1>2, RecordChanged
<1>4. /\ n.slot[i] = s /\ n.board[i] = p
      /\ \A j \in Slots : j # i => n.slot[j] = w.slot[j] /\ n.board[j] = w.board[j]
  BY <1>2
<1>5. ASSUME NEW q \in Pins, NEW u \in Types, n.pins[q][u] # NULL PROVE Watched(n, q, u)
  <2>1. CASE q = p /\ u = t
    <3>1. n.pins[q][u] = v /\ v # NULL
      BY <1>3, <1>5, <2>1
    <3>2. QED
      BY <1>4, <2>1, <3>1 DEF Watched
  <2>2. CASE ~(q = p /\ u = t)
    <3>1. n.pins[q][u] = w.pins[q][u]
      BY <1>3, <2>2
    <3>2. /\ w.pins[q][u].id \in Slots /\ w.board[w.pins[q][u].id] = q
          /\ Watching(w.slot[w.pins[q][u].id], q, u, w.pins[q][u].mode)
      BY <1>5, <3>1, SlotKnown
    <3>3. w.pins[q][u].id # i
      <4>1. CASE w.pins[p][t] # NULL
        BY <1>5, <2>2, <3>1, <4>1, OneRecord
      <4>2. CASE w.pins[p][t] = NULL
        BY <1>5, <3>1, <4>2 DEF Named
      <4>3. QED
        BY <4>1, <4>2
    <3>4. n.slot[w.pins[q][u].id] = w.slot[w.pins[q][u].id] /\ n.board[w.pins[q][u].id] = q
      BY <1>4, <3>2, <3>3
    <3>5. QED
      BY <3>1, <3>2, <3>4 DEF Watched
  <2>3. QED
    BY <2>1, <2>2
<1>6. ASSUME NEW j \in Slots PROVE Idle(n.slot[j]) \/ Named(n, j)
  <2>1. CASE j = i
    <3>1. CASE v = NULL
      BY <1>4, <2>1, <3>1
    <3>2. CASE v # NULL
      <4>1. n.pins[p][t] = v /\ v.id = i
        BY <1>3, <3>2
      <4>2. QED
        BY <2>1, <3>2, <4>1 DEF Named
    <3>3. QED
      BY <3>1, <3>2
  <2>2. CASE j # i
    <3>1. CASE Named(w, j)
      <4>1. PICK q \in Pins, u \in Types : w.pins[q][u] # NULL /\ w.pins[q][u].id = j
        BY <3>1 DEF Named
      <4>2. ~(q = p /\ u = t)
        BY <2>2, <4>1
      <4>3. n.pins[q][u] = w.pins[q][u]
        BY <1>3, <4>2
      <4>4. QED
        BY <4>1, <4>3 DEF Named
    <3>2. CASE Idle(w.slot[j])
      BY <1>4, <2>2, <3>2
    <3>3. QED
      BY <3>1, <3>2 DEF Books
  <2>3. QED
    BY <2>1, <2>2
<1>7. QED
  BY <1>5, <1>6 DEF Books

(* Nothing listens any more for the mode that is removed.                  *)
Silent(w, p, e) == \A b \in Flags(e) \cap Modes : w.listeners[p][b] = "none"

(* The library drops all the flags of such a mode, as the firmware does.   *)
LEMMA RemovalIsAll ==
  ASSUME NEW w, NEW p \in Pins, NEW e \in Kinds, Silent(w, p, e)
  PROVE  Removal(w, p, e) = Flags(e)
<1> DEFINE heard == {b \in {"rise", "fall"} \cap Modes : w.listeners[p][b] # "none"}
<1>1. ASSUME NEW b \in Flags(e) PROVE b \notin heard
  BY <1>1 DEF Silent
<1>2. Flags(e) \ heard = Flags(e)
  BY <1>1
<1>3. QED
  BY <1>2 DEF Removal

(* n is w without the flags of e in the records of p.                      *)
Removed(w, n, p, e) ==
  /\ n.listeners = w.listeners /\ n.board = w.board
  /\ \A q \in Pins : \/ n.pins[q]["level"] = NULL
                     \/ /\ w.pins[q]["level"] # NULL
                        /\ n.pins[q]["level"].id = w.pins[q]["level"].id
                        /\ q # p => n.slot[w.pins[q]["level"].id] = w.slot[w.pins[q]["level"].id]
                        /\ e \in {"rise", "fall", "change"} =>
                             n.slot[w.pins[q]["level"].id] = w.slot[w.pins[q]["level"].id]
  /\ e = "low" => n.pins[p]["level"] = NULL

(* _removeInterruptMode of a mode without listeners keeps the books.       *)
LEMMA RemoveModeKeeps ==
  ASSUME GpioNullAssumption, NEW w, Books(w), NEW p \in Pins, NEW e \in Kinds, Silent(w, p, e)
  PROVE  Books(RemoveMode(w, p, e)) /\ Removed(w, RemoveMode(w, p, e), p, e)
<1> DEFINE t == Type(e)
           r == w.pins[p][t]
           n == RemoveMode(w, p, e)
<1>0. t \in Types
  BY KindTypes
<1> HIDE DEF t
<1>1. CASE r = NULL
  <2>1. n = w
    BY <1>1 DEF RemoveMode, t
  <2>2. e = "low" => w.pins[p]["level"] = NULL
    BY <1>1 DEF t, Type
  <2>3. QED
    BY <2>1, <2>2 DEF Removed
<1>2. CASE r # NULL
  <2> DEFINE i == r.id
             left == r.mode \ Flags(e)
             v == Without(r, Flags(e))
             s == Unwatch(w.slot[i], Flags(e))
  <2>1. /\ r \in Record /\ i \in Slots /\ r.mode # {} /\ w.board[i] = p /\ w.slot[i] \in Slot
        /\ Watching(w.slot[i], p, t, r.mode)
    BY <1>0, <1>2, SlotKnown
  <2>2. n = [w EXCEPT !.pins[p][t] = v, !.slot[i] = s]
    <3>1. Removal(w, p, e) = Flags(e)
      BY RemovalIsAll
    <3>2. n = Drop(w, p, e)
      BY <1>2 DEF RemoveMode, t
    <3>3. v = Without(w.pins[p][Type(e)], Removal(w, p, e))
      BY <3>1 DEF t
    <3>4. i = w.pins[p][Type(e)].id
      BY DEF t
    <3> HIDE DEF n, r, s, v, i
    <3>5. s = Unwatch(w.slot[i], Flags(e))
      BY DEF s
    <3>6. QED
      BY <3>2, <3>3, <3>4, <3>5 DEF Drop, t
  <2> HIDE DEF n
  <2>3. /\ s \in Slot
        /\ left = {} => Idle(s)
        /\ left # {} => Watching(s, p, t, left)
        /\ e = "low" => left = {}
    <3>1. Type(e) = t
      BY DEF t
    <3> HIDE DEF r, i
    <3>2. QED
      BY <1>0, <2>1, <3>1, UnwatchSome
  <2>4. left # {} => v \in Record /\ v.id = i /\ v.mode = left
    <3>1. left # {} => v = [r EXCEPT !.mode = left]
      BY DEF Without
    <3>2. r.mode \subseteq {"rise", "fall", "high", "low"}
      <4> HIDE DEF r
      <4>1. r.mode \in (SUBSET {"rise", "fall", "high", "low"}) \ {{}}
        BY <2>1 DEF Record
      <4>2. QED
        BY <4>1
    <3> HIDE DEF r
    <3>3. left # {} => [r EXCEPT !.mode = left] = [mode |-> left, id |-> i]
      BY <2>1 DEF Record
    <3>4. left # {} => left \in (SUBSET {"rise", "fall", "high", "low"}) \ {{}}
      BY <3>2
    <3> HIDE DEF left, i
    <3>5. left # {} => [mode |-> left, id |-> i] \in Record
      BY <2>1, <3>4 DEF Record
    <3>6. QED
      BY <3>1, <3>3, <3>5
  <2>5. left = {} => v = NULL
    <3>1. left = {} => r.mode \subseteq Flags(e)
      OBVIOUS
    <3>2. QED
      BY <3>1 DEF Without
  <2>6. left # {} => v # NULL
    BY <2>4, GpioNullAssumption
  <2>7. v \in Record \union {NULL}
    BY <2>4, <2>5
  <2>8. w \in Worlds /\ w.slot \in [Slots -> Slot] /\ w.pins \in [Pins -> Records]
    BY DEF Books, Worlds
  <2> HIDE DEF s, v, left, i, r
  <2>9. /\ n.pins = [w.pins EXCEPT ![p][t] = v] /\ n.slot = [w.slot EXCEPT ![i] = s]
        /\ n.board = w.board /\ n.listeners = w.listeners
    BY <2>2, <2>8 DEF Worlds
  <2>10. /\ n.pins \in [Pins -> Records]
         /\ \A q \in Pins, u \in Types : n.pins[q][u] = IF q = p /\ u = t THEN v ELSE w.pins[q][u]
    BY <1>0, <2>7, <2>8, <2>9, RecordChanged
  <2>11. n \in Worlds
    <3>1. n.slot \in [Slots -> Slot]
      BY <2>1, <2>3, <2>8, <2>9
    <3>2. n = [slot |-> n.slot, pins |-> n.pins, board |-> n.board, listeners |-> n.listeners]
      BY <2>2, <2>8 DEF Worlds
    <3>3. QED
      BY <2>8, <2>9, <2>10, <3>1, <3>2 DEF Worlds
  <2>12. Books(n)
    <3>1. n.board[i] = p /\ \A j \in Slots : j # i => n.board[j] = w.board[j]
      BY <2>1, <2>9
    <3>2. w.pins[p][t] # NULL /\ w.pins[p][t].id = i
      BY <1>2 DEF r, i
    <3>3. v = NULL => Idle(s)
      BY <2>3, <2>6
    <3>4. v # NULL => v.id = i /\ Watching(s, p, t, v.mode)
      BY <2>3, <2>4, <2>5
    <3>5. OneChange(w, n, p, t, i, v, s)
      BY <2>9, <3>1, <3>2, <3>3, <3>4 DEF OneChange
    <3>6. QED
      BY <1>0, <2>1, <2>3, <2>7, <2>11, <3>5, OneChanged
  <2>13. Removed(w, n, p, e)
    <3>1. e = "low" => n.pins[p]["level"] = NULL
      <4>1. e = "low" => t = "level" /\ v = NULL
        BY <2>3, <2>5 DEF t, Type
      <4>2. QED
        BY <2>10, <4>1 DEF Types
    <3>2. ASSUME NEW q \in Pins, n.pins[q]["level"] # NULL
          PROVE  /\ w.pins[q]["level"] # NULL
                 /\ n.pins[q]["level"].id = w.pins[q]["level"].id
                 /\ q # p \/ t = "edge" => n.slot[w.pins[q]["level"].id] = w.slot[w.pins[q]["level"].id]
      <4>1. CASE q = p /\ t = "level"
        <5>1. n.pins[q]["level"] = v /\ w.pins[q]["level"] = r
          BY <2>10, <4>1 DEF Types, r
        <5>2. QED
          BY <1>2, <2>4, <2>5, <3>2, <4>1, <5>1 DEF i
      <4>2. CASE ~(q = p /\ t = "level")
        <5>1. n.pins[q]["level"] = w.pins[q]["level"]
          BY <2>10, <4>2 DEF Types
        <5>2. w.pins[q]["level"].id \in Slots
          BY <3>2, <5>1, SlotKnown DEF Types
        <5>3. w.pins[q]["level"].id # i
          BY <1>0, <1>2, <3>2, <4>2, <5>1, OneRecord DEF Types, r, i
        <5>4. QED
          BY <2>1, <2>8, <2>9, <3>2, <5>1, <5>2, <5>3
      <4>3. QED
        BY <4>1, <4>2
    <3>3. e \in {"rise", "fall", "change"} => t = "edge"
      BY DEF t, Type
    <3>4. QED
      BY <2>9, <3>1, <3>2, <3>3 DEF Removed
  <2>14. QED
    BY <2>12, <2>13 DEF n
<1>3. QED
  BY <1>1, <1>2

-----------------------------------------------------------------------------
(* The invariant.                                                          *)

(* A level is watched for a once() listener, which the event will remove.  *)
Once(w) ==
  \A p \in Pins : w.pins[p]["level"] # NULL => "low" \in Modes /\ w.listeners[p]["low"] = "once"

(* The level of pin p is on, waits for its event or is being emitted.      *)
Armed ==
  \A p \in Pins : pins[p]["level"] # NULL =>
    LET i == pins[p]["level"].id
    IN \/ hw[i].ienr
       \/ i \in pending /\ state[i] = "low"
       \/ emitting # NULL /\ emitting.pin = p /\ emitting.trigger = "low"

GpioTypes ==
  /\ slots \in [Slots -> Assignment] /\ hw \in [Slots -> Hardware]
  /\ high \in [Pins -> BOOLEAN] /\ pending \subseteq Slots
  /\ state \in [Slots -> Triggers \ {"high"}]
  /\ emitting # NULL => emitting \in Emission /\ emitting.trigger # "high" /\ ~emitting.callback

GpioInv == GpioTypes /\ Books(World) /\ Once(World) /\ Armed

-----------------------------------------------------------------------------
(* Worlds and variables.                                                   *)

(* The world of the variables is one.                                      *)
LEMMA WorldIs ==
  ASSUME GpioTypes
  PROVE  /\ World.pins = pins /\ World.board = board /\ World.listeners = listeners
         /\ World.slot = [i \in Slots |-> [s |-> slots[i], h |-> hw[i]]]
         /\ \A i \in Slots : World.slot[i].s = slots[i] /\ World.slot[i].h = hw[i]
BY DEF World

(* The variables become a world.                                           *)
LEMMA Becoming ==
  ASSUME NEW w \in Worlds, Become(w)
  PROVE  /\ World' = w
         /\ slots' \in [Slots -> Assignment] /\ hw' \in [Slots -> Hardware]
         /\ pins' = w.pins
         /\ \A i \in Slots : hw'[i] = w.slot[i].h
<1>1. w.slot \in [Slots -> Slot]
  BY DEF Worlds
<1>2. \A i \in Slots : w.slot[i] \in Slot
  BY <1>1
<1>3. \A i \in Slots : /\ w.slot[i].s \in Assignment /\ w.slot[i].h \in Hardware
                       /\ w.slot[i] = [s |-> w.slot[i].s, h |-> w.slot[i].h]
  BY <1>2 DEF Slot
<1>4. /\ slots' = [i \in Slots |-> w.slot[i].s] /\ hw' = [i \in Slots |-> w.slot[i].h]
      /\ pins' = w.pins /\ board' = w.board /\ listeners' = w.listeners
  BY DEF Become
<1>5. [i \in Slots |-> [s |-> slots'[i], h |-> hw'[i]]] = w.slot
  <2>1. \A i \in Slots : [s |-> slots'[i], h |-> hw'[i]] = w.slot[i]
    BY <1>3, <1>4
  <2>2. QED
    BY <1>1, <2>1
<1>6. World' = [slot |-> w.slot, pins |-> w.pins, board |-> w.board, listeners |-> w.listeners]
  BY <1>4, <1>5 DEF World
<1>7. w = [slot |-> w.slot, pins |-> w.pins, board |-> w.board, listeners |-> w.listeners]
  BY DEF Worlds
<1>8. QED
  BY <1>3, <1>4, <1>6, <1>7

(* What a change of the world must keep of the levels that are watched.    *)
LevelsKept(w, n) ==
  \A q \in Pins : n.pins[q]["level"] # NULL =>
    /\ w.pins[q]["level"] # NULL
    /\ n.pins[q]["level"].id = w.pins[q]["level"].id
    /\ n.slot[w.pins[q]["level"].id] = w.slot[w.pins[q]["level"].id]

(* A level that is new is on.                                              *)
LevelsServed(w, n) ==
  \A q \in Pins : n.pins[q]["level"] # NULL =>
    \/ n.slot[n.pins[q]["level"].id].h.ienr
    \/ /\ w.pins[q]["level"] # NULL
       /\ n.pins[q]["level"].id = w.pins[q]["level"].id
       /\ n.slot[w.pins[q]["level"].id] = w.slot[w.pins[q]["level"].id]

(* The main thread changes the world and leaves the pending events alone.  *)
LEMMA Quietly ==
  ASSUME GpioInv, NEW n, Books(n), Once(n), LevelsServed(World, n), Become(n),
         UNCHANGED <<high, pending, state>>,
         \/ emitting' = emitting
         \/ emitting' = NULL /\ (emitting.trigger = "low" => n.pins[emitting.pin]["level"] = NULL)
  PROVE  GpioInv'
<1>1. n \in Worlds
  BY DEF Books
<1>2. /\ World' = n
      /\ slots' \in [Slots -> Assignment] /\ hw' \in [Slots -> Hardware]
      /\ pins' = n.pins
      /\ \A i \in Slots : hw'[i] = n.slot[i].h
  BY <1>1, Becoming
<1>3. GpioTypes'
  BY <1>2 DEF GpioInv, GpioTypes
<1>4. Books(World)' /\ Once(World)'
  BY <1>2
<1>5. ASSUME NEW q \in Pins, pins'[q]["level"] # NULL
      PROVE  LET i == pins'[q]["level"].id
             IN \/ hw'[i].ienr
                \/ i \in pending' /\ state'[i] = "low"
                \/ emitting' # NULL /\ emitting'.pin = q /\ emitting'.trigger = "low"
  <2>1. /\ World.pins = pins
        /\ \A i \in Slots : World.slot[i].h = hw[i]
    BY WorldIs DEF GpioInv
  <2>0. pins'[q]["level"].id \in Slots
    BY <1>2, <1>5, SlotKnown DEF Types
  <2>8. SUFFICES ASSUME ~hw'[pins'[q]["level"].id].ienr
        PROVE  \/ pins'[q]["level"].id \in pending' /\ state'[pins'[q]["level"].id] = "low"
               \/ emitting' # NULL /\ emitting'.pin = q /\ emitting'.trigger = "low"
    OBVIOUS
  <2>2. /\ pins[q]["level"] # NULL /\ pins'[q]["level"].id = pins[q]["level"].id
        /\ n.slot[pins[q]["level"].id] = World.slot[pins[q]["level"].id]
    BY <1>2, <1>5, <2>0, <2>1, <2>8 DEF LevelsServed
  <2>3. pins[q]["level"].id \in Slots
    BY <2>0, <2>2
  <2>4. hw'[pins[q]["level"].id] = hw[pins[q]["level"].id]
    BY <1>2, <2>1, <2>2, <2>3
  <2>5. CASE emitting' = emitting
    BY <2>2, <2>4, <2>5, <2>8 DEF GpioInv, Armed
  <2>6. CASE emitting.trigger = "low" => n.pins[emitting.pin]["level"] = NULL
    <3>1. ~(emitting.pin = q /\ emitting.trigger = "low")
      BY <1>2, <1>5, <2>6
    <3>2. QED
      BY <2>2, <2>4, <2>8, <3>1 DEF GpioInv, Armed
  <2>7. QED
    BY <2>5, <2>6
<1>6. Armed'
  BY <1>5 DEF Armed
<1>7. QED
  BY <1>3, <1>4, <1>6 DEF GpioInv

-----------------------------------------------------------------------------
(* Listeners go.                                                           *)

(* The books do not know of listeners.                                     *)
LEMMA ListenersApart ==
  ASSUME NEW w, Books(w), NEW n \in Worlds,
         n.pins = w.pins, n.slot = w.slot, n.board = w.board
  PROVE  Books(n)
<1>1. \A p \in Pins, t \in Types : n.pins[p][t] # NULL => Watched(n, p, t)
  BY DEF Books, Watched
<1>2. \A i \in Slots : Idle(n.slot[i]) \/ Named(n, i)
  BY DEF Books, Named
<1>3. QED
  BY <1>1, <1>2 DEF Books

(* A listener goes, and with it the mode.                                  *)
LEMMA Unheard ==
  ASSUME GpioNullAssumption, QuietModes, NEW w, Books(w), Once(w), NEW p \in Pins, NEW e \in Modes
  PROVE  LET n == RemoveMode(Unlisten(w, p, e), p, e)
         IN /\ Books(n) /\ Once(n) /\ LevelsKept(w, n)
            /\ e = "low" => n.pins[p]["level"] = NULL
<1> DEFINE u == Unlisten(w, p, e)
           n == RemoveMode(u, p, e)
<1>1. w \in Worlds /\ w.listeners \in [Pins -> [Modes -> {"none", "on", "once"}]]
  BY DEF Books, Worlds
<1>2. /\ u.pins = w.pins /\ u.slot = w.slot /\ u.board = w.board
      /\ u.listeners = [w.listeners EXCEPT ![p][e] = "none"]
      /\ u = [slot |-> u.slot, pins |-> u.pins, board |-> u.board, listeners |-> u.listeners]
  <2> DEFINE l == [w.listeners EXCEPT ![p][e] = "none"]
  <2>1. u = [w EXCEPT !.listeners = l]
    BY DEF Unlisten
  <2> HIDE DEF u, l
  <2>2. u = [slot |-> w.slot, pins |-> w.pins, board |-> w.board, listeners |-> l]
    BY <1>1, <2>1 DEF Worlds
  <2>3. QED
    BY <2>2 DEF l
<1> HIDE DEF u
<1>3. u.listeners \in [Pins -> [Modes -> {"none", "on", "once"}]]
  BY <1>1, <1>2
<1>4. u \in Worlds
  BY <1>1, <1>2, <1>3 DEF Worlds
<1>5. Books(u)
  BY <1>2, <1>4, ListenersApart
<1>6. e \in Kinds /\ Flags(e) = {e}
  BY DEF QuietModes, Kinds, Flags
<1>7. Silent(u, p, e)
  BY <1>1, <1>2, <1>6 DEF Silent
<1>8. Books(n) /\ Removed(u, n, p, e)
  BY <1>5, <1>6, <1>7, RemoveModeKeeps
<1> HIDE DEF n
<1>9. e \in {"rise", "fall", "low"}
  BY DEF QuietModes
<1>10. LevelsKept(w, n)
  BY <1>2, <1>8, <1>9 DEF LevelsKept, Removed
<1>11. e = "low" => n.pins[p]["level"] = NULL
  BY <1>8 DEF Removed
<1>12. ASSUME NEW q \in Pins, n.pins[q]["level"] # NULL
       PROVE  "low" \in Modes /\ n.listeners[q]["low"] = "once"
  <2>1. "low" \in Modes /\ w.listeners[q]["low"] = "once"
    BY <1>10, <1>12 DEF LevelsKept, Once
  <2>2. ~(q = p /\ e = "low")
    BY <1>11, <1>12
  <2>3. n.listeners = [w.listeners EXCEPT ![p][e] = "none"]
    BY <1>2, <1>8 DEF Removed
  <2>4. QED
    BY <1>1, <2>1, <2>2, <2>3
<1>13. QED
  BY <1>8, <1>10, <1>11, <1>12 DEF Once, n, u

-----------------------------------------------------------------------------
(* The actions.                                                            *)

(* At first every slot is idle and nothing is listened for.                *)
LEMMA GpioInitInv == GpioNullAssumption /\ GpioInit => GpioInv
<1> SUFFICES ASSUME GpioNullAssumption, GpioInit PROVE GpioInv
  OBVIOUS
<1>1. GpioTypes
  <2>1. NoAssignment \in Assignment
    BY DEF NoAssignment, Assignment
  <2>2. [pin |-> NULL, sel |-> "edge", ienr |-> FALSE, ienf |-> FALSE,
         rise |-> FALSE, fall |-> FALSE, nvic |-> FALSE] \in Hardware
    BY DEF Hardware
  <2>3. NULL \in Triggers \ {"high"}
    BY DEF Triggers
  <2>4. QED
    BY <2>1, <2>2, <2>3 DEF GpioInit, GpioTypes
<1>2. World \in Worlds
  <2>1. \A i \in Slots : [s |-> slots[i], h |-> hw[i]] \in Slot
    BY <1>1 DEF GpioTypes, Slot
  <2>2. World.slot \in [Slots -> Slot]
    BY <1>1, <2>1, WorldIs
  <2>3. [edge |-> NULL, level |-> NULL] \in Records
    BY DEF Records
  <2>4. NoListener \in [Modes -> {"none", "on", "once"}]
    BY DEF NoListener
  <2>5. QED
    BY <2>2, <2>3, <2>4 DEF World, Worlds, GpioInit
<1>3. \A p \in Pins, t \in Types : pins[p][t] = NULL
  BY DEF GpioInit, Types
<1>4. \A i \in Slots : Idle(World.slot[i])
  BY <1>1, WorldIs DEF Idle, GpioInit
<1>5. QED
  BY <1>1, <1>2, <1>3, <1>4, WorldIs DEF GpioInv, Books, Once, Armed, Types

(* What the variables say of a slot with interrupts enabled.               *)
LEMMA SlotInUse ==
  ASSUME GpioInv, NEW i \in Slots, hw[i].nvic
  PROVE  \E p \in Pins, t \in Types :
           /\ pins[p][t] # NULL /\ pins[p][t].id = i /\ pins[p][t].mode # {}
           /\ Watching([s |-> slots[i], h |-> hw[i]], p, t, pins[p][t].mode)
<1>1. World.slot[i] = [s |-> slots[i], h |-> hw[i]] /\ World.pins = pins
  BY WorldIs DEF GpioInv
<1>2. ~Idle(World.slot[i])
  BY <1>1 DEF Idle
<1>3. PICK p \in Pins, t \in Types : pins[p][t] # NULL /\ pins[p][t].id = i
  BY <1>1, <1>2 DEF GpioInv, Books, Named
<1>4. Watching(World.slot[i], p, t, pins[p][t].mode) /\ pins[p][t].mode # {}
  BY <1>1, <1>3, SlotKnown DEF GpioInv
<1>5. QED
  BY <1>1, <1>3, <1>4

(* Handlers and pins change the hardware only, and of it neither the pin   *)
(* nor what is enabled, except a level's own interrupt.                    *)
LEMMA HardwareOnly ==
  ASSUME GpioInv, UNCHANGED <<slots, pins, board, listeners>>, hw' \in [Slots -> Hardware],
         \A i \in Slots : /\ hw'[i].pin = hw[i].pin /\ hw'[i].sel = hw[i].sel
                          /\ hw'[i].nvic = hw[i].nvic /\ hw'[i].ienf = hw[i].ienf
                          /\ (hw[i].nvic /\ ~OnEdges(i)) \/ hw'[i].ienr = hw[i].ienr
  PROVE  Books(World)' /\ Once(World)'
<1> DEFINE n == World'
<1>1. /\ World.pins = pins /\ World.board = board /\ World.listeners = listeners
      /\ \A i \in Slots : World.slot[i] = [s |-> slots[i], h |-> hw[i]]
  BY WorldIs DEF GpioInv
<1>2. /\ n.pins = pins /\ n.board = board /\ n.listeners = listeners
      /\ n.slot = [i \in Slots |-> [s |-> slots[i], h |-> hw'[i]]]
      /\ n = [slot |-> n.slot, pins |-> n.pins, board |-> n.board, listeners |-> n.listeners]
  BY DEF World
<1>3. \A i \in Slots : n.slot[i] = [s |-> slots[i], h |-> hw'[i]]
  BY <1>2
<1> HIDE DEF n
<1>4. World \in Worlds
  BY DEF GpioInv, Books
<1>5. n \in Worlds
  <2>1. \A i \in Slots : [s |-> slots[i], h |-> hw'[i]] \in Slot
    BY DEF GpioInv, GpioTypes, Slot
  <2>2. n.slot \in [Slots -> Slot]
    BY <1>2, <2>1
  <2>3. /\ pins \in [Pins -> Records] /\ board \in [Slots -> Pins \union {NULL}]
        /\ listeners \in [Pins -> [Modes -> {"none", "on", "once"}]]
    BY <1>1, <1>4 DEF Worlds
  <2>4. QED
    BY <1>2, <2>2, <2>3 DEF Worlds
<1>6. ASSUME NEW p \in Pins, NEW t \in Types, n.pins[p][t] # NULL PROVE Watched(n, p, t)
  <2> DEFINE r == pins[p][t]
             i == r.id
  <2>1. /\ r # NULL /\ i \in Slots /\ r.mode # {} /\ board[i] = p
        /\ Watching([s |-> slots[i], h |-> hw[i]], p, t, r.mode)
    BY <1>1, <1>2, <1>6, SlotKnown DEF GpioInv
  <2> HIDE DEF i, r
  <2>2. /\ hw'[i].pin = hw[i].pin /\ hw'[i].sel = hw[i].sel
        /\ hw'[i].nvic = hw[i].nvic /\ hw'[i].ienf = hw[i].ienf
    BY <2>1
  <2>3. t = "edge" => hw'[i].ienr = hw[i].ienr
    <3>1. t = "edge" => r.mode \subseteq {"rise", "fall"} /\ slots[i].mode = r.mode
      BY <2>1 DEF Watching
    <3>2. PICK b \in r.mode : TRUE
      BY <2>1
    <3>3. t = "edge" => OnEdges(i)
      BY <3>1, <3>2 DEF OnEdges
    <3>4. QED
      BY <2>1, <3>3
  <2>4. Watching([s |-> slots[i], h |-> hw'[i]], p, t, r.mode)
    BY <2>1, <2>2, <2>3 DEF Watching
  <2>5. QED
    BY <1>2, <1>3, <2>1, <2>4 DEF Watched, i, r
<1>7. ASSUME NEW i \in Slots PROVE Idle(n.slot[i]) \/ Named(n, i)
  <2>1. CASE Idle(World.slot[i])
    <3>1. slots[i] = NoAssignment /\ ~hw[i].nvic /\ ~hw[i].ienr /\ ~hw[i].ienf
      BY <2>1, WorldIs DEF Idle, GpioInv
    <3>2. ~hw'[i].nvic /\ ~hw'[i].ienr /\ ~hw'[i].ienf
      BY <3>1
    <3>3. n.slot[i].s = slots[i] /\ n.slot[i].h = hw'[i]
      <4>1. n.slot[i] = [s |-> slots[i], h |-> hw'[i]]
        BY <1>3
      <4>2. QED
        BY <4>1
    <3>4. QED
      BY <3>1, <3>2, <3>3 DEF Idle
  <2>2. CASE Named(World, i)
    BY <1>1, <1>2, <2>2 DEF Named
  <2>3. QED
    BY <2>1, <2>2 DEF GpioInv, Books
<1>8. Books(n)
  BY <1>5, <1>6, <1>7 DEF Books
<1>9. Once(n)
  BY <1>1, <1>2 DEF GpioInv, Once
<1>10. QED
  BY <1>8, <1>9 DEF n

(* A pin changes: edges are detected, nothing is enabled.                  *)
LEMMA ToggleInv ==
  ASSUME GpioInv, NEW p \in Pins, Toggle(p)
  PROVE  GpioInv'
<1>1. /\ hw \in [Slots -> Hardware] /\ high \in [Pins -> BOOLEAN]
  BY DEF GpioInv, GpioTypes
<1>2. \A i \in Slots : /\ [hw[i] EXCEPT !.fall = TRUE] \in Hardware
                      /\ [hw[i] EXCEPT !.rise = TRUE] \in Hardware
  BY <1>1 DEF Hardware
<1>3. hw' \in [Slots -> Hardware]
  BY <1>1, <1>2 DEF Toggle
<1>4. ASSUME NEW i \in Slots
      PROVE  /\ hw'[i].pin = hw[i].pin /\ hw'[i].sel = hw[i].sel
             /\ hw'[i].nvic = hw[i].nvic /\ hw'[i].ienf = hw[i].ienf /\ hw'[i].ienr = hw[i].ienr
  BY <1>1 DEF Toggle, Hardware
<1>5. /\ UNCHANGED <<slots, pending, state, pins, board, listeners, emitting>>
      /\ high' \in [Pins -> BOOLEAN]
  BY <1>1 DEF Toggle
<1>6. Books(World)' /\ Once(World)'
  BY <1>3, <1>4, <1>5, HardwareOnly
<1>7. GpioTypes'
  BY <1>3, <1>5 DEF GpioInv, GpioTypes
<1>8. Armed'
  <2>1. ASSUME NEW q \in Pins, pins[q]["level"] # NULL PROVE pins[q]["level"].id \in Slots
    BY <2>1, WorldIs, SlotKnown DEF GpioInv, Types
  <2>2. QED
    BY <1>4, <1>5, <2>1 DEF GpioInv, Armed
<1>9. QED
  BY <1>6, <1>7, <1>8 DEF GpioInv

(* A level that has fired is off and pending; an edge stays enabled.       *)
LEMMA PlaceInv ==
  ASSUME GpioNullAssumption, GpioInv, NEW i \in Slots, PlaceAwaitingInterrupt(i)
  PROVE  GpioInv'
<1>1. /\ hw \in [Slots -> Hardware] /\ state \in [Slots -> Triggers \ {"high"}]
      /\ hw[i] \in Hardware /\ pending \subseteq Slots /\ hw[i].nvic
  BY DEF GpioInv, GpioTypes, PlaceAwaitingInterrupt, Asserted
<1>2. UNCHANGED <<slots, high, pins, board, listeners, emitting>> /\ pending' = pending \union {i}
  BY DEF PlaceAwaitingInterrupt
<1>3. PICK p \in Pins, t \in Types :
        /\ pins[p][t] # NULL /\ pins[p][t].id = i /\ pins[p][t].mode # {}
        /\ Watching([s |-> slots[i], h |-> hw[i]], p, t, pins[p][t].mode)
  BY <1>1, SlotInUse
<1>4. /\ slots[i].mode = pins[p][t].mode
      /\ t = "level" => slots[i].mode = {"low"} /\ ~hw[i].ienf
  BY <1>3 DEF Watching
<1>5. ASSUME NEW q \in Pins, pins[q]["level"] # NULL
      PROVE  pins[q]["level"].id \in Slots /\ (OnEdges(i) => pins[q]["level"].id # i)
  <2> DEFINE j == pins[q]["level"].id
  <2>1. /\ j \in Slots
        /\ Watching(World.slot[j], q, "level", pins[q]["level"].mode)
    BY <1>5, WorldIs, SlotKnown DEF GpioInv, Types
  <2> HIDE DEF j
  <2>2. slots[j].mode = {"low"}
    BY <2>1, WorldIs DEF Watching, GpioInv
  <2>3. QED
    BY <2>1, <2>2 DEF OnEdges, j
<1>6. CASE OnEdges(i)
  <2>1. /\ state' = [state EXCEPT ![i] = IF "rise" \in Detected(i) THEN "rise" ELSE "fall"]
        /\ hw' = [hw EXCEPT ![i].rise = FALSE, ![i].fall = FALSE]
    BY <1>6 DEF PlaceAwaitingInterrupt
  <2>2. state' \in [Slots -> Triggers \ {"high"}] /\ \A j \in Slots : j # i => state'[j] = state[j]
    BY <1>1, <2>1 DEF Triggers
  <2> DEFINE h == [hw[i] EXCEPT !.rise = FALSE, !.fall = FALSE]
  <2>3. /\ h \in Hardware /\ h.pin = hw[i].pin /\ h.sel = hw[i].sel
        /\ h.nvic = hw[i].nvic /\ h.ienf = hw[i].ienf /\ h.ienr = hw[i].ienr
    BY <1>1 DEF Hardware
  <2>4. hw' = [hw EXCEPT ![i] = h]
    BY <1>1, <2>1
  <2> HIDE DEF h
  <2>5. hw' \in [Slots -> Hardware]
    BY <1>1, <2>3, <2>4
  <2>6. ASSUME NEW j \in Slots
        PROVE  /\ hw'[j].pin = hw[j].pin /\ hw'[j].sel = hw[j].sel
               /\ hw'[j].nvic = hw[j].nvic /\ hw'[j].ienf = hw[j].ienf /\ hw'[j].ienr = hw[j].ienr
    BY <1>1, <2>3, <2>4
  <2>7. Books(World)' /\ Once(World)'
    BY <1>2, <2>5, <2>6, HardwareOnly
  <2>8. GpioTypes'
    BY <1>1, <1>2, <2>2, <2>5 DEF GpioInv, GpioTypes
  <2>9. Armed'
    <3>1. ASSUME NEW q \in Pins, pins[q]["level"] # NULL
          PROVE  LET j == pins[q]["level"].id
                 IN \/ hw'[j].ienr
                    \/ j \in pending' /\ state'[j] = "low"
                    \/ emitting # NULL /\ emitting.pin = q /\ emitting.trigger = "low"
      BY <1>2, <1>5, <1>6, <2>2, <2>6, <3>1 DEF GpioInv, Armed
    <3>2. QED
      BY <1>2, <3>1 DEF Armed
  <2>10. QED
    BY <2>7, <2>8, <2>9 DEF GpioInv
<1>7. CASE ~OnEdges(i)
  <2>1. t = "level"
    <3>1. PICK b \in pins[p][t].mode : TRUE
      BY <1>3
    <3>2. t = "edge" => pins[p][t].mode \subseteq {"rise", "fall"}
      BY <1>3 DEF Watching
    <3>3. QED
      BY <1>4, <1>7, <3>1, <3>2 DEF OnEdges, Types
  <2> DEFINE h == Disable([hw[i] EXCEPT !.ienr = FALSE], slots[i].mode)
  <2>2. state' = [state EXCEPT ![i] = "low"] /\ hw' = [hw EXCEPT ![i] = h]
    BY <1>4, <1>7, <2>1 DEF PlaceAwaitingInterrupt
  <2>3. /\ h \in Hardware /\ h.pin = hw[i].pin /\ h.sel = hw[i].sel
        /\ h.nvic = hw[i].nvic /\ h.ienf = hw[i].ienf
    <3>1. "fall" \notin slots[i].mode
      BY <1>4, <2>1
    <3>2. [hw[i] EXCEPT !.ienr = FALSE] \in Hardware
      BY <1>1 DEF Hardware
    <3>3. QED
      BY <1>1, <3>1, <3>2 DEF Hardware, Disable
  <2> HIDE DEF h
  <2>4. state' \in [Slots -> Triggers \ {"high"}] /\ state'[i] = "low"
        /\ \A j \in Slots : j # i => state'[j] = state[j]
    BY <1>1, <2>2 DEF Triggers
  <2>5. hw' \in [Slots -> Hardware] /\ \A j \in Slots : j # i => hw'[j] = hw[j]
    BY <1>1, <2>2, <2>3
  <2>6. ASSUME NEW j \in Slots
        PROVE  /\ hw'[j].pin = hw[j].pin /\ hw'[j].sel = hw[j].sel
               /\ hw'[j].nvic = hw[j].nvic /\ hw'[j].ienf = hw[j].ienf
               /\ (hw[j].nvic /\ ~OnEdges(j)) \/ hw'[j].ienr = hw[j].ienr
    <3>1. CASE j = i
      BY <1>1, <1>7, <2>2, <2>3, <3>1
    <3>2. CASE j # i
      BY <2>5, <3>2
    <3>3. QED
      BY <3>1, <3>2
  <2>7. Books(World)' /\ Once(World)'
    BY <1>2, <2>5, <2>6, HardwareOnly
  <2>8. GpioTypes'
    BY <1>1, <1>2, <2>4, <2>5 DEF GpioInv, GpioTypes
  <2>9. Armed'
    <3>1. ASSUME NEW q \in Pins, pins[q]["level"] # NULL
          PROVE  LET j == pins[q]["level"].id
                 IN \/ hw'[j].ienr
                    \/ j \in pending' /\ state'[j] = "low"
                    \/ emitting # NULL /\ emitting.pin = q /\ emitting.trigger = "low"
      BY <1>2, <1>5, <2>4, <2>5, <3>1 DEF GpioInv, Armed
    <3>2. QED
      BY <1>2, <3>1 DEF Armed
  <2>10. QED
    BY <2>7, <2>8, <2>9 DEF GpioInv
<1>8. QED
  BY <1>6, <1>7

(* Emitting an event that nobody listens for changes nothing.              *)
LEMMA SameWorld ==
  ASSUME GpioTypes, Become(World)
  PROVE  UNCHANGED <<slots, hw, pins, board, listeners>>
<1>1. slots' = [i \in Slots |-> slots[i]] /\ hw' = [i \in Slots |-> hw[i]]
  BY WorldIs DEF Become
<1>2. slots \in [Slots -> Assignment] /\ hw \in [Slots -> Hardware]
  BY DEF GpioTypes
<1>3. QED
  BY <1>1, <1>2, WorldIs DEF Become

(* A level's event is taken to be emitted on the pin that watches it.      *)
LEMMA FiredInv ==
  ASSUME GpioNullAssumption, QuietModes, GpioInv, NEW i \in Slots, InterruptFired(i)
  PROVE  GpioInv'
<1> DEFINE p == board[i]
           watched == p # NULL /\ pins[p][Type(state[i])] # NULL
<1>1. emitting = NULL /\ pending' = pending \ {i} /\ UNCHANGED <<high, state>>
  BY DEF InterruptFired
<1>2. "change" \notin Modes
  BY DEF QuietModes
<1>3. Emitted(World, p, "change") = World
  BY <1>2 DEF Emitted
<1>4. /\ watched => /\ Become(World)
                    /\ emitting' = [pin |-> p, trigger |-> state[i], callback |-> FALSE]
      /\ ~watched => UNCHANGED <<slots, hw, pins, board, listeners, emitting>>
  <2>1. watched => /\ Become(Emitted(World, p, "change"))
                   /\ emitting' = [pin |-> p, trigger |-> state[i],
                                   callback |-> "change" \in Modes /\ listeners[p]["change"] # "none"]
    BY DEF InterruptFired
  <2>2. ~watched => UNCHANGED <<slots, hw, pins, board, listeners, emitting>>
    BY DEF InterruptFired
  <2>3. ("change" \in Modes /\ listeners[p]["change"] # "none") = FALSE
    BY <1>2
  <2>4. QED
    BY <1>3, <2>1, <2>2, <2>3
<1>5. UNCHANGED <<slots, hw, pins, board, listeners>>
  BY <1>4, SameWorld DEF GpioInv
<1>6. World' = World
  BY <1>5 DEF World
<1>7. board[i] \in Pins \union {NULL} /\ state[i] \in Triggers \ {"high"}
  BY WorldIs DEF GpioInv, GpioTypes, Books, Worlds
<1>8. watched => /\ emitting' \in Emission /\ emitting'.trigger # "high" /\ ~emitting'.callback
                 /\ emitting' # NULL /\ emitting'.pin = p /\ emitting'.trigger = state[i]
  <2>1. watched => [pin |-> p, trigger |-> state[i], callback |-> FALSE] \in Emission
    BY <1>7 DEF Emission
  <2> HIDE DEF watched, p
  <2>2. watched => emitting' \in Emission
    BY <1>4, <2>1
  <2>3. watched => emitting' # NULL
    BY <2>2, GpioNullAssumption
  <2>4. watched => /\ emitting'.pin = p /\ emitting'.trigger = state[i] /\ emitting'.callback = FALSE
    BY <1>4
  <2>5. QED
    BY <1>7, <2>2, <2>3, <2>4
<1> HIDE DEF watched
<1>9. GpioTypes'
  BY <1>1, <1>4, <1>5, <1>8 DEF GpioInv, GpioTypes
<1>10. ASSUME NEW q \in Pins, pins[q]["level"] # NULL
       PROVE  LET j == pins[q]["level"].id
              IN \/ hw[j].ienr
                 \/ j \in pending' /\ state[j] = "low"
                 \/ emitting' # NULL /\ emitting'.pin = q /\ emitting'.trigger = "low"
  <2> DEFINE j == pins[q]["level"].id
  <2>1. hw[j].ienr \/ (j \in pending /\ state[j] = "low")
    BY <1>1, <1>10 DEF GpioInv, Armed
  <2>2. CASE j = i /\ state[j] = "low"
    <3>1. board[j] = q
      BY <1>10, SlotKnown, WorldIs DEF GpioInv, Types
    <3>2. q # NULL
      BY GpioNullAssumption
    <3>3. watched
      BY <1>10, <2>2, <3>1, <3>2 DEF watched, Type
    <3>4. QED
      BY <1>8, <2>2, <3>1, <3>3
  <2>3. CASE ~(j = i /\ state[j] = "low")
    BY <1>1, <2>1, <2>3
  <2>4. QED
    BY <2>2, <2>3
<1>11. Armed'
  BY <1>1, <1>5, <1>10 DEF Armed
<1>12. QED
  BY <1>6, <1>9, <1>11 DEF GpioInv

(* The trigger's once() listener goes, and its level with it.              *)
LEMMA EmitInv ==
  ASSUME GpioNullAssumption, QuietModes, GpioInv, EmitTrigger
  PROVE  GpioInv'
<1> DEFINE p == emitting.pin
           e == emitting.trigger
           n == Emitted(World, p, e)
<1>1. /\ emitting # NULL /\ emitting' = NULL /\ Become(n) /\ UNCHANGED <<high, pending, state>>
      /\ p \in Pins
  BY DEF EmitTrigger, GpioInv, GpioTypes, Emission
<1>2. Books(World) /\ Once(World) /\ GpioTypes /\ Armed
  BY DEF GpioInv
<1>3. /\ Books(n) /\ Once(n) /\ LevelsKept(World, n)
      /\ e = "low" => n.pins[p]["level"] = NULL
  <2>1. CASE e \in Modes /\ World.listeners[p][e] = "once"
    <3>1. n = RemoveMode(Unlisten(World, p, e), p, e)
      BY <2>1 DEF Emitted
    <3> HIDE DEF n, e, p
    <3>2. QED
      BY <1>1, <1>2, <2>1, <3>1, Unheard
  <2>2. CASE ~(e \in Modes /\ World.listeners[p][e] = "once")
    <3>1. n = World
      BY <2>2 DEF Emitted
    <3>2. e = "low" => World.pins[p]["level"] = NULL
      BY <1>1, <1>2, <2>2 DEF Once
    <3> HIDE DEF n
    <3>3. QED
      BY <1>2, <3>1, <3>2 DEF LevelsKept
  <2>3. QED
    BY <2>1, <2>2
<1> HIDE DEF n
<1>4. QED
  BY <1>1, <1>3, Quietly DEF LevelsKept, LevelsServed

(* removeListener(e).                                                      *)
LEMMA RemoveListenerInv ==
  ASSUME GpioNullAssumption, QuietModes, GpioInv, NEW p \in Pins, NEW e \in Modes,
         RemoveListener(p, e)
  PROVE  GpioInv'
<1> DEFINE n == RemoveMode(Unlisten(World, p, e), p, e)
<1>1. Become(n) /\ UNCHANGED <<high, pending, state, emitting>>
  BY DEF RemoveListener
<1>2. Books(n) /\ Once(n) /\ LevelsKept(World, n)
  BY Unheard DEF GpioInv
<1> HIDE DEF n
<1>3. QED
  BY <1>1, <1>2, Quietly DEF LevelsKept, LevelsServed

(* Removing modes of one pin leaves the levels of the others alone.        *)
KeptElsewhere(w, n, p) ==
  /\ n.listeners = w.listeners
  /\ \A q \in Pins \ {p} : n.pins[q]["level"] # NULL =>
       /\ w.pins[q]["level"] # NULL
       /\ n.pins[q]["level"].id = w.pins[q]["level"].id
       /\ n.slot[w.pins[q]["level"].id] = w.slot[w.pins[q]["level"].id]

(* One more of the modes that removeAllListeners() removes.                *)
LEMMA RemoveNext ==
  ASSUME GpioNullAssumption, NEW w, NEW m, Books(m), NEW p \in Pins, NEW e \in Kinds,
         w.listeners[p] = NoListener, KeptElsewhere(w, m, p)
  PROVE  LET n == RemoveMode(m, p, e)
         IN /\ Books(n) /\ KeptElsewhere(w, n, p)
            /\ e = "low" => n.pins[p]["level"] = NULL
<1> DEFINE n == RemoveMode(m, p, e)
<1>1. Silent(m, p, e)
  BY DEF Silent, KeptElsewhere, NoListener
<1>2. Books(n) /\ Removed(m, n, p, e)
  BY <1>1, RemoveModeKeeps
<1> HIDE DEF n
<1>3. KeptElsewhere(w, n, p)
  <2>1. n.listeners = w.listeners
    BY <1>2 DEF Removed, KeptElsewhere
  <2>2. ASSUME NEW q \in Pins \ {p}, n.pins[q]["level"] # NULL
        PROVE  /\ w.pins[q]["level"] # NULL
               /\ n.pins[q]["level"].id = w.pins[q]["level"].id
               /\ n.slot[w.pins[q]["level"].id] = w.slot[w.pins[q]["level"].id]
    <3>1. /\ m.pins[q]["level"] # NULL
          /\ n.pins[q]["level"].id = m.pins[q]["level"].id
          /\ n.slot[m.pins[q]["level"].id] = m.slot[m.pins[q]["level"].id]
      BY <1>2, <2>2 DEF Removed
    <3>2. /\ w.pins[q]["level"] # NULL
          /\ m.pins[q]["level"].id = w.pins[q]["level"].id
          /\ m.slot[w.pins[q]["level"].id] = w.slot[w.pins[q]["level"].id]
      BY <2>2, <3>1 DEF KeptElsewhere
    <3>3. QED
      BY <3>1, <3>2
  <2>3. QED
    BY <2>1, <2>2 DEF KeptElsewhere
<1>4. QED
  BY <1>2, <1>3 DEF Removed, n

(* removeAllListeners().                                                   *)
LEMMA RemoveAllInv ==
  ASSUME GpioNullAssumption, QuietModes, GpioInv, NEW p \in Pins, RemoveAllListeners(p)
  PROVE  GpioInv'
<1> DEFINE w0 == [World EXCEPT !.listeners[p] = NoListener]
           w1 == RemoveMode(w0, p, "rise")
           w2 == RemoveMode(w1, p, "fall")
           w3 == RemoveMode(w2, p, "change")
           w4 == RemoveMode(w3, p, "high")
           w5 == RemoveMode(w4, p, "low")
<1>1. Become(w5) /\ UNCHANGED <<high, pending, state, emitting>>
  BY DEF RemoveAllListeners
<1>2. Books(World) /\ World \in Worlds /\ Once(World)
  BY DEF GpioInv, Books
<1>3. /\ World.listeners \in [Pins -> [Modes -> {"none", "on", "once"}]]
      /\ NoListener \in [Modes -> {"none", "on", "once"}]
  BY <1>2 DEF Worlds, NoListener
<1>4. /\ w0.pins = World.pins /\ w0.slot = World.slot /\ w0.board = World.board
      /\ w0.listeners = [World.listeners EXCEPT ![p] = NoListener]
      /\ w0 \in Worlds
  <2> DEFINE l == [World.listeners EXCEPT ![p] = NoListener]
  <2>1. w0 = [World EXCEPT !.listeners = l]
    OBVIOUS
  <2>2. l \in [Pins -> [Modes -> {"none", "on", "once"}]]
    BY <1>3
  <2> HIDE DEF w0, l
  <2>3. w0 = [slot |-> World.slot, pins |-> World.pins, board |-> World.board, listeners |-> l]
    BY <1>2, <2>1 DEF Worlds
  <2>4. w0 \in Worlds
    BY <1>2, <2>2, <2>3 DEF Worlds
  <2>5. QED
    BY <2>3, <2>4 DEF l
<1>5. Books(w0)
  BY <1>2, <1>4, ListenersApart
<1>6. w0.listeners[p] = NoListener /\ KeptElsewhere(w0, w0, p)
  BY <1>3, <1>4 DEF KeptElsewhere
<1> HIDE DEF w0, w1, w2, w3, w4, w5
<1>7. {"rise", "fall", "change", "high", "low"} \subseteq Kinds
  BY DEF Kinds
<1>8. Books(w1) /\ KeptElsewhere(w0, w1, p)
  BY <1>5, <1>6, <1>7, RemoveNext DEF w1
<1>9. Books(w2) /\ KeptElsewhere(w0, w2, p)
  BY <1>6, <1>7, <1>8, RemoveNext DEF w2
<1>10. Books(w3) /\ KeptElsewhere(w0, w3, p)
  BY <1>6, <1>7, <1>9, RemoveNext DEF w3
<1>11. Books(w4) /\ KeptElsewhere(w0, w4, p)
  BY <1>6, <1>7, <1>10, RemoveNext DEF w4
<1>12. Books(w5) /\ KeptElsewhere(w0, w5, p) /\ w5.pins[p]["level"] = NULL
  BY <1>6, <1>7, <1>11, RemoveNext DEF w5
<1>13. LevelsKept(World, w5)
  BY <1>4, <1>12 DEF LevelsKept, KeptElsewhere
<1>14. Once(w5)
  BY <1>2, <1>3, <1>4, <1>12, <1>13 DEF Once, KeptElsewhere, LevelsKept
<1>15. QED
  BY <1>1, <1>12, <1>13, <1>14, Quietly DEF LevelsKept, LevelsServed

(* The first free slot is one of the free slots.                           *)
LEMMA LeastSlot ==
  ASSUME NEW S, S \subseteq Slots, S # {}
  PROVE  Lowest(S) \in S
<1> DEFINE R == OpToRel(<, Nat)
<1>1. IsWellFoundedOn(R, Nat)
  BY NatLessThanWellFounded
<1>2. \A x, y \in Nat : y < x => <<y, x>> \in R
  BY DEF OpToRel
<1> HIDE DEF R
<1>3. S \subseteq Nat
  BY GpioAssumption DEF Slots
<1>4. PICK x \in S : \A y \in S : ~ (<<y, x>> \in R)
  BY <1>1, <1>3, WFMin
<1>5. ASSUME NEW y \in S PROVE x <= y
  <2>1. x \in Nat /\ y \in Nat
    BY <1>3
  <2>2. ~(y < x)
    BY <1>2, <1>4, <2>1
  <2>3. QED
    BY <2>1, <2>2
<1>6. \E i \in S : \A j \in S : i <= j
  BY <1>5
<1>7. QED
  BY <1>6 DEF Lowest

(* A record that gains a mode, or is new, and its slot.                    *)
LEMMA RecordAndSlot ==
  ASSUME NEW w, NEW p, NEW t, NEW m, NEW i, NEW s
  PROVE  /\ [w EXCEPT !.pins[p][t].mode = m, !.slot[i] = s]
              = [w EXCEPT !.pins = [w.pins EXCEPT ![p][t].mode = m],
                          !.slot = [w.slot EXCEPT ![i] = s]]
         /\ [w EXCEPT !.pins[p][t] = m, !.board[i] = p, !.slot[i] = s]
              = [w EXCEPT !.pins = [w.pins EXCEPT ![p][t] = m], !.board = [w.board EXCEPT ![i] = p],
                          !.slot = [w.slot EXCEPT ![i] = s]]
OBVIOUS

Changed(w, f, g) == [w EXCEPT !.pins = f, !.slot = g]
Taken(w, f, b, g) == [w EXCEPT !.pins = f, !.board = b, !.slot = g]

LEMMA NewWorld ==
  ASSUME NEW w \in Worlds, NEW f \in [Pins -> Records], NEW g \in [Slots -> Slot],
         NEW b \in [Slots -> Pins \union {NULL}]
  PROVE  LET n == Changed(w, f, g)
             m == Taken(w, f, b, g)
         IN /\ n \in Worlds /\ n.pins = f /\ n.slot = g /\ n.board = w.board
            /\ n.listeners = w.listeners
            /\ m \in Worlds /\ m.pins = f /\ m.slot = g /\ m.board = b
            /\ m.listeners = w.listeners
<1>1. /\ w.board \in [Slots -> Pins \union {NULL}]
      /\ w.listeners \in [Pins -> [Modes -> {"none", "on", "once"}]]
  BY DEF Worlds
<1> DEFINE x == [w EXCEPT !.pins = f]
           y == [x EXCEPT !.board = b]
           n == [x EXCEPT !.slot = g]
           m == [y EXCEPT !.slot = g]
<1>2. x = [slot |-> w.slot, pins |-> f, board |-> w.board, listeners |-> w.listeners]
  BY DEF Worlds
<1>3. x \in Worlds
  BY <1>1, <1>2 DEF Worlds
<1> HIDE DEF x
<1>4. n = [slot |-> g, pins |-> f, board |-> w.board, listeners |-> w.listeners]
  BY <1>2, <1>3 DEF Worlds
<1>5. y = [slot |-> x.slot, pins |-> f, board |-> b, listeners |-> w.listeners]
  BY <1>2, <1>3 DEF Worlds
<1>6. x.slot = w.slot /\ w.slot \in [Slots -> Slot]
  BY <1>2 DEF Worlds
<1>7. y \in Worlds
  BY <1>1, <1>5, <1>6 DEF Worlds
<1> HIDE DEF y
<1>8. m = [slot |-> g, pins |-> f, board |-> b, listeners |-> w.listeners]
  BY <1>5, <1>7 DEF Worlds
<1> HIDE DEF n, m
<1>9. n \in Worlds /\ n.pins = f /\ n.slot = g /\ n.board = w.board /\ n.listeners = w.listeners
  BY <1>1, <1>4 DEF Worlds
<1>10. m \in Worlds /\ m.pins = f /\ m.slot = g /\ m.board = b /\ m.listeners = w.listeners
  BY <1>1, <1>8 DEF Worlds
<1>11. n = Changed(w, f, g)
  BY DEF n, x, Changed
<1>12. m = Taken(w, f, b, g)
  BY DEF m, y, x, Taken
<1>13. QED
  BY <1>9, <1>10, <1>11, <1>12

(* on() and once(): the mode is watched already, it joins the other edge   *)
(* of its record, a free slot takes it, or there is none and only the      *)
(* listener is added.                                                      *)
LEMMA ListenInv ==
  ASSUME GpioNullAssumption, QuietModes, GpioInv, NEW p \in Pins, NEW e \in Modes,
         NEW how \in {"on", "once"}, Listen(p, e, how)
  PROVE  GpioInv'
<1> DEFINE t == Type(e)
           r == pins[p][t]
           i == Lowest(Free)
           mode == r.mode \union Flags(e)
           added == [World EXCEPT !.listeners[p][e] = how]
<1>1. /\ listeners[p][e] = "none" /\ (how = "on" => t = "edge")
      /\ UNCHANGED <<high, pending, state, emitting>>
      /\ \/ r # NULL /\ r.mode = Flags(e) /\ Become(added)
         \/ /\ r # NULL /\ r.mode # Flags(e)
            /\ Become([added EXCEPT !.pins[p][t].mode = mode,
                                    !.slot[r.id] = Watch(@, p, mode)])
         \/ /\ r = NULL /\ Free # {}
            /\ Become([added EXCEPT !.pins[p][t] = [mode |-> Flags(e), id |-> i],
                                    !.board[i] = p,
                                    !.slot[i] = Watch(@, p, Flags(e))])
         \/ r = NULL /\ Become(added)
  BY DEF Listen
<1>2. /\ e \in {"rise", "fall", "low"} /\ e \in Kinds /\ Flags(e) = {e} /\ t \in Types
      /\ e = "low" => t = "level"
      /\ e # "low" => t = "edge"
  BY DEF QuietModes, Flags, Type, Types, Kinds
<1> HIDE DEF t
<1>3. /\ Books(World) /\ World \in Worlds /\ Once(World)
      /\ World.pins = pins /\ World.board = board /\ World.listeners = listeners
      /\ World.pins \in [Pins -> Records] /\ World.slot \in [Slots -> Slot]
      /\ World.board \in [Slots -> Pins \union {NULL}]
      /\ listeners \in [Pins -> [Modes -> {"none", "on", "once"}]]
      /\ \A j \in Slots : World.slot[j].s = slots[j] /\ World.slot[j].h = hw[j]
  BY WorldIs DEF GpioInv, Books, Worlds
<1>4. /\ Books(added) /\ added.pins = pins /\ added.slot = World.slot /\ added.board = board
      /\ added.listeners \in [Pins -> [Modes -> {"none", "on", "once"}]]
      /\ added.listeners = [listeners EXCEPT ![p][e] = how]
      /\ added \in Worlds
  <2> DEFINE l == [listeners EXCEPT ![p][e] = how]
  <2>1. l \in [Pins -> [Modes -> {"none", "on", "once"}]]
    BY <1>3
  <2>2. added = [World EXCEPT !.listeners = l]
    BY <1>3
  <2> HIDE DEF added, l
  <2>3. added = [slot |-> World.slot, pins |-> World.pins, board |-> World.board, listeners |-> l]
    BY <1>3, <2>2 DEF Worlds
  <2>4. added \in Worlds
    BY <1>3, <2>1, <2>3 DEF Worlds
  <2>5. /\ added.pins = World.pins /\ added.slot = World.slot /\ added.board = World.board
        /\ added.listeners = l
    BY <2>3
  <2>6. Books(added)
    BY <1>3, <2>4, <2>5, ListenersApart
  <2>7. QED
    BY <1>3, <2>1, <2>4, <2>5, <2>6 DEF l
<1>5. \A q \in Pins : pins[q]["level"] # NULL =>
                        "low" \in Modes /\ added.listeners[q]["low"] = "once"
  BY <1>1, <1>3, <1>4 DEF Once
<1> HIDE DEF added
<1>6. ASSUME Become(added) PROVE GpioInv'
  <2>1. Once(added)
    BY <1>4, <1>5 DEF Once
  <2>2. LevelsServed(World, added)
    BY <1>3, <1>4 DEF LevelsServed
  <2>3. QED
    BY <1>1, <1>4, <1>6, <2>1, <2>2, Quietly
<1>7. ASSUME r # NULL, r.mode # Flags(e),
             Become([added EXCEPT !.pins[p][t].mode = mode, !.slot[r.id] = Watch(@, p, mode)])
      PROVE  GpioInv'
  <2> DEFINE v == [mode |-> mode, id |-> r.id]
             s == Watch(World.slot[r.id], p, mode)
             f == [pins EXCEPT ![p][t] = v]
             g == [World.slot EXCEPT ![r.id] = s]
             n == [added EXCEPT !.pins = f, !.slot = g]
  <2>1. /\ r \in Record /\ r.id \in Slots /\ r.mode # {} /\ board[r.id] = p
        /\ World.slot[r.id] \in Slot /\ Watching(World.slot[r.id], p, t, r.mode)
    BY <1>2, <1>3, <1>7, SlotKnown
  <2>2. e # "low" /\ t = "edge"
    BY <1>2, <1>7, <2>1 DEF Watching
  <2>3. mode \subseteq {"rise", "fall"} /\ e \in mode
    BY <1>2, <2>1, <2>2 DEF Watching
  <2>4. /\ World.slot[r.id].h.ienr => "rise" \in mode
        /\ World.slot[r.id].h.ienf => "fall" \in mode
    BY <2>1, <2>2 DEF Watching
  <2> HIDE DEF mode, r
  <2>5. s \in Slot /\ Watching(s, p, "edge", mode)
    BY <2>1, <2>3, <2>4, WatchEdges
  <2>6. v \in Record /\ v # NULL /\ v.mode = mode /\ v.id = r.id
    <3>1. mode \in (SUBSET {"rise", "fall", "high", "low"}) \ {{}}
      BY <2>3
    <3>2. v \in Record
      BY <2>1, <3>1 DEF Record
    <3>3. QED
      BY <3>2, GpioNullAssumption
  <2> HIDE DEF v, s
  <2>7. [added EXCEPT !.pins[p][t].mode = mode, !.slot[r.id] = Watch(@, p, mode)] = n
    <3>1. [r EXCEPT !.mode = mode] = v
      BY <2>1 DEF v, Record
    <3>2. [pins EXCEPT ![p][t].mode = mode] = f
      BY <3>1 DEF r
    <3>4. [added EXCEPT !.pins[p][t].mode = mode, !.slot[r.id] = s]
            = [added EXCEPT !.pins = [added.pins EXCEPT ![p][t].mode = mode],
                            !.slot = [added.slot EXCEPT ![r.id] = s]]
      BY RecordAndSlot
    <3>3. added.pins = pins /\ added.slot = World.slot
      BY <1>4
    <3>6. Watch(added.slot[r.id], p, mode) = s
      BY <1>4 DEF s
    <3>5. QED
      BY <3>2, <3>3, <3>4, <3>6
  <2> HIDE DEF f, g
  <2>8. /\ f \in [Pins -> Records]
        /\ \A q \in Pins, u \in Types : f[q][u] = IF q = p /\ u = t THEN v ELSE pins[q][u]
    BY <1>2, <1>3, <2>6, RecordChanged DEF f
  <2>9. g \in [Slots -> Slot] /\ \A j \in Slots : j # r.id => g[j] = World.slot[j]
    BY <1>3, <2>1, <2>5 DEF g
  <2>10. /\ n \in Worlds /\ n.pins = f /\ n.slot = g /\ n.board = board
         /\ n.listeners = added.listeners
    <3>1. added \in Worlds /\ added.board = board /\ board \in [Slots -> Pins \union {NULL}]
      BY <1>3, <1>4
    <3> HIDE DEF n
    <3>2. n = Changed(added, f, g)
      BY DEF n, Changed
    <3>3. QED
      BY <2>8, <2>9, <3>1, <3>2, NewWorld
  <2> HIDE DEF n
  <2>11. Books(n)
    <3>1. n.board[r.id] = p /\ \A j \in Slots : j # r.id => n.board[j] = World.board[j]
      BY <1>3, <2>1, <2>10
    <3>2. World.pins[p][t] # NULL /\ World.pins[p][t].id = r.id
      BY <1>3, <1>7 DEF r
    <3>3. n.pins = [World.pins EXCEPT ![p][t] = v] /\ n.slot = [World.slot EXCEPT ![r.id] = s]
      BY <1>3, <2>10 DEF f, g
    <3>4. v # NULL => v.id = r.id /\ Watching(s, p, t, v.mode)
      BY <2>2, <2>5, <2>6
    <3>5. v \in Record \union {NULL} /\ r.id \in Slots /\ s \in Slot /\ n \in Worlds
      BY <2>1, <2>5, <2>6, <2>10
    <3>6. Books(World) /\ t \in Types
      BY <1>2, <1>3
    <3>7. OneChange(World, n, p, t, r.id, v, s)
      BY <2>6, <3>1, <3>2, <3>3, <3>4 DEF OneChange
    <3>8. QED
      BY <3>5, <3>6, <3>7, OneChanged
  <2>12. \A q \in Pins : n.pins[q]["level"] = pins[q]["level"]
    BY <2>2, <2>8, <2>10 DEF Types
  <2>13. Once(n)
    BY <1>5, <2>10, <2>12 DEF Once
  <2>14. LevelsServed(World, n)
    <3>1. ASSUME NEW q \in Pins, pins[q]["level"] # NULL
          PROVE  pins[q]["level"].id \in Slots /\ pins[q]["level"].id # r.id
      <4>1. pins[q]["level"].id \in Slots
        BY <1>3, <3>1, SlotKnown DEF Types
      <4>2. pins[q]["level"].id # r.id
        BY <1>2, <1>3, <1>7, <2>2, <3>1, OneRecord DEF Types, r
      <4>3. QED
        BY <4>1, <4>2
    <3>2. QED
      BY <1>3, <2>9, <2>10, <2>12, <3>1 DEF LevelsServed
  <2>15. QED
    BY <1>1, <1>7, <2>7, <2>11, <2>13, <2>14, Quietly
<1>8. ASSUME r = NULL, Free # {},
             Become([added EXCEPT !.pins[p][t] = [mode |-> Flags(e), id |-> i],
                                  !.board[i] = p,
                                  !.slot[i] = Watch(@, p, Flags(e))])
      PROVE  GpioInv'
  <2> DEFINE v == [mode |-> {e}, id |-> i]
             s == Watch(World.slot[i], p, {e})
             f == [pins EXCEPT ![p][t] = v]
             g == [World.slot EXCEPT ![i] = s]
             b == [board EXCEPT ![i] = p]
             n == [added EXCEPT !.pins = f, !.board = b, !.slot = g]
  <2>1. i \in Free
    BY <1>8, LeastSlot DEF Free
  <2> HIDE DEF i
  <2>2. i \in Slots /\ World.slot[i].s.pin = NULL /\ World.slot[i] \in Slot
    BY <1>3, <2>1 DEF Free
  <2>3. ~Named(World, i)
    <3>1. ASSUME NEW q \in Pins, NEW u \in Types, World.pins[q][u] # NULL, World.pins[q][u].id = i
          PROVE  FALSE
      <4>3. Watching(World.slot[World.pins[q][u].id], q, u, World.pins[q][u].mode)
        BY <1>3, <3>1, SlotKnown
      <4>1. World.slot[i].s.pin = q
        BY <3>1, <4>3 DEF Watching
      <4>2. QED
        BY <2>2, <4>1, GpioNullAssumption
    <3>2. QED
      BY <3>1 DEF Named
  <2>4. Idle(World.slot[i])
    BY <1>3, <2>2, <2>3 DEF Books
  <2>5. s \in Slot /\ Watching(s, p, t, {e}) /\ (t = "level" => s.h.ienr)
    <3>1. CASE e = "low"
      BY <1>2, <2>2, <3>1, WatchLevel
    <3>2. CASE e # "low"
      <4>1. {e} \in (SUBSET {"rise", "fall"}) \ {{}}
        BY <1>2, <3>2
      <4>2. ~World.slot[i].h.ienr /\ ~World.slot[i].h.ienf
        BY <2>4 DEF Idle
      <4>3. s \in Slot /\ Watching(s, p, "edge", {e})
        BY <2>2, <4>1, <4>2, WatchEdges
      <4>4. QED
        BY <1>2, <3>2, <4>3
    <3>3. QED
      BY <3>1, <3>2
  <2>6. v \in Record /\ v # NULL /\ v.mode = {e} /\ v.id = i
    <3>1. {e} \in (SUBSET {"rise", "fall", "high", "low"}) \ {{}}
      BY <1>2
    <3>2. v \in Record
      BY <2>2, <3>1 DEF Record
    <3>3. QED
      BY <3>2, GpioNullAssumption
  <2> HIDE DEF v, s
  <2>7. [added EXCEPT !.pins[p][t] = [mode |-> Flags(e), id |-> i], !.board[i] = p,
                      !.slot[i] = Watch(@, p, Flags(e))] = n
    <3>1. added.pins = pins /\ added.slot = World.slot /\ added.board = board
      BY <1>4
    <3>2. [added EXCEPT !.pins[p][t] = v, !.board[i] = p, !.slot[i] = s] = n
      <4>1. [added EXCEPT !.pins[p][t] = v, !.board[i] = p, !.slot[i] = s]
              = [added EXCEPT !.pins = [added.pins EXCEPT ![p][t] = v],
                              !.board = [added.board EXCEPT ![i] = p],
                              !.slot = [added.slot EXCEPT ![i] = s]]
        BY RecordAndSlot
      <4>2. QED
        BY <3>1, <4>1
    <3>3. Watch(added.slot[i], p, {e}) = s
      BY <1>4 DEF s
    <3>4. QED
      BY <1>2, <3>2, <3>3 DEF v
  <2> HIDE DEF f, g, b
  <2>8. /\ f \in [Pins -> Records]
        /\ \A q \in Pins, u \in Types : f[q][u] = IF q = p /\ u = t THEN v ELSE pins[q][u]
    BY <1>2, <1>3, <2>6, RecordChanged DEF f
  <2>9. /\ g \in [Slots -> Slot] /\ g[i] = s
        /\ \A j \in Slots : j # i => g[j] = World.slot[j]
        /\ b \in [Slots -> Pins \union {NULL}] /\ b[i] = p
        /\ \A j \in Slots : j # i => b[j] = World.board[j]
    BY <1>3, <2>2, <2>5 DEF g, b
  <2>10. /\ n \in Worlds /\ n.pins = f /\ n.slot = g /\ n.board = b
         /\ n.listeners = added.listeners
    <3>1. added \in Worlds
      BY <1>4
    <3> HIDE DEF n
    <3>2. n = Taken(added, f, b, g)
      BY DEF n, Taken
    <3>3. QED
      BY <2>8, <2>9, <3>1, <3>2, NewWorld
  <2> HIDE DEF n
  <2>11. Books(n)
    <3>1. n.board[i] = p /\ \A j \in Slots : j # i => n.board[j] = World.board[j]
      BY <2>9, <2>10
    <3>2. /\ World.pins[p][t] = NULL => ~Named(World, i)
          /\ World.pins[p][t] # NULL => World.pins[p][t].id = i
      BY <1>3, <1>8, <2>3
    <3>3. n.pins = [World.pins EXCEPT ![p][t] = v] /\ n.slot = [World.slot EXCEPT ![i] = s]
      BY <1>3, <2>10 DEF f, g
    <3>4. v # NULL => v.id = i /\ Watching(s, p, t, v.mode)
      BY <2>5, <2>6
    <3>5. v \in Record \union {NULL} /\ i \in Slots /\ s \in Slot /\ n \in Worlds
      BY <2>2, <2>5, <2>6, <2>10
    <3>6. Books(World) /\ t \in Types
      BY <1>2, <1>3
    <3>7. OneChange(World, n, p, t, i, v, s)
      BY <2>6, <3>1, <3>2, <3>3, <3>4 DEF OneChange
    <3>8. QED
      BY <3>5, <3>6, <3>7, OneChanged
  <2>12. ASSUME NEW q \in Pins, n.pins[q]["level"] # NULL
         PROVE  /\ "low" \in Modes /\ n.listeners[q]["low"] = "once"
                /\ \/ n.slot[n.pins[q]["level"].id].h.ienr
                   \/ /\ World.pins[q]["level"] # NULL
                      /\ n.pins[q]["level"].id = World.pins[q]["level"].id
                      /\ n.slot[World.pins[q]["level"].id] = World.slot[World.pins[q]["level"].id]
    <3>1. CASE q = p /\ t = "level"
      <4>1. n.pins[q]["level"] = v /\ n.slot[i] = s
        BY <2>8, <2>9, <2>10, <3>1 DEF Types
      <4>2. e = "low" /\ how = "once"
        BY <1>1, <1>2, <3>1
      <4>3. n.listeners[q]["low"] = "once"
        BY <1>3, <1>4, <2>10, <3>1, <4>2
      <4>4. QED
        BY <2>5, <2>6, <3>1, <4>1, <4>2, <4>3
    <3>2. CASE ~(q = p /\ t = "level")
      <4>1. n.pins[q]["level"] = pins[q]["level"]
        BY <2>8, <2>10, <3>2 DEF Types
      <4>2. pins[q]["level"].id \in Slots
        BY <1>3, <2>12, <4>1, SlotKnown DEF Types
      <4>3. pins[q]["level"].id # i
        BY <1>3, <2>3, <2>12, <4>1 DEF Named, Types
      <4>4. QED
        BY <1>3, <1>5, <2>9, <2>10, <2>12, <4>1, <4>2, <4>3
    <3>3. QED
      BY <3>1, <3>2
  <2>13. Once(n) /\ LevelsServed(World, n)
    BY <2>12 DEF Once, LevelsServed
  <2>14. QED
    BY <1>1, <1>8, <2>7, <2>11, <2>13, Quietly
<1>9. QED
  BY <1>1, <1>6, <1>7, <1>8

(* Unwatched in its own mode and in mode -1, a slot is as at power-on.     *)
LEMMA UnwatchTwice ==
  ASSUME NEW slot \in Slot
  PROVE  LET n == Unwatch(Unwatch(slot, slot.s.mode), NoAssignment.mode)
         IN n \in Slot /\ Idle(n)
<1> DEFINE h1 == [Disable(slot.h, slot.s.mode) EXCEPT !.nvic = FALSE]
           h2 == [Disable(h1, NoAssignment.mode) EXCEPT !.nvic = FALSE]
           off == [s |-> NoAssignment, h |-> h1]
<1>1. slot.s \in Assignment /\ slot.h \in Hardware /\ NoAssignment \in Assignment
  BY DEF Slot, NoAssignment, Assignment
<1>2. Disable(slot.h, slot.s.mode) \in Hardware
  BY <1>1 DEF Disable, Hardware
<1>3. h1 \in Hardware
  BY <1>2 DEF Hardware
<1>4. Unwatch(slot, slot.s.mode) = off
  <2>1. slot.s.mode \ slot.s.mode = {}
    OBVIOUS
  <2>2. QED
    BY <2>1 DEF Unwatch
<1> HIDE DEF h1
<1>5. Disable(h1, NoAssignment.mode) \in Hardware
  BY <1>3 DEF Disable, Hardware
<1>6. ~Disable(h1, NoAssignment.mode).ienr /\ ~Disable(h1, NoAssignment.mode).ienf
  <2>1. /\ NoAssignment.mode \cap {"rise", "high", "low"} # {}
        /\ "fall" \in NoAssignment.mode
    BY DEF NoAssignment
  <2>2. QED
    BY <1>3, <2>1 DEF Disable, Hardware
<1>7. h2 \in Hardware /\ ~h2.ienr /\ ~h2.ienf /\ ~h2.nvic
  BY <1>5, <1>6 DEF Hardware
<1>8. Unwatch(off, NoAssignment.mode) = [s |-> NoAssignment, h |-> h2]
  <2>1. off.s = NoAssignment /\ off.h = h1
    OBVIOUS
  <2>2. NoAssignment.mode \ NoAssignment.mode = {}
    OBVIOUS
  <2>3. QED
    BY <2>1, <2>2 DEF Unwatch
<1> HIDE DEF h2, off
<1>9. QED
  BY <1>1, <1>4, <1>7, <1>8 DEF Slot, Idle

(* A new script finds all slots idle.                                      *)
LEMMA RestartInv ==
  ASSUME GpioNullAssumption, GpioInv, Restart
  PROVE  GpioInv'
<1> DEFINE slot(i) ==
             Unwatch(Unwatch([s |-> slots[i], h |-> hw[i]], slots[i].mode), NoAssignment.mode)
           n == [slot |-> [i \in Slots |-> slot(i)],
                 pins |-> [p \in Pins |-> [edge |-> NULL, level |-> NULL]],
                 board |-> [i \in Slots |-> NULL],
                 listeners |-> [p \in Pins |-> NoListener]]
<1>1. /\ Become(n) /\ emitting = NULL /\ pending' \in SUBSET pending
      /\ UNCHANGED <<high, state, emitting>>
  BY DEF Restart
<1>2. ASSUME NEW i \in Slots PROVE slot(i) \in Slot /\ Idle(slot(i))
  <2> DEFINE x == [s |-> slots[i], h |-> hw[i]]
  <2>1. x \in Slot /\ x.s.mode = slots[i].mode
    BY DEF GpioInv, GpioTypes, Slot
  <2> HIDE DEF x
  <2>2. slot(i) = Unwatch(Unwatch(x, x.s.mode), NoAssignment.mode)
    BY <2>1 DEF x
  <2>3. QED
    BY <2>1, <2>2, UnwatchTwice
<1> HIDE DEF slot
<1>3. /\ n.pins = [p \in Pins |-> [edge |-> NULL, level |-> NULL]]
      /\ \A i \in Slots : n.slot[i] = slot(i)
  OBVIOUS
<1>4. n \in Worlds
  <2>1. [edge |-> NULL, level |-> NULL] \in Records
    BY DEF Records
  <2>2. NoListener \in [Modes -> {"none", "on", "once"}]
    BY DEF NoListener
  <2>3. [i \in Slots |-> slot(i)] \in [Slots -> Slot]
    BY <1>2
  <2>4. QED
    BY <2>1, <2>2, <2>3 DEF Worlds
<1> HIDE DEF n
<1>5. \A p \in Pins, t \in Types : n.pins[p][t] = NULL
  BY <1>3 DEF Types
<1>6. Books(n) /\ Once(n)
  BY <1>2, <1>3, <1>4, <1>5 DEF Books, Once, Types
<1>7. /\ World' = n
      /\ slots' \in [Slots -> Assignment] /\ hw' \in [Slots -> Hardware] /\ pins' = n.pins
  BY <1>1, <1>4, Becoming
<1>8. GpioTypes'
  BY <1>1, <1>7 DEF GpioInv, GpioTypes
<1>9. Armed'
  BY <1>5, <1>7 DEF Armed, Types
<1>10. QED
  BY <1>6, <1>7, <1>8, <1>9 DEF GpioInv

(* Every step keeps the invariant.                                         *)
LEMMA GpioStep ==
  ASSUME GpioNullAssumption, QuietModes, GpioInv, [GpioNext]_gpioVars
  PROVE  GpioInv'
<1>1. ASSUME NEW p \in Pins, Toggle(p) PROVE GpioInv'
  BY <1>1, ToggleInv
<1>2. ASSUME NEW p \in Pins, RemoveAllListeners(p) PROVE GpioInv'
  BY <1>2, RemoveAllInv
<1>3. ASSUME NEW p \in Pins, NEW e \in Modes, RemoveListener(p, e) PROVE GpioInv'
  BY <1>3, RemoveListenerInv
<1>4. ASSUME NEW p \in Pins, NEW e \in Modes, NEW how \in {"on", "once"}, Listen(p, e, how)
      PROVE  GpioInv'
  BY <1>4, ListenInv
<1>5. ASSUME NEW i \in Slots, PlaceAwaitingInterrupt(i) PROVE GpioInv'
  BY <1>5, PlaceInv
<1>6. ASSUME NEW i \in Slots, InterruptFired(i) PROVE GpioInv'
  BY <1>6, FiredInv
<1>7. CASE EmitTrigger
  BY <1>7, EmitInv
<1>8. CASE Restart
  BY <1>8, RestartInv
<1>9. CASE UNCHANGED gpioVars
  <2>1. World' = World
    BY <1>9 DEF gpioVars, World
  <2>2. GpioTypes' /\ Armed'
    BY <1>9 DEF gpioVars, GpioInv, GpioTypes, Armed
  <2>3. QED
    BY <2>1, <2>2 DEF GpioInv
<1>10. QED
  BY <1>1, <1>2, <1>3, <1>4, <1>5, <1>6, <1>7, <1>8, <1>9 DEF GpioNext

-----------------------------------------------------------------------------
(* What the invariant says.                                                *)

(* A slot is free and silent, or watches for the record that names it.     *)
LEMMA SlotState ==
  ASSUME GpioNullAssumption, GpioInv, NEW i \in Slots
  PROVE  \/ slots[i] = NoAssignment /\ ~hw[i].nvic
         \/ \E p \in Pins, t \in Types :
              /\ pins[p][t] # NULL /\ pins[p][t].id = i /\ slots[i].pin = p
              /\ slots[i].mode \subseteq {"rise", "fall", "low"}
              /\ t = "edge" => /\ hw[i].sel = "edge" /\ slots[i].mode = pins[p][t].mode
                               /\ hw[i].ienr <=> "rise" \in slots[i].mode
                               /\ hw[i].ienf <=> "fall" \in slots[i].mode
              /\ t = "level" => slots[i].mode = {"low"}
<1>1. /\ World.pins = pins /\ World.slot[i].s = slots[i] /\ World.slot[i].h = hw[i]
      /\ Books(World)
  BY WorldIs DEF GpioInv
<1>2. CASE Idle(World.slot[i])
  BY <1>1, <1>2 DEF Idle
<1>3. CASE Named(World, i)
  <2>1. PICK p \in Pins, t \in Types : World.pins[p][t] # NULL /\ World.pins[p][t].id = i
    BY <1>3 DEF Named
  <2>2. Watching(World.slot[World.pins[p][t].id], p, t, World.pins[p][t].mode)
    BY <1>1, <2>1, SlotKnown
  <2>3. Watching(World.slot[i], p, t, pins[p][t].mode)
    BY <1>1, <2>1, <2>2
  <2>4. /\ slots[i].pin = p /\ slots[i].mode = pins[p][t].mode /\ hw[i].sel = t
        /\ t = "edge" => /\ slots[i].mode \subseteq {"rise", "fall"}
                         /\ hw[i].ienr <=> "rise" \in slots[i].mode
                         /\ hw[i].ienf <=> "fall" \in slots[i].mode
        /\ t = "level" => slots[i].mode = {"low"}
    BY <1>1, <2>3 DEF Watching
  <2>5. slots[i].mode \subseteq {"rise", "fall", "low"}
    BY <2>4 DEF Types
  <2>6. QED
    BY <1>1, <2>1, <2>4, <2>5
<1>4. QED
  BY <1>1, <1>2, <1>3 DEF Books

(* The invariant implies the properties.                                   *)
LEMMA GpioTypeOf == GpioNullAssumption /\ GpioInv => GpioTypeOK
<1> SUFFICES ASSUME GpioNullAssumption, GpioInv PROVE GpioTypeOK
  OBVIOUS
<1>1. ASSUME NEW i \in Slots PROVE slots[i].pin = NULL <=> slots[i].mode = NoAssignment.mode
  <2>1. CASE slots[i] = NoAssignment
    BY <2>1 DEF NoAssignment
  <2>2. ASSUME NEW p \in Pins, slots[i].pin = p, slots[i].mode \subseteq {"rise", "fall", "low"}
        PROVE  slots[i].pin # NULL /\ slots[i].mode # NoAssignment.mode
    <3>1. slots[i].pin # NULL
      BY <2>2, GpioNullAssumption
    <3>2. "rest" \in NoAssignment.mode
      BY DEF NoAssignment
    <3>3. QED
      BY <2>2, <3>1, <3>2
  <2>3. QED
    BY <2>1, <2>2, SlotState
<1>2. pins \in [Pins -> Records] /\ board \in [Slots -> Pins \union {NULL}]
      /\ listeners \in [Pins -> [Modes -> {"none", "on", "once"}]]
  BY WorldIs DEF GpioInv, Books, Worlds
<1>3. /\ slots \in [Slots -> Assignment] /\ hw \in [Slots -> Hardware] /\ high \in [Pins -> BOOLEAN]
      /\ pending \subseteq Slots /\ state \in [Slots -> Triggers] /\ emitting \in Emission \union {NULL}
  BY DEF GpioInv, GpioTypes
<1>4. QED
  BY <1>1, <1>2, <1>3 DEF GpioTypeOK

LEMMA GpioBooks == GpioNullAssumption /\ GpioInv => BooksAgree
<1> SUFFICES ASSUME GpioNullAssumption, GpioInv PROVE BooksAgree
  OBVIOUS
<1>0. /\ World.pins = pins /\ World.board = board /\ Books(World)
      /\ \A i \in Slots : World.slot[i].s = slots[i] /\ World.slot[i].h = hw[i]
  BY WorldIs DEF GpioInv
<1>1. ASSUME NEW p \in Pins, NEW t \in {"edge", "level"}, pins[p][t] # NULL
      PROVE  LET r == pins[p][t]
                 h == hw[r.id]
             IN /\ board[r.id] = p
                /\ slots[r.id] = [pin |-> p, mode |-> r.mode]
                /\ h.pin = p /\ h.sel = t /\ h.nvic
                /\ t = "edge" => (h.ienr <=> "rise" \in r.mode) /\ (h.ienf <=> "fall" \in r.mode)
                /\ t = "level" => h.ienr \/ r.id \in pending \/ (emitting # NULL /\ emitting.pin = p)
  <2> DEFINE r == pins[p][t]
             i == r.id
  <2>1. /\ i \in Slots /\ board[i] = p
        /\ Watching(World.slot[i], p, t, r.mode)
    BY <1>0, <1>1, SlotKnown DEF Types
  <2>2. t = "level" => hw[i].ienr \/ i \in pending \/ (emitting # NULL /\ emitting.pin = p)
    BY <1>1 DEF GpioInv, Armed
  <2> HIDE DEF i, r
  <2>3. World.slot[i].s = slots[i] /\ World.slot[i].h = hw[i]
    BY <1>0, <2>1
  <2>4. /\ slots[i] = [pin |-> p, mode |-> r.mode]
        /\ hw[i].pin = p /\ hw[i].sel = t /\ hw[i].nvic
        /\ t = "edge" => (hw[i].ienr <=> "rise" \in r.mode) /\ (hw[i].ienf <=> "fall" \in r.mode)
    BY <2>1, <2>3 DEF Watching
  <2>5. QED
    BY <2>1, <2>2, <2>4 DEF i, r
<1>2. RecordsAreWatched
  BY <1>1 DEF RecordsAreWatched
<1>3. SlotsAccounted
  <2>1. ASSUME NEW i \in Slots, slots[i].pin # NULL
        PROVE  \E p \in Pins, t \in {"edge", "level"} :
                 /\ pins[p][t] # NULL /\ pins[p][t].id = i
                 /\ \A q \in Pins, u \in {"edge", "level"} :
                      pins[q][u] # NULL /\ pins[q][u].id = i => q = p /\ u = t
    <3>1. slots[i] # NoAssignment
      BY <2>1 DEF NoAssignment
    <3>2. PICK p \in Pins, t \in Types : pins[p][t] # NULL /\ pins[p][t].id = i
      BY <3>1, SlotState
    <3>3. ASSUME NEW q \in Pins, NEW u \in {"edge", "level"}, pins[q][u] # NULL, pins[q][u].id = i
          PROVE  q = p /\ u = t
      BY <1>0, <3>2, <3>3, OneRecord DEF Types
    <3>4. QED
      BY <3>2, <3>3 DEF Types
  <2>2. QED
    BY <2>1 DEF SlotsAccounted
<1>4. QED
  BY <1>2, <1>3, GpioTypeOf DEF BooksAgree

LEMMA GpioQuiet == GpioNullAssumption /\ GpioInv => NothingWentWrong
<1> SUFFICES ASSUME GpioNullAssumption, GpioInv, NEW i \in Slots, Asserted(i), OnEdges(i)
             PROVE  Detected(i) # {}
  BY DEF NothingWentWrong
<1>1. hw[i].nvic
  BY DEF Asserted
<1>2. PICK p \in Pins, t \in Types :
        /\ pins[p][t] # NULL /\ pins[p][t].id = i /\ slots[i].pin = p
        /\ t = "edge" => /\ hw[i].sel = "edge"
                         /\ hw[i].ienr <=> "rise" \in slots[i].mode
                         /\ hw[i].ienf <=> "fall" \in slots[i].mode
        /\ t = "level" => slots[i].mode = {"low"}
  BY <1>1, SlotState
<1>3. t = "edge"
  BY <1>2 DEF Types, OnEdges
<1>4. (hw[i].rise /\ hw[i].ienr) \/ (hw[i].fall /\ hw[i].ienf)
  BY <1>2, <1>3 DEF Asserted
<1>5. "rise" \in Detected(i) \/ "fall" \in Detected(i)
  BY <1>2, <1>3, <1>4 DEF Detected
<1>6. QED
  BY <1>5

(* What the library believes is watched is watched, and no slot is leaked  *)
(* or shared (tessel.js:77-318, hw_interrupt.c:55-175).                    *)
THEOREM BooksAlwaysAgree == ASSUME QuietModes PROVE GpioSpec => []BooksAgree
<1>1. GpioInit => GpioInv
  BY GpioInitInv, GpioNullAssumption
<1>2. GpioInv /\ [GpioNext]_gpioVars => GpioInv'
  BY GpioStep, GpioNullAssumption
<1>3. GpioInv => BooksAgree
  BY GpioBooks, GpioNullAssumption
<1>4. QED
  BY <1>1, <1>2, <1>3, PTL DEF GpioSpec

(* The interrupt handler never returns with its interrupt still asserted   *)
(* (hw_interrupt.c:224).                                                   *)
THEOREM HandlerExpectsEdges == ASSUME QuietModes PROVE GpioSpec => []NothingWentWrong
<1>1. GpioInit => GpioInv
  BY GpioInitInv, GpioNullAssumption
<1>2. GpioInv /\ [GpioNext]_gpioVars => GpioInv'
  BY GpioStep, GpioNullAssumption
<1>3. GpioInv => NothingWentWrong
  BY GpioQuiet, GpioNullAssumption
<1>4. QED
  BY <1>1, <1>2, <1>3, PTL DEF GpioSpec
==============================================================================
