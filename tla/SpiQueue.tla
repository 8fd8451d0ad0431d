------------------------------- MODULE SpiQueue -------------------------------
(***************************************************************************)
(* The SPI queue of the JS library (builtin/tessel.js:935-1184): queued    *)
(* transfers and locks share one bus, whose completion is announced to     *)
(* everyone who listens.  JS runs one callback at a time.                  *)
(***************************************************************************)
EXTENDS Integers, Sequences, SequencesExt

CONSTANTS
  Transfers, Locks,   (* what the script may queue, each once              *)
  BadChunks,          (* transfers whose length no chunk size divides      *)
  MaxRaw,             (* bound: raw transfers under locks                  *)
  HoldersWait,        (* TRUE: a lock is released with no transfer running *)
  NULL

ASSUME SpiAssumption ==
  /\ BadChunks \subseteq Transfers /\ Transfers \cap Locks = {}
  /\ {"ready", "execute"} \cap Locks = {}
  /\ NULL \notin [owner : Transfers \union Locks, dma : {"running", "ok", "error"}]

VARIABLES
  transfers,   (* the transfers array                                      *)
  locks,       (* the locks array: the zeroth has the bus                  *)
  ready,       (* locks whose 'ready' was emitted and that are not released *)
  immediates,  (* setImmediate callbacks: "ready", "execute" or a lock     *)
  listeners,   (* the once('spi_async_complete') listeners, by owner       *)
  emitting,    (* listeners still to be called, and with which error       *)
  bus,         (* spi_async_status: whose buffers it holds, and the DMA    *)
  err,         (* the undeclared variable err of rawComplete is set        *)
  pushed,      (* transfers and locks the script has queued                *)
  outcome,     (* of each transfer, what the DMA did: "none" until then    *)
  result,      (* of each transfer, what its callback was told             *)
  raw          (* number of raw transfers, and DMA result and report of    *)
               (* the last one                                             *)

vars == <<transfers, locks, ready, immediates, listeners, emitting, bus, err,
          pushed, outcome, result, raw>>

Init ==
  /\ transfers = <<>> /\ locks = <<>> /\ ready = {}
  /\ immediates = <<>> /\ listeners = <<>>
  /\ emitting = [to |-> <<>>, failed |-> FALSE]
  /\ bus = NULL /\ err = FALSE
  /\ pushed = {}
  /\ outcome = [t \in Transfers |-> "none"]
  /\ result = [t \in Transfers |-> "none"]
  /\ raw = [count |-> 0, outcome |-> "none", report |-> "none"]

-----------------------------------------------------------------------------
Running == emitting.to # <<>>
(* Nothing is queued; a mutated form forgets the transfers.                *)
QueueIdleNoLocks == locks = <<>>
QueueIdle == locks = <<>> /\ transfers = <<>>

(* What a finished transfer posts with setImmediate, locks first; the      *)
(* mutated form never lets a lock in.                                      *)
FollowUpNoLocks(queue) == IF queue # <<>> THEN <<"execute">> ELSE <<>>
FollowUp(queue) ==
  IF locks # <<>> THEN <<"ready">> ELSE IF queue # <<>> THEN <<"execute">> ELSE <<>>

Report(failed) == IF failed THEN "error" ELSE "ok"

(* hw.spi_transfer: refused while the buffers of another one are held.     *)
Begin(owner) ==
  bus' = IF bus = NULL THEN [owner |-> owner, dma |-> "running"] ELSE bus

(* _execute_async: listen, then start the head of the queue.  A length the *)
(* chunk size does not divide throws before the bus is touched; a refusal  *)
(* is returned as -1.  Either way the listener stays.                      *)
Execute(queue) ==
  \/ /\ queue = <<>>
     /\ UNCHANGED <<listeners, bus>>
  \/ /\ queue # <<>>
     /\ listeners' = Append(listeners, Head(queue))
     /\ IF Head(queue) \in BadChunks THEN UNCHANGED bus ELSE Begin(Head(queue))

(* _pushTransfer.                                                          *)
PushTransfer(t) ==
  /\ ~Running
  /\ t \notin pushed
  /\ pushed' = pushed \union {t}
  /\ transfers' = Append(transfers, t)
  /\ IF QueueIdle
     THEN Execute(transfers')
     ELSE UNCHANGED <<listeners, bus>>
  /\ UNCHANGED <<locks, ready, immediates, emitting, err, outcome, result, raw>>

(* acquireLock and _registerLock.                                          *)
RegisterLock(l) ==
  /\ ~Running
  /\ l \notin pushed
  /\ pushed' = pushed \union {l}
  /\ immediates' = IF QueueIdle THEN Append(immediates, l) ELSE immediates
  /\ locks' = Append(locks, l)
  /\ UNCHANGED <<transfers, ready, listeners, emitting, bus, err, outcome, result, raw>>

(* SPILock.release and _deregisterLock, called by a lock that is ready:    *)
(* the zeroth lock goes, whichever is released.                            *)
DeregisterLock(l) ==
  /\ ~Running
  /\ l \in ready
  /\ HoldersWait => bus = NULL
  /\ ready' = ready \ {l}
  /\ locks' = Tail(locks)
  /\ \/ /\ locks' # <<>>
        /\ immediates' = Append(immediates, "ready")
        /\ UNCHANGED <<listeners, bus>>
     \/ /\ locks' = <<>>
        /\ Execute(transfers)
        /\ UNCHANGED immediates
  /\ UNCHANGED <<transfers, emitting, err, pushed, outcome, result, raw>>

(* _rawTransaction while the bus is free; when it is refused it takes its  *)
(* listener back and nothing has changed.                                  *)
RawTransaction(l) ==
  /\ ~Running
  /\ l \in ready /\ bus = NULL /\ raw.count < MaxRaw
  /\ listeners' = Append(listeners, l)
  /\ Begin(l)
  /\ raw' = [raw EXCEPT !.count = @ + 1]
  /\ UNCHANGED <<transfers, locks, ready, immediates, emitting, err, pushed, outcome, result>>

-----------------------------------------------------------------------------
Ready(l) == ready' = ready \union {l}

RunImmediate ==
  /\ ~Running
  /\ immediates # <<>>
  /\ immediates' = Tail(immediates)
  /\ LET job == Head(immediates)
     IN \/ /\ job \in Locks
           /\ Ready(job)
           /\ UNCHANGED <<listeners, bus>>
        \/ /\ job = "ready"
           /\ Ready(Head(locks))
           /\ UNCHANGED <<listeners, bus>>
        \/ /\ job = "execute"
           /\ Execute(transfers)
           /\ UNCHANGED ready
  /\ UNCHANGED <<transfers, locks, emitting, err, pushed, outcome, result, raw>>

(* The DMA ends, with or without an error.                                 *)
DmaDone(failed) ==
  /\ bus # NULL /\ bus.dma = "running"
  /\ bus' = [bus EXCEPT !.dma = Report(failed)]
  /\ IF bus.owner \in Transfers
     THEN outcome' = [outcome EXCEPT ![bus.owner] = Report(failed)] /\ UNCHANGED raw
     ELSE raw' = [raw EXCEPT !.outcome = Report(failed)] /\ UNCHANGED outcome
  /\ UNCHANGED <<transfers, locks, ready, immediates, listeners, emitting, err, pushed, result>>

(* A mutated form: the listeners are on() and not once().                  *)
AsyncSpiCallbackOn ==
  /\ ~Running
  /\ bus # NULL /\ bus.dma # "running"
  /\ bus' = NULL
  /\ emitting' = [to |-> listeners, failed |-> bus.dma = "error"]
  /\ UNCHANGED <<transfers, locks, ready, immediates, listeners, err, pushed, outcome,
                 result, raw>>

(* async_spi_callback: release the buffers, emit to every listener.        *)
AsyncSpiCallback ==
  /\ ~Running
  /\ bus # NULL /\ bus.dma # "running"
  /\ bus' = NULL
  /\ emitting' = [to |-> listeners, failed |-> bus.dma = "error"]
  /\ listeners' = <<>>
  /\ UNCHANGED <<transfers, locks, ready, immediates, err, pushed, outcome, result, raw>>

(* rawComplete: err is a global, set on an error and never cleared.        *)
RawComplete ==
  /\ Running /\ Head(emitting.to) \in Locks
  /\ emitting' = [emitting EXCEPT !.to = Tail(@)]
  /\ err' = (err \/ emitting.failed)
  /\ raw' = [raw EXCEPT !.report = Report(err')]
  /\ UNCHANGED <<transfers, locks, ready, immediates, listeners, bus, pushed, outcome, result>>

(* processTransferCB: the head of the queue is shifted, the callback of    *)
(* the transfer that listened is called.                                   *)
ProcessTransferCB ==
  /\ Running /\ Head(emitting.to) \in Transfers
  /\ emitting' = [emitting EXCEPT !.to = Tail(@)]
  /\ transfers' = Tail(transfers)
  /\ immediates' = immediates \o FollowUp(transfers')
  /\ result' = [result EXCEPT ![Head(emitting.to)] = Report(emitting.failed)]
  /\ UNCHANGED <<locks, ready, listeners, bus, err, pushed, outcome, raw>>

Runtime == RunImmediate \/ AsyncSpiCallback \/ RawComplete \/ ProcessTransferCB

Next ==
  \/ \E t \in Transfers : PushTransfer(t)
  \/ \E l \in Locks : RegisterLock(l) \/ DeregisterLock(l) \/ RawTransaction(l)
  \/ Runtime
  \/ \E failed \in BOOLEAN : DmaDone(failed)

(* The event loop runs, the DMA ends, and a lock is released some day by   *)
(* the script that holds it.                                               *)
Spec ==
  /\ Init /\ [][Next]_vars
  /\ WF_vars(Runtime) /\ WF_vars(\E failed \in BOOLEAN : DmaDone(failed))
  /\ \A l \in Locks : WF_vars(DeregisterLock(l))

-----------------------------------------------------------------------------
TypeOK ==
  /\ transfers \in Seq(Transfers) /\ locks \in Seq(Locks)
  /\ ready \subseteq Locks
  /\ immediates \in Seq({"ready", "execute"} \union Locks)
  /\ listeners \in Seq(Transfers \union Locks)
  /\ emitting.to \in Seq(Transfers \union Locks)
  /\ bus = NULL \/ bus.owner \in Transfers \union Locks

(* "Only the zeroeth element has a lock on the SPI Bus" (tessel.js:952):   *)
(* at most one lock is ready, it is the first, and no queued transfer is   *)
(* on the bus while it is.                                                 *)
OneHolder ==
  \A l \in ready :
    /\ locks # <<>> /\ l = Head(locks)
    /\ bus # NULL => bus.owner = l

(* The bus has one user at a time, whatever is queued while it is busy.    *)
BusExclusive == TypeOK /\ OneHolder

(* A callback is told what the DMA did with its own transfer, and is       *)
(* called only after it (tessel.js:1158).                                  *)
OwnResult == \A t \in Transfers : result[t] # "none" => result[t] = outcome[t]

(* A raw transfer reports an error only "if there was an error"            *)
(* (tessel.js:992).                                                        *)
RawErrorIsOwn == ~Running /\ bus = NULL => raw.report = raw.outcome

(* Every queued transfer is answered, and every lock gets its turn.        *)
EveryoneServed ==
  /\ \A t \in Transfers : t \in pushed ~> result[t] # "none"
  /\ \A l \in Locks : l \in ToSet(locks) ~> l \in ready
=============================================================================
